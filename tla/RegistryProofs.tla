--------------------------- MODULE RegistryProofs ---------------------------
(***************************************************************************)
(* The safety of the publish pipeline and the download path, for any number *)
(* of requests, packages, versions and archives.                             *)
(*                                                                            *)
(* First the blob store by itself, for any number of racing Puts: its lemmas   *)
(* are about single steps, so that they can be used for the steps the pipeline  *)
(* takes.  Those of the metadata store come from MetadataStoreProofs.  What     *)
(* follows ties the two stores together through the pipeline.  At the end, the   *)
(* registry implements the write-once map of LinearizableRegistry.               *)
(***************************************************************************)
EXTENDS Registry, MetadataStoreProofs

\* A Put in progress was handed a digest and the bytes of that digest, it has no
\* temp file before the Stat, and a whole one by the time it renames it.
PutsAreHonest ==
    \A c \in Callers :
        /\ put[c].step # "idle" => put[c].digest \in Digests
        /\ put[c].step \in {"stat", "copy", "rename"} => put[c].src = put[c].digest
        /\ put[c].step = "stat" => put[c].tmp = Absent
        /\ put[c].step = "rename" => put[c].tmp = put[c].digest

BlobInv ==
    /\ BlobTypeOK
    /\ PutsAreHonest
    /\ ContentAddressed
    /\ PutLeavesNoTemp
    /\ StoredMeansPresent

\* The empty store satisfies the invariant.
LEMMA BlobInitInv == BlobInit => BlobInv
  BY BlobConstants DEF BlobInit, BlobInv, BlobTypeOK, PutsAreHonest, ContentAddressed,
     PutLeavesNoTemp, StoredMeansPresent, NoPut, PutFrame, PutSteps, Bytes

\* Calling Put with the bytes its digest was computed from keeps the invariant.
LEMMA CallPutInv ==
  ASSUME BlobInv, NEW c \in Callers, NEW d \in Digests, CallPut(c, d, d)
  PROVE  BlobInv'
  BY BlobConstants DEF CallPut, BlobInv, BlobTypeOK, PutsAreHonest, ContentAddressed,
     PutLeavesNoTemp, StoredMeansPresent, PutFrame, PutSteps, Bytes

\* Every system call of Put, failing ones included, keeps the invariant and
\* changes no bytes already at a digest path.
LEMMA PutStepInv ==
  ASSUME BlobInv, NEW c \in Callers, PutStep(c)
  PROVE  /\ BlobInv'
         /\ \A d \in Digests : object[d] # Absent => object'[d] = object[d]
<1> USE BlobConstants DEF BlobInv, BlobTypeOK, PutFrame, PutSteps, Bytes
<1>1. CASE PutPresent(c)
  <2>1. /\ put' = [put EXCEPT ![c] = [put[c] EXCEPT !.step = "stored"]]
        /\ UNCHANGED <<object, orphans>>
    BY <1>1 DEF PutPresent
  <2>2. BlobTypeOK'
    BY <2>1
  <2>3. PutsAreHonest'
    BY <1>1, <2>1 DEF PutPresent, PutsAreHonest
  <2>4. (ContentAddressed /\ PutLeavesNoTemp)'
    BY <1>1, <2>1 DEF PutPresent, PutsAreHonest, ContentAddressed, PutLeavesNoTemp
  <2>5. StoredMeansPresent'
    BY <1>1, <2>1 DEF PutPresent, PutsAreHonest, ContentAddressed, StoredMeansPresent
  <2>6. QED
    BY <2>1, <2>2, <2>3, <2>4, <2>5
<1>2. CASE PutCreate(c)
  <2>1. /\ put' = [put EXCEPT ![c] = [put[c] EXCEPT !.step = "copy", !.tmp = Torn]]
        /\ UNCHANGED <<object, orphans>>
    BY <1>2 DEF PutCreate
  <2>2. BlobTypeOK'
    BY <2>1
  <2>3. PutsAreHonest'
    BY <1>2, <2>1 DEF PutCreate, PutsAreHonest
  <2>4. (ContentAddressed /\ PutLeavesNoTemp)'
    BY <1>2, <2>1 DEF PutCreate, ContentAddressed, PutLeavesNoTemp
  <2>5. StoredMeansPresent'
    BY <1>2, <2>1 DEF PutCreate, PutsAreHonest, ContentAddressed, StoredMeansPresent
  <2>6. QED
    BY <2>1, <2>2, <2>3, <2>4, <2>5
<1>3. CASE PutCopy(c)
  BY <1>3 DEF PutCopy, PutsAreHonest, ContentAddressed, PutLeavesNoTemp, StoredMeansPresent
<1>4. CASE PutRename(c)
  BY <1>4 DEF PutRename, PutsAreHonest, ContentAddressed, PutLeavesNoTemp, StoredMeansPresent
<1>5. CASE PutFail(c)
  <2>1. /\ put' = [put EXCEPT ![c] = [put[c] EXCEPT !.step = "failed", !.tmp = Absent]]
        /\ UNCHANGED <<object, orphans>>
    BY <1>5 DEF PutFail
  <2>2. BlobTypeOK'
    BY <2>1
  <2>3. PutsAreHonest'
    BY <1>5, <2>1 DEF PutFail, PutsAreHonest
  <2>4. (ContentAddressed /\ PutLeavesNoTemp)'
    BY <1>5, <2>1 DEF PutFail, ContentAddressed, PutLeavesNoTemp
  <2>5. StoredMeansPresent'
    BY <1>5, <2>1 DEF PutFail, PutsAreHonest, ContentAddressed, StoredMeansPresent
  <2>6. QED
    BY <2>1, <2>2, <2>3, <2>4, <2>5
<1>6. QED
  BY <1>1, <1>2, <1>3, <1>4, <1>5, PutStep(c) DEF PutStep

\* So does the death of the process, which leaves only .incoming files.
LEMMA BlobCrashInv ==
  ASSUME BlobInv, BlobCrash
  PROVE  BlobInv'
<1>1. orphans' \subseteq Digests
  BY BlobConstants DEF BlobCrash, BlobInv, BlobTypeOK, PutsAreHonest, PutLeavesNoTemp,
     PutFrame, PutSteps
<1>2. QED
  BY <1>1, BlobConstants DEF BlobCrash, BlobInv, BlobTypeOK, PutsAreHonest, ContentAddressed,
     PutLeavesNoTemp, StoredMeansPresent, NoPut, PutFrame, PutSteps, Bytes

\* A step that leaves the store alone keeps its invariant.
LEMMA BlobStutterInv ==
  ASSUME BlobInv, UNCHANGED blobVars
  PROVE  BlobInv'
  BY DEF blobVars, BlobInv, BlobTypeOK, PutsAreHonest, ContentAddressed, PutLeavesNoTemp,
     StoredMeansPresent

\* Every step of the standalone store keeps the invariant and the stored bytes.
LEMMA BlobNextInv ==
  ASSUME BlobInv, [BlobNext]_blobVars
  PROVE  /\ BlobInv'
         /\ \A d \in Digests : object[d] # Absent => object'[d] = object[d]
<1>1. CASE \E c \in Callers, d \in Digests : CallPut(c, d, d)
  BY <1>1, CallPutInv DEF CallPut
<1>2. CASE \E c \in Callers : PutStep(c)
  BY <1>2, PutStepInv
<1>3. ASSUME NEW c \in Callers, PutReturn(c)
      PROVE  BlobInv' /\ object' = object
  BY <1>3, BlobConstants DEF PutReturn, BlobInv, BlobTypeOK, PutsAreHonest, ContentAddressed,
     PutLeavesNoTemp, StoredMeansPresent, NoPut, PutFrame, PutSteps, Bytes
<1>4. CASE BlobCrash
  BY <1>4, BlobCrashInv DEF BlobCrash
<1>5. CASE UNCHANGED blobVars
  BY <1>5, BlobStutterInv DEF blobVars
<1>6. QED
  BY <1>1, <1>2, <1>3, <1>4, <1>5 DEF BlobNext

\* The store's invariant holds in every reachable state.
LEMMA BlobInvariance == BlobSpec => []BlobInv
<1>1. BlobInv /\ [BlobNext]_blobVars => BlobInv'
  BY BlobNextInv
<1>2. QED
  BY <1>1, BlobInitInv, PTL DEF BlobSpec

\* The object tree and the frame of every Put are what fs.go:31-93 declares; a Put
\* that returned has no temp file (fs.go:66-70).
THEOREM BlobTypeCorrect == BlobSpec => [](BlobTypeOK /\ PutLeavesNoTemp)
  BY BlobInvariance, PTL DEF BlobInv

\* fs.go:45-47: no interleaving, failure or crash of any number of Puts leaves a
\* partial object at a digest path.
THEOREM BlobContentAddressed == BlobSpec => []ContentAddressed
  BY BlobInvariance, PTL DEF BlobInv

\* fs.go:54-56: a Put that reports success has its object in place.
THEOREM BlobStoredMeansPresent == BlobSpec => []StoredMeansPresent
  BY BlobInvariance, PTL DEF BlobInv

\* TR-04: a digest path never loses or changes its bytes.
THEOREM BlobObjectsAreFinal == BlobSpec => ObjectsAreFinal
<1>1. BlobInv /\ [BlobNext]_blobVars
        => [\A d \in Digests : object[d] # Absent => object'[d] = object[d]]_blobVars
  BY BlobNextInv
<1>2. QED
  BY <1>1, BlobInvariance, PTL DEF BlobSpec, ObjectsAreFinal

-----------------------------------------------------------------------------
SrvTypeOK ==
    /\ up \in BOOLEAN
    /\ pc \in [Callers -> PublishSteps]
    /\ req \in [Callers -> Request]
    /\ upload \in [Callers -> Bytes \cup {Absent}]
    /\ unremoved \subseteq Callers
    /\ offset \in [Callers -> {"start", "end"}]
    /\ answer \in [Callers -> Answers]
    /\ dl \in [Readers -> DownloadFrame]

InPipeline == {"ingest", "receive", "inspect", "rewind", "put", "commit", "cleanup"}

\* What a request's position says of its upload file and its two store calls.
RequestsInv ==
    \A r \in Callers :
        /\ pc[r] \in InPipeline => req[r].tuple \in Tuples /\ req[r].digest \in Digests
        /\ pc[r] \in {"inspect", "rewind"} => upload[r] = req[r].digest
        /\ pc[r] \in {"rewind", "put", "commit"} => VerdictOn(r) = "accepted"
        /\ put[r].step # "idle" =>
              /\ put[r].digest = req[r].digest
              /\ VerdictOn(r) = "accepted"
              /\ pc[r] \in {"put", "commit", "cleanup", "reply", "done"}
        /\ call[r].step # "idle" =>
              /\ call[r].tuple = req[r].tuple
              /\ call[r].digest = req[r].digest
              /\ pc[r] \in {"commit", "cleanup", "reply", "done", "lost"}
        /\ answer[r] = "created" => call[r].step = "created"
        /\ ~up => pc[r] \in {"idle", "done", "lost"}
        /\ pc[r] \in (InPipeline \ {"cleanup"}) \cup {"idle"} => answer[r] = "none"

\* No transaction is begun for an archive that is not in the blob store.
CommitsHaveBytes ==
    \A r \in Callers :
        call[r].step \in {"begin"} \cup TxSteps => object[call[r].digest] = call[r].digest

\* Every object was accepted for the package of a publish that has started.
StoredInv ==
    \A d \in Digests : object[d] # Absent =>
        \E r \in Callers : pc[r] # "idle" /\ req[r].digest = d /\ VerdictOn(r) = "accepted"

\* Where an upload file can exist.
UploadsInv ==
    \A r \in Callers : upload[r] # Absent =>
        /\ pc[r] \notin {"idle", "ingest"}
        /\ pc[r] \in {"reply", "done", "lost"} /\ up => answer[r] = "panic" \/ r \in unremoved

\* A download has pinned a row that is still there, and opened its bytes.
DownloadsInv ==
    \A k \in Readers :
        /\ dl[k].step \in {"package", "version"} => dl[k].tuple \in Tuples
        /\ dl[k].step \in {"idle", "package", "version"} => dl[k].pinned = NoDigest
        /\ dl[k].pinned # NoDigest =>
              dl[k].tuple \in Tuples /\ RowOf(dl[k].tuple) = dl[k].pinned
        /\ dl[k].step = "open" => dl[k].pinned # NoDigest
        /\ dl[k].step = "done" /\ dl[k].pinned # NoDigest => dl[k].served = dl[k].pinned

Inv ==
    /\ BlobInv
    /\ MetaInv
    /\ SrvTypeOK
    /\ RequestsInv
    /\ CommitsHaveBytes
    /\ EveryRowHasItsBytes
    /\ StoredInv
    /\ UploadsInv
    /\ DownloadsInv

-----------------------------------------------------------------------------
\* The first start, on empty stores, satisfies the invariant.
LEMMA InitInv == Init => Inv
<1> SUFFICES ASSUME Init PROVE Inv
  OBVIOUS
<1>1. BlobInv /\ MetaInv
  BY BlobInitInv, MetaInitInv DEF Init
<1>2. SrvTypeOK
  BY DEF Init, SrvTypeOK, PublishSteps, Request, NoRequest, Formats, Answers, DownloadFrame,
     NoDownload, DownloadSteps
<1>3. RequestsInv /\ CommitsHaveBytes /\ UploadsInv
  BY BlobConstants DEF Init, BlobInit, MetaInit, NoPut, NoCall, RequestsInv, CommitsHaveBytes,
     UploadsInv, InPipeline, TxSteps
<1>4. EveryRowHasItsBytes /\ StoredInv
  BY DEF Init, BlobInit, MetaInit, EmptyTables, EveryRowHasItsBytes, RowOf, StoredInv
<1>5. DownloadsInv
  BY DEF Init, DownloadsInv, NoDownload
<1>6. QED
  BY <1>1, <1>2, <1>3, <1>4, <1>5 DEF Inv

\* The steps of a publish that call neither store.
ServiceStep(r) ==
    \/ ClientStep(r) \/ Ingest(r) \/ IngestFails(r) \/ InspectCorrupt(r) \/ InspectUnreadable(r)
    \/ InspectRejected(r) \/ InspectAccepted(r) \/ InspectPanics(r) \/ RewindFails(r)
    \/ PutFailed(r) \/ CommitReturns(r) \/ Cleanup(r) \/ Reply(r)

\* An archive stays accounted for while its publish keeps its request.
LEMMA StoredStays ==
  ASSUME StoredInv, object' = object,
         \A q \in Callers : pc[q] # "idle" => pc'[q] # "idle" /\ req'[q] = req[q]
  PROVE  StoredInv'
<1> SUFFICES ASSUME NEW d \in Digests, object'[d] # Absent
             PROVE  \E r \in Callers : pc'[r] # "idle" /\ req'[r].digest = d
                                          /\ VerdictOn(r)' = "accepted"
  BY DEF StoredInv
<1>1. PICK r \in Callers : pc[r] # "idle" /\ req[r].digest = d /\ VerdictOn(r) = "accepted"
  BY DEF StoredInv
<1>2. VerdictOn(r)' = VerdictOn(r)
  BY <1>1 DEF VerdictOn
<1>3. QED
  BY <1>1, <1>2

\* They leave the stores and the downloads alone.
LEMMA ServiceStepFrame ==
  ASSUME NEW r \in Callers, ServiceStep(r)
  PROVE  UNCHANGED <<blobVars, metaVars, up, dl>>
  BY DEF storeVars,
     ServiceStep, ClientStep, Refuse, Accept, Receive, ReceiveFails, Ingest, IngestFails,
     InspectCorrupt, InspectUnreadable, InspectRejected, InspectAccepted, InspectPanics,
     RewindFails, PutFailed, CommitReturns, Cleanup, Reply

\* They keep the invariant, action by action.
LEMMA ServiceStepInv ==
  ASSUME Inv, NEW r \in Callers, ServiceStep(r)
  PROVE  Inv'
<1> USE DEF At, To, Tell
<1>1. UNCHANGED <<blobVars, metaVars, up, dl>>
  BY ServiceStepFrame
<1>2. BlobInv' /\ MetaInv'
  BY <1>1, BlobStutterInv, MetaStutterInv DEF Inv
<1>3. CommitsHaveBytes' /\ EveryRowHasItsBytes' /\ DownloadsInv'
  BY <1>1 DEF Inv, CommitsHaveBytes, EveryRowHasItsBytes, DownloadsInv, RowOf, blobVars, metaVars
<1>4. SrvTypeOK /\ RequestsInv /\ StoredInv /\ UploadsInv
  BY DEF Inv
<1>5. StoredInv'
  <2>1. \A q \in Callers : pc[q] # "idle" => pc'[q] # "idle" /\ req'[q] = req[q]
    BY <1>4 DEF SrvTypeOK,
         ServiceStep, ClientStep, Refuse, Accept, Receive, ReceiveFails, Ingest,
         IngestFails, InspectCorrupt, InspectUnreadable, InspectRejected, InspectAccepted,
         InspectPanics, RewindFails, PutFailed, CommitReturns, Cleanup, Reply
  <2>2. QED
    BY <1>1, <1>4, <2>1, StoredStays DEF blobVars
<1>6. CASE Refuse(r)
  <2> USE <1>6 DEF Refuse
  <2>1. SrvTypeOK'
    BY <1>1, <1>4 DEF SrvTypeOK, PublishSteps, Answers, Request, Bytes, AfterInspection
  <2>2. RequestsInv'
    BY <1>1, <1>4 DEF RequestsInv, SrvTypeOK, InPipeline, VerdictOn, blobVars, metaVars
  <2>3. UploadsInv'
    BY <1>1, <1>4 DEF UploadsInv, SrvTypeOK
  <2>4. QED
    BY <1>2, <1>3, <1>5, <2>1, <2>2, <2>3 DEF Inv
<1>7. CASE \E t \in Tuples, d \in Digests, f \in Formats : Accept(r, t, d, f)
  <2> PICK t \in Tuples, d \in Digests, f \in Formats : Accept(r, t, d, f)
    BY <1>7
  <2> USE DEF Accept
  <2>1. SrvTypeOK'
    BY <1>1, <1>4 DEF SrvTypeOK, PublishSteps, Answers, Request, Bytes, AfterInspection
  <2>2. RequestsInv'
    BY <1>1, <1>4 DEF RequestsInv, SrvTypeOK, InPipeline, VerdictOn, blobVars, metaVars
  <2>3. UploadsInv'
    BY <1>1, <1>4 DEF UploadsInv, SrvTypeOK
  <2>4. QED
    BY <1>2, <1>3, <1>5, <2>1, <2>2, <2>3 DEF Inv
<1>8. CASE Receive(r)
  <2> USE <1>8 DEF Receive
  <2>1. SrvTypeOK'
    BY <1>1, <1>4 DEF SrvTypeOK, PublishSteps, Answers, Request, Bytes, AfterInspection, RequestsInv, InPipeline
  <2>2. RequestsInv'
    BY <1>1, <1>4 DEF RequestsInv, SrvTypeOK, InPipeline, VerdictOn, blobVars, metaVars
  <2>3. UploadsInv'
    BY <1>1, <1>4 DEF UploadsInv, SrvTypeOK
  <2>4. QED
    BY <1>2, <1>3, <1>5, <2>1, <2>2, <2>3 DEF Inv
<1>9. CASE ReceiveFails(r)
  <2> USE <1>9 DEF ReceiveFails, RemoveUpload
  <2>1. SrvTypeOK'
    BY <1>1, <1>4 DEF SrvTypeOK, PublishSteps, Answers, Request, Bytes, AfterInspection
  <2>2. RequestsInv'
    BY <1>1, <1>4 DEF RequestsInv, SrvTypeOK, InPipeline, VerdictOn, blobVars, metaVars
  <2>3. UploadsInv'
    BY <1>1, <1>4 DEF UploadsInv, SrvTypeOK
  <2>4. QED
    BY <1>2, <1>3, <1>5, <2>1, <2>2, <2>3 DEF Inv
<1>10. CASE Ingest(r)
  <2> USE <1>10 DEF Ingest
  <2>1. SrvTypeOK'
    BY <1>1, <1>4 DEF SrvTypeOK, PublishSteps, Answers, Request, Bytes, AfterInspection
  <2>2. RequestsInv'
    BY <1>1, <1>4 DEF RequestsInv, SrvTypeOK, InPipeline, VerdictOn, blobVars, metaVars
  <2>3. UploadsInv'
    BY <1>1, <1>4 DEF UploadsInv, SrvTypeOK
  <2>4. QED
    BY <1>2, <1>3, <1>5, <2>1, <2>2, <2>3 DEF Inv
<1>11. CASE IngestFails(r)
  <2> USE <1>11 DEF IngestFails
  <2>1. SrvTypeOK'
    BY <1>1, <1>4 DEF SrvTypeOK, PublishSteps, Answers, Request, Bytes, AfterInspection
  <2>2. RequestsInv'
    BY <1>1, <1>4 DEF RequestsInv, SrvTypeOK, InPipeline, VerdictOn, blobVars, metaVars
  <2>3. UploadsInv'
    BY <1>1, <1>4 DEF UploadsInv, SrvTypeOK
  <2>4. QED
    BY <1>2, <1>3, <1>5, <2>1, <2>2, <2>3 DEF Inv
<1>12. CASE InspectCorrupt(r)
  <2> USE <1>12 DEF InspectCorrupt, RemoveUpload
  <2>1. SrvTypeOK'
    BY <1>1, <1>4 DEF SrvTypeOK, PublishSteps, Answers, Request, Bytes, AfterInspection
  <2>2. RequestsInv'
    BY <1>1, <1>4 DEF RequestsInv, SrvTypeOK, InPipeline, VerdictOn, blobVars, metaVars
  <2>3. UploadsInv'
    BY <1>1, <1>4 DEF UploadsInv, SrvTypeOK
  <2>4. QED
    BY <1>2, <1>3, <1>5, <2>1, <2>2, <2>3 DEF Inv
<1>13. CASE InspectUnreadable(r)
  <2> USE <1>13 DEF InspectUnreadable, RemoveUpload
  <2>1. SrvTypeOK'
    BY <1>1, <1>4 DEF SrvTypeOK, PublishSteps, Answers, Request, Bytes, AfterInspection
  <2>2. RequestsInv'
    BY <1>1, <1>4 DEF RequestsInv, SrvTypeOK, InPipeline, VerdictOn, blobVars, metaVars
  <2>3. UploadsInv'
    BY <1>1, <1>4 DEF UploadsInv, SrvTypeOK
  <2>4. QED
    BY <1>2, <1>3, <1>5, <2>1, <2>2, <2>3 DEF Inv
<1>14. CASE InspectRejected(r)
  <2> USE <1>14 DEF InspectRejected
  <2>1. SrvTypeOK'
    BY <1>1, <1>4 DEF SrvTypeOK, PublishSteps, Answers, Request, Bytes, AfterInspection
  <2>2. RequestsInv'
    BY <1>1, <1>4 DEF RequestsInv, SrvTypeOK, InPipeline, VerdictOn, blobVars, metaVars
  <2>3. UploadsInv'
    BY <1>1, <1>4 DEF UploadsInv, SrvTypeOK
  <2>4. QED
    BY <1>2, <1>3, <1>5, <2>1, <2>2, <2>3 DEF Inv
<1>15. CASE InspectAccepted(r)
  <2> USE <1>15 DEF InspectAccepted
  <2>1. SrvTypeOK'
    BY <1>1, <1>4 DEF SrvTypeOK, PublishSteps, Answers, Request, Bytes, AfterInspection
  <2>2. RequestsInv'
    BY <1>1, <1>4 DEF RequestsInv, SrvTypeOK, InPipeline, VerdictOn, blobVars, metaVars
  <2>3. UploadsInv'
    BY <1>1, <1>4 DEF UploadsInv, SrvTypeOK
  <2>4. QED
    BY <1>2, <1>3, <1>5, <2>1, <2>2, <2>3 DEF Inv
<1>16. CASE InspectPanics(r)
  <2> USE <1>16 DEF InspectPanics
  <2>1. SrvTypeOK'
    BY <1>1, <1>4 DEF SrvTypeOK, PublishSteps, Answers, Request, Bytes, AfterInspection
  <2>2. RequestsInv'
    BY <1>1, <1>4 DEF RequestsInv, SrvTypeOK, InPipeline, VerdictOn, blobVars, metaVars
  <2>3. UploadsInv'
    BY <1>1, <1>4 DEF UploadsInv, SrvTypeOK
  <2>4. QED
    BY <1>2, <1>3, <1>5, <2>1, <2>2, <2>3 DEF Inv
<1>17. CASE RewindFails(r)
  <2> USE <1>17 DEF RewindFails
  <2>1. SrvTypeOK'
    BY <1>1, <1>4 DEF SrvTypeOK, PublishSteps, Answers, Request, Bytes, AfterInspection
  <2>2. RequestsInv'
    BY <1>1, <1>4 DEF RequestsInv, SrvTypeOK, InPipeline, VerdictOn, blobVars, metaVars
  <2>3. UploadsInv'
    BY <1>1, <1>4 DEF UploadsInv, SrvTypeOK
  <2>4. QED
    BY <1>2, <1>3, <1>5, <2>1, <2>2, <2>3 DEF Inv
<1>18. CASE PutFailed(r)
  <2> USE <1>18 DEF PutFailed
  <2>1. SrvTypeOK'
    BY <1>1, <1>4 DEF SrvTypeOK, PublishSteps, Answers, Request, Bytes, AfterInspection
  <2>2. RequestsInv'
    BY <1>1, <1>4 DEF RequestsInv, SrvTypeOK, InPipeline, VerdictOn, blobVars, metaVars
  <2>3. UploadsInv'
    BY <1>1, <1>4 DEF UploadsInv, SrvTypeOK
  <2>4. QED
    BY <1>2, <1>3, <1>5, <2>1, <2>2, <2>3 DEF Inv
<1>19. CASE CommitReturns(r)
  <2> USE <1>19 DEF CommitReturns
  <2>1. SrvTypeOK'
    BY <1>1, <1>4 DEF SrvTypeOK, PublishSteps, Answers, Request, Bytes, AfterInspection, Results
  <2>2. RequestsInv'
    BY <1>1, <1>4 DEF RequestsInv, SrvTypeOK, InPipeline, VerdictOn, blobVars, metaVars
  <2>3. UploadsInv'
    BY <1>1, <1>4 DEF UploadsInv, SrvTypeOK
  <2>4. QED
    BY <1>2, <1>3, <1>5, <2>1, <2>2, <2>3 DEF Inv
<1>20. CASE Cleanup(r)
  <2> USE <1>20 DEF Cleanup, RemoveUpload
  <2>1. SrvTypeOK'
    BY <1>1, <1>4 DEF SrvTypeOK, PublishSteps, Answers, Request, Bytes, AfterInspection
  <2>2. RequestsInv'
    BY <1>1, <1>4 DEF RequestsInv, SrvTypeOK, InPipeline, VerdictOn, blobVars, metaVars
  <2>3. UploadsInv'
    BY <1>1, <1>4 DEF UploadsInv, SrvTypeOK
  <2>4. QED
    BY <1>2, <1>3, <1>5, <2>1, <2>2, <2>3 DEF Inv
<1>21. CASE Reply(r)
  <2> USE <1>21 DEF Reply
  <2>1. SrvTypeOK'
    BY <1>1, <1>4 DEF SrvTypeOK, PublishSteps, Answers, Request, Bytes, AfterInspection
  <2>2. RequestsInv'
    BY <1>1, <1>4 DEF RequestsInv, SrvTypeOK, InPipeline, VerdictOn, blobVars, metaVars
  <2>3. UploadsInv'
    BY <1>1, <1>4 DEF UploadsInv, SrvTypeOK
  <2>4. QED
    BY <1>2, <1>3, <1>5, <2>1, <2>2, <2>3 DEF Inv
<1>22. QED
  BY <1>6, <1>7, <1>8, <1>9, <1>10, <1>11, <1>12, <1>13, <1>14, <1>15, <1>16, <1>17, <1>18,
     <1>19, <1>20, <1>21, ServiceStep(r)
     DEF ServiceStep, ClientStep

-----------------------------------------------------------------------------
\* The blob store is handed the bytes the digest was computed from, because the
\* upload file is rewound first.
LEMMA StartPutInv ==
  ASSUME Inv, NEW r \in Callers, StartPut(r)
  PROVE  Inv'
<1> USE DEF StartPut, At, To
<1>1. /\ SrvTypeOK /\ RequestsInv /\ StoredInv /\ UploadsInv /\ BlobTypeOK
      /\ pc[r] = "rewind" /\ req[r].digest \in Digests /\ upload[r] = req[r].digest
      /\ UNCHANGED <<metaVars, up, dl, object, req, upload, unremoved, answer>>
  BY DEF Inv, RequestsInv, InPipeline, CallPut, BlobInv
<1>2. CallPut(r, req[r].digest, req[r].digest)
  BY <1>1 DEF ReadFrom, Rewound
<1>3. BlobInv' /\ MetaInv'
  BY <1>1, <1>2, CallPutInv, MetaStutterInv DEF Inv
<1>4. CommitsHaveBytes' /\ EveryRowHasItsBytes' /\ DownloadsInv'
  BY <1>1 DEF Inv, CommitsHaveBytes, EveryRowHasItsBytes, DownloadsInv, RowOf, metaVars
<1>5. SrvTypeOK'
  BY <1>1 DEF SrvTypeOK, PublishSteps, Rewound
<1>6. RequestsInv'
  BY <1>1, <1>2 DEF RequestsInv, SrvTypeOK, BlobTypeOK, CallPut, InPipeline, VerdictOn, metaVars
<1>7. StoredInv'
  BY <1>1, StoredStays DEF SrvTypeOK
<1>8. UploadsInv'
  BY <1>1 DEF UploadsInv, SrvTypeOK
<1>9. QED
  BY <1>3, <1>4, <1>5, <1>6, <1>7, <1>8 DEF Inv

\* A system call of Put can only add the object its request was accepted for.
LEMMA PutRunsInv ==
  ASSUME Inv, NEW r \in Callers, PutRuns(r)
  PROVE  Inv'
<1> USE DEF PutRuns, At
<1>1. /\ SrvTypeOK /\ RequestsInv /\ StoredInv /\ UploadsInv /\ BlobTypeOK /\ BlobConstants
      /\ pc[r] = "put" /\ PutStep(r) /\ UNCHANGED <<metaVars, up, srvVars, dl>>
  BY BlobConstants DEF Inv, BlobInv
<1>2. /\ BlobInv' /\ MetaInv'
      /\ \A d \in Digests : object[d] # Absent => object'[d] = object[d]
  BY <1>1, PutStepInv, MetaStutterInv DEF Inv
<1>3. /\ \A q \in Callers \ {r} : put'[q] = put[q]
      /\ put[r].step # "idle" /\ put'[r].digest = put[r].digest
      /\ \A d \in Digests : object'[d] # object[d] => d = put[r].digest
  BY <1>1 DEF PutStep, PutPresent, PutCreate, PutCopy, PutRename, PutFail, BlobTypeOK, PutFrame
<1>4. CommitsHaveBytes'
  BY <1>1, <1>2, BlobConstants, MetaConstants
     DEF Inv, MetaInv, CallsAreTyped, CommitsHaveBytes, metaVars, TxSteps
<1>5. EveryRowHasItsBytes'
  <2>1. \A t \in Tuples : RowOf(t) \in Digests \cup {NoDigest} /\ RowOf(t)' = RowOf(t)
    BY <1>1 DEF Inv, MetaInv, MetaTypeOK, Tables, RowOf, metaVars
  <2>2. QED
    BY <1>2, <2>1, BlobConstants DEF Inv, EveryRowHasItsBytes
<1>6. SrvTypeOK' /\ UploadsInv'
  BY <1>1 DEF SrvTypeOK, UploadsInv, srvVars
<1>7. DownloadsInv'
  BY <1>1 DEF Inv, DownloadsInv, RowOf, metaVars
<1>8. RequestsInv'
  BY <1>1, <1>3 DEF RequestsInv, InPipeline, VerdictOn, srvVars, metaVars
<1>9. StoredInv'
  <2> SUFFICES ASSUME NEW d \in Digests, object'[d] # Absent
               PROVE  \E q \in Callers : pc'[q] # "idle" /\ req'[q].digest = d
                                            /\ VerdictOn(q)' = "accepted"
    BY DEF StoredInv
  <2>1. \A q \in Callers : VerdictOn(q)' = VerdictOn(q)
    BY <1>1 DEF VerdictOn, srvVars
  <2>2. CASE object[d] # Absent
    BY <1>1, <2>1, <2>2 DEF StoredInv, srvVars
  <2>3. CASE object[d] = Absent
    <3>1. d = put[r].digest
      BY <1>3, <2>3
    <3>2. req[r].digest = d /\ VerdictOn(r) = "accepted"
      BY <1>1, <1>3, <3>1 DEF RequestsInv
    <3>3. QED
      BY <1>1, <2>1, <3>2 DEF srvVars
  <2>4. QED
    BY <2>2, <2>3
<1>10. QED
  BY <1>2, <1>4, <1>5, <1>6, <1>7, <1>8, <1>9 DEF Inv

\* The transaction is asked for only once the object is in place.
LEMMA StartCommitInv ==
  ASSUME Inv, NEW r \in Callers, StartCommit(r)
  PROVE  Inv'
<1> USE DEF StartCommit, At, To
<1>1. /\ SrvTypeOK /\ RequestsInv /\ StoredInv /\ UploadsInv /\ MetaTypeOK
      /\ pc[r] = "put" /\ put[r].step = "stored"
      /\ CallCreate(r, req[r].tuple, req[r].digest)
      /\ req[r].tuple \in Tuples /\ req[r].digest \in Digests
      /\ UNCHANGED <<blobVars, up, dl, req, upload, unremoved, offset, answer, db>>
  BY DEF Inv, RequestsInv, InPipeline, CallCreate, MetaInv
<1>2. BlobInv' /\ MetaInv'
  BY <1>1, CallCreateInv, BlobStutterInv DEF Inv
<1>3. object[req[r].digest] = req[r].digest
  BY <1>1 DEF Inv, BlobInv, StoredMeansPresent, RequestsInv
<1>4. CommitsHaveBytes'
  BY <1>1, <1>3 DEF Inv, CommitsHaveBytes, CallCreate, MetaTypeOK, blobVars
<1>5. EveryRowHasItsBytes' /\ DownloadsInv'
  BY <1>1 DEF Inv, EveryRowHasItsBytes, DownloadsInv, RowOf, blobVars
<1>6. SrvTypeOK' /\ UploadsInv'
  BY <1>1 DEF SrvTypeOK, PublishSteps, UploadsInv
<1>7. RequestsInv'
  BY <1>1 DEF RequestsInv, CallCreate, SrvTypeOK, MetaTypeOK, InPipeline, VerdictOn, blobVars
<1>8. StoredInv'
  BY <1>1, StoredStays DEF SrvTypeOK, blobVars
<1>9. QED
  BY <1>2, <1>4, <1>5, <1>6, <1>7, <1>8 DEF Inv
\* Rows, once there, keep what downloads pinned and what the blob store holds.
LEMMA DownloadsStay ==
  ASSUME DownloadsInv, RowsStay, dl' = dl, MetaTypeOK
  PROVE  DownloadsInv'
  BY DEF DownloadsInv, RowsStay, RowOf

\* A statement of the transaction publishes a row only when its object is there.
LEMMA CommitRunsInv ==
  ASSUME Inv, NEW r \in Callers, CommitRuns(r)
  PROVE  Inv'
<1> USE DEF CommitRuns, At
<1>1. /\ SrvTypeOK /\ RequestsInv /\ StoredInv /\ UploadsInv /\ MetaInv /\ CommitsHaveBytes
      /\ pc[r] = "commit" /\ (CreateStep(r) \/ CreateFails(r))
      /\ UNCHANGED <<blobVars, up, srvVars, dl>>
  BY DEF Inv
<1>2. BlobInv' /\ MetaInv' /\ RowsStay
  BY <1>1, BlobStutterInv, MetaStepInv DEF Inv
<1>3. /\ \A q \in Callers \ {r} : call'[q] = call[q]
      /\ call'[r].tuple = call[r].tuple /\ call'[r].digest = call[r].digest
      /\ call[r].step \notin Results \cup {"idle"}
      /\ call'[r].step \in {"begin"} \cup TxSteps => call[r].step \in {"begin"} \cup TxSteps
  <2> USE <1>1 DEF MetaInv, MetaTypeOK, CallFrame, TxSteps, Results, Goto
  <2>1. CASE BeginTx(r) \/ UpsertPackage(r) \/ RecordBlob(r) \/ RecordVersion(r)
    BY <2>1 DEF BeginTx, UpsertPackage, RecordBlob, RecordVersion
  <2>2. CASE RecordConflict(r) \/ Commit(r) \/ ConflictPackage(r) \/ ConflictVersion(r)
    BY <2>2 DEF RecordConflict, Commit, ConflictPackage, ConflictVersion
  <2>3. CASE CreateFails(r)
    BY <2>3 DEF CreateFails, BeginFail, TxFail, ConflictReadFails
  <2>4. QED
    BY <2>1, <2>2, <2>3 DEF CreateStep
<1>4. CommitsHaveBytes'
  BY <1>1, <1>3 DEF CommitsHaveBytes, blobVars
<1>5. EveryRowHasItsBytes'
  <2>1. CASE Commit(r)
    <3>1. /\ db'.versions = [db.versions EXCEPT ![call[r].tuple] = call[r].digest]
          /\ db.versions \in [Tuples -> Digests \cup {NoDigest}]
          /\ call[r].tuple \in Tuples
      BY <1>1, <2>1, CommitAddsOneRow DEF MetaInv, MetaTypeOK, Tables
    <3>2. object[call[r].digest] = call[r].digest
      BY <1>1, <2>1 DEF CommitsHaveBytes, Commit, TxSteps
    <3>3. QED
      BY <1>1, <3>1, <3>2 DEF Inv, EveryRowHasItsBytes, RowOf, blobVars
  <2>2. CASE QuietStep(r)
    BY <1>1, <2>2, QuietStepInv DEF Inv, EveryRowHasItsBytes, RowOf, blobVars
  <2>3. QED
    BY <1>1, <2>1, <2>2 DEF CreateStep, QuietStep
<1>6. SrvTypeOK' /\ UploadsInv'
  BY <1>1 DEF SrvTypeOK, UploadsInv, srvVars
<1>7. DownloadsInv'
  BY <1>1, <1>2, DownloadsStay DEF Inv, MetaInv
<1>8. RequestsInv'
  BY <1>1, <1>3 DEF RequestsInv, InPipeline, VerdictOn, Results, srvVars, blobVars
<1>9. StoredInv'
  BY <1>1, StoredStays DEF srvVars, blobVars
<1>10. QED
  BY <1>2, <1>4, <1>5, <1>6, <1>7, <1>8, <1>9 DEF Inv

-----------------------------------------------------------------------------
\* A download changes nothing but its own frame.
LEMMA DownloadInv ==
  ASSUME Inv, NEW k \in Readers, DownloadStep(k) \/ \E t \in Tuples : Ask(k, t)
  PROVE  Inv'
<1>1. UNCHANGED <<blobVars, metaVars, up, srvVars>>
  BY DEF DownloadStep, FindPackage, FindVersion, OpenBlob, DownloadFails, Ask, storeVars
<1>2. BlobInv' /\ MetaInv'
  BY <1>1, BlobStutterInv, MetaStutterInv DEF Inv
<1>3. /\ RequestsInv' /\ CommitsHaveBytes' /\ EveryRowHasItsBytes' /\ StoredInv' /\ UploadsInv'
  BY <1>1 DEF Inv, RequestsInv, CommitsHaveBytes, EveryRowHasItsBytes, StoredInv, UploadsInv,
     RowOf, VerdictOn, blobVars, metaVars, srvVars
<1>4. /\ dl \in [Readers -> DownloadFrame] /\ DownloadsInv /\ EveryRowHasItsBytes
      /\ db.versions \in [Tuples -> Digests \cup {NoDigest}]
      /\ object \in [Digests -> Bytes \cup {Absent}]
      /\ \A t \in Tuples : RowOf(t)' = RowOf(t)
  BY <1>1 DEF Inv, SrvTypeOK, MetaInv, MetaTypeOK, Tables, BlobInv, BlobTypeOK, RowOf, metaVars
<1>5. dl' \in [Readers -> DownloadFrame] /\ DownloadsInv'
  <2> USE DEF DownloadFrame, DownloadSteps
  <2>1. CASE \E t \in Tuples : Ask(k, t)
    <3>1. PICK t \in Tuples : Ask(k, t)
      BY <2>1
    <3>2. dl' = [dl EXCEPT ![k] = [dl[k] EXCEPT !.step = "package", !.tuple = t]]
      BY <3>1 DEF Ask
    <3>3. [dl[k] EXCEPT !.step = "package", !.tuple = t] \in DownloadFrame
      BY <1>4
    <3>4. dl' \in [Readers -> DownloadFrame]
      BY <1>4, <3>2, <3>3
    <3>5. dl[k].pinned = NoDigest
      BY <3>1 DEF Ask, DownloadsInv, Inv
    <3>6. DownloadsInv'
      BY <1>4, <3>2, <3>5 DEF DownloadsInv
    <3>7. QED
      BY <3>4, <3>6
  <2>2. CASE FindPackage(k)
    BY <1>4, <2>2 DEF FindPackage, DownloadsInv
  <2>3. CASE FindVersion(k)
    <3>1. RowOf(dl[k].tuple) \in Digests \cup {NoDigest} /\ dl[k].tuple \in Tuples
      BY <1>4, <2>3 DEF FindVersion, DownloadsInv, RowOf
    <3>2. dl' = [dl EXCEPT ![k] = [dl[k] EXCEPT
                   !.pinned = RowOf(dl[k].tuple),
                   !.step = IF RowOf(dl[k].tuple) = NoDigest THEN "done" ELSE "open"]]
      BY <2>3 DEF FindVersion
    <3>3. dl' \in [Readers -> DownloadFrame]
      <4>1. [dl[k] EXCEPT !.pinned = RowOf(dl[k].tuple),
                          !.step = IF RowOf(dl[k].tuple) = NoDigest THEN "done" ELSE "open"]
              \in DownloadFrame
        BY <1>4, <3>1
      <4>2. QED
        BY <1>4, <3>2, <4>1
    <3>4. DownloadsInv'
      BY <1>4, <3>1, <3>2 DEF DownloadsInv
    <3>5. QED
      BY <3>3, <3>4
  <2>4. CASE OpenBlob(k)
    <3>1. /\ dl[k].pinned \in Digests /\ object[dl[k].pinned] = dl[k].pinned
          /\ dl[k].pinned # NoDigest /\ dl[k].tuple \in Tuples
      BY <1>4, <2>4 DEF OpenBlob, DownloadsInv, EveryRowHasItsBytes
    <3>2. dl' = [dl EXCEPT ![k] = [dl[k] EXCEPT !.step = "done", !.served = dl[k].pinned]]
      BY <2>4, <3>1 DEF OpenBlob
    <3>3. dl' \in [Readers -> DownloadFrame]
      BY <1>4, <3>1, <3>2 DEF Bytes
    <3>4. DownloadsInv'
      BY <1>4, <3>1, <3>2 DEF DownloadsInv
    <3>5. QED
      BY <3>3, <3>4
  <2>5. CASE DownloadFails(k)
    BY <1>4, <2>5 DEF DownloadFails, DownloadsInv
  <2>6. QED
    BY <2>1, <2>2, <2>3, <2>4, <2>5 DEF DownloadStep
<1>6. SrvTypeOK'
  BY <1>1, <1>5 DEF Inv, SrvTypeOK, srvVars
<1>7. QED
  BY <1>2, <1>3, <1>5, <1>6 DEF Inv

-----------------------------------------------------------------------------
\* The process dies between any two steps.
LEMMA CrashInv ==
  ASSUME Inv, Crash
  PROVE  Inv'
<1>1. BlobInv' /\ MetaInv'
  BY BlobCrashInv, MetaCrashInv DEF Inv, Crash
<1>2. /\ up' = FALSE /\ UNCHANGED <<req, upload, unremoved, offset, answer, object, db>>
      /\ pc' = [r \in Callers |-> IF pc[r] \in {"idle", "done"} THEN pc[r] ELSE "lost"]
      /\ dl' = [k \in Readers |->
                  IF dl[k].step \in {"idle", "done"} THEN dl[k]
                  ELSE [dl[k] EXCEPT !.step = "lost"]]
      /\ \A r \in Callers :
            /\ put'[r] = NoPut
            /\ call'[r] = IF call[r].step \in Results THEN call[r] ELSE NoCall
  BY DEF Crash, BlobCrash, MetaCrash
<1>3. CommitsHaveBytes' /\ EveryRowHasItsBytes'
  BY <1>2 DEF Inv, CommitsHaveBytes, EveryRowHasItsBytes, RowOf, NoCall, TxSteps, Results
<1>4. SrvTypeOK'
  BY <1>2 DEF Inv, SrvTypeOK, PublishSteps, DownloadFrame, DownloadSteps
<1>5. RequestsInv'
  BY <1>2 DEF Inv, RequestsInv, InPipeline, NoPut, NoCall, Results
<1>6. StoredInv'
  BY <1>2, StoredStays DEF Inv
<1>7. UploadsInv'
  BY <1>2 DEF Inv, UploadsInv
<1>8. DownloadsInv'
  <2>1. \A k \in Readers : /\ dl[k] \in DownloadFrame
                            /\ dl'[k].tuple = dl[k].tuple /\ dl'[k].pinned = dl[k].pinned
                            /\ dl'[k].served = dl[k].served
                            /\ dl'[k].step \in {"idle", "done"} => dl'[k].step = dl[k].step
                            /\ dl'[k].step \in {"idle", "done", "lost"}
    BY <1>2 DEF Inv, SrvTypeOK, DownloadFrame
  <2>2. QED
    BY <1>2, <2>1 DEF Inv, DownloadsInv, RowOf
<1>9. QED
  BY <1>1, <1>3, <1>4, <1>5, <1>6, <1>7, <1>8 DEF Inv

\* The next process sweeps the upload files before it serves; what a failed sweep
\* leaves is known not to have been removed.
LEMMA RestartInv ==
  ASSUME Inv, Restart \/ RestartSweepFails
  PROVE  Inv'
<1>1. /\ UNCHANGED <<blobVars, metaVars, pc, req, offset, answer, dl>>
      /\ up' = TRUE /\ up = FALSE /\ unremoved' \subseteq Callers
      /\ upload' = [r \in Callers |-> IF r \in unremoved' THEN upload[r] ELSE Absent]
  BY DEF Restart, RestartSweepFails, storeVars, Inv, SrvTypeOK
<1>2. BlobInv' /\ MetaInv'
  BY <1>1, BlobStutterInv, MetaStutterInv DEF Inv
<1>3. CommitsHaveBytes' /\ EveryRowHasItsBytes' /\ DownloadsInv' /\ StoredInv'
  BY <1>1 DEF Inv, CommitsHaveBytes, EveryRowHasItsBytes, DownloadsInv, StoredInv, RowOf,
     VerdictOn, blobVars, metaVars
<1>4. SrvTypeOK' /\ UploadsInv'
  BY <1>1 DEF Inv, SrvTypeOK, UploadsInv
<1>5. RequestsInv'
  BY <1>1 DEF Inv, RequestsInv, InPipeline, VerdictOn, blobVars, metaVars
<1>6. QED
  BY <1>2, <1>3, <1>4, <1>5 DEF Inv
-----------------------------------------------------------------------------
\* Every step of the registry keeps the invariant.
LEMMA NextInv ==
  ASSUME Inv, [Next]_vars
  PROVE  Inv'
<1>1. ASSUME NEW r \in Callers, PublishStep(r) \/ ClientStep(r)
      PROVE  Inv'
  <2>1. CASE StartPut(r)
    BY <2>1, StartPutInv
  <2>2. CASE PutRuns(r)
    BY <2>2, PutRunsInv
  <2>3. CASE StartCommit(r)
    BY <2>3, StartCommitInv
  <2>4. CASE CommitRuns(r)
    BY <2>4, CommitRunsInv
  <2>5. CASE ServiceStep(r)
    BY <2>5, ServiceStepInv
  <2>6. QED
    BY <1>1, <2>1, <2>2, <2>3, <2>4, <2>5 DEF PublishStep, ServiceStep
<1>2. CASE \E k \in Readers : DownloadStep(k) \/ \E t \in Tuples : Ask(k, t)
  BY <1>2, DownloadInv
<1>3. CASE Crash
  BY <1>3, CrashInv
<1>4. CASE Restart \/ RestartSweepFails
  BY <1>4, RestartInv
<1>5. CASE UNCHANGED vars
  <2>1. UNCHANGED <<blobVars, metaVars, up, pc, req, upload, unremoved, offset, answer, dl>>
    BY <1>5 DEF vars, srvVars
  <2>2. BlobInv' /\ MetaInv'
    BY <2>1, BlobStutterInv, MetaStutterInv DEF Inv
  <2>3. SrvTypeOK' /\ UploadsInv'
    BY <2>1 DEF Inv, SrvTypeOK, UploadsInv
  <2>4. RequestsInv'
    BY <2>1 DEF Inv, RequestsInv, VerdictOn, blobVars, metaVars
  <2>5. CommitsHaveBytes' /\ EveryRowHasItsBytes' /\ DownloadsInv'
    BY <2>1 DEF Inv, CommitsHaveBytes, EveryRowHasItsBytes, DownloadsInv, RowOf, blobVars, metaVars
  <2>6. StoredInv'
    BY <2>1, StoredStays DEF Inv, blobVars
  <2>7. QED
    BY <2>2, <2>3, <2>4, <2>5, <2>6 DEF Inv
<1>6. QED
  BY <1>1, <1>2, <1>3, <1>4, <1>5 DEF Next

\* The invariant holds in every reachable state.
LEMMA Invariance == Spec => []Inv
<1>1. Inv /\ [Next]_vars => Inv'
  BY NextInv
<1>2. QED
  BY <1>1, InitInv, PTL DEF Spec

\* Type correctness of the whole registry.
THEOREM RegistryTypeCorrect == Spec => []TypeOK
<1>1. Inv => TypeOK
  BY DEF Inv, TypeOK, BlobInv, MetaInv, SrvTypeOK
<1>2. QED
  BY <1>1, Invariance, PTL

\* publish.go:105-107 and TR-07: at every instant, a crash between any two steps
\* included, a listable version has its whole archive in the blob store.
THEOREM RegistryRowsHaveBytes == Spec => []EveryRowHasItsBytes
  BY Invariance, PTL DEF Inv

\* query.go:42-75: a download that found its row serves the published bytes.
THEOREM RegistryDownloads == Spec => []DownloadsServeWhatIsPublished
<1>1. Inv => DownloadsServeWhatIsPublished
  BY DEF Inv, DownloadsInv, DownloadsServeWhatIsPublished
<1>2. QED
  BY <1>1, Invariance, PTL

\* store.go:207-247: a 201 is never taken back, and never given twice.
THEOREM RegistryAcknowledged == Spec => []AcknowledgedIsPublished
<1>1. Inv => AcknowledgedIsPublished
  <2> SUFFICES ASSUME Inv, NEW r \in Callers, answer[r] = "created"
               PROVE  /\ RowOf(req[r].tuple) = req[r].digest
                      /\ \A q \in Callers \ {r} : answer[q] = "created" =>
                            req[q].tuple # req[r].tuple
    BY DEF AcknowledgedIsPublished
  <2>1. \A q \in Callers : answer[q] = "created" =>
          call[q].step = "created" /\ call[q].tuple = req[q].tuple /\ call[q].digest = req[q].digest
    BY DEF Inv, RequestsInv
  <2>2. QED
    BY <2>1 DEF Inv, MetaInv, CreatedIsTheWinner, RowOf
<1>2. QED
  BY <1>1, Invariance, PTL

\* publish.go:115-119: what validation refuses never reaches the blob store.
THEOREM RegistryStoresOnlyAccepted == Spec => []OnlyAcceptedArchivesAreStored
<1>1. Inv => OnlyAcceptedArchivesAreStored
  BY DEF Inv, StoredInv, OnlyAcceptedArchivesAreStored
<1>2. QED
  BY <1>1, Invariance, PTL

\* publish.go:167-173, 227-231 and 257-282: an upload file that outlives its request in
\* a running server was left by a panic inside stage, or is one that the request or the
\* last sweep tried, and failed, to remove; so after a sweep that succeeds only those of
\* the requests under way, of panics and of failed removals are there.
THEOREM RegistryUploadsAreOwned == Spec => []UploadsAreOwned
<1>1. Inv => UploadsAreOwned
  BY DEF Inv, UploadsInv, UploadsAreOwned, Over
<1>2. QED
  BY <1>1, Invariance, PTL
-----------------------------------------------------------------------------
(***************************************************************************)
(* The publish pipeline and the download path implement the linearizable    *)
(* registry, for any number of requests: every step of Registry is a step of  *)
(* LinearizableRegistry or leaves it unchanged.                               *)
(***************************************************************************)
\* The refinement mapping, read off case by case.
LEMMA OutcomeCases ==
  ASSUME NEW r \in Callers
  PROVE  /\ call[r].step = "created" =>
              Outcome(r) = Abstract!Created(call[r].tuple, call[r].digest)
         /\ call[r].step = "conflict" =>
              Outcome(r) = Abstract!Conflict(call[r].tuple, call[r].previous)
         /\ ~Ended(r) /\ (pc[r] = "lost" \/ answer[r] # "none") => Outcome(r) = Abstract!Failed
         /\ ~Ended(r) /\ pc[r] # "lost" /\ answer[r] = "none" => Outcome(r) = Abstract!Pending
  BY DEF Outcome, Ended, Abstract!Created, Abstract!Conflict, Abstract!Failed, Abstract!Pending

\* The same, of the next state.
LEMMA OutcomeCasesNext ==
  ASSUME NEW r \in Callers
  PROVE  /\ call'[r].step = "created" =>
              Outcome(r)' = Abstract!Created(call'[r].tuple, call'[r].digest)
         /\ call'[r].step = "conflict" =>
              Outcome(r)' = Abstract!Conflict(call'[r].tuple, call'[r].previous)
         /\ ~Ended(r)' /\ (pc'[r] = "lost" \/ answer'[r] # "none") => Outcome(r)' = Abstract!Failed
         /\ ~Ended(r)' /\ pc'[r] # "lost" /\ answer'[r] = "none" => Outcome(r)' = Abstract!Pending
  BY DEF Outcome, Ended, Abstract!Created, Abstract!Conflict, Abstract!Failed, Abstract!Pending

\* What each position of a download maps to.
LEMMA SeenCases ==
  ASSUME NEW k \in Readers
  PROVE  /\ dl[k].step = "done" /\ dl[k].pinned = NoDigest =>
              Seen(k) = Abstract!Served(dl[k].tuple, NoDigest)
         /\ dl[k].step = "done" /\ dl[k].pinned # NoDigest =>
              Seen(k) = Abstract!Served(dl[k].tuple, dl[k].served)
         /\ dl[k].step = "lost" => Seen(k) = Abstract!Failed
         /\ dl[k].step \notin {"done", "lost"} => Seen(k) = Abstract!Pending
  BY DEF Seen, Abstract!Served, Abstract!Failed, Abstract!Pending

\* The same, of the next state.
LEMMA SeenCasesNext ==
  ASSUME NEW k \in Readers
  PROVE  /\ dl'[k].step = "done" /\ dl'[k].pinned = NoDigest =>
              Seen(k)' = Abstract!Served(dl'[k].tuple, NoDigest)
         /\ dl'[k].step = "done" /\ dl'[k].pinned # NoDigest =>
              Seen(k)' = Abstract!Served(dl'[k].tuple, dl'[k].served)
         /\ dl'[k].step = "lost" => Seen(k)' = Abstract!Failed
         /\ dl'[k].step \notin {"done", "lost"} => Seen(k)' = Abstract!Pending
  BY DEF Seen, Abstract!Served, Abstract!Failed, Abstract!Pending

AbstractStep == [Abstract!RegistryNext]_(Abstract!regVars)

\* Steps seen from outside: nothing, or some requests fail.
LEMMA Invisible ==
  ASSUME db.versions' = db.versions,
         \A r \in Callers : Outcome(r)' = Outcome(r),
         \A k \in Readers : Seen(k)' = Seen(k)
  PROVE  AbstractStep
  BY DEF AbstractStep, Abstract!regVars

\* Requests that turn from pending to failed, however many, are one Fail step.
LEMMA SomeFail ==
  ASSUME db.versions' = db.versions,
         \A r \in Callers : \/ Outcome(r)' = Outcome(r)
                            \/ Outcome(r) = Abstract!Pending /\ Outcome(r)' = Abstract!Failed,
         \A k \in Readers : \/ Seen(k)' = Seen(k)
                            \/ Seen(k) = Abstract!Pending /\ Seen(k)' = Abstract!Failed
  PROVE  AbstractStep
<1> DEFINE ps == {r \in Callers : Outcome(r)' # Outcome(r)}
           ks == {k \in Readers : Seen(k)' # Seen(k)}
<1>1. /\ \A r \in ps : [q \in Callers |-> Outcome(q)][r] = Abstract!Pending
      /\ \A k \in ks : [j \in Readers |-> Seen(j)][k] = Abstract!Pending
  OBVIOUS
<1>2. [r \in Callers |-> Outcome(r)]' =
        [r \in Callers |-> IF r \in ps THEN Abstract!Failed ELSE [q \in Callers |-> Outcome(q)][r]]
  OBVIOUS
<1>3. [k \in Readers |-> Seen(k)]' =
        [k \in Readers |-> IF k \in ks THEN Abstract!Failed ELSE [j \in Readers |-> Seen(j)][k]]
  OBVIOUS
<1>4. Abstract!Fail(ps, ks)
  BY <1>1, <1>2, <1>3 DEF Abstract!Fail
<1>5. ps \in SUBSET Callers /\ ks \in SUBSET Readers
  OBVIOUS
<1>6. QED
  BY <1>4, <1>5 DEF AbstractStep, Abstract!RegistryNext
\* A publish that enters the reply without a store's verdict has failed.
LEMMA OneFails ==
  ASSUME NEW r \in Callers, db.versions' = db.versions, dl' = dl,
         \A q \in Callers \ {r} : pc'[q] = pc[q] /\ answer'[q] = answer[q],
         call' = call, ~Ended(r), pc[r] # "lost",
         pc'[r] # "lost", answer'[r] # "none"
  PROVE  AbstractStep
<1>1. \A q \in Callers \ {r} : Outcome(q)' = Outcome(q)
  BY DEF Outcome, Ended
<1>2. Outcome(r)' = Abstract!Failed /\ Outcome(r) \in {Abstract!Failed, Abstract!Pending}
  BY OutcomeCases, OutcomeCasesNext DEF Ended
<1>3. \A k \in Readers : Seen(k)' = Seen(k)
  BY DEF Seen
<1>4. QED
  BY <1>1, <1>2, <1>3, SomeFail

\* A step that changes no verdict is invisible.
LEMMA Unseen ==
  ASSUME db.versions' = db.versions, dl' = dl, answer' = answer,
         \A q \in Callers : /\ call'[q] = call[q] \/ (~Ended(q) /\ ~Ended(q)')
                            /\ pc'[q] = "lost" <=> pc[q] = "lost"
  PROVE  AbstractStep
<1>1. ASSUME NEW q \in Callers
      PROVE  Outcome(q)' = Outcome(q)
  <2>1. CASE Ended(q)
    BY <2>1, OutcomeCases, OutcomeCasesNext
       DEF Ended, Abstract!Created, Abstract!Conflict
  <2>2. CASE ~Ended(q)
    BY <2>2, OutcomeCases, OutcomeCasesNext
       DEF Ended, Abstract!Failed, Abstract!Pending
  <2>3. QED
    BY <2>1, <2>2
<1>2. \A k \in Readers : Seen(k)' = Seen(k)
  BY DEF Seen
<1>3. QED
  BY <1>1, <1>2, Invisible

\* A step of a publish outside the stores is invisible, or fails the publish.
LEMMA ServiceStepRefines ==
  ASSUME Inv, NEW r \in Callers, ServiceStep(r)
  PROVE  AbstractStep
<1> USE DEF At, To, Tell
<1>1. UNCHANGED <<blobVars, metaVars, up, dl>>
  BY ServiceStepFrame
<1>2. /\ db' = db /\ call' = call /\ dl' = dl
      /\ SrvTypeOK /\ RequestsInv
  BY <1>1 DEF metaVars, Inv
<1>3. CASE \/ Refuse(r) \/ ReceiveFails(r) \/ IngestFails(r) \/ InspectCorrupt(r)
           \/ InspectUnreadable(r) \/ InspectRejected(r) \/ InspectPanics(r) \/ RewindFails(r)
           \/ PutFailed(r)
  <2>1. /\ pc[r] \in {"idle", "receive", "ingest", "inspect", "rewind", "put"}
        /\ pc'[r] \in {"reply", "cleanup"} /\ answer'[r] # "none"
        /\ \A q \in Callers \ {r} : pc'[q] = pc[q] /\ answer'[q] = answer[q]
    BY <1>2, <1>3 DEF Refuse, ReceiveFails, IngestFails, InspectCorrupt, InspectUnreadable,
       InspectRejected, InspectPanics, RewindFails, PutFailed, SrvTypeOK
  <2>2. ~Ended(r)
    BY <1>2, <2>1 DEF RequestsInv, Ended
  <2>3. QED
    BY <1>2, <2>1, <2>2, OneFails
<1>4. CASE \/ \E t \in Tuples, d \in Digests, f \in Formats : Accept(r, t, d, f)
           \/ Ingest(r) \/ Receive(r) \/ InspectAccepted(r) \/ Cleanup(r) \/ Reply(r)
  <2>1. /\ answer' = answer
        /\ \A q \in Callers : pc'[q] = "lost" <=> pc[q] = "lost"
    BY <1>2, <1>4 DEF Accept, Ingest, Receive, InspectAccepted, Cleanup, Reply, SrvTypeOK
  <2>2. \A q \in Callers : /\ call'[q] = call[q] \/ (~Ended(q) /\ ~Ended(q)')
                           /\ pc'[q] = "lost" <=> pc[q] = "lost"
    BY <1>2, <2>1
  <2>3. QED
    BY <1>2, <2>1, <2>2, Unseen
<1>5. CASE CommitReturns(r)
  <2>1. /\ pc[r] = "commit" /\ pc'[r] = "cleanup" /\ answer'[r] # "none"
        /\ \A q \in Callers \ {r} : pc'[q] = pc[q] /\ answer'[q] = answer[q]
    BY <1>2, <1>5 DEF CommitReturns, SrvTypeOK, Results
  <2>2. CASE ~Ended(r)
    BY <1>2, <2>1, <2>2, OneFails
  <2>3. CASE Ended(r)
    <3>1. Outcome(r)' = Outcome(r)
      BY <1>2, <2>3, OutcomeCases, OutcomeCasesNext
         DEF Ended, Abstract!Created, Abstract!Conflict
    <3>2. \A q \in Callers \ {r} : Outcome(q)' = Outcome(q)
      BY <1>2, <2>1 DEF Outcome, Ended
    <3>3. \A k \in Readers : Seen(k)' = Seen(k)
      BY <1>2 DEF Seen
    <3>4. QED
      BY <1>2, <3>1, <3>2, <3>3, Invisible
  <2>4. QED
    BY <2>2, <2>3
<1>6. QED
  BY <1>3, <1>4, <1>5, ServiceStep(r) DEF ServiceStep, ClientStep
\* Calls into the blob store, and the call into the metadata store itself.
LEMMA StoreCallRefines ==
  ASSUME Inv, NEW r \in Callers, StartPut(r) \/ PutRuns(r) \/ StartCommit(r)
  PROVE  AbstractStep
<1>1. /\ db' = db /\ dl' = dl /\ answer' = answer
      /\ \A q \in Callers : pc'[q] = "lost" <=> pc[q] = "lost"
  BY DEF StartPut, PutRuns, StartCommit, CallCreate, metaVars, srvVars, At, To, Inv, SrvTypeOK
<1>2. \A q \in Callers : call'[q] = call[q] \/ (~Ended(q) /\ ~Ended(q)')
  BY DEF StartPut, PutRuns, StartCommit, CallCreate, metaVars, Ended, Inv, MetaInv, MetaTypeOK
<1>3. QED
  BY <1>1, <1>2, Unseen

\* A publish takes effect when its transaction commits.
LEMMA CommitRefines ==
  ASSUME Inv, NEW r \in Callers, CommitRuns(r), Commit(r)
  PROVE  AbstractStep
<1>1. /\ call[r].step = "commit" /\ call'[r] = [call[r] EXCEPT !.step = "created"]
      /\ call[r] \in CallFrame
      /\ \A q \in Callers \ {r} : call'[q] = call[q]
      /\ pc' = pc /\ answer' = answer /\ dl' = dl /\ pc[r] = "commit" /\ answer[r] = "none"
  BY DEF CommitRuns, Commit, Goto, At, srvVars, Inv, MetaInv, MetaTypeOK, RequestsInv, InPipeline
<1>2. /\ call[r].tuple \in Tuples /\ call[r].digest \in Digests
      /\ db.versions[call[r].tuple] = NoDigest
      /\ db'.versions = [db.versions EXCEPT ![call[r].tuple] = call[r].digest]
  BY CommitAddsOneRow DEF Inv
<1>3. Outcome(r) = Abstract!Pending
  BY <1>1, OutcomeCases DEF Ended
<1>4. Outcome(r)' = Abstract!Created(call[r].tuple, call[r].digest)
  BY <1>1, OutcomeCasesNext DEF CallFrame
<1>5. \A q \in Callers \ {r} : Outcome(q)' = Outcome(q)
  BY <1>1 DEF Outcome, Ended
<1>6. \A k \in Readers : Seen(k)' = Seen(k)
  BY <1>1 DEF Seen
<1>7. Abstract!Create(r, call[r].tuple, call[r].digest)
  BY <1>2, <1>3, <1>4, <1>5, <1>6 DEF Abstract!Create
<1>8. QED
  BY <1>2, <1>7 DEF AbstractStep, Abstract!RegistryNext

\* A publish that lost takes effect when its conflict is complete.
LEMMA ConflictRefines ==
  ASSUME Inv, NEW r \in Callers, CommitRuns(r), QuietStep(r), call'[r].step = "conflict"
  PROVE  AbstractStep
<1>1. /\ call[r] \in CallFrame /\ call[r].step \in {"conflict_package", "conflict_version"}
      /\ \A q \in Callers \ {r} : call'[q] = call[q]
      /\ call'[r].tuple = call[r].tuple
      /\ pc' = pc /\ answer' = answer /\ dl' = dl /\ pc[r] = "commit" /\ answer[r] = "none"
  <2> USE DEF CallFrame, Goto
  <2>1. call \in [Callers -> CallFrame]
    BY DEF Inv, MetaInv, MetaTypeOK
  <2>2. /\ pc' = pc /\ answer' = answer /\ dl' = dl /\ pc[r] = "commit" /\ answer[r] = "none"
    BY DEF CommitRuns, At, srvVars, Inv, RequestsInv, InPipeline
  <2>3. ConflictPackage(r) \/ ConflictVersion(r) \/ ConflictReadFails(r)
    <3>1. ~(BeginTx(r) \/ UpsertPackage(r) \/ RecordBlob(r) \/ RecordVersion(r))
      BY <2>1 DEF BeginTx, UpsertPackage, RecordBlob, RecordVersion
    <3>2. ~(RecordConflict(r) \/ BeginFail(r) \/ TxFail(r))
      BY <2>1 DEF RecordConflict, BeginFail, TxFail
    <3>3. QED
      BY <3>1, <3>2 DEF QuietStep, CreateFails
  <2>4. QED
    BY <2>1, <2>2, <2>3 DEF ConflictPackage, ConflictVersion, ConflictReadFails
<1>2. /\ db' = db /\ MetaInv /\ MetaInv'
  BY QuietStepInv DEF Inv
<1>3. /\ call[r].tuple \in Tuples
      /\ db.versions[call[r].tuple] # NoDigest
      /\ call'[r].previous \in {NoDigest, db.versions[call[r].tuple]}
      /\ db.versions \in [Tuples -> Digests \cup {NoDigest}]
  BY <1>1, <1>2 DEF MetaInv, MetaTypeOK, Tables, CallsAreTyped, ConflictNamesWinnerOrNothing
<1>4. Outcome(r) = Abstract!Pending
  BY <1>1, OutcomeCases DEF Ended
<1>5. Outcome(r)' = Abstract!Conflict(call[r].tuple, call'[r].previous)
  BY <1>1, OutcomeCasesNext
<1>6. \A q \in Callers \ {r} : Outcome(q)' = Outcome(q)
  BY <1>1 DEF Outcome, Ended
<1>7. \A k \in Readers : Seen(k)' = Seen(k)
  BY <1>1 DEF Seen
<1>8. Abstract!Lose(r, call[r].tuple, call'[r].previous)
  BY <1>2, <1>3, <1>4, <1>5, <1>6, <1>7 DEF Abstract!Lose
<1>9. call'[r].previous \in Digests \cup {NoDigest}
  BY <1>3
<1>10. QED
  BY <1>3, <1>8, <1>9 DEF AbstractStep, Abstract!RegistryNext

\* Inside CreateVersion only the commit and the finished conflict are visible.
LEMMA CommitRunsRefines ==
  ASSUME Inv, NEW r \in Callers, CommitRuns(r)
  PROVE  AbstractStep
<1>1. CASE Commit(r)
  BY <1>1, CommitRefines
<1>2. CASE QuietStep(r) /\ call'[r].step = "conflict"
  BY <1>2, ConflictRefines
<1>3. CASE QuietStep(r) /\ call'[r].step # "conflict"
  <2>1. call \in [Callers -> CallFrame] /\ db' = db
    BY <1>3, QuietStepInv DEF Inv, MetaInv, MetaTypeOK
  <2>2. /\ \A q \in Callers \ {r} : call'[q] = call[q]
        /\ ~Ended(r) /\ call'[r].step # "created"
    <3> USE <2>1 DEF CallFrame, Goto, Ended, TxSteps
    <3>1. CASE BeginTx(r) \/ UpsertPackage(r) \/ RecordBlob(r) \/ RecordVersion(r)
      BY <3>1 DEF BeginTx, UpsertPackage, RecordBlob, RecordVersion
    <3>2. CASE RecordConflict(r) \/ ConflictPackage(r) \/ ConflictVersion(r)
      BY <3>2 DEF RecordConflict, ConflictPackage, ConflictVersion
    <3>3. CASE CreateFails(r)
      BY <3>3 DEF CreateFails, BeginFail, TxFail, ConflictReadFails
    <3>4. QED
      BY <1>3, <3>1, <3>2, <3>3 DEF QuietStep
  <2>3. /\ pc' = pc /\ answer' = answer /\ dl' = dl
    BY DEF CommitRuns, srvVars
  <2>4. \A q \in Callers : /\ call'[q] = call[q] \/ (~Ended(q) /\ ~Ended(q)')
                           /\ pc'[q] = "lost" <=> pc[q] = "lost"
    BY <1>3, <2>2, <2>3 DEF Ended
  <2>5. QED
    BY <2>1, <2>3, <2>4, Unseen
<1>4. QED
  BY <1>1, <1>2, <1>3 DEF CommitRuns, CreateStep, QuietStep
-----------------------------------------------------------------------------
\* A download takes effect when it opens its blob, or finds no package or row.
LEMMA ReadRefines ==
  ASSUME Inv, NEW k \in Readers, UNCHANGED <<blobVars, metaVars, up, srvVars>>,
         \A j \in Readers \ {k} : dl'[j] = dl[j],
         dl[k].step \notin {"done", "lost"}, dl'[k].step = "done",
         dl[k].tuple \in Tuples, dl'[k].tuple = dl[k].tuple,
         Seen(k)' = Abstract!Served(dl[k].tuple, db.versions[dl[k].tuple])
  PROVE  AbstractStep
<1>1. Seen(k) = Abstract!Pending
  BY SeenCases
<1>2. \A j \in Readers \ {k} : Seen(j)' = Seen(j)
  BY DEF Seen
<1>3. db' = db /\ \A r \in Callers : Outcome(r)' = Outcome(r)
  BY DEF Outcome, Ended, metaVars, srvVars
<1>4. Abstract!Read(k, dl[k].tuple)
  BY <1>1, <1>2, <1>3 DEF Abstract!Read
<1>5. QED
  BY <1>4 DEF AbstractStep, Abstract!RegistryNext

\* A download is pending until the step that answers it.
LEMMA DownloadRefines ==
  ASSUME Inv, NEW k \in Readers, DownloadStep(k) \/ \E t \in Tuples : Ask(k, t)
  PROVE  AbstractStep
<1>1. UNCHANGED <<blobVars, metaVars, up, srvVars>>
  BY DEF DownloadStep, FindPackage, FindVersion, OpenBlob, DownloadFails, Ask, storeVars
<1>2. /\ dl \in [Readers -> DownloadFrame] /\ DownloadsInv /\ EveryRowHasItsBytes /\ TablesAgree
      /\ db' = db /\ \A r \in Callers : Outcome(r)' = Outcome(r)
  BY <1>1 DEF Inv, SrvTypeOK, MetaInv, Outcome, Ended, metaVars, srvVars
<1> USE DEF DownloadFrame
<1>3. ASSUME NEW s \in DownloadSteps, s \notin {"done", "lost"}, dl'[k].step = s,
             dl[k].step \notin {"done", "lost"}, \A j \in Readers \ {k} : dl'[j] = dl[j]
      PROVE  AbstractStep
  <2>1. Seen(k)' = Seen(k)
    BY <1>3, SeenCases, SeenCasesNext DEF Abstract!Pending
  <2>2. \A j \in Readers : Seen(j)' = Seen(j)
    BY <1>3, <2>1 DEF Seen
  <2>3. QED
    BY <1>2, <2>2, Invisible
<1>4. CASE \E t \in Tuples : Ask(k, t)
  BY <1>2, <1>3, <1>4 DEF Ask, DownloadSteps
<1>5. CASE FindPackage(k)
  <2>1. CASE HasPackage(dl[k].tuple)
    BY <1>2, <1>3, <1>5, <2>1 DEF FindPackage, DownloadSteps
  <2>2. CASE ~HasPackage(dl[k].tuple)
    <3>1. /\ dl[k].step = "package" /\ dl[k].tuple \in Tuples /\ dl[k].pinned = NoDigest
      BY <1>2, <1>5 DEF FindPackage, DownloadsInv
    <3>2. /\ dl'[k] = [dl[k] EXCEPT !.step = "done"]
          /\ \A j \in Readers \ {k} : dl'[j] = dl[j]
      BY <1>2, <1>5, <2>2 DEF FindPackage
    <3>3. db.versions[dl[k].tuple] = NoDigest
      BY <1>2, <2>2, <3>1 DEF TablesAgree, HasPackage
    <3>4. Seen(k)' = Abstract!Served(dl[k].tuple, db.versions[dl[k].tuple])
      BY <1>2, <3>1, <3>2, <3>3, SeenCasesNext
    <3>5. QED
      BY <1>1, <1>2, <3>1, <3>2, <3>4, ReadRefines
  <2>3. QED
    BY <2>1, <2>2
<1>6. CASE FindVersion(k)
  <2>1. CASE RowOf(dl[k].tuple) # NoDigest
    <3>1. dl'[k].step = "open" /\ dl[k].step = "version"
          /\ \A j \in Readers \ {k} : dl'[j] = dl[j]
      BY <1>2, <1>6, <2>1 DEF FindVersion
    <3>2. QED
      BY <1>3, <3>1 DEF DownloadSteps
  <2>2. CASE RowOf(dl[k].tuple) = NoDigest
    <3>1. /\ dl[k].step = "version" /\ dl[k].tuple \in Tuples
      BY <1>2, <1>6 DEF FindVersion, DownloadsInv
    <3>2. /\ dl'[k] = [dl[k] EXCEPT !.step = "done", !.pinned = NoDigest]
          /\ \A j \in Readers \ {k} : dl'[j] = dl[j]
      BY <1>2, <1>6, <2>2 DEF FindVersion
    <3>3. /\ dl'[k].step = "done" /\ dl'[k].pinned = NoDigest
          /\ dl'[k].tuple = dl[k].tuple
      BY <1>2, <3>2
    <3>4. Seen(k)' = Abstract!Served(dl[k].tuple, db.versions[dl[k].tuple])
      BY <1>2, <2>2, <3>3, SeenCasesNext DEF RowOf
    <3>5. QED
      BY <1>1, <1>2, <3>1, <3>2, <3>3, <3>4, ReadRefines
  <2>3. QED
    BY <2>1, <2>2
<1>7. CASE OpenBlob(k)
  <2>1. /\ dl[k].step = "open" /\ dl[k].tuple \in Tuples /\ dl[k].pinned # NoDigest
        /\ RowOf(dl[k].tuple) = dl[k].pinned
    BY <1>2, <1>7 DEF OpenBlob, DownloadsInv
  <2>2. object[dl[k].pinned] = dl[k].pinned
    BY <1>2, <2>1 DEF EveryRowHasItsBytes
  <2>3. /\ dl'[k] = [dl[k] EXCEPT !.step = "done", !.served = dl[k].pinned]
        /\ \A j \in Readers \ {k} : dl'[j] = dl[j]
    BY <1>2, <1>7, <2>2 DEF OpenBlob
  <2>4. /\ dl'[k].step = "done" /\ dl'[k].pinned = dl[k].pinned
        /\ dl'[k].served = dl[k].pinned /\ dl'[k].tuple = dl[k].tuple
    BY <1>2, <2>3
  <2>5. Seen(k)' = Abstract!Served(dl[k].tuple, db.versions[dl[k].tuple])
    BY <1>2, <2>1, <2>4, SeenCasesNext DEF RowOf
  <2>6. QED
    BY <1>1, <1>2, <2>1, <2>3, <2>4, <2>5, ReadRefines
<1>8. CASE DownloadFails(k)
  <2>1. /\ dl[k].step \notin {"done", "lost"} /\ dl'[k].step = "lost"
        /\ \A j \in Readers \ {k} : dl'[j] = dl[j]
    BY <1>2, <1>8 DEF DownloadFails
  <2>2. Seen(k) = Abstract!Pending /\ Seen(k)' = Abstract!Failed
    BY <2>1, SeenCases, SeenCasesNext
  <2>3. \A j \in Readers \ {k} : Seen(j)' = Seen(j)
    BY <2>1 DEF Seen
  <2>4. QED
    BY <1>2, <2>2, <2>3, SomeFail
<1>9. QED
  BY <1>4, <1>5, <1>6, <1>7, <1>8 DEF DownloadStep

-----------------------------------------------------------------------------
\* The death of the process fails whatever had not taken effect.
LEMMA CrashRefines ==
  ASSUME Inv, Crash
  PROVE  AbstractStep
<1>1. /\ db' = db /\ answer' = answer
      /\ \A r \in Callers :
            /\ pc'[r] = IF pc[r] \in {"idle", "done"} THEN pc[r] ELSE "lost"
            /\ call'[r] = IF call[r].step \in Results THEN call[r] ELSE NoCall
      /\ \A k \in Readers :
            dl'[k] = IF dl[k].step \in {"idle", "done"} THEN dl[k] ELSE [dl[k] EXCEPT !.step = "lost"]
      /\ \A k \in Readers : dl[k] \in DownloadFrame
  BY DEF Crash, MetaCrash, Inv, SrvTypeOK
<1>2. ASSUME NEW r \in Callers
      PROVE  \/ Outcome(r)' = Outcome(r)
             \/ Outcome(r) = Abstract!Pending /\ Outcome(r)' = Abstract!Failed
  <2>1. CASE Ended(r)
    <3>1. call'[r] = call[r]
      BY <1>1, <2>1 DEF Ended, Results
    <3>2. QED
      BY <2>1, <3>1, OutcomeCases, OutcomeCasesNext DEF Ended, Abstract!Created, Abstract!Conflict
  <2>2. CASE ~Ended(r)
    <3>1. ~Ended(r)'
      BY <1>1, <2>2 DEF Ended, NoCall
    <3>2. QED
      BY <1>1, <2>2, <3>1, OutcomeCases, OutcomeCasesNext DEF Abstract!Failed, Abstract!Pending
  <2>3. QED
    BY <2>1, <2>2
<1>3. ASSUME NEW k \in Readers
      PROVE  \/ Seen(k)' = Seen(k)
             \/ Seen(k) = Abstract!Pending /\ Seen(k)' = Abstract!Failed
  <2>1. CASE dl[k].step \in {"idle", "done"}
    BY <1>1, <2>1 DEF Seen
  <2>2. CASE dl[k].step \notin {"idle", "done"}
    <3>1. dl'[k].step = "lost"
      BY <1>1, <2>2 DEF DownloadFrame
    <3>2. QED
      BY <2>2, <3>1, SeenCases, SeenCasesNext DEF Abstract!Failed, Abstract!Pending
  <2>3. QED
    BY <2>1, <2>2
<1>4. QED
  BY <1>1, <1>2, <1>3, SomeFail

\* The empty registry maps to the empty map.
LEMMA InitRefines == Init => Abstract!RegistryInit
<1> SUFFICES ASSUME Init PROVE Abstract!RegistryInit
  OBVIOUS
<1>1. \A r \in Callers : Outcome(r) = Abstract!Pending
  BY OutcomeCases DEF Init, MetaInit, NoCall, Ended
<1>2. \A k \in Readers : Seen(k) = Abstract!Pending
  BY SeenCases DEF Init, NoDownload
<1>3. db.versions = [t \in Tuples |-> NoDigest]
  BY DEF Init, MetaInit, EmptyTables
<1>4. QED
  BY <1>1, <1>2, <1>3 DEF Abstract!RegistryInit

\* Every step of the registry maps to a step of the map or to nothing.
LEMMA NextRefines ==
  ASSUME Inv, [Next]_vars
  PROVE  AbstractStep
<1>1. ASSUME NEW r \in Callers, PublishStep(r) \/ ClientStep(r)
      PROVE  AbstractStep
  <2>1. CASE StartPut(r) \/ PutRuns(r) \/ StartCommit(r)
    BY <2>1, StoreCallRefines
  <2>2. CASE CommitRuns(r)
    BY <2>2, CommitRunsRefines
  <2>3. CASE ServiceStep(r)
    BY <2>3, ServiceStepRefines
  <2>4. QED
    BY <1>1, <2>1, <2>2, <2>3 DEF PublishStep, ServiceStep
<1>2. CASE \E k \in Readers : DownloadStep(k) \/ \E t \in Tuples : Ask(k, t)
  BY <1>2, DownloadRefines
<1>3. CASE Crash
  BY <1>3, CrashRefines
<1>4. CASE Restart \/ RestartSweepFails \/ UNCHANGED vars
  <2>1. UNCHANGED <<db, call, pc, answer, dl>>
    BY <1>4 DEF Restart, RestartSweepFails, storeVars, vars, metaVars, srvVars
  <2>2. QED
    BY <2>1, Unseen
<1>5. QED
  BY <1>1, <1>2, <1>3, <1>4 DEF Next

\* The registry is a write-once map on which every publish and every download
\* takes effect at one instant, whatever fails and whenever the process dies.
THEOREM RegistryIsLinearizable == Spec => IsLinearizable
<1>1. Inv /\ [Next]_vars => [Abstract!RegistryNext]_(Abstract!regVars)
  BY NextRefines DEF AbstractStep
<1>2. QED
  BY <1>1, InitRefines, Invariance, PTL DEF Spec, IsLinearizable, Abstract!RegistrySpec
=============================================================================
