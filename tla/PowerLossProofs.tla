--------------------------- MODULE PowerLossProofs ---------------------------
(***************************************************************************)
(* What a power cut can take, for any number of requests, packages, versions  *)
(* and archives, and any number of cuts.                                       *)
(*                                                                            *)
(* RegistryProofs' invariant does not survive a cut: rows may lose their bytes *)
(* and a 201 its row.  What does survive is each store's own invariant, with    *)
(* the tables of every commit that a cut may go back to, and what the requests  *)
(* that began since the last cut know of each other.                            *)
(***************************************************************************)
EXTENDS PowerLoss, RegistryProofs

\* As RequestsInv, but a publish from before the cut knows nothing any more.
PipelineInv ==
    \A r \in Callers :
        /\ pc[r] \in InPipeline => req[r].tuple \in Tuples /\ req[r].digest \in Digests
        /\ pc[r] \in {"inspect", "rewind"} => upload[r] = req[r].digest
        /\ put[r].step # "idle" =>
              /\ put[r].digest = req[r].digest
              /\ pc[r] \in {"put", "commit", "cleanup", "reply", "done"}
        /\ call[r].step # "idle" =>
              /\ call[r].tuple = req[r].tuple
              /\ call[r].digest = req[r].digest
              /\ pc[r] \in {"commit", "cleanup", "reply", "done", "lost"}
        /\ r \notin before /\ answer[r] \in {"created", "conflict"} => call[r].step = answer[r]
        /\ pc[r] \in (InPipeline \ {"cleanup"}) \cup {"idle"} => answer[r] = "none"
        /\ r \in before => pc[r] \in Over
        /\ ~up => pc[r] \in {"idle", "done", "lost"}

\* A call was made for an archive that is in the blob store, and no cut has been since.
CallsHaveBytes ==
    \A r \in Callers : call[r].step # "idle" => object[call[r].digest] = call[r].digest

\* Each row of these tables is one that a publish asked for.
AskedFor(tables) ==
    \A t \in Tuples : tables.versions[t] # NoDigest =>
        \E r \in Callers : pc[r] # "idle" /\ req[r].tuple = t /\ req[r].digest = tables.versions[t]

Agree(tables) ==
    LET live == {t \in Tuples : tables.versions[t] # NoDigest} IN
    /\ tables.packages = {t[1] : t \in live}
    /\ tables.blobs = {tables.versions[t] : t \in live}

\* What a cut may go back to is sound too.
RecentInv ==
    /\ db \in recent
    /\ \A tables \in recent : tables \in Tables /\ Agree(tables) /\ AskedFor(tables)

\* The bytes of every object are on disk, because Put syncs them before its rename.
DiskInv ==
    /\ linked \subseteq Digests /\ flushed \subseteq Digests /\ before \subseteq Callers
    /\ \A d \in Digests : object[d] # Absent => d \in flushed

DownloadsTyped ==
    \A k \in Readers :
        /\ dl[k].step \in {"package", "version"} => dl[k].tuple \in Tuples
        /\ dl[k].step = "open" => dl[k].pinned \in Digests

PowerInv ==
    /\ BlobInv
    /\ MetaInv
    /\ SrvTypeOK
    /\ PipelineInv
    /\ CallsHaveBytes
    /\ OnlyACutTakesBytes
    /\ RecentInv
    /\ DiskInv
    /\ DownloadsTyped

-----------------------------------------------------------------------------
\* An empty machine satisfies the invariant.
LEMMA PowerInitInv == PowerInit => PowerInv
<1> SUFFICES ASSUME PowerInit PROVE PowerInv
  OBVIOUS
<1>1. Inv
  BY InitInv DEF PowerInit
<1>2. /\ \A r \in Callers : pc[r] = "idle" /\ answer[r] = "none" /\ call[r].step = "idle" /\ put[r].step = "idle"
      /\ object = [d \in Digests |-> Absent] /\ db = EmptyTables /\ up = TRUE
      /\ \A k \in Readers : dl[k].step = "idle"
  BY DEF PowerInit, Init, BlobInit, MetaInit, NoPut, NoCall, NoDownload
<1>3. PipelineInv
  BY <1>2 DEF PowerInit, PipelineInv, InPipeline
<1>4. CallsHaveBytes /\ DownloadsTyped
  BY <1>2 DEF CallsHaveBytes, DownloadsTyped
<1>5. OnlyACutTakesBytes
  BY <1>2 DEF OnlyACutTakesBytes, RowOf, EmptyTables
<1>6. RecentInv
  <2>1. EmptyTables \in Tables /\ AskedFor(EmptyTables)
    BY DEF EmptyTables, Tables, AskedFor
  <2>2. Agree(EmptyTables)
    BY DEF EmptyTables, Agree
  <2>3. QED
    BY <1>2, <2>1, <2>2 DEF PowerInit, RecentInv
<1>7. DiskInv
  BY <1>2 DEF PowerInit, DiskInv
<1>8. QED
  BY <1>1, <1>3, <1>4, <1>5, <1>6, <1>7 DEF PowerInv, Inv

-----------------------------------------------------------------------------
\* A publish that has begun keeps its request.
RequestsStay == \A q \in Callers : pc[q] # "idle" => pc'[q] # "idle" /\ req'[q] = req[q]

\* What was asked for stays so.
LEMMA AskedForStays ==
  ASSUME NEW tables, AskedFor(tables), RequestsStay
  PROVE  AskedFor(tables)'
  BY DEF AskedFor, RequestsStay

\* The disk has the bytes of whatever was renamed.
LEMMA TrackFlushes ==
  ASSUME Track
  PROVE  flushed' = flushed \cup {put[c].digest : c \in {e \in Callers : Renames(e)}}
  BY DEF Track, Renames, Synced

\* A step that adds no object and no row leaves what the disk has to do as it is.
LEMMA QuietTrackInv ==
  ASSUME PowerInv, Track, RequestsStay, object' = object, db' = db
  PROVE  OnlyACutTakesBytes' /\ RecentInv' /\ DiskInv'
<1>1. before' = before /\ linked' = linked /\ recent' = recent
  BY DEF Track, PowerInv, RecentInv
<1>2. OnlyACutTakesBytes'
  BY <1>1 DEF PowerInv, OnlyACutTakesBytes, RowOf, RequestsStay, PipelineInv, Over, DiskInv
<1>3. RecentInv'
  BY <1>1, AskedForStays DEF PowerInv, RecentInv, Agree
<1>4. flushed' \subseteq Digests
  BY TrackFlushes DEF PowerInv, DiskInv, BlobInv, PutsAreHonest, Renames
<1>5. DiskInv'
  BY <1>1, <1>4, TrackFlushes DEF PowerInv, DiskInv
<1>6. QED
  BY <1>2, <1>3, <1>5

\* The steps of a publish that call neither store.
LEMMA ServicePowerInv ==
  ASSUME PowerInv, Track, NEW r \in Callers, ServiceStep(r)
  PROVE  PowerInv'
<1> USE DEF At, To, Tell
<1>1. UNCHANGED <<blobVars, metaVars, up, dl>> /\ before' = before
  BY ServiceStepFrame DEF Track
<1>2. BlobInv' /\ MetaInv'
  BY <1>1, BlobStutterInv, MetaStutterInv DEF PowerInv
<1>3. CallsHaveBytes' /\ DownloadsTyped'
  BY <1>1 DEF PowerInv, CallsHaveBytes, DownloadsTyped, blobVars, metaVars
<1>4. SrvTypeOK /\ PipelineInv
  BY DEF PowerInv
<1>5. OnlyACutTakesBytes' /\ RecentInv' /\ DiskInv'
  <2>1. RequestsStay
    BY <1>4 DEF RequestsStay, SrvTypeOK,
         ServiceStep, ClientStep, Refuse, Accept, Receive, ReceiveFails, Ingest,
         IngestFails, InspectCorrupt, InspectUnreadable, InspectRejected, InspectAccepted,
         InspectPanics, RewindFails, PutFailed, CommitReturns, Cleanup, Reply
  <2>2. QED
    BY <1>1, <2>1, QuietTrackInv DEF blobVars, metaVars
<1>6. CASE Refuse(r)
  <2> USE <1>6 DEF Refuse
  <2>1. SrvTypeOK'
    BY <1>1, <1>4 DEF SrvTypeOK, PublishSteps, Answers, Request, Bytes, AfterInspection
  <2>2. PipelineInv'
    BY <1>1, <1>4 DEF PipelineInv, SrvTypeOK, InPipeline, Over, blobVars, metaVars
  <2>3. QED
    BY <1>2, <1>3, <1>5, <2>1, <2>2 DEF PowerInv
<1>7. CASE \E t \in Tuples, d \in Digests, f \in Formats : Accept(r, t, d, f)
  <2> PICK t \in Tuples, d \in Digests, f \in Formats : Accept(r, t, d, f)
    BY <1>7
  <2> USE DEF Accept
  <2>1. SrvTypeOK'
    BY <1>1, <1>4 DEF SrvTypeOK, PublishSteps, Answers, Request, Bytes, AfterInspection
  <2>2. PipelineInv'
    BY <1>1, <1>4 DEF PipelineInv, SrvTypeOK, InPipeline, Over, blobVars, metaVars
  <2>3. QED
    BY <1>2, <1>3, <1>5, <2>1, <2>2 DEF PowerInv
<1>8. CASE Receive(r)
  <2> USE <1>8 DEF Receive
  <2>1. SrvTypeOK'
    BY <1>1, <1>4 DEF SrvTypeOK, PublishSteps, Answers, Request, Bytes, AfterInspection, InPipeline, PipelineInv
  <2>2. PipelineInv'
    BY <1>1, <1>4 DEF PipelineInv, SrvTypeOK, InPipeline, Over, blobVars, metaVars
  <2>3. QED
    BY <1>2, <1>3, <1>5, <2>1, <2>2 DEF PowerInv
<1>9. CASE ReceiveFails(r)
  <2> USE <1>9 DEF ReceiveFails, RemoveUpload
  <2>1. SrvTypeOK'
    BY <1>1, <1>4 DEF SrvTypeOK, PublishSteps, Answers, Request, Bytes, AfterInspection
  <2>2. PipelineInv'
    BY <1>1, <1>4 DEF PipelineInv, SrvTypeOK, InPipeline, Over, blobVars, metaVars
  <2>3. QED
    BY <1>2, <1>3, <1>5, <2>1, <2>2 DEF PowerInv
<1>10. CASE Ingest(r)
  <2> USE <1>10 DEF Ingest
  <2>1. SrvTypeOK'
    BY <1>1, <1>4 DEF SrvTypeOK, PublishSteps, Answers, Request, Bytes, AfterInspection
  <2>2. PipelineInv'
    BY <1>1, <1>4 DEF PipelineInv, SrvTypeOK, InPipeline, Over, blobVars, metaVars
  <2>3. QED
    BY <1>2, <1>3, <1>5, <2>1, <2>2 DEF PowerInv
<1>11. CASE IngestFails(r)
  <2> USE <1>11 DEF IngestFails
  <2>1. SrvTypeOK'
    BY <1>1, <1>4 DEF SrvTypeOK, PublishSteps, Answers, Request, Bytes, AfterInspection
  <2>2. PipelineInv'
    BY <1>1, <1>4 DEF PipelineInv, SrvTypeOK, InPipeline, Over, blobVars, metaVars
  <2>3. QED
    BY <1>2, <1>3, <1>5, <2>1, <2>2 DEF PowerInv
<1>12. CASE InspectCorrupt(r)
  <2> USE <1>12 DEF InspectCorrupt, RemoveUpload
  <2>1. SrvTypeOK'
    BY <1>1, <1>4 DEF SrvTypeOK, PublishSteps, Answers, Request, Bytes, AfterInspection
  <2>2. PipelineInv'
    BY <1>1, <1>4 DEF PipelineInv, SrvTypeOK, InPipeline, Over, blobVars, metaVars
  <2>3. QED
    BY <1>2, <1>3, <1>5, <2>1, <2>2 DEF PowerInv
<1>13. CASE InspectUnreadable(r)
  <2> USE <1>13 DEF InspectUnreadable, RemoveUpload
  <2>1. SrvTypeOK'
    BY <1>1, <1>4 DEF SrvTypeOK, PublishSteps, Answers, Request, Bytes, AfterInspection
  <2>2. PipelineInv'
    BY <1>1, <1>4 DEF PipelineInv, SrvTypeOK, InPipeline, Over, blobVars, metaVars
  <2>3. QED
    BY <1>2, <1>3, <1>5, <2>1, <2>2 DEF PowerInv
<1>14. CASE InspectRejected(r)
  <2> USE <1>14 DEF InspectRejected
  <2>1. SrvTypeOK'
    BY <1>1, <1>4 DEF SrvTypeOK, PublishSteps, Answers, Request, Bytes, AfterInspection
  <2>2. PipelineInv'
    BY <1>1, <1>4 DEF PipelineInv, SrvTypeOK, InPipeline, Over, blobVars, metaVars
  <2>3. QED
    BY <1>2, <1>3, <1>5, <2>1, <2>2 DEF PowerInv
<1>15. CASE InspectAccepted(r)
  <2> USE <1>15 DEF InspectAccepted
  <2>1. SrvTypeOK'
    BY <1>1, <1>4 DEF SrvTypeOK, PublishSteps, Answers, Request, Bytes, AfterInspection
  <2>2. PipelineInv'
    BY <1>1, <1>4 DEF PipelineInv, SrvTypeOK, InPipeline, Over, blobVars, metaVars
  <2>3. QED
    BY <1>2, <1>3, <1>5, <2>1, <2>2 DEF PowerInv
<1>16. CASE InspectPanics(r)
  <2> USE <1>16 DEF InspectPanics
  <2>1. SrvTypeOK'
    BY <1>1, <1>4 DEF SrvTypeOK, PublishSteps, Answers, Request, Bytes, AfterInspection
  <2>2. PipelineInv'
    BY <1>1, <1>4 DEF PipelineInv, SrvTypeOK, InPipeline, Over, blobVars, metaVars
  <2>3. QED
    BY <1>2, <1>3, <1>5, <2>1, <2>2 DEF PowerInv
<1>17. CASE RewindFails(r)
  <2> USE <1>17 DEF RewindFails
  <2>1. SrvTypeOK'
    BY <1>1, <1>4 DEF SrvTypeOK, PublishSteps, Answers, Request, Bytes, AfterInspection
  <2>2. PipelineInv'
    BY <1>1, <1>4 DEF PipelineInv, SrvTypeOK, InPipeline, Over, blobVars, metaVars
  <2>3. QED
    BY <1>2, <1>3, <1>5, <2>1, <2>2 DEF PowerInv
<1>18. CASE PutFailed(r)
  <2> USE <1>18 DEF PutFailed
  <2>1. SrvTypeOK'
    BY <1>1, <1>4 DEF SrvTypeOK, PublishSteps, Answers, Request, Bytes, AfterInspection
  <2>2. PipelineInv'
    BY <1>1, <1>4 DEF PipelineInv, SrvTypeOK, InPipeline, Over, blobVars, metaVars
  <2>3. QED
    BY <1>2, <1>3, <1>5, <2>1, <2>2 DEF PowerInv
<1>19. CASE CommitReturns(r)
  <2> USE <1>19 DEF CommitReturns
  <2>1. SrvTypeOK'
    BY <1>1, <1>4 DEF SrvTypeOK, PublishSteps, Answers, Request, Bytes, AfterInspection, Results
  <2>2. PipelineInv'
    BY <1>1, <1>4 DEF PipelineInv, SrvTypeOK, InPipeline, Over, blobVars, metaVars, Results
  <2>3. QED
    BY <1>2, <1>3, <1>5, <2>1, <2>2 DEF PowerInv
<1>20. CASE Cleanup(r)
  <2> USE <1>20 DEF Cleanup, RemoveUpload
  <2>1. SrvTypeOK'
    BY <1>1, <1>4 DEF SrvTypeOK, PublishSteps, Answers, Request, Bytes, AfterInspection
  <2>2. PipelineInv'
    BY <1>1, <1>4 DEF PipelineInv, SrvTypeOK, InPipeline, Over, blobVars, metaVars
  <2>3. QED
    BY <1>2, <1>3, <1>5, <2>1, <2>2 DEF PowerInv
<1>21. CASE Reply(r)
  <2> USE <1>21 DEF Reply
  <2>1. SrvTypeOK'
    BY <1>1, <1>4 DEF SrvTypeOK, PublishSteps, Answers, Request, Bytes, AfterInspection
  <2>2. PipelineInv'
    BY <1>1, <1>4 DEF PipelineInv, SrvTypeOK, InPipeline, Over, blobVars, metaVars
  <2>3. QED
    BY <1>2, <1>3, <1>5, <2>1, <2>2 DEF PowerInv
<1>22. QED
  BY <1>6, <1>7, <1>8, <1>9, <1>10, <1>11, <1>12, <1>13, <1>14, <1>15, <1>16, <1>17, <1>18, <1>19, <1>20, <1>21, ServiceStep(r)
     DEF ServiceStep, ClientStep

\* Put is handed the bytes its digest was computed from.
LEMMA StartPutPowerInv ==
  ASSUME PowerInv, Track, NEW r \in Callers, StartPut(r)
  PROVE  PowerInv'
<1> USE DEF StartPut, At, To
<1>1. /\ SrvTypeOK /\ PipelineInv /\ BlobTypeOK
      /\ pc[r] = "rewind" /\ req[r].digest \in Digests /\ upload[r] = req[r].digest
      /\ UNCHANGED <<metaVars, up, dl, object, req, upload, unremoved, answer, before>>
  BY DEF PowerInv, PipelineInv, InPipeline, CallPut, BlobInv, Track
<1>2. CallPut(r, req[r].digest, req[r].digest)
  BY <1>1 DEF ReadFrom, Rewound
<1>3. BlobInv' /\ MetaInv'
  BY <1>1, <1>2, CallPutInv, MetaStutterInv DEF PowerInv
<1>4. CallsHaveBytes' /\ DownloadsTyped'
  BY <1>1 DEF PowerInv, CallsHaveBytes, DownloadsTyped, metaVars
<1>5. SrvTypeOK'
  BY <1>1 DEF SrvTypeOK, PublishSteps, Rewound
<1>6. PipelineInv'
  BY <1>1, <1>2 DEF PipelineInv, SrvTypeOK, BlobTypeOK, CallPut, InPipeline, Over, metaVars
<1>7. RequestsStay
  BY <1>1 DEF RequestsStay, SrvTypeOK
<1>8. OnlyACutTakesBytes' /\ RecentInv' /\ DiskInv'
  BY <1>1, <1>7, QuietTrackInv DEF metaVars
<1>9. QED
  BY <1>3, <1>4, <1>5, <1>6, <1>8 DEF PowerInv

\* A system call of Put can only add its object, and adds it with its bytes synced.
LEMMA PutRunsPowerInv ==
  ASSUME PowerInv, Track, NEW r \in Callers, PutRuns(r)
  PROVE  PowerInv'
<1> USE DEF PutRuns, At
<1>1. /\ SrvTypeOK /\ PipelineInv /\ BlobTypeOK /\ BlobInv
      /\ pc[r] = "put" /\ PutStep(r) /\ UNCHANGED <<metaVars, up, srvVars, dl>>
      /\ before' = before /\ linked' = linked /\ recent' = recent
  BY DEF PowerInv, BlobInv, Track, RecentInv, metaVars
<1>2. /\ BlobInv' /\ MetaInv'
      /\ \A d \in Digests : object[d] # Absent => object'[d] = object[d]
  BY <1>1, PutStepInv, MetaStutterInv DEF PowerInv
<1>3. /\ \A q \in Callers \ {r} : put'[q] = put[q]
      /\ put[r].step # "idle" /\ put'[r].digest = put[r].digest
      /\ \A d \in Digests : object'[d] # object[d] => d = put[r].digest /\ Renames(r)
  BY <1>1 DEF PutStep, PutPresent, PutCreate, PutCopy, PutRename, PutFail, BlobTypeOK, PutFrame,
     Renames
<1>4. CallsHaveBytes'
  BY <1>1, <1>2, BlobConstants DEF PowerInv, MetaInv, CallsAreTyped, CallsHaveBytes, metaVars
<1>5. OnlyACutTakesBytes'
  <2> SUFFICES ASSUME NEW t \in Tuples, RowOf(t) # NoDigest
               PROVE  \/ object'[RowOf(t)] = RowOf(t)
                      \/ /\ object'[RowOf(t)] = Absent
                         /\ \E q \in before : req[q].tuple = t /\ req[q].digest = RowOf(t)
    BY <1>1 DEF OnlyACutTakesBytes, RowOf, metaVars, srvVars
  <2>1. RowOf(t) \in Digests
    BY DEF PowerInv, MetaInv, MetaTypeOK, Tables, RowOf
  <2>2. object'[RowOf(t)] \in {RowOf(t), Absent}
    BY <1>2, <2>1 DEF BlobInv, ContentAddressed
  <2>3. QED
    BY <1>2, <2>1, <2>2, BlobConstants DEF PowerInv, OnlyACutTakesBytes
<1>6. RecentInv'
  BY <1>1 DEF PowerInv, RecentInv, AskedFor, Agree, metaVars, srvVars
<1>7. DiskInv'
  <2>1. flushed' \subseteq Digests
    BY TrackFlushes DEF PowerInv, DiskInv, BlobInv, PutsAreHonest, Renames
  <2>2. \A d \in Digests : object'[d] # Absent => d \in flushed'
    BY <1>3, TrackFlushes DEF PowerInv, DiskInv
  <2>3. QED
    BY <1>1, <2>1, <2>2 DEF PowerInv, DiskInv
<1>8. SrvTypeOK' /\ DownloadsTyped'
  BY <1>1 DEF PowerInv, SrvTypeOK, DownloadsTyped, srvVars
<1>9. PipelineInv'
  BY <1>1, <1>3 DEF PipelineInv, srvVars, metaVars
<1>10. QED
  BY <1>2, <1>4, <1>5, <1>6, <1>7, <1>8, <1>9 DEF PowerInv

\* The transaction is asked for only once the object is in place.
LEMMA StartCommitPowerInv ==
  ASSUME PowerInv, Track, NEW r \in Callers, StartCommit(r)
  PROVE  PowerInv'
<1> USE DEF StartCommit, At, To
<1>1. /\ SrvTypeOK /\ PipelineInv /\ MetaTypeOK
      /\ pc[r] = "put" /\ put[r].step = "stored"
      /\ CallCreate(r, req[r].tuple, req[r].digest)
      /\ req[r].tuple \in Tuples /\ req[r].digest \in Digests
      /\ UNCHANGED <<blobVars, up, dl, req, upload, unremoved, offset, answer, db, before>>
  BY DEF PowerInv, PipelineInv, InPipeline, CallCreate, MetaInv, Track
<1>2. BlobInv' /\ MetaInv'
  BY <1>1, CallCreateInv, BlobStutterInv DEF PowerInv
<1>3. object[req[r].digest] = req[r].digest
  BY <1>1 DEF PowerInv, BlobInv, StoredMeansPresent, PipelineInv
<1>4. CallsHaveBytes'
  BY <1>1, <1>3 DEF PowerInv, CallsHaveBytes, CallCreate, MetaTypeOK, blobVars
<1>5. SrvTypeOK' /\ DownloadsTyped'
  BY <1>1 DEF PowerInv, SrvTypeOK, PublishSteps, DownloadsTyped
<1>6. PipelineInv'
  BY <1>1 DEF PipelineInv, CallCreate, SrvTypeOK, MetaTypeOK, InPipeline, Over, blobVars
<1>7. RequestsStay
  BY <1>1 DEF RequestsStay, SrvTypeOK
<1>8. OnlyACutTakesBytes' /\ RecentInv' /\ DiskInv'
  BY <1>1, <1>7, QuietTrackInv DEF blobVars
<1>9. QED
  BY <1>2, <1>4, <1>5, <1>6, <1>8 DEF PowerInv

\* A statement of the transaction publishes a row only when its object is there, and
\* what it commits is one more state that a cut may go back to.
LEMMA CommitRunsPowerInv ==
  ASSUME PowerInv, Track, NEW r \in Callers, CommitRuns(r)
  PROVE  PowerInv'
<1> USE DEF CommitRuns, At
<1>1. /\ SrvTypeOK /\ PipelineInv /\ MetaInv /\ CallsHaveBytes
      /\ pc[r] = "commit" /\ (CreateStep(r) \/ CreateFails(r))
      /\ UNCHANGED <<blobVars, up, srvVars, dl, before, linked>>
  BY DEF PowerInv, Track
<1>2. BlobInv' /\ MetaInv' /\ RowsStay
  BY <1>1, BlobStutterInv, MetaStepInv DEF PowerInv
<1>3. /\ \A q \in Callers \ {r} : call'[q] = call[q]
      /\ call'[r].tuple = call[r].tuple /\ call'[r].digest = call[r].digest
      /\ call[r].step \notin Results \cup {"idle"}
  <2> USE <1>1 DEF MetaInv, MetaTypeOK, CallFrame, TxSteps, Results, Goto
  <2>1. CASE BeginTx(r) \/ UpsertPackage(r) \/ RecordBlob(r) \/ RecordVersion(r)
    BY <2>1 DEF BeginTx, UpsertPackage, RecordBlob, RecordVersion
  <2>2. CASE RecordConflict(r) \/ Commit(r) \/ ConflictPackage(r) \/ ConflictVersion(r)
    BY <2>2 DEF RecordConflict, Commit, ConflictPackage, ConflictVersion
  <2>3. CASE CreateFails(r)
    BY <2>3 DEF CreateFails, BeginFail, TxFail, ConflictReadFails
  <2>4. QED
    BY <2>1, <2>2, <2>3 DEF CreateStep
<1>4. CallsHaveBytes'
  BY <1>1, <1>3 DEF CallsHaveBytes, blobVars
<1>5. SrvTypeOK' /\ DownloadsTyped'
  BY <1>1 DEF PowerInv, SrvTypeOK, DownloadsTyped, srvVars
<1>6. PipelineInv'
  <2>1. answer[r] = "none" /\ r \notin before
    BY <1>1 DEF PipelineInv, InPipeline, Over
  <2>2. QED
    BY <1>1, <1>3, <2>1 DEF PipelineInv, srvVars, blobVars
<1>7. RequestsStay
  BY <1>1 DEF RequestsStay, srvVars
<1>8. CASE QuietStep(r)
  <2>1. db' = db /\ object' = object
    BY <1>1, <1>8, QuietStepInv DEF blobVars
  <2>2. OnlyACutTakesBytes' /\ RecentInv' /\ DiskInv'
    BY <1>7, <2>1, QuietTrackInv
  <2>3. QED
    BY <1>2, <1>4, <1>5, <1>6, <2>2 DEF PowerInv
<1>9. CASE Commit(r)
  <2>1. /\ db'.versions = [db.versions EXCEPT ![call[r].tuple] = call[r].digest]
        /\ db.versions \in [Tuples -> Digests \cup {NoDigest}]
        /\ call[r].tuple \in Tuples
        /\ call[r].tuple = req[r].tuple /\ call[r].digest = req[r].digest
        /\ object[call[r].digest] = call[r].digest
    BY <1>1, <1>3, <1>9, CommitAddsOneRow DEF MetaInv, MetaTypeOK, Tables, PipelineInv, CallsHaveBytes
  <2>2. OnlyACutTakesBytes'
    BY <1>1, <2>1 DEF PowerInv, OnlyACutTakesBytes, RowOf, blobVars, srvVars
  <2>3. AskedFor(db)'
    <3>1. AskedFor(db)
      BY DEF PowerInv, RecentInv
    <3>2. QED
      BY <1>1, <2>1, <3>1 DEF AskedFor, srvVars
  <2>4. db' \in Tables /\ Agree(db)'
    BY <1>2 DEF MetaInv, MetaTypeOK, TablesAgree, Agree
  <2>5. RecentInv'
    <3>1. recent' = recent \cup {db'}
      BY DEF Track
    <3>2. \A tables \in recent : tables \in Tables /\ Agree(tables)' /\ AskedFor(tables)'
      BY <1>7, AskedForStays DEF PowerInv, RecentInv, Agree
    <3>3. QED
      BY <2>3, <2>4, <3>1, <3>2 DEF RecentInv, Agree, AskedFor
  <2>6. DiskInv'
    <3>1. flushed' \subseteq Digests /\ flushed \subseteq flushed'
      BY TrackFlushes DEF PowerInv, DiskInv, BlobInv, PutsAreHonest, Renames
    <3>2. QED
      BY <1>1, <3>1 DEF PowerInv, DiskInv, blobVars
  <2>7. QED
    BY <1>2, <1>4, <1>5, <1>6, <2>2, <2>5, <2>6 DEF PowerInv
<1>10. QED
  BY <1>1, <1>8, <1>9 DEF CreateStep, QuietStep

-----------------------------------------------------------------------------
\* A download changes nothing but its own frame.
LEMMA DownloadPowerInv ==
  ASSUME PowerInv, Track, NEW k \in Readers, DownloadStep(k) \/ \E t \in Tuples : Ask(k, t)
  PROVE  PowerInv'
<1>1. UNCHANGED <<blobVars, metaVars, up, srvVars, before>>
  BY DEF DownloadStep, FindPackage, FindVersion, OpenBlob, DownloadFails, Ask, storeVars, Track
<1>2. BlobInv' /\ MetaInv'
  BY <1>1, BlobStutterInv, MetaStutterInv DEF PowerInv
<1>3. CallsHaveBytes' /\ PipelineInv'
  BY <1>1 DEF PowerInv, CallsHaveBytes, PipelineInv, blobVars, metaVars, srvVars
<1>4. RequestsStay
  BY <1>1 DEF RequestsStay, srvVars
<1>5. OnlyACutTakesBytes' /\ RecentInv' /\ DiskInv'
  BY <1>1, <1>4, QuietTrackInv DEF blobVars, metaVars
<1>6. /\ dl \in [Readers -> DownloadFrame] /\ DownloadsTyped
      /\ db.versions \in [Tuples -> Digests \cup {NoDigest}]
      /\ object \in [Digests -> Bytes \cup {Absent}]
  BY DEF PowerInv, SrvTypeOK, MetaInv, MetaTypeOK, Tables, BlobInv, BlobTypeOK
<1>7. dl' \in [Readers -> DownloadFrame] /\ DownloadsTyped'
  <2> USE DEF DownloadFrame, DownloadSteps
  <2>1. ASSUME NEW t \in Tuples, Ask(k, t) PROVE dl' \in [Readers -> DownloadFrame] /\ DownloadsTyped'
    <3>1. dl' = [dl EXCEPT ![k] = [dl[k] EXCEPT !.step = "package", !.tuple = t]]
      BY <2>1 DEF Ask
    <3>2. [dl[k] EXCEPT !.step = "package", !.tuple = t] \in DownloadFrame
      BY <1>6
    <3>3. QED
      BY <1>6, <3>1, <3>2 DEF DownloadsTyped
  <2>2. CASE FindPackage(k)
    BY <1>6, <2>2 DEF FindPackage, DownloadsTyped
  <2>3. CASE FindVersion(k)
    <3>1. RowOf(dl[k].tuple) \in Digests \cup {NoDigest}
      BY <1>6, <2>3 DEF FindVersion, DownloadsTyped, RowOf
    <3>2. dl' = [dl EXCEPT ![k] = [dl[k] EXCEPT
                   !.pinned = RowOf(dl[k].tuple),
                   !.step = IF RowOf(dl[k].tuple) = NoDigest THEN "done" ELSE "open"]]
      BY <2>3 DEF FindVersion
    <3>3. [dl[k] EXCEPT !.pinned = RowOf(dl[k].tuple),
                        !.step = IF RowOf(dl[k].tuple) = NoDigest THEN "done" ELSE "open"]
            \in DownloadFrame
      BY <1>6, <3>1
    <3>4. QED
      BY <1>6, <3>1, <3>2, <3>3 DEF DownloadsTyped
  <2>4. CASE OpenBlob(k)
    <3>1. object[dl[k].pinned] \in Bytes \cup {Absent}
      BY <1>6, <2>4 DEF OpenBlob, DownloadsTyped
    <3>2. dl' = [dl EXCEPT ![k] = [dl[k] EXCEPT !.step = "done", !.served = object[dl[k].pinned]]]
      BY <2>4 DEF OpenBlob
    <3>3. QED
      BY <1>6, <3>1, <3>2 DEF DownloadsTyped
  <2>5. CASE DownloadFails(k)
    BY <1>6, <2>5 DEF DownloadFails, DownloadsTyped
  <2>6. QED
    BY <2>1, <2>2, <2>3, <2>4, <2>5 DEF DownloadStep
<1>8. SrvTypeOK'
  BY <1>1, <1>7 DEF PowerInv, SrvTypeOK, srvVars
<1>9. QED
  BY <1>2, <1>3, <1>5, <1>7, <1>8 DEF PowerInv

-----------------------------------------------------------------------------
\* What the end of the process and a cut both do to the requests.
LEMMA DeadRequests ==
  ASSUME SrvTypeOK, UNCHANGED <<req, upload, unremoved, offset, answer>>, up' = FALSE,
         pc' = [r \in Callers |-> IF pc[r] \in {"idle", "done"} THEN pc[r] ELSE "lost"],
         dl' = [k \in Readers |->
                  IF dl[k].step \in {"idle", "done"} THEN dl[k] ELSE [dl[k] EXCEPT !.step = "lost"]]
  PROVE  /\ SrvTypeOK' /\ DownloadsTyped' /\ RequestsStay
         /\ \A r \in Callers : pc'[r] \in {"idle", "done", "lost"}
                                  /\ (pc'[r] = "idle" <=> pc[r] = "idle")
<1>1. SrvTypeOK'
  BY DEF SrvTypeOK, PublishSteps, DownloadFrame, DownloadSteps
<1>2. \A k \in Readers : dl'[k].step \in {"idle", "done", "lost"}
  BY DEF SrvTypeOK, DownloadFrame
<1>3. DownloadsTyped'
  BY <1>2 DEF DownloadsTyped
<1>4. QED
  BY <1>1, <1>3 DEF RequestsStay, SrvTypeOK

\* The process dies between any two steps.
LEMMA CrashPowerInv ==
  ASSUME PowerInv, Track, Crash
  PROVE  PowerInv'
<1>1. BlobInv' /\ MetaInv'
  BY BlobCrashInv, MetaCrashInv DEF PowerInv, Crash
<1>2. /\ UNCHANGED <<req, upload, answer, object, db, before>> /\ up' = FALSE
      /\ \A r \in Callers :
            /\ put'[r] = NoPut
            /\ call'[r] = IF call[r].step \in Results THEN call[r] ELSE NoCall
  BY DEF Crash, BlobCrash, MetaCrash, Track
<1>3. /\ SrvTypeOK' /\ DownloadsTyped' /\ RequestsStay
      /\ \A r \in Callers : pc'[r] \in {"idle", "done", "lost"} /\ (pc'[r] = "idle" <=> pc[r] = "idle")
  BY DeadRequests DEF PowerInv, Crash
<1>4. OnlyACutTakesBytes' /\ RecentInv' /\ DiskInv'
  BY <1>2, <1>3, QuietTrackInv
<1>5. CallsHaveBytes'
  BY <1>2 DEF PowerInv, CallsHaveBytes, NoCall
<1>6. PipelineInv'
  <2> SUFFICES ASSUME NEW r \in Callers
               PROVE  /\ call'[r].step # "idle" =>
                            /\ call'[r].tuple = req'[r].tuple
                            /\ call'[r].digest = req'[r].digest
                            /\ pc'[r] \in {"commit", "cleanup", "reply", "done", "lost"}
                      /\ r \notin before' /\ answer'[r] \in {"created", "conflict"} =>
                            call'[r].step = answer'[r]
                      /\ pc'[r] = "idle" => answer'[r] = "none"
                      /\ r \in before' => pc'[r] \in Over
    BY <1>2, <1>3 DEF PipelineInv, InPipeline, NoPut
  <2>1. PipelineInv
    BY DEF PowerInv
  <2>2. QED
    BY <1>2, <1>3, <2>1 DEF PipelineInv, InPipeline, NoCall, Results, Over
<1>7. QED
  BY <1>1, <1>3, <1>4, <1>5, <1>6 DEF PowerInv

\* The next process sweeps the upload files before it serves, as far as it can.
LEMMA RestartPowerInv ==
  ASSUME PowerInv, Track, Restart \/ RestartSweepFails
  PROVE  PowerInv'
<1>1. /\ UNCHANGED <<blobVars, metaVars, pc, req, offset, answer, dl, before>>
      /\ up' = TRUE /\ up = FALSE /\ unremoved' \subseteq Callers
      /\ upload' = [r \in Callers |-> IF r \in unremoved' THEN upload[r] ELSE Absent]
  BY DEF Restart, RestartSweepFails, storeVars, PowerInv, SrvTypeOK, Track
<1>2. BlobInv' /\ MetaInv'
  BY <1>1, BlobStutterInv, MetaStutterInv DEF PowerInv
<1>3. CallsHaveBytes' /\ DownloadsTyped' /\ SrvTypeOK'
  BY <1>1 DEF PowerInv, CallsHaveBytes, DownloadsTyped, SrvTypeOK, blobVars, metaVars
<1>4. PipelineInv'
  BY <1>1 DEF PowerInv, PipelineInv, InPipeline, blobVars, metaVars
<1>5. OnlyACutTakesBytes' /\ RecentInv' /\ DiskInv'
  BY <1>1, QuietTrackInv DEF RequestsStay, blobVars, metaVars
<1>6. QED
  BY <1>2, <1>3, <1>4, <1>5 DEF PowerInv

-----------------------------------------------------------------------------
\* Bytes that are on disk stay whole; only an entry that was never synced can go.
LEMMA WholeOrGone ==
  ASSUME BlobInv, DiskInv, NEW d \in Digests, NEW bytes \in Survivors(d)
  PROVE  /\ bytes \in {d, Absent}
         /\ d \in linked /\ object[d] # Absent => bytes = d
         /\ bytes = Absent \/ object[d] = d
<1>1. object[d] \in {d, Absent}
  BY DEF BlobInv, ContentAddressed
<1>2. bytes # Torn \/ object[d] = Torn
  BY BlobConstants DEF Survivors, DiskInv
<1>3. QED
  BY <1>1, <1>2, BlobConstants DEF Survivors, DiskInv

\* What a cut does to each object.
LEMMA CutObjects ==
  ASSUME PowerInv, PowerCut
  PROVE  /\ object' \in [Digests -> Bytes \cup {Absent}]
         /\ \A d \in Digests : /\ object'[d] \in {d, Absent}
                               /\ d \in linked /\ object[d] # Absent => object'[d] = d
<1>1. /\ object' \in [Digests -> Bytes \cup {Absent}]
      /\ \A d \in Digests : object'[d] \in Survivors(d)
  BY DEF PowerCut
<1>2. QED
  BY <1>1, WholeOrGone DEF PowerInv

\* The database is back at one of its commits, with no call in it.
LEMMA CutTables ==
  ASSUME PowerInv, PowerCut
  PROVE  MetaInv' /\ RecentInv'
<1>1. /\ db' \in recent /\ work' = db' /\ conn' = Free /\ recent' = {db'}
      /\ call' = [c \in Callers |-> NoCall]
  BY DEF PowerCut
<1>2. db' \in Tables /\ Agree(db') /\ AskedFor(db')
  BY <1>1 DEF PowerInv, RecentInv
<1>3. \A c \in Callers : call'[c] = NoCall
  BY <1>1
<1>4. MetaTypeOK'
  BY <1>1, <1>2 DEF MetaTypeOK, NoCall, CallFrame, CallSteps
<1>5. CallsAreTyped' /\ ConflictsAreReal' /\ CreatedIsTheWinner' /\ ConflictNamesWinnerOrNothing'
  BY <1>3 DEF CallsAreTyped, ConflictsAreReal, CreatedIsTheWinner, ConflictNamesWinnerOrNothing,
     NoCall
<1>6. HolderHasTheTx' /\ TxView'
  BY <1>1, <1>3, MetaConstants DEF HolderHasTheTx, TxView, TxSteps, NoCall
<1>7. TablesAgree'
  BY <1>2 DEF TablesAgree, Agree
<1>8. RequestsStay
  BY DeadRequests DEF PowerInv, PowerCut
<1>9. RecentInv'
  <2>1. AskedFor(db)'
    BY <1>2, <1>8 DEF AskedFor, RequestsStay
  <2>2. QED
    BY <1>1, <1>2, <2>1 DEF RecentInv, Agree, AskedFor
<1>10. QED
  BY <1>4, <1>5, <1>6, <1>7, <1>9 DEF MetaInv

\* The power goes between any two steps.
LEMMA PowerCutInv ==
  ASSUME PowerInv, PowerCut
  PROVE  PowerInv'
<1>1. MetaInv' /\ RecentInv'
  BY CutTables
<1>2. /\ put' = [c \in Callers |-> NoPut] /\ UNCHANGED <<req, upload, answer>> /\ up' = FALSE
      /\ call' = [c \in Callers |-> NoCall]
      /\ linked' = {d \in Digests : object'[d] # Absent} /\ flushed' = linked'
      /\ before' = {r \in Callers : pc[r] # "idle"}
  BY DEF PowerCut
<1>3. /\ SrvTypeOK' /\ DownloadsTyped' /\ RequestsStay
      /\ \A r \in Callers : pc'[r] \in {"idle", "done", "lost"} /\ (pc'[r] = "idle" <=> pc[r] = "idle")
  BY DeadRequests DEF PowerInv, PowerCut
<1>4. BlobInv'
  <2>1. orphans' \subseteq Digests
    BY BlobConstants DEF PowerCut, PowerInv, BlobInv, BlobTypeOK, PutsAreHonest, PutLeavesNoTemp,
       PutFrame, PutSteps
  <2>2. BlobTypeOK'
    BY <1>2, <2>1, CutObjects DEF BlobTypeOK, NoPut, PutFrame, PutSteps
  <2>3. (PutsAreHonest /\ PutLeavesNoTemp /\ StoredMeansPresent)'
    BY <1>2 DEF PutsAreHonest, PutLeavesNoTemp, StoredMeansPresent, NoPut
  <2>4. ContentAddressed'
    BY CutObjects DEF ContentAddressed
  <2>5. QED
    BY <2>2, <2>3, <2>4 DEF BlobInv
<1>5. CallsHaveBytes'
  BY <1>2 DEF CallsHaveBytes, NoCall
<1>6. PipelineInv'
  BY <1>2, <1>3 DEF PowerInv, PipelineInv, InPipeline, NoPut, NoCall, Over
<1>7. OnlyACutTakesBytes'
  <2> SUFFICES ASSUME NEW t \in Tuples, RowOf(t)' # NoDigest
               PROVE  \/ object'[RowOf(t)'] = RowOf(t)'
                      \/ /\ object'[RowOf(t)'] = Absent
                         /\ \E r \in before' : req'[r].tuple = t /\ req'[r].digest = RowOf(t)'
    BY DEF OnlyACutTakesBytes
  <2>1. RowOf(t)' \in Digests
    BY <1>1 DEF MetaInv, MetaTypeOK, Tables, RowOf
  <2>2. PICK r \in Callers : pc'[r] # "idle" /\ req'[r].tuple = t /\ req'[r].digest = RowOf(t)'
    BY <1>1 DEF RecentInv, AskedFor, RowOf
  <2>3. r \in before'
    BY <1>2, <1>3, <2>2
  <2>4. QED
    BY <2>1, <2>2, <2>3, CutObjects
<1>8. DiskInv'
  BY <1>2 DEF DiskInv
<1>9. QED
  BY <1>1, <1>3, <1>4, <1>5, <1>6, <1>7, <1>8 DEF PowerInv

\* The kernel and SQLite bring to the disk what is there already.
LEMMA DiskStepInv ==
  ASSUME PowerInv, (\E d \in Digests : WriteBack(d)) \/ Checkpoint \/ UNCHANGED machineVars
  PROVE  PowerInv'
<1>1. /\ UNCHANGED <<blobVars, metaVars, up, srvVars, dl, before, flushed>>
      /\ linked' \subseteq Digests /\ recent' \subseteq recent /\ db \in recent'
  BY DEF WriteBack, Checkpoint, machineVars, powerVars, vars, PowerInv, DiskInv, RecentInv
<1>2. BlobInv' /\ MetaInv'
  BY <1>1, BlobStutterInv, MetaStutterInv DEF PowerInv
<1>3. CallsHaveBytes' /\ PipelineInv' /\ SrvTypeOK' /\ DownloadsTyped' /\ OnlyACutTakesBytes'
  BY <1>1 DEF PowerInv, CallsHaveBytes, PipelineInv, SrvTypeOK, DownloadsTyped,
     OnlyACutTakesBytes, RowOf, blobVars, metaVars, srvVars
<1>4. RecentInv' /\ DiskInv'
  BY <1>1 DEF PowerInv, RecentInv, DiskInv, Agree, AskedFor, blobVars, metaVars, srvVars
<1>5. QED
  BY <1>2, <1>3, <1>4 DEF PowerInv

-----------------------------------------------------------------------------
\* Every step of the machine keeps the invariant.
LEMMA PowerNextInv == PowerInv /\ [PowerNext]_machineVars => PowerInv'
<1> SUFFICES ASSUME PowerInv, [PowerNext]_machineVars PROVE PowerInv'
  OBVIOUS
<1>1. ASSUME Track, NEW r \in Callers, PublishStep(r) \/ ClientStep(r)
      PROVE  PowerInv'
  <2>1. CASE StartPut(r)
    BY <1>1, <2>1, StartPutPowerInv
  <2>2. CASE PutRuns(r)
    BY <1>1, <2>2, PutRunsPowerInv
  <2>3. CASE StartCommit(r)
    BY <1>1, <2>3, StartCommitPowerInv
  <2>4. CASE CommitRuns(r)
    BY <1>1, <2>4, CommitRunsPowerInv
  <2>5. CASE ServiceStep(r)
    BY <1>1, <2>5, ServicePowerInv
  <2>6. QED
    BY <1>1, <2>1, <2>2, <2>3, <2>4, <2>5 DEF PublishStep, ServiceStep
<1>2. CASE Track /\ \E k \in Readers : DownloadStep(k) \/ \E t \in Tuples : Ask(k, t)
  BY <1>2, DownloadPowerInv
<1>3. CASE Track /\ Crash
  BY <1>3, CrashPowerInv
<1>4. CASE Track /\ (Restart \/ RestartSweepFails)
  BY <1>4, RestartPowerInv
<1>5. CASE (\E d \in Digests : WriteBack(d)) \/ Checkpoint \/ UNCHANGED machineVars
  BY <1>5, DiskStepInv
<1>6. CASE PowerCut
  BY <1>6, PowerCutInv
<1>7. QED
  BY <1>1, <1>2, <1>3, <1>4, <1>5, <1>6 DEF PowerNext, Next

\* The invariant holds in every reachable state, whatever dies.
LEMMA PowerInvariance == PowerSpec => []PowerInv
  BY PowerInitInv, PowerNextInv, PTL DEF PowerSpec

\* Type correctness; the tables are one of the states that a cut may go back to.
THEOREM PowerTypeCorrect == PowerSpec => []PowerTypeOK
<1>1. PowerInv => PowerTypeOK
  BY DEF PowerInv, PowerTypeOK, TypeOK, BlobInv, MetaInv, SrvTypeOK, RecentInv, DiskInv
<1>2. QED
  BY <1>1, PowerInvariance, PTL

\* fs.go:45-47 and 76-89: not even a power cut leaves a partial object at a digest path.
THEOREM PowerContentAddressed == PowerSpec => []ContentAddressed
  BY PowerInvariance, PTL DEF PowerInv, BlobInv

\* TR-07, as far as the code keeps it: a version without bytes was published before a
\* cut, and no version ever has other bytes.
THEOREM PowerOnlyACutTakesBytes == PowerSpec => []OnlyACutTakesBytes
  BY PowerInvariance, PTL DEF PowerInv

\* store.go:56-60: a 201 is worth its row and its bytes until the next cut.
THEOREM PowerOnlyACutTakesA201 == PowerSpec => []OnlyACutTakesA201
<1>1. PowerInv => OnlyACutTakesA201
  <2> SUFFICES ASSUME PowerInv, NEW r \in Callers, r \notin before, answer[r] = "created"
               PROVE  /\ RowOf(req[r].tuple) = req[r].digest
                      /\ object[req[r].digest] = req[r].digest
                      /\ \A q \in Callers : q \notin before /\ q # r /\ answer[q] = "created" =>
                            req[q].tuple # req[r].tuple
    BY DEF OnlyACutTakesA201
  <2>1. \A q \in Callers : q \notin before /\ answer[q] = "created" =>
          call[q].step = "created" /\ call[q].tuple = req[q].tuple /\ call[q].digest = req[q].digest
    BY DEF PowerInv, PipelineInv
  <2>2. QED
    BY <2>1 DEF PowerInv, MetaInv, CreatedIsTheWinner, CallsHaveBytes, RowOf
<1>2. QED
  BY <1>1, PowerInvariance, PTL

\* publish.go:124-137: a publish answered 201 or 409 since the cut has put its bytes.
THEOREM PowerRepublishRestoresBytes == PowerSpec => []RepublishRestoresBytes
<1>1. PowerInv => RepublishRestoresBytes
  BY DEF PowerInv, PipelineInv, CallsHaveBytes, RepublishRestoresBytes
<1>2. QED
  BY <1>1, PowerInvariance, PTL

\* The tables agree at every commit that a cut may go back to (store.go:207-247).
THEOREM PowerTablesAgree == PowerSpec => []TablesAgree
  BY PowerInvariance, PTL DEF PowerInv, MetaInv

-----------------------------------------------------------------------------
\* While the machine has power, rows and objects only come.
LEMMA NothingGoes ==
  ASSUME PowerInv, Next
  PROVE  RowsStay /\ \A d \in Digests : object[d] # Absent => object'[d] = object[d]
<1>1. ASSUME NEW r \in Callers, PublishStep(r) \/ ClientStep(r)
      PROVE  RowsStay /\ \A d \in Digests : object[d] # Absent => object'[d] = object[d]
  <2>1. CASE StartPut(r) \/ StartCommit(r) \/ ServiceStep(r)
    <3>1. UNCHANGED <<object, db>>
      BY <2>1, ServiceStepFrame DEF StartPut, CallPut, StartCommit, CallCreate, blobVars, metaVars
    <3>2. QED
      BY <3>1 DEF RowsStay
  <2>2. CASE PutRuns(r)
    BY <2>2, PutStepInv DEF PowerInv, PutRuns, RowsStay, metaVars
  <2>3. CASE CommitRuns(r)
    BY <2>3, MetaStepInv DEF PowerInv, CommitRuns, blobVars
  <2>4. QED
    BY <1>1, <2>1, <2>2, <2>3 DEF PublishStep, ServiceStep
<1>2. CASE \E k \in Readers : DownloadStep(k) \/ \E t \in Tuples : Ask(k, t)
  BY <1>2 DEF DownloadStep, FindPackage, FindVersion, OpenBlob, DownloadFails, Ask, storeVars,
     blobVars, metaVars, RowsStay
<1>3. CASE Crash \/ Restart \/ RestartSweepFails
  BY <1>3 DEF Crash, BlobCrash, MetaCrash, Restart, RestartSweepFails, storeVars, blobVars, metaVars, RowsStay
<1>4. QED
  BY <1>1, <1>2, <1>3 DEF Next

\* A version that a checkpoint and a write-back have covered outlives every step, cuts
\* included.
LEMMA SettledStays ==
  ASSUME PowerInv, PowerNext, NEW t \in Tuples, Settled(t)
  PROVE  RowOf(t)' = RowOf(t) /\ object'[RowOf(t)'] = RowOf(t)
<1>1. /\ RowOf(t) \in Digests /\ RowOf(t) = db.versions[t] /\ RowOf(t) # NoDigest
      /\ object[RowOf(t)] = RowOf(t) /\ RowOf(t) \in linked
      /\ \A tables \in recent : tables.versions[t] = RowOf(t)
  BY DEF Settled, PowerInv, MetaInv, MetaTypeOK, Tables, RowOf
<1>2. CASE Next
  BY <1>1, <1>2, NothingGoes, BlobConstants DEF RowsStay, RowOf
<1>3. CASE (\E d \in Digests : WriteBack(d)) \/ Checkpoint
  BY <1>1, <1>3 DEF WriteBack, Checkpoint, vars, blobVars, metaVars, RowOf
<1>4. CASE PowerCut
  <2>1. db' \in recent
    BY <1>4 DEF PowerCut
  <2>2. RowOf(t)' = RowOf(t)
    BY <1>1, <2>1 DEF RowOf
  <2>3. QED
    BY <1>1, <1>4, <2>2, CutObjects, BlobConstants
<1>5. QED
  BY <1>2, <1>3, <1>4 DEF PowerNext

\* fs.go:87-89, store.go:56-60: once the disk has a version's row and its directory
\* entry, nothing takes it or its bytes, in any number of cuts.
THEOREM PowerSettledIsForever == PowerSpec => SettledIsForever
<1>1. PowerInv /\ [PowerNext]_machineVars
        => [\A t \in Tuples : Settled(t) =>
              RowOf(t)' = RowOf(t) /\ (object[RowOf(t)])' = RowOf(t)]_machineVars
  BY SettledStays
<1>2. QED
  BY <1>1, PowerInvariance, PTL DEF PowerSpec, SettledIsForever
=============================================================================
