------------------------------ MODULE BlobStore ------------------------------
(***************************************************************************)
(* The content-addressed blob store on a local filesystem                  *)
(* (internal/store/blob/fs.go).  FS.Put is a sequence of system calls, so   *)
(* several Puts interleave, any of them can fail, and the process can die   *)
(* between two of them.                                                     *)
(*                                                                          *)
(* Torn stands for bytes that are no whole archive: an empty file, a prefix. *)
(***************************************************************************)
EXTENDS StoreCallers

CONSTANTS Absent,    \* no file at this path
          Torn       \* a file holding anything but a whole archive

ASSUME BlobConstants == /\ Absent \notin Digests
                        /\ Torn \notin Digests
                        /\ Absent # Torn

VARIABLES object,    \* <root>/sha256/ab/cd/<hex>: the bytes at each digest path
          put,       \* the frame of each caller's Put
          orphans    \* digests whose directory holds an abandoned .incoming-* file

blobVars == <<object, put, orphans>>

Bytes == Digests \cup {Torn}

PutSteps == {"idle", "stat", "copy", "rename", "stored", "failed"}

\* tmp is what Put's own .incoming-* file holds, Absent when there is none.
PutFrame == [step : PutSteps, digest : Digests \cup {Absent},
             src : Bytes \cup {Absent}, tmp : Bytes \cup {Absent}]

NoPut == [step |-> "idle", digest |-> Absent, src |-> Absent, tmp |-> Absent]

BlobInit ==
    /\ object = [d \in Digests |-> Absent]
    /\ put = [c \in Callers |-> NoPut]
    /\ orphans = {}

-----------------------------------------------------------------------------
\* A caller hands Put a digest and a reader over src.
CallPut(c, d, src) ==
    /\ put[c].step = "idle"
    /\ put' = [put EXCEPT ![c] =
                 [step |-> "stat", digest |-> d, src |-> src, tmp |-> Absent]]
    /\ UNCHANGED <<object, orphans>>

\* os.Stat finds the object: create-if-absent has nothing to do.
PutPresent(c) ==
    /\ put[c].step = "stat"
    /\ object[put[c].digest] # Absent
    /\ put' = [put EXCEPT ![c].step = "stored"]
    /\ UNCHANGED <<object, orphans>>

\* os.Stat finds nothing: CreateTemp makes an empty file beside the final path.
PutCreate(c) ==
    /\ put[c].step = "stat"
    /\ object[put[c].digest] = Absent
    /\ put' = [put EXCEPT ![c].step = "copy", ![c].tmp = Torn]
    /\ UNCHANGED <<object, orphans>>

\* io.Copy, Sync, Close and Chmod: the temp file now holds all of src.
PutCopy(c) ==
    /\ put[c].step = "copy"
    /\ put' = [put EXCEPT ![c].step = "rename", ![c].tmp = put[c].src]
    /\ UNCHANGED <<object, orphans>>

\* os.Rename commits, over whatever another Put of this digest left there since
\* the Stat.
PutRename(c) ==
    /\ put[c].step = "rename"
    /\ object' = [object EXCEPT ![put[c].digest] = put[c].tmp]
    /\ put' = [put EXCEPT ![c].step = "stored", ![c].tmp = Absent]
    /\ UNCHANGED orphans

\* Mutant: the deferred removal names the final path.
PutFailRemovesObject(c) ==
    /\ put[c].step \in {"stat", "copy", "rename"}
    /\ object' = [object EXCEPT ![put[c].digest] = Absent]
    /\ put' = [put EXCEPT ![c].step = "failed", ![c].tmp = Absent]
    /\ UNCHANGED orphans

\* Any of those calls fails: the deferred function removes the temp file.
PutFail(c) ==
    /\ put[c].step \in {"stat", "copy", "rename"}
    /\ put' = [put EXCEPT ![c].step = "failed", ![c].tmp = Absent]
    /\ UNCHANGED <<object, orphans>>

PutStep(c) ==
    PutPresent(c) \/ PutCreate(c) \/ PutCopy(c) \/ PutRename(c) \/ PutFail(c)

\* The caller takes Put's result and may call again.
PutReturn(c) ==
    /\ put[c].step \in {"stored", "failed"}
    /\ put' = [put EXCEPT ![c] = NoPut]
    /\ UNCHANGED <<object, orphans>>

\* The process dies: deferred functions do not run, the files stay.
BlobCrash ==
    /\ put' = [c \in Callers |-> NoPut]
    /\ orphans' = orphans \cup
                    {put[c].digest : c \in {e \in Callers : put[e].tmp # Absent}}
    /\ UNCHANGED object

\* The standalone specification: callers keep the port's contract, the bytes
\* they pass are those the digest was computed from.
BlobNext ==
    \/ \E c \in Callers, d \in Digests : CallPut(c, d, d)
    \/ \E c \in Callers : PutStep(c) \/ PutReturn(c)
    \/ BlobCrash

BlobSpec == BlobInit /\ [][BlobNext]_blobVars

-----------------------------------------------------------------------------
\* Every variable of the store has its type.
BlobTypeOK ==
    /\ object \in [Digests -> Bytes \cup {Absent}]
    /\ put \in [Callers -> PutFrame]
    /\ orphans \subseteq Digests

\* What fs.go:45-47 promises: a reader at a digest path sees the whole object or
\* none, whatever Puts race, fail or die half way.
ContentAddressed == \A d \in Digests : object[d] \in {Absent, d}

\* A digest path never loses or changes its bytes (TR-04), although two racing
\* Puts of one digest may both reach the rename.
ObjectsAreFinal ==
    [][\A d \in Digests : object[d] # Absent => object'[d] = object[d]]_blobVars

\* A Put that has returned, with or without an error, left no temp file behind
\* (fs.go:66-71).
PutLeavesNoTemp ==
    \A c \in Callers : put[c].step \in {"idle", "stored", "failed"} => put[c].tmp = Absent

\* A Put that reports success has its object in place, the Put that skipped the
\* write because somebody else's object was there included (fs.go:54-56).
StoredMeansPresent ==
    \A c \in Callers : put[c].step = "stored" => object[put[c].digest] = put[c].digest
=============================================================================
