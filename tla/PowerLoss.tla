------------------------------ MODULE PowerLoss ------------------------------
(***************************************************************************)
(* The registry on a machine that loses power: what a 201 is worth then.     *)
(* Registry's crash is the end of the process, which leaves files and commits *)
(* where they are; a cut leaves what has reached the disk, and perhaps more.   *)
(*                                                                            *)
(* FS.Put syncs the bytes of an object before its rename and nothing syncs the *)
(* directory after it (internal/store/blob/fs.go:76-89); SQLite runs in WAL    *)
(* mode with synchronous=NORMAL, which syncs no commit, only checkpoints       *)
(* (internal/store/sqlite/store.go:56-60).                                     *)
(***************************************************************************)
EXTENDS Registry

VARIABLES linked,   \* digests whose directory entry is on disk
          flushed,  \* digests whose object's bytes are on disk
          recent,   \* the tables at each commit since the last checkpoint, and before
          before    \* publishes that had begun when the power was last cut: history

powerVars == <<linked, flushed, recent, before>>
machineVars == <<vars, powerVars>>

PowerInit ==
    /\ Init
    /\ linked = {}
    /\ flushed = {}
    /\ recent = {EmptyTables}
    /\ before = {}

\* Mutant: no Sync before the rename.
NotSynced(c) == FALSE

\* A Put gets as far as its rename only behind tmp.Sync.
Synced(c) == put[c].step = "rename"

Renames(c) == put[c].step = "rename" /\ put'[c].step = "stored"

\* What a step of the registry leaves for the disk to do.
Track ==
    LET renamed == {c \in Callers : Renames(c)}
        DigestsOf(S) == {put[c].digest : c \in S}
    IN  /\ flushed' = (flushed \ DigestsOf(renamed))
                         \cup DigestsOf({c \in renamed : Synced(c)})
        /\ recent' = recent \cup {db'}
        /\ UNCHANGED <<linked, before>>

\* The kernel writes the directory back, some time.
WriteBack(d) ==
    /\ object[d] # Absent /\ d \notin linked
    /\ linked' = linked \cup {d}
    /\ UNCHANGED <<vars, flushed, recent, before>>

\* SQLite syncs the log and moves it into the database.
Checkpoint ==
    /\ CanQuery
    /\ recent # {db}
    /\ recent' = {db}
    /\ UNCHANGED <<vars, linked, flushed, before>>

\* What may be at a digest path once the power is back.
Survivors(d) ==
    {object[d]}
        \cup (IF d \notin linked THEN {Absent} ELSE {})
        \cup (IF object[d] # Absent /\ d \notin flushed THEN {Torn} ELSE {})

\* Some of the commits that no checkpoint covers are lost, the newest first, and any
\* temp file may stay or go.  What is read from the disk when the machine is back is on it.
PowerCut ==
    /\ up' = FALSE
    /\ pc' = [r \in Callers |-> IF pc[r] \in {"idle", "done"} THEN pc[r] ELSE "lost"]
    /\ dl' = [k \in Readers |->
                IF dl[k].step \in {"idle", "done"} THEN dl[k] ELSE [dl[k] EXCEPT !.step = "lost"]]
    /\ object' \in {o \in [Digests -> Bytes \cup {Absent}] :
                       \A d \in Digests : o[d] \in Survivors(d)}
    /\ put' = [c \in Callers |-> NoPut]
    /\ orphans' \in SUBSET (orphans \cup
                       {put[c].digest : c \in {e \in Callers : put[e].tmp # Absent}})
    /\ db' \in recent
    /\ work' = db'
    /\ conn' = Free
    /\ call' = [c \in Callers |-> NoCall]
    /\ linked' = {d \in Digests : object'[d] # Absent}
    /\ flushed' = linked'
    /\ recent' = {db'}
    /\ before' = {r \in Callers : pc[r] # "idle"}
    /\ UNCHANGED <<req, upload, unremoved, offset, answer>>

PowerNext ==
    \/ Next /\ Track
    \/ \E d \in Digests : WriteBack(d)
    \/ Checkpoint
    \/ PowerCut

PowerSpec == PowerInit /\ [][PowerNext]_machineVars

-----------------------------------------------------------------------------
\* Every variable has its type; the tables now are one of the states that may survive.
PowerTypeOK ==
    /\ TypeOK
    /\ linked \subseteq Digests
    /\ flushed \subseteq Digests
    /\ recent \subseteq Tables
    /\ db \in recent
    /\ before \subseteq Callers

\* TR-07, as far as it goes: a version whose bytes are missing was published before the
\* power was last cut, and its row outlived the directory entry that Put never synced.
\* No version ever has other bytes, or half of them.
OnlyACutTakesBytes ==
    \A t \in Tuples : RowOf(t) # NoDigest =>
        \/ object[RowOf(t)] = RowOf(t)
        \/ /\ object[RowOf(t)] = Absent
           /\ \E r \in before : req[r].tuple = t /\ req[r].digest = RowOf(t)

\* What a 201 is worth: its row and its bytes are there until a cut, and it takes a cut
\* for two clients to be told 201 for one version.
OnlyACutTakesA201 ==
    \A r \in Callers \ before : answer[r] = "created" =>
        /\ RowOf(req[r].tuple) = req[r].digest
        /\ object[req[r].digest] = req[r].digest
        /\ \A q \in Callers \ (before \cup {r}) :
              answer[q] = "created" => req[q].tuple # req[r].tuple

Settled(t) ==
    /\ RowOf(t) # NoDigest
    /\ \A tables \in recent : tables.versions[t] = RowOf(t)
    /\ RowOf(t) \in linked
    /\ object[RowOf(t)] = RowOf(t)

\* Once the log is checkpointed and the directory written back, a version and its bytes
\* are there for ever, whatever dies, the machine included.
SettledIsForever ==
    [][\A t \in Tuples : Settled(t) =>
          RowOf(t)' = RowOf(t) /\ (object[RowOf(t)])' = RowOf(t)]_machineVars

\* Publishing the same archive again brings lost bytes back, although it is answered
\* 409: the blob is put before the conflict is found (publish.go:124-137).
RepublishRestoresBytes ==
    \A r \in Callers \ before : answer[r] \in {"created", "conflict"} =>
        object[req[r].digest] = req[r].digest
=============================================================================
