---------------------------- MODULE ServeLifecycle ----------------------------
(***************************************************************************)
(* The processes of the binary on one data directory, from start to exit     *)
(* (internal/cli), and the uploads their handlers hold while they come and go. *)
(*                                                                            *)
(* serve migrates, sweeps, binds, serves and drains, in this order: the sweep  *)
(* comes before the port is known to be free.  A handler is what Registry      *)
(* models in full; here it is the file it keeps under tmp/, which is a         *)
(* directory entry, a descriptor, or both.                                     *)
(***************************************************************************)
EXTENDS Migrations

CONSTANTS Ports,      \* the addresses serve may be given
          Uploads     \* the names CreateTemp draws, each drawn once

ASSUME LifeConstants == Ports # {}

VARIABLES proc,       \* where each process is
          told,       \* the processes that got a signal
          bound,      \* who listens on each port
          upload,     \* the handler of each upload
          named,      \* the uploads with an entry in the directory
          opened      \* the uploads with a descriptor

lifeVars == <<schema, recorded, writer, migrate, proc, told, bound, upload, named, opened>>

Commands == {"serve", "serve --no-migrate", "migrate"}
Phases == {"down", "boot", "sweep", "remove", "bind", "serve", "drain", "close"}
Process == [phase : Phases, command : Commands, port : Ports,
            listed : SUBSET Uploads, left : SUBSET Uploads, sweep : {"none", "failed", "whole"}]

\* "gone": its handler is done with it.  "cut": its process ended.
UploadSteps == {"none", "accepted", "receive", "read", "gone", "cut"}
Upload == [owner : Processes \cup {NoProcess}, step : UploadSteps]
Unowned(step) == [owner |-> NoProcess, step |-> step]

Fresh(phase, command, port) ==
    [phase |-> phase, command |-> command, port |-> port,
     listed |-> {}, left |-> {}, sweep |-> "none"]
Down == Fresh("down", "migrate", CHOOSE port \in Ports : TRUE)

LifeInit ==
    /\ MigInit
    /\ proc = [p \in Processes |-> Down]
    /\ bound = [a \in Ports |-> NoProcess]
    /\ upload = [u \in Uploads |-> Unowned("none")]
    /\ told = {} /\ named = {} /\ opened = {}

\* What a step of a process alone leaves as it is.
Alone == UNCHANGED <<told, bound, upload, named, opened>>
Files == <<upload, named, opened>>
Enter(p, phase) == proc' = [proc EXCEPT ![p].phase = phase]
InFlight(p) == {u \in Uploads : upload[u].owner = p /\ upload[u].step \in {"accepted", "receive", "read"}}
Released(p) == [a \in Ports |-> IF bound[a] = p THEN NoProcess ELSE bound[a]]
Unmigrated == UNCHANGED migVars

-----------------------------------------------------------------------------
\* The operator or a supervisor starts a command; repo create begins as migrate does.
Start(p, command, port) ==
    /\ proc[p].phase = "down"
    /\ IF command = "serve --no-migrate"
       THEN proc' = [proc EXCEPT ![p] = Fresh("sweep", command, port)] /\ Unmigrated
       ELSE proc' = [proc EXCEPT ![p] = Fresh("boot", command, port)] /\ CallMigrate(p)
    /\ Alone

\* SIGINT or SIGTERM; main's context is cancelled once.
Signal(p) ==
    /\ proc[p].phase # "down" /\ p \notin told
    /\ told' = told \cup {p}
    /\ Unmigrated /\ UNCHANGED <<proc, bound>> /\ UNCHANGED Files

MigrateRuns(p) == proc[p].phase = "boot" /\ MigrateStep(p) /\ UNCHANGED proc /\ Alone

Migrated(p) ==
    /\ proc[p].phase = "boot" /\ migrate[p].step = "done"
    /\ Enter(p, IF proc[p].command = "serve" THEN "sweep" ELSE "close")
    /\ Unmigrated /\ Alone

\* Mutant: a failed migration is a warning, as a failed sweep is.
NotMigratedIsAWarning(p) ==
    /\ proc[p].phase = "boot" /\ migrate[p].step = "failed"
    /\ Enter(p, IF proc[p].command = "serve" THEN "sweep" ELSE "close")
    /\ Unmigrated /\ Alone

NotMigrated(p) ==
    /\ proc[p].phase = "boot" /\ migrate[p].step = "failed"
    /\ Enter(p, "close")
    /\ Unmigrated /\ Alone

-----------------------------------------------------------------------------
\* SweepTemp reads the directory once ...
SweepList(p) ==
    /\ proc[p].phase = "sweep"
    /\ proc' = [proc EXCEPT ![p].phase = "remove", ![p].listed = named, ![p].left = named]
    /\ Unmigrated /\ Alone

\* ReadDir fails: the sweep fails as a whole.
SweepListFails(p) ==
    /\ proc[p].phase = "sweep"
    /\ proc' = [proc EXCEPT ![p].phase = "bind", ![p].sweep = "failed"]
    /\ Unmigrated /\ Alone

\* ... and removes what it read, one name at a time.
SweepRemove(p, u) ==
    /\ proc[p].phase = "remove" /\ u \in proc[p].left
    /\ u \in named
    /\ named' = named \ {u}
    /\ proc' = [proc EXCEPT ![p].left = @ \ {u}]
    /\ Unmigrated /\ UNCHANGED <<told, bound, upload, opened>>

\* Mutant: the loop goes on behind an error.
SweepFailsGoesOn(p, u) ==
    /\ proc[p].phase = "remove" /\ u \in proc[p].left
    /\ proc' = [proc EXCEPT ![p].left = @ \ {u}]
    /\ Unmigrated /\ Alone

\* The first Remove that fails ends the sweep, be it that the disk refuses or that
\* the file's own handler was faster; serve logs it and goes on.
SweepFails(p, u) ==
    /\ proc[p].phase = "remove" /\ u \in proc[p].left
    /\ proc' = [proc EXCEPT ![p].phase = "bind", ![p].sweep = "failed"]
    /\ Unmigrated /\ Alone

SweepEnds(p) ==
    /\ proc[p].phase = "remove" /\ proc[p].left = {}
    /\ proc' = [proc EXCEPT ![p].phase = "bind", ![p].sweep = "whole"]
    /\ Unmigrated /\ Alone

-----------------------------------------------------------------------------
Bind(p) ==
    /\ proc[p].phase = "bind" /\ bound[proc[p].port] = NoProcess
    /\ bound' = [bound EXCEPT ![proc[p].port] = p]
    /\ Enter(p, "serve")
    /\ Unmigrated /\ UNCHANGED told /\ UNCHANGED Files

\* The port is taken, or may not be bound at all.
BindFails(p) ==
    /\ proc[p].phase = "bind"
    /\ Enter(p, "close")
    /\ Unmigrated /\ Alone

\* Shutdown closes the listener at once and waits for the handlers.
BeginDrain(p) ==
    /\ proc[p].phase = "serve" /\ p \in told
    /\ bound' = Released(p)
    /\ Enter(p, "drain")
    /\ Unmigrated /\ UNCHANGED told /\ UNCHANGED Files

DrainEnds(p) ==
    /\ proc[p].phase = "drain" /\ InFlight(p) = {}
    /\ Enter(p, "close")
    /\ Unmigrated /\ Alone

\* Mutant: Shutdown without a deadline.
DrainNeverTimesOut(p) == FALSE /\ UNCHANGED lifeVars

\* shutdownTimeout has passed.
DrainTimesOut(p) ==
    /\ proc[p].phase = "drain"
    /\ Enter(p, "close")
    /\ Unmigrated /\ Alone

\* Serve returns an error: runServe returns it, without a drain.
ServeFails(p) ==
    /\ proc[p].phase = "serve"
    /\ bound' = Released(p)
    /\ Enter(p, "close")
    /\ Unmigrated /\ UNCHANGED told /\ UNCHANGED Files

\* The process is gone, with its handlers, its listener and its lock.
Gone(p) ==
    /\ proc' = [proc EXCEPT ![p] = Down]
    /\ bound' = Released(p)
    /\ told' = told \ {p}
    /\ upload' = [u \in Uploads |-> IF u \in InFlight(p) THEN Unowned("cut") ELSE upload[u]]
    /\ opened' = opened \ InFlight(p)
    /\ UNCHANGED named
    /\ MigrateEnds(p)

\* The deferred close of the store, then os.Exit.
Exit(p) == proc[p].phase = "close" /\ Gone(p)

Kill(p) == proc[p].phase \notin {"down", "close"} /\ Gone(p)

-----------------------------------------------------------------------------
Elsewhere == UNCHANGED <<schema, recorded, writer, migrate, proc, told, bound>>

\* A publish comes in; draining, no new connection is accepted.
Accept(p, u) ==
    /\ proc[p].phase = "serve" /\ upload[u].step = "none"
    /\ upload' = [upload EXCEPT ![u] = [owner |-> p, step |-> "accepted"]]
    /\ UNCHANGED <<named, opened>> /\ Elsewhere

\* It gets as far as ingest, which creates its file, be its process still serving or not.
CreateUpload(u) ==
    /\ upload[u].step = "accepted"
    /\ upload' = [upload EXCEPT ![u].step = "receive"]
    /\ named' = named \cup {u} /\ opened' = opened \cup {u}
    /\ Elsewhere

\* It is refused before that, or CreateTemp fails.
EndWithoutFile(u) ==
    /\ upload[u].step = "accepted"
    /\ upload' = [upload EXCEPT ![u] = Unowned("gone")]
    /\ UNCHANGED <<named, opened>> /\ Elsewhere

\* Mutant: ingest closes the file, and stage opens it by its name.
ReceivedAndClosed(u) ==
    /\ upload[u].step = "receive"
    /\ upload' = [upload EXCEPT ![u].step = "read"]
    /\ opened' = opened \ {u}
    /\ UNCHANGED named /\ Elsewhere

\* The body is on disk; inspection and Put read it through the descriptor.
Received(u) ==
    /\ upload[u].step = "receive"
    /\ upload' = [upload EXCEPT ![u].step = "read"]
    /\ UNCHANGED <<named, opened>> /\ Elsewhere

\* discard or cleanup, whatever became of the publish: their errors are dropped, that of
\* the removal, too.
Discard(u) ==
    /\ upload[u].step \in {"receive", "read"}
    /\ upload' = [upload EXCEPT ![u] = Unowned("gone")]
    /\ named' \in {named, named \ {u}} /\ opened' = opened \ {u}
    /\ Elsewhere

-----------------------------------------------------------------------------
ProcessStep(p) ==
    \/ MigrateRuns(p) \/ Migrated(p) \/ NotMigrated(p)
    \/ SweepList(p) \/ SweepListFails(p) \/ (\E u \in Uploads : SweepRemove(p, u) \/ SweepFails(p, u)) \/ SweepEnds(p)
    \/ Bind(p) \/ BindFails(p) \/ BeginDrain(p) \/ DrainEnds(p) \/ DrainTimesOut(p)
    \/ Exit(p)

Outside(p) ==
    \/ \E command \in Commands, port \in Ports : Start(p, command, port)
    \/ Signal(p) \/ ServeFails(p) \/ Kill(p)

HandlerStep(u) ==
    \/ \E p \in Processes : Accept(p, u)
    \/ CreateUpload(u) \/ EndWithoutFile(u) \/ Received(u) \/ Discard(u)

LifeNext ==
    \/ \E p \in Processes : ProcessStep(p) \/ Outside(p)
    \/ \E u \in Uploads : HandlerStep(u)

\* A process that is up runs its own code; of clients, handlers and operators
\* nothing is assumed.
LifeSpec == LifeInit /\ [][LifeNext]_lifeVars
              /\ \A p \in Processes : WF_lifeVars(ProcessStep(p))

-----------------------------------------------------------------------------
\* Every variable has its type.
LifeTypeOK ==
    /\ MigTypeOK
    /\ proc \in [Processes -> Process]
    /\ bound \in [Ports -> Processes \cup {NoProcess}]
    /\ upload \in [Uploads -> Upload]
    /\ told \subseteq Processes /\ named \subseteq Uploads /\ opened \subseteq Uploads

\* publish.go:167-173, 262-282: the file a handler still has to read is there,
\* though the sweep of another process may have taken its name in the meantime.
UploadsSurviveSweeps == \A u \in Uploads :
    upload[u].step \in {"receive", "read"} => u \in named \cup opened

\* publish.go:262-282: a sweep that reported no error removed every upload that was
\* on disk when it looked, those of processes killed before among them.
SweptMeansGone == \A p \in Processes :
    proc[p].sweep = "whole" => proc[p].listed \cap named = {}

\* serve.go:46-50: without --no-migrate, a process that serves finds every table,
\* also when another process was migrating as it came up.
ServesOnlyMigrated == \A p \in Processes :
    proc[p].phase \in {"serve", "drain"} /\ proc[p].command = "serve" => schema = 1..Last

\* serve.go:109-117: a process that was told to stop ends, whatever its clients and
\* handlers do or fail to do.
StopsWhenTold == \A p \in Processes :
    p \in told ~> proc[p].phase = "down"

-----------------------------------------------------------------------------
\* serve.go:52-54: nothing can be in flight at boot, so this is the safe moment.
NothingInFlightAtSweep == \A p \in Processes :
    proc[p].phase = "remove" => \A u \in proc[p].left : upload[u].step \notin {"receive", "read"}
=============================================================================
