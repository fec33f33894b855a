--------------------------- MODULE CommandWorker ---------------------------
(***************************************************************************)
(* BrowserCommandWorkerRuntime (apps/web/src/command-worker.js): the       *)
(* message-driven worker that loads packages, runs one command at a time,  *)
(* feeds it stdin, streams its output and persists its workspace.          *)
(*                                                                         *)
(* Granularity.  The worker is one JavaScript thread.  A step of this      *)
(* module is one macrotask (a message, a timer, the completion of a load,  *)
(* of a workspace request or of the executor) with every microtask it      *)
(* queues, because no other message is delivered before those have run.    *)
(* Hence a promise raced against the abort signal (waitForRunAbort,        *)
(* callExecutorWithAbort) loses the race in the step that aborts, while    *)
(* the two awaits that are not raced, exportSnapshot and importSnapshot,   *)
(* leave a window in which other messages are handled.                     *)
(***************************************************************************)
EXTENDS Naturals, Sequences, FiniteSets

CONSTANTS
    Runs,        \* the ids of the command.run messages a client may send
    Packages,    \* package ids
    Commands,    \* command names a package may provide
    Loadable,    \* the package records a load may yield
    NoRun,       \* this.activeRun = null; also: the workspace as first opened
    NoPackage,   \* packageId: null, a run to be resolved through the catalog
    MaxOutput,   \* bound: output chunks an executor writes
    MaxRestarts  \* bound: calls of start() after a stop()

ASSUME NoRunAssumption     == NoRun \notin Runs
ASSUME NoPackageAssumption == NoPackage \notin Packages
ASSUME BoundsAssumption    ==
    MaxOutput \in Nat /\ MaxRestarts \in Nat

VARIABLES
    packages,      \* this.packages: the record of each package, or Unloaded
    catalog,       \* this.packageCatalog: the package behind each command
    packageLoads,  \* this.packageLoads: the package ids being loaded
    listening,     \* whether start() has attached the message listener
    restarts,      \* calls of start() after the first
    activeRun,     \* this.activeRun
    pc,            \* where runCommand stands for each run
    awaited,       \* the package whose load the active run waits for
    abortError,    \* activeRun.abortError; "none" while the signal is not aborted
    timer,         \* whether the run's wall-time timer is armed
    stdinClosed,   \* activeRun.stdin.closed
    executor,      \* "idle", the package type whose executor runs, or "settled"
    posted,        \* the run's own events, in the order the port gets them
    outcome,       \* the status the run's terminal event carries
    store,         \* the run whose result was last imported into the workspace
    base           \* the store each run was given a snapshot of

packageVars  == <<packages, catalog, packageLoads>>
workerVars   == <<listening, restarts, activeRun>>
runVars      == <<pc, awaited, timer, executor, posted, outcome>>
abortVars    == <<abortError, stdinClosed>>
storeVars    == <<store, base>>
vars == <<packageVars, workerVars, runVars, abortVars, storeVars>>

AbortKinds == {"cancelled", "timeout", "stdio"}

\* The package types by what the worker itself does for them: a WebC package is
\* given a snapshot of the workspace and its result is imported; any other runnable
\* type ("direct") is not.  resolveExecutor has no executor for an unsupported type.
RunnableTypes == {"webc", "direct"}
PackageTypes  == RunnableTypes \cup {"unsupported"}
Unloaded      == [type |-> "none", commands |-> {}]
PackageRecord == [type : PackageTypes, commands : SUBSET Commands]

InFlight == {"resolving", "exporting", "executing", "importing"}
PcValues == {"new", "rejected", "done"} \cup InFlight

Events == {"started", "stdout", "stderr", "stdout.close", "stderr.close",
           "complete", "error"}

ASSUME LoadableAssumption == Loadable \subseteq PackageRecord

TypeOK ==
    /\ packages \in [Packages -> PackageRecord \cup {Unloaded}]
    /\ catalog \in [Commands -> Packages \cup {NoPackage}]
    /\ packageLoads \in SUBSET Packages
    /\ listening \in BOOLEAN
    /\ restarts \in 0 .. MaxRestarts
    /\ activeRun \in Runs \cup {NoRun}
    /\ pc \in [Runs -> PcValues]
    /\ awaited \in Packages \cup {NoPackage}
    /\ abortError \in [Runs -> AbortKinds \cup {"none"}]
    /\ timer \in [Runs -> BOOLEAN]
    /\ stdinClosed \in BOOLEAN
    /\ executor \in [Runs -> RunnableTypes \cup {"idle", "settled"}]
    /\ posted \in [Runs -> Seq(Events)]
    /\ outcome \in [Runs -> AbortKinds \cup {"none", "complete", "failed"}]
    /\ store \in Runs \cup {NoRun}
    /\ base \in [Runs -> Runs \cup {NoRun}]

\* The constructor; the listener is attached by start().
Init ==
    /\ packages = [p \in Packages |-> Unloaded]
    /\ catalog = [c \in Commands |-> NoPackage]
    /\ packageLoads = {}
    /\ listening = TRUE
    /\ restarts = 0
    /\ activeRun = NoRun
    /\ pc = [r \in Runs |-> "new"]
    /\ awaited = NoPackage
    /\ abortError = [r \in Runs |-> "none"]
    /\ timer = [r \in Runs |-> FALSE]
    /\ stdinClosed = FALSE
    /\ executor = [r \in Runs |-> "idle"]
    /\ posted = [r \in Runs |-> <<>>]
    /\ outcome = [r \in Runs |-> "none"]
    /\ store = NoRun
    /\ base = [r \in Runs |-> NoRun]

-----------------------------------------------------------------------------
(* Steps shared by the handlers *)

\* normalizeRunError: the latest abort overrides what was thrown.
normalizeRunError(r) == IF abortError[r] = "none" THEN "failed" ELSE abortError[r]

\* postOutputStreamClose, the terminal event and clearTimeout.
EndRun(r, event, status) ==
    /\ pc' = [pc EXCEPT ![r] = "done"]
    /\ posted' = [posted EXCEPT ![r] = @ \o <<"stdout.close", "stderr.close", event>>]
    /\ outcome' = [outcome EXCEPT ![r] = status]
    /\ timer' = [timer EXCEPT ![r] = FALSE]

\* Mutant: the finally block without its identity check.
ReleaseUnconditionally(r) == activeRun' = IF r = NoRun THEN activeRun ELSE NoRun

\* The finally block: the worker is free again unless the run no longer owns it.
Release(r) == activeRun' = IF activeRun = r THEN NoRun ELSE activeRun

Finish(r, event, status) == EndRun(r, event, status) /\ Release(r)

\* Once a package is resolved: command.started, then the snapshot export for
\* a WebC package, and the executor at once for the others.
StartResolved(r, type) ==
    /\ posted' = [posted EXCEPT ![r] = Append(@, "started")]
    /\ pc' = [pc EXCEPT ![r] = IF type = "webc" THEN "exporting" ELSE "executing"]
    /\ executor' = [executor EXCEPT ![r] = IF type = "webc" THEN "idle" ELSE type]

\* The run awaits a promise raced against its abort signal.
Raced(r) == pc[r] \in {"resolving", "executing"}

\* Mutant: the executor is awaited instead of raced against the signal.
abortCooperatively(r, error) ==
    /\ abortError' = [abortError EXCEPT ![r] = error]
    /\ timer' = [timer EXCEPT ![r] = @ /\ error # "timeout"]
    /\ UNCHANGED <<pc, posted, outcome, awaited, executor>>

\* abortRun: the signal is aborted, stdin fails, an earlier error is replaced, and
\* a run waiting in a raced promise ends here.  A timer that fires is spent.
abortRun(r, error) ==
    /\ abortError' = [abortError EXCEPT ![r] = error]
    /\ IF Raced(r)
       THEN EndRun(r, "error", error)
       ELSE /\ timer' = [timer EXCEPT ![r] = @ /\ error # "timeout"]
            /\ UNCHANGED <<pc, posted, outcome>>
    /\ UNCHANGED <<awaited, executor>>

ReleaseIfEnded(r) ==
    activeRun' = IF Raced(r) /\ activeRun = r THEN NoRun ELSE activeRun

-----------------------------------------------------------------------------
(* Packages *)

\* createPackageCatalog throws when two packages provide one command path.
Collides(pkgs) ==
    \E p, q \in Packages :
        p # q /\ pkgs[p].commands \cap pkgs[q].commands # {}

createPackageCatalog(pkgs) ==
    [c \in Commands |->
        IF \E p \in Packages : c \in pkgs[p].commands
        THEN CHOOSE p \in Packages : c \in pkgs[p].commands
        ELSE NoPackage]

\* Mutant: the two assignments reordered around the call that may throw.
RegisterBeforeCheck(p, record) ==
    LET added == [packages EXCEPT ![p] = record] IN
    /\ packages' = added
    /\ catalog' = IF Collides(added) THEN catalog ELSE createPackageCatalog(added)

registerPackage(p, record) ==
    LET added == [packages EXCEPT ![p] = record] IN
    IF Collides(added)
    THEN UNCHANGED <<packages, catalog>>
    ELSE /\ packages' = added
         /\ catalog' = createPackageCatalog(added)

\* loadPackage up to its await; a second load of the id is answered with an
\* error for the load's own message id and changes nothing.
LoadPackage(p) ==
    /\ listening
    /\ p \notin packageLoads
    /\ packageLoads' = packageLoads \cup {p}
    /\ UNCHANGED <<packages, catalog, workerVars, runVars, abortVars, storeVars>>

\* Mutant: resolveExecutor's check dropped.
ResumeUnsupported(p, pkg) ==
    IF activeRun # NoRun /\ pc[activeRun] = "resolving" /\ awaited = p
    THEN IF pkg.type # "none"
         THEN /\ StartResolved(activeRun, pkg.type)
              /\ UNCHANGED <<awaited, timer, outcome, activeRun>>
         ELSE /\ Finish(activeRun, "error", "failed")
              /\ UNCHANGED <<awaited, executor>>
    ELSE UNCHANGED <<runVars, activeRun>>

\* packageForRun resumes after "await loadRecord.promise" and finds the record
\* pkg; an unsupported type or one that was never registered ends the run.
ResumeResolving(p, pkg) ==
    IF activeRun # NoRun /\ pc[activeRun] = "resolving" /\ awaited = p
    THEN IF pkg.type \in RunnableTypes
         THEN /\ StartResolved(activeRun, pkg.type)
              /\ UNCHANGED <<awaited, timer, outcome, activeRun>>
         ELSE /\ Finish(activeRun, "error", "failed")
              /\ UNCHANGED <<awaited, executor>>
    ELSE UNCHANGED <<runVars, activeRun>>

\* Mutant: the failed load is dropped without settling the promise.
LoadDropped(p) ==
    /\ p \in packageLoads
    /\ packageLoads' = packageLoads \ {p}
    /\ UNCHANGED <<packages, catalog, workerVars, runVars, abortVars, storeVars>>

\* The loader rejects: loadPackage reports it, and so does the waiting run.
LoadFails(p) ==
    /\ p \in packageLoads
    /\ packageLoads' = packageLoads \ {p}
    /\ ResumeResolving(p, Unloaded)
    /\ UNCHANGED <<packages, catalog, listening, restarts, abortVars, storeVars>>

\* The loader yields a record: loadPackage was the first to await the promise,
\* so it registers the package (or reports the collision) before the run that
\* waits for it looks the package up.
LoadSucceeds(p, record) ==
    /\ p \in packageLoads
    /\ packageLoads' = packageLoads \ {p}
    /\ registerPackage(p, record)
    /\ ResumeResolving(p, packages'[p])
    /\ UNCHANGED <<listening, restarts, abortVars, storeVars>>

-----------------------------------------------------------------------------
(* runCommand *)

\* A malformed message, or one that arrives while a run is active.  Like a stdin
\* or resize message that no active run accepts, it is answered by an error
\* event that changes no state.
RunRejected(r, malformed) ==
    /\ listening /\ pc[r] = "new"
    /\ malformed \/ activeRun # NoRun
    /\ pc' = [pc EXCEPT ![r] = "rejected"]
    /\ UNCHANGED <<packageVars, workerVars, awaited, timer, executor, posted,
                   outcome, abortVars, storeVars>>

\* Mutant: a run is accepted while another one is active.
AcceptAnyRun(r, stdinOpen) ==
    /\ listening /\ pc[r] = "new"
    /\ stdinClosed' = ~stdinOpen

\* createActiveRun, initial stdin and the timer, for an accepted message.
AcceptRun(r, stdinOpen) ==
    /\ listening /\ pc[r] = "new" /\ activeRun = NoRun
    /\ stdinClosed' = ~stdinOpen

\* packageForRun: an explicit package, or the catalog's for a command.
Resolve(packageId, command) ==
    IF packageId # NoPackage THEN packageId ELSE catalog[command]

TypeOfResolved(packageId, command) ==
    LET p == Resolve(packageId, command)
    IN  IF p = NoPackage THEN "none" ELSE packages[p].type

\* The package id is being loaded: packageForRun awaits the load.
RunWaitsForLoad(r, packageId, stdinOpen, timed) ==
    /\ AcceptRun(r, stdinOpen)
    /\ packageId \in packageLoads
    /\ activeRun' = r
    /\ timer' = [timer EXCEPT ![r] = timed]
    /\ pc' = [pc EXCEPT ![r] = "resolving"]
    /\ awaited' = packageId
    /\ UNCHANGED <<packageVars, listening, restarts, executor, posted, outcome,
                   abortError, storeVars>>

\* Mutant: the early return of the startup failure posts nothing.
RunFailsSilently(r, packageId, command, stdinOpen) ==
    /\ AcceptRun(r, stdinOpen)
    /\ packageId \notin packageLoads
    /\ TypeOfResolved(packageId, command) \notin RunnableTypes
    /\ pc' = [pc EXCEPT ![r] = "done"]
    /\ UNCHANGED <<packageVars, workerVars, posted, timer, outcome, awaited, executor,
                   abortError, storeVars>>

\* Nothing to wait for and nothing to run: the run is accepted and ends.
RunFailsStartup(r, packageId, command, stdinOpen) ==
    /\ AcceptRun(r, stdinOpen)
    /\ packageId \notin packageLoads
    /\ TypeOfResolved(packageId, command) \notin RunnableTypes
    /\ Finish(r, "error", "failed")
    /\ UNCHANGED <<packageVars, listening, restarts, awaited, executor,
                   abortError, storeVars>>

RunStarts(r, packageId, command, stdinOpen, timed) ==
    /\ AcceptRun(r, stdinOpen)
    /\ packageId \notin packageLoads
    /\ TypeOfResolved(packageId, command) \in RunnableTypes
    /\ activeRun' = r
    /\ timer' = [timer EXCEPT ![r] = timed]
    /\ StartResolved(r, TypeOfResolved(packageId, command))
    /\ UNCHANGED <<packageVars, listening, restarts, awaited, outcome,
                   abortError, storeVars>>

\* Mutant: the signal is not looked at again once the export has settled.
ExportIgnoringAbort(r) ==
    /\ pc[r] = "exporting"
    /\ base' = [base EXCEPT ![r] = store]
    /\ executor' = [executor EXCEPT ![r] = "webc"]
    /\ pc' = [pc EXCEPT ![r] = "executing"]
    /\ UNCHANGED <<posted, outcome, timer, activeRun>>
    /\ UNCHANGED <<packageVars, listening, restarts, awaited, abortVars, store>>

\* exportSnapshot settles.  callExecutorWithAbort calls the executor even when
\* the signal is already aborted, and then rejects at once.
ExportSucceeds(r) ==
    /\ pc[r] = "exporting"
    /\ base' = [base EXCEPT ![r] = store]
    /\ executor' = [executor EXCEPT ![r] = "webc"]
    /\ IF abortError[r] = "none"
       THEN /\ pc' = [pc EXCEPT ![r] = "executing"]
            /\ UNCHANGED <<posted, outcome, timer, activeRun>>
       ELSE Finish(r, "error", normalizeRunError(r))
    /\ UNCHANGED <<packageVars, listening, restarts, awaited, abortVars, store>>

ExportFails(r) ==
    /\ pc[r] = "exporting"
    /\ Finish(r, "error", normalizeRunError(r))
    /\ UNCHANGED <<packageVars, listening, restarts, awaited, executor, abortVars,
                   storeVars>>

OutputCount(r) == Cardinality({i \in 1 .. Len(posted[r]) : posted[r][i] \in {"stdout", "stderr"}})

\* Mutant: the writer without throwIfAborted.
WriteUnchecked(r, stream) ==
    /\ executor[r] \in RunnableTypes
    /\ OutputCount(r) < MaxOutput
    /\ posted' = [posted EXCEPT ![r] = Append(@, stream)]
    /\ UNCHANGED <<packageVars, workerVars, pc, awaited, timer, executor, outcome,
                   abortVars, storeVars>>

\* CommandOutputWriter.write, called by an executor that may outlive its run:
\* an aborted run's write throws.
WriteOutput(r, stream) ==
    /\ executor[r] \in RunnableTypes
    /\ abortError[r] = "none"
    /\ OutputCount(r) < MaxOutput
    /\ posted' = [posted EXCEPT ![r] = Append(@, stream)]
    /\ UNCHANGED <<packageVars, workerVars, pc, awaited, timer, executor, outcome,
                   abortVars, storeVars>>

\* The executor resolves.  A WebC result may carry a snapshot to import; any
\* other result completes the run.  importSnapshot replaces the store's contents
\* at once, since the export has loaded the store, and then awaits persist().
ExecutorResolves(r, snapshot) ==
    /\ executor[r] \in RunnableTypes /\ pc[r] = "executing"
    /\ executor' = [executor EXCEPT ![r] = "settled"]
    /\ IF snapshot /\ executor[r] = "webc"
       THEN /\ pc' = [pc EXCEPT ![r] = "importing"]
            /\ store' = r
            /\ UNCHANGED <<posted, outcome, timer, activeRun>>
       ELSE Finish(r, "complete", "complete") /\ UNCHANGED store
    /\ UNCHANGED <<packageVars, listening, restarts, awaited, abortVars, base>>

\* The executor rejects, or resolves with a snapshot the store refuses.
ExecutorRejects(r) ==
    /\ executor[r] \in RunnableTypes /\ pc[r] = "executing"
    /\ executor' = [executor EXCEPT ![r] = "settled"]
    /\ Finish(r, "error", normalizeRunError(r))
    /\ UNCHANGED <<packageVars, listening, restarts, awaited, abortVars, storeVars>>

\* The executor of a run that was aborted settles later; nobody listens.
ExecutorSettlesLate(r) ==
    /\ executor[r] \in RunnableTypes /\ pc[r] = "done"
    /\ executor' = [executor EXCEPT ![r] = "settled"]
    /\ UNCHANGED <<packageVars, workerVars, pc, awaited, timer, posted, outcome,
                   abortVars, storeVars>>

\* importSnapshot settles.  Nothing looks at the abort signal after it.
ImportSucceeds(r) ==
    /\ pc[r] = "importing"
    /\ Finish(r, "complete", "complete")
    /\ UNCHANGED <<packageVars, listening, restarts, awaited, executor, abortVars,
                   storeVars>>

\* The contents cannot be persisted; they stay replaced.
ImportFails(r) ==
    /\ pc[r] = "importing"
    /\ Finish(r, "error", normalizeRunError(r))
    /\ UNCHANGED <<packageVars, listening, restarts, awaited, executor, abortVars,
                   storeVars>>

-----------------------------------------------------------------------------
(* Messages and timers for a run *)

Cancel(r) ==
    /\ listening /\ activeRun = r
    /\ abortRun(r, "cancelled")
    /\ ReleaseIfEnded(r)
    /\ UNCHANGED <<packageVars, listening, restarts, stdinClosed, storeVars>>

\* setTimeout's callback holds the run itself, so it also fires for a run that
\* stop() has given up.
TimerFires(r) ==
    /\ timer[r]
    /\ abortRun(r, "timeout")
    /\ ReleaseIfEnded(r)
    /\ UNCHANGED <<packageVars, listening, restarts, stdinClosed, storeVars>>

\* The errors a stdin chunk may raise: a new one for a malformed message or a
\* closed stream; an aborted run's stream is failed and a push rethrows the error
\* it failed with, an earlier abort of the run.
StdinFaults(r, malformed) ==
    IF malformed \/ stdinClosed THEN {"stdio"}
    ELSE IF abortError[r] # "none" THEN AbortKinds ELSE {}

\* A chunk that raises an error makes failStdin abort the whole run; any other
\* is queued for the executor (InputStream.tla).
HandleStdinChunk(r, malformed) ==
    /\ listening /\ activeRun = r
    /\ \E error \in StdinFaults(r, malformed) : abortRun(r, error)
    /\ ReleaseIfEnded(r)
    /\ UNCHANGED <<packageVars, listening, restarts, stdinClosed, storeVars>>

HandleStdinEnd(r) ==
    /\ listening /\ activeRun = r
    /\ ~stdinClosed
    /\ stdinClosed' = TRUE
    /\ UNCHANGED <<packageVars, workerVars, runVars, abortError, storeVars>>

\* command.stdin.error, or a second command.stdin.end: failStdin.
HandleStdinError(r) ==
    /\ listening /\ activeRun = r
    /\ abortRun(r, "stdio")
    /\ ReleaseIfEnded(r)
    /\ UNCHANGED <<packageVars, listening, restarts, stdinClosed, storeVars>>

-----------------------------------------------------------------------------
(* start and stop *)

Start ==
    /\ ~listening /\ restarts < MaxRestarts
    /\ listening' = TRUE
    /\ restarts' = restarts + 1
    /\ UNCHANGED <<packageVars, activeRun, runVars, abortVars, storeVars>>

\* stop() detaches the listener, aborts the active run and forgets it at once,
\* even if the run is in an await that is not raced.
Stop ==
    /\ listening
    /\ listening' = FALSE
    /\ activeRun' = NoRun
    /\ IF activeRun = NoRun
       THEN UNCHANGED <<runVars, abortError>>
       ELSE abortRun(activeRun, "cancelled")
    /\ UNCHANGED <<packageVars, restarts, stdinClosed, storeVars>>

-----------------------------------------------------------------------------

\* The steps of one run that its client does not ask for.
RunStep(r) ==
    \/ ExportSucceeds(r)
    \/ ExportFails(r)
    \/ \E stream \in {"stdout", "stderr"} : WriteOutput(r, stream)
    \/ \E snapshot \in BOOLEAN : ExecutorResolves(r, snapshot)
    \/ ExecutorRejects(r)
    \/ ExecutorSettlesLate(r)
    \/ ImportSucceeds(r)
    \/ ImportFails(r)
    \/ TimerFires(r)

\* handleMessage for a run's messages.
RunMessage(r) ==
    \/ \E malformed \in BOOLEAN : RunRejected(r, malformed)
    \/ \E p \in Packages, stdinOpen, timed \in BOOLEAN :
           RunWaitsForLoad(r, p, stdinOpen, timed)
    \/ \E p \in Packages \cup {NoPackage}, c \in Commands, stdinOpen \in BOOLEAN :
           RunFailsStartup(r, p, c, stdinOpen)
    \/ \E p \in Packages \cup {NoPackage}, c \in Commands, stdinOpen, timed \in BOOLEAN :
           RunStarts(r, p, c, stdinOpen, timed)
    \/ Cancel(r)
    \/ \E malformed \in BOOLEAN : HandleStdinChunk(r, malformed)
    \/ HandleStdinEnd(r)
    \/ HandleStdinError(r)

PackageStep(p) ==
    \/ LoadPackage(p)
    \/ LoadFails(p)
    \/ \E record \in Loadable : LoadSucceeds(p, record)

Next ==
    \/ \E r \in Runs : RunStep(r) \/ RunMessage(r)
    \/ \E p \in Packages : PackageStep(p)
    \/ Start
    \/ Stop

\* Armed timers fire, and IndexedDB requests end in success or in failure.
\* Nothing is assumed of loads (network), executors (guest code) or clients.
Fairness ==
    \A r \in Runs :
        /\ WF_vars(TimerFires(r))
        /\ WF_vars(ExportSucceeds(r) \/ ExportFails(r))
        /\ WF_vars(ImportSucceeds(r) \/ ImportFails(r))

Spec == Init /\ [][Next]_vars /\ Fairness
-----------------------------------------------------------------------------
(* Properties *)

\* The place of an event in a run's stream of events.
Rank(e) ==
    IF e = "started" THEN 1
    ELSE IF e \in {"stdout", "stderr"} THEN 2
    ELSE IF e = "stdout.close" THEN 3
    ELSE IF e = "stderr.close" THEN 4 ELSE 5

Ordered(s) ==
    \A i, j \in 1 .. Len(s) :
        i < j => \/ Rank(s[i]) < Rank(s[j])
                 \/ Rank(s[i]) = 2 /\ Rank(s[j]) = 2

Ended(s) == \E i \in 1 .. Len(s) : Rank(s[i]) = 5

\* A run's events reach the client in the order started, output, stdout.close,
\* stderr.close, one terminal event: nothing is written after a stream is closed
\* and nothing follows the terminal event, although an executor may outlive its
\* run (CommandOutputWriter.write, postOutputStreamClose).
StreamOrder == \A r \in Runs : Ordered(posted[r])

\* runCommand has returned for an accepted run exactly when the client has been
\* sent its terminal event: no path ends a run silently or reports it early.
EveryEndReported == \A r \in Runs : pc[r] = "done" <=> Ended(posted[r])

\* A run that waits for a package waits for a load that is still pending, so
\* the worker is never held by a wait nobody will end.
NoOrphanWaiter ==
    \A r \in Runs : pc[r] = "resolving" => awaited \in packageLoads

\* At most one run owns the worker: any other run still in flight is one that
\* stop() aborted, and its end does not take the worker from the new owner.
SingleActive ==
    /\ \A r \in Runs : pc[r] \in InFlight /\ activeRun # r => abortError[r] # "none"
    /\ activeRun # NoRun => pc[activeRun] \in InFlight

\* Between the export of a run's snapshot and the import of its result no other
\* run's result is imported, so the import replaces nothing the run has not seen:
\* the workspace is handed from run to run, across stop() and start() too.
NoLostUpdate ==
    \A r \in Runs :
        pc[r] = "executing" /\ executor[r] = "webc" => store = base[r]

\* registerPackage replaces the package map and the catalog together or not at
\* all: the catalog names a package for a command exactly if it provides it.
CatalogMatchesPackages ==
    \A p \in Packages, c \in Commands :
        catalog[c] = p <=> c \in packages[p].commands

\* A run aborted before its import begins never begins it (throwIfAborted and
\* the races before importSnapshot).
NoImportAfterAbort ==
    [][\A r \in Runs : abortError[r] # "none" /\ pc[r] # "importing"
                           => pc'[r] # "importing"]_vars

\* A run that is cancelled, fails on stdin or has a timer ends, whatever its
\* package load and its executor do.
AbortedRunsEnd ==
    \A r \in Runs :
        (timer[r] \/ (pc[r] \in InFlight /\ abortError[r] # "none")) ~> pc[r] = "done"

\* What the test "rejects success after cancellation" says of the runtime: a
\* run that was aborted is not reported as complete.
NoSuccessAfterCancellation ==
    \A r \in Runs : outcome[r] = "complete" => abortError[r] = "none"
=============================================================================
