# A TLA+ verification of wasm-host

wasm-host runs packaged WebAssembly commands behind a small host contract: in a
browser, as JavaScript workers (`apps/web/src`), and natively, as a Rust crate
around Wasmer (`crates/wasm-host-core`). This directory holds TLA+ modules of the
parts where the order of events decides whether the program is right, the TLC
configurations that check them on small instances, and TLAPS proofs.

`PROJECT.json` lists components, runs, mutants, the map from definitions to source
lines, findings, hazards and theorems. To repeat a result:

    tlc -workers 2 -config MCCommandWorker.cfg MCCommandWorker
    tlapm CommandWorkerProofs.tla

## 1. Inventory

| Component | State | Operations | Hard part |
|---|---|---|---|
| Command worker (`command-worker.js`) | package map, catalog, loads in flight, the active run with its signal, timer and stdin | load, run, cancel, stdin chunk/end/error, resize, start, stop | awaits that other messages interleave with; aborts racing results; executors that outlive their run |
| Child commands (`command-worker.js`) | per invocation: signal, timer, writer, snapshot | run, time out, follow the run's abort | a tree of invocations sharing one output and one workspace |
| Command stdin (`command-worker.js`), request body (`http-worker.js`) | queue, waiters, closed, error | push, end, fail, read | a push meeting a pending read; the end meeting a queue |
| HTTP worker (`http-worker.js`) | in-flight table, body streams | dispatch, body chunk/end/error, cancel | reuse of ids, errors reported twice |
| Browser HTTP transports (`http.js`) | decoder state | fetch, gateway frames | frames split over chunks, missing end |
| Terminal (`terminal-ui.js`, `terminal.js`) | phase, run count, loaded flag, the session's id | run, write, close input, resize, cancel, change package, destroy | answers to late input carry a run's id; ids that start again |
| Workspace stores (`workspace.js`) | directory tree, IndexedDB snapshot, loaded flag | read, write, rename, remove, export, import, load, persist | concurrent first load, failed persist |
| WASI runner (`wasi-module.js`) | descriptor table, pipes, processes; workspace, scratch and package trees | about a hundred imports; fork, exec, join, poll; path calls, flush | descriptors shared over fork; descriptors below what is renamed, removed or imported |
| App server (`app-server*.js`) | threads, turns, logins; pending requests and waiters; the session's active turn | connect, start and interrupt turns, log in, close | answers and notifications of a turn in any order; closing between them |
| Auth broker (`secrets.js`), tool protocol (`packages/browser-tool-protocol`) | handles | create, revoke; validate | none |
| HTTP bridge and device (`lib.rs`, `http.rs`) | upload state, three bounded channels, cancellation tokens | request, body frames, read, drop | four threads waiting for each other |
| Event bus, virtual executables (`lib.rs`) | bounded channel and dropped count; registry | emit, enable; register, run | atomics around a channel; partial registration |
| Sandbox, runner, C API, bindings | run supervision | run, cancel | cancellation against wall time and output limits |

How they interact: a page talks to the command worker and the HTTP worker only by
messages; the command worker calls an executor (WASI runner, WebC adapter, Codex
package) with a request that holds its stdin queue, output writers, abort signal,
HTTP client and a helper that runs child commands; a WebC executor gets a snapshot
of the workspace and returns one to import. Natively, a guest writes JSON frames to
`/dev/wasm-host-http`; the device passes them through a producer thread to an
adapter.

## 2. Plan

1. **Core (done).** `CommandWorker`, `InputStream`, `ChildCommands`, `HttpUpload`,
   `WasiProcesses`, each with its proofs.
2. **The rest of the browser host (done).** `Terminal`, which composes the page, the
   port and `InputStream`; `HttpBridge`; `WorkspaceTree` and `WorkspaceStore`, with
   `WorkspaceContract` as the abstract specification it implements; `WasiTree`, over the
   same trees; `AppServer`; and `MCPage`, which instantiates what runs on a page. The
   proofs that the store implements the contract, and of each of the others.
3. **Open.** Descriptor rights and poll readiness of the WASI runner, `EventBus`, and
   the supervision of a native run.
4. **Proofs (done).** Every safety property of a passing run.

Modules are written without recursive operators so that they can be proved about.

## 3. Modules and code

### CommandWorker

A step is one macrotask of the worker with all the microtasks it queues: JavaScript
delivers no message before those have run. `pc[r]` says at which await
`runCommand` stands for run `r`:

| `pc` | await | raced against the abort signal |
|---|---|---|
| `resolving` | `waitForRunAbort(packageForRun)` while the package is loading | yes |
| `exporting` | `exportSnapshot` (WebC packages) | no |
| `executing` | `callExecutorWithAbort` | yes |
| `importing` | `importSnapshot` | no |

A raced await ends in the step that aborts (`abortRun` contains the catch and
finally blocks through `EndRun`); an un-raced one leaves the run in flight, and the
code after it decides. `posted[r]` is what the port receives for the run, `executor[r]`
is independent of `pc[r]` because nobody stops an executor that ignores its signal,
`store` names the run whose result the workspace holds and `base[r]` the one its
snapshot was taken from. Package contents are abstracted to a type and a set of
commands. An abort records the latest error, which is what `normalizeRunError`
reports. `StdinFaults` allows, for a push to a failed stream, any earlier abort kind:
the stream keeps its first error, the model keeps only the run's latest.

Messages that only produce an error answer and change nothing (unknown type, a
duplicate load, stdin for another run) and resizing are not actions.

### InputStream

`CommandInputStream`, line by line; `WorkerRequestBodyStream` in `http-worker.js` is
the same object. Chunks and reads are numbered in call order, so that "once and in
order" is a statement about numbers.

### ChildCommands

The invocations below one run, from the moment the run's executor is called. Each
has its own signal, which follows *the run's* signal (`createChildCommandAbortSignal`
is given `context.activeRun`), and a timer. `WriteInherited` is the whole chain of
writers from an invocation to the port. An executor is taken to await the children
it starts, as the two callers in the repository do. The model holds one run, so an
executor that lives on after it does not meet a second run here; `CommandWorker`
covers that for the run's own executor.

### HttpUpload

One streaming upload: the guest thread in the device file, the bridge thread, the
producer thread and the adapter's worker, joined by the upload channel, the body
channel and the response channel. A step is one pass of a polling loop. The guest's
token check and its `try_send` are separate steps, since cancellation may fall
between them. An upload that is refused before its threads start changes no state.
Response and body contents are counted, not modelled. The dispatcher may be closed,
full for ever, or willing; the adapter may answer early, answer partly, fail, or go
silent.

### WasiProcesses

The state of `WasiPreview1Runtime` that several processes of one raw WASI run share or
inherit. A run has a runtime `root`; a copied fork adds a runtime `copy`, during which
the root is suspended inside `finishContinuationTurn`; a vfork keeps the runtime and
only changes `currentProcessId` and `activeVfork`. A step is one import call of the
guest that runs, together with the unwinding and rewinding of its stack, during which
the guest calls nothing else. `phase` says where a runtime stands: in its guest, or at
one of the awaits of `runProcessExec` (`exec`: the command runs, `stderr`: its stdout
is written, `written`: both are). `openFiles` holds pipe ends, handles of host streams,
and files or directories with their offset, which moves to a cell in `offsetRef` when
the descriptor is first duplicated. Pipe contents are counted. A new runtime for a
copied child starts with its own process table that numbers from 2 again, as
`runCopiedForkChild` makes it. Left out: rights and extended flags of descriptors,
poll readiness, file contents and paths, exit codes, stack snapshots.

### Terminal

The page's controller (`terminal-ui.js`), the session it makes for each run
(`terminal.js`), the two queues of the port, and the worker with the stdin stream of its
run, which is `InputStream` itself. The worker is reduced to what `CommandWorker`
establishes: a run is accepted or refused, posts `started`, output, two closes and one
end, and a message for a run that is not active is answered with `command.error` under
the id it came with. `log` observes, per start, what the worker posted and what the page
showed. `configurePackage` brings a new worker and starts the ids again.

### WorkspaceTree, WorkspaceStore, WorkspaceContract

`WorkspaceTree` has the operations of `MemoryBrowserWorkspaceStore` as operators on a tree
(a set of directories, and files with contents), each returning the new tree or the old
one with `ok` false where the code throws. `WorkspaceStore` is the IndexedDB store: `pc`
says at which await of `load()` or `persist()` a call stands; transactions of the one
object store take effect in the order they were created, and each may abort; a reload
drops memory and unfinished transactions. `WorkspaceContract` is what callers may rely
on: calls act in turn on one tree, a read returns all changes so far, a call that
returned survives a reload, a failed one stays in effect until a reload, and a reload
finds a state the workspace was in. Under the mapping in `WorkspaceStore` (`stable` is the
record, the phases of a call collapse to five) the detailed specification implements it.

### HttpBridge

`HttpBridgeWorkerRuntime` over the fetch and the gateway transport. `run[d]` is a
dispatch: its record, its body queue (a count), and the locals of its transport;
`inFlight` names the dispatch under each id. The operators `Begin`, `Aborted`, `Ended`,
`failBodyMessage`, `readBytes`, `finishResponse` are functions of the record, and an
action applies one of them. A line of a gateway stream is two halves, of
a frame or of white space, and a newline, so a chunk of the network can end anywhere in
it. `fetch` is external: an abort
rejects what it has pending.

### WasiTree

The workspace, scratch and package trees of a raw WASI run and the descriptors open in
them. A descriptor has the path the code keeps in it and `at`, the place where the
object it was opened on really is; renames by prefix and detaching change them by separate
rules, as the code does. An import makes new records, so no open file is in the workspace
any more (`Orphaned`) until `rebound` binds it to what is at its path. A call that returns an
errno changes nothing and is no step. The package's own files are *fallbacks* in the
workspace until they are written. `Flush` is the end of a run: the export of the
workspace is loaded into the store, or refused. A child command (`runProcessExec`) is
any change of the parent's export that the store can do.

### AppServer

The runtime (`app-server.js`), the loopback socket and JSON-RPC client
(`app-server-transport.js`) and the session (`app-server-session.js`). Everything runs in
microtasks of one thread: a step is a call of the page up to its first await, one half
of the socket's `_dispatch`, or the continuation of a call whose promise has settled.
`handleRequest` maps a message to the runtime's new state, its reply and its
notifications; `Receive` is one frame reaching the client and the session. The page may
close the session or the socket between any two steps, also from a listener in the
middle of a batch of frames, which hears of a frame before the waiters do, and the runtime may throw.

### MCPage

What a page runs beside its command worker. The four components share no state, so each
is explored by itself (`focus`), in one run.

## 4. Runs

| Run | Instance | Shows |
|---|---|---|
| `command_worker` | either 2 runs, 1 package, 1 output chunk, 1 restart, or 1 run, 2 packages, 2 commands; 578,260 states | types; events in protocol order with nothing after the terminal event; one terminal event per ended run; one owner of the worker also across stop and start; no import of a result computed from a stale snapshot; no import begun by an aborted run; nobody waits for a load that is gone; catalog and package map agree after collisions and reloads; aborted runs end |
| `command_cancel` | 1 run, 1 package | **violation**: cancelled during the import, reported complete |
| `terminal_session` | 2 runs, 1 change of package, 2 chunks typed, 3 reads, 1 chunk of output; 405,000 states | stdin is delivered FIFO, chunks before the end, no stranded reader; a session ends with its own run's outcome and has shown all its output; the terminal does not stay busy |
| `child_commands` | run, child, grandchild, 2 output chunks; 50,736 states | output never follows its close; no import after the run's abort; only what is below a timed-out invocation survives the run; aborted invocations end |
| `child_follow` | the same | **violation**: a grandchild outlives its parent's timeout and imports |
| `http_upload` | queues of 1 as in the code, 3 chunks, 2 response chunks; 317,172 states | a body is reported complete only when it is; writes, reads after `body_end` and timed reads return; no thread is left behind |
| `http_upload_cancel` | 1 chunk, 1 response chunk | **violation**: a cancelled read without `body_end` never returns |
| `wasi_processes` | 4 redirectable or dynamic descriptors, 3 open at once, one pipe, file or host handle, 2 forks; 160,165 states | pipe counts match the descriptors of all tables; the end of a pipe is final; `path_open` never hits an open descriptor; duplicates share their offset, also across a fork; the guest runs as its own process or as the child it waits for; `proc_join` never has to wait |
| `wasi_vfork` | no files, 2 forks | **violation**: a copied child does not resume after its vfork child's `proc_exec` |
| `page_services` | see below; 153,799 states | the session's active turn runs; a prompt returns its own turn's item; calls settle; the store implements its contract and its trees can be loaded; running requests can be cancelled, end once, and truncated bodies are never taken for whole ones; a WASI run's changes are kept, descriptors follow what they are open on except where a scratch rename rewrites their paths, and all views of a path agree |
| `wasi_tree_child` | the same, with a child command that moves what its parent has open | **violation**: the run's changes are lost |
| `wasi_tree_root` | the same, with a path that names the workspace itself | **violation**: the run's changes are lost |

**Bounds.** Two runs are the fewest in which a forgotten run meets a new owner, and
one restart brings that about; a third run repeats the situation with another name.
One output chunk suffices for a write to come before or after a close. Two packages
over two commands collide on one, both or none. Four chunks and five reads exceed
each other in both directions, with reads pending and chunks queued. Three
invocations are the least depth at which the run's signal and the parent's differ.
The three queue sizes are the constants of the code; three chunks fill both body
queues and block the guest; the response limit of one makes the second chunk exceed it.
Two runs and one change of package are the fewest in which a late answer, or a run with
the same id, can be taken for another's.
In `page_services`: three calls (a connect and two that overlap) with every pair of
session methods that can disturb each other, and one fault of the runtime; two callers
of the store, a reload, and changes on a two-level tree; two dispatches with one id over
bodies of up to three chunks against a limit of two; one open descriptor over trees of
depth two and four entries, which are the least in which a rename moves something
below a directory onto something. The workspace changes with `/tmp` as it was (`focus` is
"tree"); or nothing is made in it but written, removed and imported, beside one directory
in `/tmp` that has the workspace's names and can be made, renamed and removed (`focus` is
"both").
Three assumptions on the callers are constants, and section 5 says what happens
without them: `OneFirstCall`, `WaitsForEnd` and `ChildLeavesOpen`. The paths of a module in `page_services` do not name
the workspace itself; those of `wasi_tree_root` do.
In `WasiProcesses` one pipe, one file or one host handle at a time is enough because
the operations on different objects do not touch each other; three descriptors of it,
on stream and file numbers, allow a duplicate, a replacement and a close; two forks
allow a fork in either kind of child.

**Deadlock** checking is off: a stopped worker, a finished stream, an ended run and a
closed device and a finished guest may all rest. Waiting that must end is stated as liveness instead.

**Fairness.** In `CommandWorker` and `ChildCommands`: armed timers fire, and IndexedDB
requests settle one way or the other. Nothing is assumed of loads (network), executors
(guest code) or clients. In `HttpUpload`: the guest thread inside a device call, the
producer and the bridge thread are scheduled, and time passes; nothing is assumed of
the guest's next call, the dispatcher or the adapter. In `Terminal`: messages are
delivered, and a run that is active ends, which is `AbortedRunsEnd` for aborted runs and an
assumption on guests for the others. In `AppServer`: microtasks run and the waiters' timers
fire; nothing obliges the page to call or to close.

Each property has a mutant: a definition with a plausible slip (a dropped check, a
lost event, a wrong order), written before the definition it replaces and marked
`Mutant:`, under which TLC finds the property violated.

## 5. What the runs found

- **Success after cancellation** (`command-worker.js:334`). Nothing looks at the signal
  after `importSnapshot`, so a run cancelled or timed out during it is reported
  `command.complete` (`NoSuccessAfterCancellation`), against the test title
  "rejects success after cancellation".
- **Cancelled upload that never returns** (`lib.rs:4071`). Cancellation makes
  `send_event_blocking` drop the `Fail` event that an early read relies on; guest,
  bridge thread and producer then wait for one another (`CancelledReadsReturn`).
  `EndedReadsReturn` and `DeadlineBoundsReads` show that reads after `body_end`, and
  timed reads of a run that is not cancelled, do return.
- **Grandchildren do not follow their parent** (`command-worker.js:499`). A child's
  timeout is unknown to the commands it started (`FollowsParent`).
  `SurvivorsTimedOut` and `AbortStopsImports` bound the damage: only such descendants
  survive, and the run's own abort stops them.
- **A copied child lost by its vfork child** (`wasi-module.js:622`). The copied
  child's runner takes any `proc_exec` for its own, so a vfork child that executes a
  command ends its parent too (`VforkParentResumes`); the root's runner does ask
  (`wasi-module.js:495`). The same run of events shows that such a vfork child may
  have its parent's pid (`wasi-module.js:1219`), which no document speaks of.
- **A run's changes lost after a child command** (`wasi-module.js:1666`). When a child
  removes or moves a directory in which its parent has a file open for writing,
  `rebindOpenWorkspaceFiles` makes the file again without its directory; the store refuses
  the snapshot at the end of the run (`RunKept`, run `wasi_tree_child`).
- **A run's changes lost after its root is removed** (`wasi-module.js:3968`).
  `removeWorkspaceDirectory` only refuses the directory of the descriptor it is relative to.
  Relative to a subdirectory's descriptor, `/workspace` is the root, which
  `pathHasChildren` takes for empty, and is removed; a file that `path_open` then makes at
  that path cannot be flushed (`RunKept`, run `wasi_tree_root`). The proof of `RunKept`
  failed at exactly this step, and TLC then found the six states.

Assumptions on callers that the passing runs need, and what TLC shows without them:

- `OneFirstCall = FALSE`: two first calls of `load()` overlap and the later one drops the
  change of the first (`workspace.js:390`, `KeepsContract`).
- `WaitsForEnd = FALSE`: a page that dispatches with an id in flight loses the record of
  one of the two requests, which can then not be cancelled (`http-worker.js:97`,
  `CancelReaches`).
- A rename of a scratch directory also rewrites the paths of workspace descriptors that
  begin like it (`wasi-module.js:4611`): after `mkdir /tmp/a`, opening `/workspace/a` and
  renaming `/tmp/a` to `/tmp/b`, the descriptor's path is `b` and its own `path_` calls
  start there. `page_services` takes this step; `DescriptorsFollow` names it as its
  exception (`ScratchRewrote`), and without the exception TLC finds those calls. The
  repository does not say what a descriptor does then, so this is no finding. An import
  binds a rewritten descriptor to what is at the rewritten path, which is also the one
  `ChildLeavesOpen` speaks of.
- Prompts that overlap on one thread both get the first turn's item, since waiters match
  by thread (`app-server-session.js:288`); `PromptReturnsOwnItem` speaks of prompts that
  do not overlap.

Read in the code and outside the instances: a package file below a directory the
snapshot lacks makes a rename onto it skip the parent check (`wasi-module.js:4160`); a
copied fork child shares the `workspace` object with its parent, and a directory rename in
it replaces maps the parent goes on using (`wasi-module.js:4643`); a timeout while an upload
is buffered is reported only when the body ends (`http.js:680`).

## 6. Proofs

`CommandWorkerProofs` proves, for any sets of runs, packages and commands and any
bounds, from the assumptions in `CommandWorker` (`NoRun` is no run, `NoPackage` no
package, bounds are naturals, loads yield package records):

    Invariance               Spec => []IInv
    TypeCorrect              Spec => []TypeOK
    StreamOrderHolds         Spec => []StreamOrder
    EveryEndReportedHolds    Spec => []EveryEndReported
    OwnershipHolds           Spec => []SingleActive
    NoOrphanWaiterHolds      Spec => []NoOrphanWaiter
    NoLostUpdateHolds        Spec => []NoLostUpdate
    CatalogHolds             Spec => []CatalogMatchesPackages
    NoImportAfterAbortHolds  Spec => NoImportAfterAbort

None of the properties is inductive by itself. `StreamOrder` needs to know why a late
executor cannot write: `RunInv` says that an executor still running for a `done` run
belongs to an aborted one, where the writer's check refuses, and that streams are open
in every phase in which output is accepted. `NoLostUpdate` needs that two runs are
never both between export and import: `SingleActive` makes every run but the owner an
aborted one, and `RunInv` says that an aborted run is never `executing`, so the run
that imports is the owner. `NoOrphanWaiter` needs `Exclusion`: a waiting run owns the
worker, so the load that settles finds it. `IInv` is the conjunction; the step lemmas
(`TypeStep`, `PhaseStep`, `ExclusionStep`, `StoreStep`, `CatalogStep`) treat one
conjunct each, action by action, and `StepInv` combines them. `NoImportAfterAbort`
follows because the only step into `importing` starts from `executing`.

`TerminalProofs` first proves, of the stream by itself and for any bounds on chunks and
reads:

    StreamInvariance         Spec => []IInv
    FifoDeliveryHolds        Spec => []FifoDelivery
    DrainedBeforeEndHolds    Spec => []DrainedBeforeEnd
    NoStrandedReaderHolds    Spec => []NoStrandedReader

`FifoDelivery` only speaks of settled reads, so it does not say which chunk a push or
a read will hand over next. `QueueInv` adds that the queue holds the last chunks
pushed and the waiters are the last reads; `PromiseInv` splits the reads into a
stretch that got chunks, one that was told of the end and one that is pending, and
says when the last two can be non-empty. Each of the four actions moves one of the two
borders by one step.

`WorkspaceProofs` proves of the store, for any calls, operations, stored trees and number
of reloads, from the assumptions in `WorkspaceStore` (stored trees are loadable, operations
have normalized paths):

    ApplyKeeps               GoodTree(t) /\ IsChange(op) => Keeps(t, Apply(t, op))
    TreesLoadableHolds       WorkspaceSpec => []TreesLoadable
    StoreKeepsContract       OneFirstCall = TRUE |- WorkspaceSpec => KeepsContract

`ApplyKeeps` is by cases on the operation. The hard one is the rename of a directory: it
moves every entry below `from` under `to` and must leave no entry without its parent, and
none below the old name. `NothingBelow` says why the paths it creates are free: below a
path that is no directory there is nothing, since the shortest entry there would have its
parent there too. `TreesLoadableHolds` then only needs that the snapshot in every
transaction is loadable, and holds also for concurrent first calls.

The refinement needs more. A commit writes an old snapshot, so `QueueInv` says for every
transaction how many of the unsaved changes it covers, that its tree is the one after the
last of them, and that it covers every change of its own call; transactions are ordered
by what they cover, so what is left of each after a commit is still a prefix. `LoadInv`
says that memory holds exactly the tree all calls have made once the record is loaded,
and that before it there is one call and no change: this is where `OneFirstCall` is used,
and without it TLC finds the lost change. `SavedInv` says that a persisted call has
nothing unsaved, which is what `Returns` asks. `StutterRefines` and the `...Refines`
lemmas map each step; a commit that covers nothing new is a stutter.

The same module proves of a raw WASI run, for any snapshot, package, paths, descriptors
and child commands, and trees of any depth:

    RunKeptHolds             Ordinary |- TreeSpec => []RunKept
    ViewsAgreeHolds          Ordinary |- TreeSpec => []ViewsAgree
    DescriptorsFollowHolds   Ordinary |- TreeSpec => DescriptorsFollow

`WasiInv` strengthens `RunKept`: as long as nothing is dirty the store holds what the run
would export, and both trees stay loadable with every record knowing its own path
(`GoodMount`), so that the flush is never refused. It is proved of values first: each
call makes a record that `Becomes` one the invariant allows, and `StepInvariant` turns that
into a step. The renames reuse what `ApplyKeeps` rests on; the hard case is the directory
rename onto a directory, and the import of a child's result, where the package's own
files stay as fallbacks and files open for writing are put back. `ViewsAgree` follows from
loadable trees: a path is in its parent's listing because its parent is a directory.
`DescriptorsFollow` is a property of steps: a descriptor whose path is where its object is
has that after the step too. It needs the invariant that a descriptor that is somewhere
has an object of its own kind there (`Placed`): the code tells the descriptors of a
removed file and of a removed directory by different rules, and one of the wrong kind
would be missed. An import takes every open file out of the workspace, and it is `rebound`,
not the import, that puts it at its path again. In the rename of a scratch directory the
proof shows that what is parted was rewritten from a directory that `/tmp` has no more
to one that it has now (`MovedAway`), and nothing is assumed of the names.

The hypotheses are what the code needs, and section 5 says what happens without them.
`Ordinary` is three things. `PackageFits`: the package's files are in directories of the
snapshot and not in the place of one; a package file elsewhere is listed, but no call can
open it, so `ViewsAgree` fails at once. `RootNotNamed`: no path names the workspace itself. `ChildLeavesOpen`: a
child command leaves in place what its parent has open and the directories of the
package's files.

`ChildCommandsProofs` proves, for any finite tree of invocations and any bounds:

    TypeCorrect              Spec => []TypeOK
    OutputClosedLast         Spec => []NoOutputAfterClose
    OnlyTimedOutSurvive      Spec => []SurvivorsTimedOut
    NoImportAfterAbort       Spec => AbortStopsImports

`NoOutputAfterClose` speaks of the port only. What keeps a deep descendant from writing
is `AwaitedInv`: an invocation in flight has an aborted one above it, or all above it are
executing and await it. In the first case `ChildCommandOutputWriter.write` refuses the
chunk on its way; in the second the root has not ended, and by `OutputInv` it has then
not closed its output. `ExecutorInv` covers an executor that outlives its invocation. A
new child and the end of an invocation need that an aborted invocation above a node is
either above its parent too or the parent itself, and that every chain of parents reaches
the root: `ChildBetween` and `RootAbove`, by a smallest counterexample in the tree
(`NoEndlessAscent`: the number of ancestors falls at every step up). `AbortInv` says that
the abort of the run reached everything in flight and ended what it found in a raced
promise, so no step of an aborted run imports.

`HttpUploadProofs` proves, for any sizes of the channels and any bounds:

    TypeCorrect              Spec => []TypeOK
    BodyKept                 Spec => []BodyIntegrity

`BodyIntegrity` only speaks of what was read, so the invariant follows the chunks on
their way. `BodyInv`, `HeldInv` and `QueueInv` say that after the chunks read come, without
a gap, those in the body channel, the one in the producer's hands and those in the upload
channel, up to the last one accepted; and that an end or a failure is behind all of them
wherever it is, an end only if the guest sent `body_end`. `GuestInv` says that the guest
sends nothing once it has closed the upload, and `ReadInv` that the adapter is told of the
end only by a producer that is done.

`WasiProcessesProofs` proves, for any number of descriptors, pipes, openings, offsets and
forks, with or without a package root:

    TypeCorrect              Spec => [](ProcTypes /\ the types of the tables)
    OwnProcess               Spec => []OwnProcessRuns
    JoinsAtOnce              Spec => []JoinNeverWaits
    CountsHolders            Spec => []PipeCounts
    EndOfPipeIsFinal         Spec => []EofIsFinal
    PathOpenIsFresh          Spec => []FreshDescriptors
    OneOffsetPerOpening      Spec => []SharedOffsets

`ProcInv` is the process half: `PhaseInv` (the root is suspended and has no vfork child
while there is a copied one), and for every live runtime that it runs as its own process
or its only vfork child and that no other child of its own process is unfinished.
`TabInv` is the other half and assumes it. `Balanced` counts a pipe end in each table;
the counts change by one entry at a time (`TotalPut`), so a close, a renumbering or a
duplication is a replacement of one or two entries followed by `ReleaseBalance` or
`RetainBalance`, and a fork doubles the root's share because `CopyInv` has the copy's
table empty until then. `EofIsFinal` is inductive only with the counts: the end is
reported when the writer count is zero, which by `Balanced` means no writer is left, and
a writer can only come from another. `Fresh` adds the preopens to `FreshDescriptors`,
`Known` says that pipes and openings are numbered in the order they appear, so that a new
one clashes with none, and `Separate` says that two descriptors of one opening share a cell.

Proving `FreshDescriptors` showed that the model gave a runtime not yet there a
`nextFileFd` on the package root; `FirstFreeFd` is now the constructor's value for both.

`HttpBridgeProofs` proves, for any dispatches, ids, requests and limits, and any responses
of the forms `ResponsesAssumption` names (a body is made of chunks, and `fetch` either
delivers it whole or rejects; a JSON envelope may report an error instead; the lines of a
stream are anything):

    OneEnd                   BridgeSpec => []OneTerminalEvent
    BodiesAreWhole           BridgeSpec => []BodiesWhole
    RunningIsReached         WaitsForEnd = TRUE |- BridgeSpec => []CancelReaches

A dispatch is a function of its record, so most lemmas are about one record. `Good` says
that it runs and has reported nothing, or is over and has reported one thing; between the
two there is only the moment inside `failBodyMessage` when the error is posted and the
abort has yet to end the dispatch (`EndedOnce`). `Reads` says that whatever the decoder
meets, the dispatch reads on or is over and its upload is untouched; for the loops over
bytes and chunks this goes by the smallest index at which it would fail (`DecodesReads`,
`WritesReads`), once the loop is known to be a function (`DecodesExists`). `Up` makes
`UploadWhole` inductive: a body that is closed has been ended or failed by the page, and
nothing is queued while a body is buffered. `CancelReaches` is inductive once `inFlight`
is known to hold only running dispatches under their own ids; `WaitsForEnd` is needed
where a new dispatch takes the id over.

The answer half of `BodiesWhole` needs to know what the decoder has computed after any
number of bytes. `Progress` says that what a dispatch has taken of its answer and what is
to come make up the answer, and `TookBytes` what it has taken: after `3 * m + k` bytes of a
stream the buffer holds the `k` halves of line `m + 1` (`Part`), and the counters and flags
say of the first `m` lines what `Took` says: the chunks among them were written, and they
are all blank, or begun by a response frame, or done with their end frame (`AllBlank`,
`Begun`, `Done`). `DecodeByteTakes` takes this over one byte, wherever the network cut the
line, and `DecodeTakes` over a chunk, again by the smallest byte at which it would fail.
A line that `applyFrame` refuses cannot come next in a stream that is valid as a whole
(`StageFollows`), and at the end `Done` of all lines is `ValidStream` (`FinishAnswer`). A
plain body and a JSON envelope are the text itself, and `WritesCount` counts what
`writeAll` writes of them. `Answered` adds this to `Fine`: before the head nothing is
taken, after the end the report is right, and no other step ends a dispatch with a word
about its answer (`SaysNothing`).

The proof made the model of a blank line what the code makes of one: white space within
the line, and white space after the last newline, is accepted (`isAsciiWhitespace`), where
the model had known only a lone newline.

Of the terminal over it, `TerminalProofs` proves, for any bounds:

    SessionsEndAsTheirRuns   TerminalSpec => []OwnOutcome
    StdinKeepsItsPromises    TerminalSpec => [](FifoDelivery /\ DrainedBeforeEnd
                                                /\ NoStrandedReader)

`OwnOutcome` speaks of ended sessions; the invariant follows the session that listens.
Its run is on its way to the worker (`Starting`), active (`Going`), or its end is on the
way back (`Ending`). A `command.error` for late input carries the id of the session, so
`Ending` says that nothing before the end could be taken for one, and `Starting` that
input for a run follows its run message; a refused run would be another such error, and
`RunKeeps` shows that none is refused. That all output is shown by then is a count: what
was shown and what is on the port add up to what was posted, and no output follows the
end. `IdsKnown` bounds the ids on the port by `runCount`, so that a new session's is
free, also after `configurePackage` has set the counter back, which empties the port.

The second theorem reuses the stream's own invariant: a step of the terminal is a step
of the stream, no step of it, or a new stream.

`AppServerProofs` proves, for any number of calls, any scripts and configurations, and any
faults, closes and interleavings:

    AppInvariant               AppSpec => []AppInv
    ActiveTurnRunsHolds        AppSpec => []ActiveTurnRuns
    PromptReturnsOwnItemHolds  AppSpec => []PromptReturnsOwnItem

Both properties relate the page's session to the runtime, with a request in the queue, an
answer, and notifications between them. `FlightInv` says that a request is in the queue or
being answered at most once, `MessageInv` what it asks for, `FrameInv` and `ReplyInv`
what the frames being sent say of the runtime (a turn whose start is announced runs, or
its completion is among the later frames), and `OverlapInv` that two turns under way know
of each other, which is what `PromptReturnsOwnItem` excludes. `ViewInv` is about the page's
side: its calls, waiters, what they have heard and the active turn. A batch of frames is
received in one step, so `ViewInv` is stated of a *view* of the page after the first `n`
frames: one lemma for each kind of frame takes it from `n` to `n + 1`, and the whole batch
follows from the smallest `n` at which it would fail, the recursive functions of the
model being known to be functions. `CallMoves`, `ViewBecomes` and `DispatchMoves` then
reduce every action to what it changes.

Only model-checked: the liveness properties (`AbortedRunsEnd`,
`AbortedInvocationsEnd`, `BusyEnds`, `CallsSettle` and the four of `HttpUpload`), which need fairness, and the violations. Every other safety property a run checks
is a theorem.

## 7. Not modelled

Listed per component in `PROJECT.json`. Vendored Wasmer crates, DOM code, binary
decoding of packages, URL and header validation, argument parsing and the language
bindings have no order of events to get wrong. The auth broker and the tool protocol are
single lookups and checks. `EventBus` and the supervision of native runs depend on the
memory order of atomics and on the vendored runtime. Hazards without a property carry
a note that says why.
