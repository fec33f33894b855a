--------------------------- MODULE ChildCommands ---------------------------
(***************************************************************************)
(* The child commands of one run (runChildCommand in                       *)
(* apps/web/src/command-worker.js): a tree of invocations below the run,   *)
(* each with a signal, a timer, an output writer and possibly a snapshot   *)
(* of its own, all sharing the worker, the workspace and the run's output. *)
(* CommandWorker models the root's life up to its executor.                *)
(*                                                                         *)
(* A step is one macrotask, as in CommandWorker.  An executor awaits the   *)
(* children it calls (runBrowserToolChildFixture, runProcessExec), but     *)
(* nobody waits for the executor of an invocation that was aborted.        *)
(***************************************************************************)
EXTENDS Naturals, Sequences, FiniteSets

CONSTANTS
    Invocations,  \* the run and the child commands below it
    Root,         \* the run
    Parent,       \* whose executor calls each child
    Ancestors,    \* each invocation with all that are above it
    NoOne,        \* the workspace as the run found it
    MaxOutput     \* bound: output chunks that reach the port

Children == Invocations \ {Root}

ASSUME TreeAssumption ==
    /\ Root \in Invocations /\ NoOne \notin Invocations
    /\ IsFiniteSet(Invocations)
    /\ Parent \in [Children -> Invocations]
    /\ Ancestors \in [Invocations -> SUBSET Invocations]
    /\ Ancestors[Root] = {Root}
    /\ \A i \in Children : i \notin Ancestors[Parent[i]]
                              /\ Ancestors[i] = Ancestors[Parent[i]] \cup {i}
ASSUME OutputAssumption == MaxOutput \in Nat

VARIABLES
    pc,        \* where runChildCommand (for the root, runCommand) stands
    kind,      \* "webc" with a snapshot of its own, "carried" one, or "direct"
    inherit,   \* whether stdout goes to the parent's writer
    aborted,   \* the invocation's signal
    timer,     \* whether its own timeout is armed
    executor,  \* "idle", "running" or "settled"
    posted,    \* what the port gets on the run's output streams
    store      \* the invocation whose result was last imported

vars == <<pc, kind, inherit, aborted, timer, executor, posted, store>>

Kinds    == {"webc", "carried", "direct"}
InFlight == {"resolving", "exporting", "executing", "importing"}

TypeOK ==
    /\ pc \in [Invocations -> {"new", "done"} \cup InFlight]
    /\ kind \in [Invocations -> Kinds]
    /\ inherit \in [Invocations -> BOOLEAN]
    /\ aborted \in [Invocations -> BOOLEAN]
    /\ timer \in [Invocations -> BOOLEAN]
    /\ executor \in [Invocations -> {"idle", "running", "settled"}]
    /\ posted \in Seq({"output", "close"})
    /\ store \in Invocations \cup {NoOne}

\* The run's executor has just been called; a child's mode is set by its call.
Init ==
    /\ pc = [i \in Invocations |-> IF i = Root THEN "executing" ELSE "new"]
    /\ kind \in {[i \in Invocations |-> k] : k \in Kinds}
    /\ inherit = [i \in Invocations |-> FALSE]
    /\ aborted = [i \in Invocations |-> FALSE]
    /\ timer = [i \in Invocations |-> FALSE]
    /\ executor = [i \in Invocations |-> IF i = Root THEN "running" ELSE "idle"]
    /\ posted = <<>>
    /\ store = NoOne

\* The promises an invocation races against its signal.
Raced == {"resolving", "executing"}

\* The end of the run closes its output (postOutputStreamClose).
ClosedBy(next) ==
    IF next[Root] = "done" /\ pc[Root] # "done" THEN Append(posted, "close") ELSE posted

\* The finally block of an invocation that ends: its timer is cleared.
Settle(i) ==
    /\ pc' = [pc EXCEPT ![i] = "done"]
    /\ timer' = [timer EXCEPT ![i] = FALSE]
    /\ posted' = ClosedBy(pc')

-----------------------------------------------------------------------------
(* runChildCommand *)

\* Once the package is known: the export of a snapshot, unless the request
\* carries one, or the executor at once.
Begin(i, k) ==
    /\ pc' = [pc EXCEPT ![i] = IF k = "webc" THEN "exporting" ELSE "executing"]
    /\ executor' = [executor EXCEPT ![i] = IF k = "webc" THEN "idle" ELSE "running"]

\* childCommands.run up to its first await.  A child of an aborted run has an
\* aborted signal from the start and is refused, like one whose command is unknown.
RunChildCommand(i, k, inherits, timed, resolution) ==
    /\ i \in Children /\ pc[i] = "new"
    /\ executor[Parent[i]] = "running"
    /\ kind' = [kind EXCEPT ![i] = k]
    /\ inherit' = [inherit EXCEPT ![i] = inherits]
    /\ aborted' = [aborted EXCEPT ![i] = aborted[Root]]
    /\ \/ /\ aborted[Root] \/ resolution = "unknown"
          /\ pc' = [pc EXCEPT ![i] = "done"]
          /\ UNCHANGED <<executor, timer>>
       \/ /\ ~aborted[Root] /\ resolution = "loading"
          /\ pc' = [pc EXCEPT ![i] = "resolving"]
          /\ timer' = [timer EXCEPT ![i] = timed]
          /\ UNCHANGED executor
       \/ /\ ~aborted[Root] /\ resolution = "loaded"
          /\ Begin(i, k)
          /\ timer' = [timer EXCEPT ![i] = timed]
    /\ UNCHANGED <<posted, store>>

\* The package load an invocation waits for settles.
ResolutionSettles(i, ok) ==
    /\ pc[i] = "resolving"
    /\ IF ok
       THEN Begin(i, kind[i]) /\ UNCHANGED <<timer, posted>>
       ELSE Settle(i) /\ UNCHANGED executor
    /\ UNCHANGED <<kind, inherit, aborted, store>>

\* exportSnapshot settles.  callExecutorWithAbort calls the executor also when
\* the signal is already aborted, and rejects at once.
ExportSettles(i, ok) ==
    /\ pc[i] = "exporting"
    /\ executor' = [executor EXCEPT ![i] = IF ok THEN "running" ELSE "idle"]
    /\ IF ok /\ ~aborted[i]
       THEN pc' = [pc EXCEPT ![i] = "executing"] /\ UNCHANGED <<timer, posted>>
       ELSE Settle(i)
    /\ UNCHANGED <<kind, inherit, aborted, store>>

\* Mutant: the child's writer does not look at its own signal.
WriteInheritedUnchecked(i) ==
    /\ executor[i] = "running"
    /\ ~aborted[Root]
    /\ \A j \in Ancestors[i] \ {Root} : inherit[j]
    /\ Cardinality({k \in 1 .. Len(posted) : posted[k] = "output"}) < MaxOutput
    /\ posted' = Append(posted, "output")
    /\ UNCHANGED <<pc, kind, inherit, aborted, timer, executor, store>>

\* A write that reaches the port: each writer on the way looks at its own signal
\* and passes the chunk on.  A piped chunk stays in its invocation's result.
WriteInherited(i) ==
    /\ executor[i] = "running"
    /\ \A j \in Ancestors[i] : ~aborted[j] /\ (j # Root => inherit[j])
    /\ Cardinality({k \in 1 .. Len(posted) : posted[k] = "output"}) < MaxOutput
    /\ posted' = Append(posted, "output")
    /\ UNCHANGED <<pc, kind, inherit, aborted, timer, executor, store>>

\* Mutant: the promise of the child is not awaited.
NothingAwaited(i) == {c \in {i} : c \notin Invocations}

\* The children whose promise an executor awaits before it settles.
Awaited(i) == {c \in Children : Parent[c] = i /\ pc[c] \in InFlight}

\* Mutant: the result of an executor is imported whatever became of its
\* invocation, as without the race and the check before importSnapshot.
ImportUnraced(i, snapshot) ==
    /\ executor[i] = "running"
    /\ Awaited(i) = {}
    /\ executor' = [executor EXCEPT ![i] = "settled"]
    /\ IF snapshot /\ kind[i] = "webc"
       THEN /\ pc' = [pc EXCEPT ![i] = "importing"]
            /\ store' = i
            /\ UNCHANGED <<timer, posted>>
       ELSE Settle(i) /\ UNCHANGED store
    /\ UNCHANGED <<kind, inherit, aborted>>

\* The executor resolves or rejects while its invocation waits for it.  Only a
\* snapshot that the invocation exported itself is imported.
ExecutorSettles(i, snapshot) ==
    /\ executor[i] = "running" /\ pc[i] = "executing"
    /\ Awaited(i) = {}
    /\ executor' = [executor EXCEPT ![i] = "settled"]
    /\ IF snapshot /\ kind[i] = "webc"
       THEN /\ pc' = [pc EXCEPT ![i] = "importing"]
            /\ store' = i
            /\ UNCHANGED <<timer, posted>>
       ELSE Settle(i) /\ UNCHANGED store
    /\ UNCHANGED <<kind, inherit, aborted>>

\* The executor of an aborted invocation settles; nobody listens.
ExecutorSettlesLate(i) ==
    /\ executor[i] = "running" /\ pc[i] = "done"
    /\ Awaited(i) = {}
    /\ executor' = [executor EXCEPT ![i] = "settled"]
    /\ UNCHANGED <<pc, kind, inherit, aborted, timer, posted, store>>

\* importSnapshot settles, well or not.
ImportSettles(i) ==
    /\ pc[i] = "importing"
    /\ Settle(i)
    /\ UNCHANGED <<kind, inherit, aborted, executor, store>>

-----------------------------------------------------------------------------
(* Signals *)

\* Mutant: an aborted invocation waits for its executor all the same.
AbortCooperatively(them) ==
    /\ aborted' = [i \in Invocations |-> aborted[i] \/ i \in them]
    /\ timer' = [i \in Invocations |-> timer[i] /\ i \notin them]
    /\ UNCHANGED <<pc, posted>>

\* The signals of these invocations are aborted: the ones in a raced promise end.
\* An aborted invocation's timer may still run out, to no effect.
Abort(them) ==
    /\ aborted' = [i \in Invocations |-> aborted[i] \/ i \in them]
    /\ pc' = [i \in Invocations |->
                 IF i \in them /\ pc[i] \in Raced THEN "done" ELSE pc[i]]
    /\ timer' = [i \in Invocations |-> timer[i] /\ i \notin them]
    /\ posted' = ClosedBy(pc')

\* The child's own timeout.
ChildTimeout(i) ==
    /\ i \in Children /\ timer[i]
    /\ Abort({i})
    /\ UNCHANGED <<kind, inherit, executor, store>>

\* The run is cancelled, times out or fails on stdin: createChildCommandAbortSignal
\* made every child still in flight listen to the run's signal, at any depth.
AbortRun ==
    /\ pc[Root] \in InFlight /\ ~aborted[Root]
    /\ Abort({i \in Invocations : pc[i] \in InFlight})
    /\ UNCHANGED <<kind, inherit, executor, store>>

-----------------------------------------------------------------------------

Next ==
    \/ \E i \in Invocations :
         \/ \E k \in Kinds, inherits, timed \in BOOLEAN,
               resolution \in {"unknown", "loading", "loaded"} :
                RunChildCommand(i, k, inherits, timed, resolution)
         \/ \E ok \in BOOLEAN : ResolutionSettles(i, ok) \/ ExportSettles(i, ok)
         \/ WriteInherited(i)
         \/ \E snapshot \in BOOLEAN : ExecutorSettles(i, snapshot)
         \/ ExecutorSettlesLate(i)
         \/ ImportSettles(i)
         \/ ChildTimeout(i)
    \/ AbortRun

\* Timers fire and workspace requests end; loads, executors and clients need not.
Fairness ==
    \A i \in Invocations :
        /\ WF_vars(ChildTimeout(i))
        /\ WF_vars(\E ok \in BOOLEAN : ExportSettles(i, ok))
        /\ WF_vars(ImportSettles(i))

Spec == Init /\ [][Next]_vars /\ Fairness
-----------------------------------------------------------------------------
(* Properties *)

\* No descendant of a run, however deep and however long its executor lives on,
\* writes to the run's output after the run has closed it: a survivor's chunk is
\* stopped by an aborted writer on its way (ChildCommandOutputWriter.write).
NoOutputAfterClose ==
    \A k \in 1 .. Len(posted) : posted[k] = "close" => k = Len(posted)

\* Once the run's signal is aborted no invocation of its tree imports its result.
AbortStopsImports == [][aborted[Root] => store' = store]_vars

\* A run that was not aborted ends only after its children: whatever is still in
\* flight then is below an invocation that timed out.
SurvivorsTimedOut ==
    pc[Root] = "done" /\ ~aborted[Root] =>
        \A i \in Invocations :
            pc[i] \in InFlight => \E j \in Ancestors[i] \ {i} : aborted[j]

\* An invocation that is aborted or has a timeout ends, whatever its package
\* load, its executor and its own children do.
AbortedInvocationsEnd ==
    \A i \in Invocations :
        pc[i] \in InFlight /\ (aborted[i] \/ timer[i]) ~> pc[i] = "done"

\* What docs/host-profile.md says of the child helper: it follows its parent's
\* timeout, so nothing is imported below an invocation that was aborted.
FollowsParent ==
    [][\A i \in Invocations :
           store' = i /\ store # i => \A j \in Ancestors[i] : ~aborted[j]]_vars
=============================================================================
