------------------------------ MODULE Terminal ------------------------------
(***************************************************************************)
(* BrowserTerminalShellController (apps/web/src/terminal-ui.js) with the   *)
(* BrowserTerminalSession of each run (terminal.js), the two directions of *)
(* the port, and the command worker behind it with the stdin of its run.   *)
(*                                                                         *)
(* The worker is taken at what module CommandWorker establishes of it: a   *)
(* run is accepted or refused, posts started, output, two closes and one   *)
(* end, and a message for another run than the active one is answered with *)
(* command.error.  A step is one macrotask of the page or of the worker.   *)
(***************************************************************************)
EXTENDS InputStream

CONSTANTS
    MaxRuns,    \* bound: runs the user starts
    MaxOutput,  \* bound: chunks of output of a run
    MaxResets   \* bound: calls of configurePackage

ASSUME TerminalBounds == MaxRuns \in Nat /\ MaxOutput \in Nat /\ MaxResets \in Nat

VARIABLES
    ui,        \* phase, runCount, loaded; session: the id its session listens for, or 0
    toWorker,  \* messages posted to the worker
    toPage,    \* messages posted by the worker
    active,    \* the worker's activeRun: its id (or 0), and whether it was aborted
    log        \* observation: for each start, what the worker posted and the page heard

terminalVars == <<ui, toWorker, toPage, active, log>>

NoRun == [id |-> 0, run |-> 0, aborted |-> FALSE]

Message(type, id, n) == [type |-> type, id |-> id, run |-> n]

Terminals == {"complete", "error", "cancelled"}

TerminalInit ==
    /\ Init
    /\ ui = [phase |-> "idle", runCount |-> 0, loaded |-> FALSE, session |-> 0, run |-> 0,
             typed |-> 0, eof |-> FALSE, asked |-> FALSE, resets |-> 0, destroyed |-> FALSE]
    /\ toWorker = <<>> /\ toPage = <<>>
    /\ active = NoRun
    /\ log = <<>>

Busy == ui.phase \in {"loading", "running"}

\* A run and its stdin stream are gone; the next one starts with a new stream.
DropStream ==
    /\ chunks' = <<>> /\ waiters' = <<>> /\ closed' = FALSE /\ failed' = FALSE
    /\ pushed' = 0 /\ reads' = 0 /\ promise' = [i \in ReadIds |-> Pending]

InSession == ui.session # 0 /\ ui.phase = "running" /\ ~ui.destroyed

-----------------------------------------------------------------------------
(* The page *)

\* Mutant: every run has the id of the run message.
StartSessionSameId(u) ==
    /\ ui' = [u EXCEPT !.phase = "running", !.session = 1, !.run = Len(log) + 1]
    /\ toWorker' = Append(toWorker, Message("run", 1, Len(log) + 1))
    /\ log' = Append(log, [posted |-> 0, shown |-> 0, worker |-> "none", page |-> "none"])

\* runOnce after the package is loaded: a session with a fresh id posts the run.
StartSession(u) ==
    /\ ui' = [u EXCEPT !.phase = "running", !.runCount = @ + 1, !.session = u.runCount + 1,
                       !.run = Len(log) + 1]
    /\ toWorker' = Append(toWorker, Message("run", u.runCount + 1, Len(log) + 1))
    /\ log' = Append(log, [posted |-> 0, shown |-> 0, worker |-> "none", page |-> "none"])

\* ensureLoaded: a new worker first gets the package.
ensureLoaded ==
    /\ ui' = [ui EXCEPT !.phase = "loading"]
    /\ toWorker' = Append(toWorker, Message("load", 0, 0))
    /\ UNCHANGED log

\* run(): a second call while one is under way only returns its promise.
Run ==
    /\ ~Busy /\ ~ui.destroyed /\ Len(log) < MaxRuns
    /\ IF ui.loaded THEN StartSession(ui) ELSE ensureLoaded
    /\ UNCHANGED <<streamVars, toPage, active>>

\* configurePackage: the run ids start again, with a new worker and so a new port.
configurePackage ==
    /\ ~Busy /\ ~ui.destroyed /\ ui.resets < MaxResets
    /\ ui' = [ui EXCEPT !.phase = "idle", !.loaded = FALSE, !.runCount = 0, !.resets = @ + 1]
    /\ toWorker' = <<>> /\ toPage' = <<>> /\ active' = NoRun
    /\ DropStream
    /\ UNCHANGED log

destroy ==
    /\ ~ui.destroyed
    /\ ui' = [ui EXCEPT !.destroyed = TRUE, !.session = 0, !.loaded = FALSE]
    /\ toWorker' = <<>> /\ toPage' = <<>> /\ active' = NoRun
    /\ DropStream
    /\ UNCHANGED log

\* writeStdin, closeStdin (its button works once), resize and cancel.
postForActiveRun(type, u) ==
    /\ InSession
    /\ ui' = u
    /\ toWorker' = Append(toWorker, Message(type, ui.session, ui.run))
    /\ UNCHANGED <<streamVars, toPage, active, log>>

writeStdin == ui.typed < MaxChunks /\ postForActiveRun("stdin", [ui EXCEPT !.typed = @ + 1])
closeStdin == ~ui.eof /\ postForActiveRun("stdin.end", [ui EXCEPT !.eof = TRUE])
AskOnce(type) == ~ui.asked /\ postForActiveRun(type, [ui EXCEPT !.asked = TRUE])
resize == AskOnce("resize")
cancel == AskOnce("cancel")

\* dispatchLoad's listener.
HearLoad(m) ==
    /\ ui.phase = "loading" /\ m.type \in {"loaded", "load.error"}
    /\ IF m.type = "loaded" THEN StartSession([ui EXCEPT !.loaded = TRUE])
       ELSE ui' = [ui EXCEPT !.phase = "error"] /\ UNCHANGED <<toWorker, log>>

\* Mutant: only command.complete ends a session.
finishOnComplete(m) ==
    /\ IF m.type = "complete"
       THEN /\ ui' = [ui EXCEPT !.phase = m.type, !.session = 0]
            /\ log' = [log EXCEPT ![ui.run].page = m.type]
       ELSE UNCHANGED <<ui, log>>
    /\ UNCHANGED toWorker

\* finish, and the then or catch of run().
finish(m) ==
    /\ ui' = [ui EXCEPT !.phase = m.type, !.session = 0, !.typed = 0, !.eof = FALSE, !.asked = FALSE]
    /\ log' = [log EXCEPT ![ui.run].page = m.type]
    /\ UNCHANGED toWorker

\* The session's handleMessage: the id decides whose message it is.
HearRun(m) ==
    /\ m.id = ui.session /\ m.type \notin {"loaded", "load.error"}
    /\ \/ m.type \in Terminals /\ finish(m)
       \/ m.type = "output" /\ log' = [log EXCEPT ![ui.run].shown = @ + 1] /\ UNCHANGED <<ui, toWorker>>
       \/ m.type \in {"started", "close"} /\ UNCHANGED <<ui, toWorker, log>>

Ignored(m) ==
    /\ IF m.type \in {"loaded", "load.error"} THEN ui.phase # "loading" ELSE m.id # ui.session
    /\ UNCHANGED <<ui, toWorker, log>>

PageHears ==
    /\ toPage # <<>>
    /\ toPage' = Tail(toPage)
    /\ LET m == Head(toPage) IN HearLoad(m) \/ HearRun(m) \/ Ignored(m)
    /\ UNCHANGED <<streamVars, active>>

-----------------------------------------------------------------------------
(* The worker *)

Post(messages) == toPage' = toPage \o messages

\* postOutputStreamClose and the terminal event; the run is no longer active.
EndRun(result) ==
    /\ Post(<<Message("close", active.id, active.run), Message("close", active.id, active.run),
              Message(result, active.id, active.run)>>)
    /\ log' = [log EXCEPT ![active.run].worker = result]
    /\ active' = NoRun
    /\ DropStream

load(m) ==
    /\ m.type = "load"
    /\ \E answer \in {"loaded", "load.error"} : Post(<<Message(answer, 0, 0)>>)
    /\ UNCHANGED <<streamVars, active, log>>

\* runCommand to the executor; refused while another run is active.
runCommand(m) ==
    /\ m.type = "run"
    /\ IF active.id = 0
       THEN /\ active' = [id |-> m.id, run |-> m.run, aborted |-> FALSE]
            /\ Post(<<Message("started", m.id, m.run)>>)
            /\ UNCHANGED log
       ELSE /\ Post(<<Message("error", m.id, m.run)>>)
            /\ log' = [log EXCEPT ![m.run].worker = "error"]
            /\ UNCHANGED active
    /\ UNCHANGED streamVars

ForActive(m) == m.id = active.id /\ active.id # 0

\* abortRun: the signal, and the stdin stream with it.
abortRun ==
    /\ active' = [active EXCEPT !.aborted = TRUE]
    /\ IF failed THEN UNCHANGED streamVars ELSE Fail

\* handleStdinChunk and handleStdinEnd; what the closed stream refuses aborts the run.
handleStdin(m) ==
    /\ m.type \in {"stdin", "stdin.end"} /\ ForActive(m)
    /\ \/ m.type = "stdin" /\ Push /\ UNCHANGED active
       \/ m.type = "stdin.end" /\ End /\ UNCHANGED active
       \/ (closed \/ (m.type = "stdin" /\ failed)) /\ abortRun
    /\ UNCHANGED <<toPage, log>>

handleControl(m) ==
    /\ m.type \in {"cancel", "resize"} /\ (ForActive(m) \/ m.type = "cancel")
    /\ IF ForActive(m) /\ m.type = "cancel" THEN abortRun ELSE UNCHANGED <<active, streamVars>>
    /\ UNCHANGED <<toPage, log>>

\* activeRunForStdin and activeRunForTerminal: the run is over.
UnknownStream(m) ==
    /\ m.type \in {"stdin", "stdin.end", "resize"} /\ ~ForActive(m)
    /\ Post(<<Message("error", m.id, 0)>>)
    /\ UNCHANGED <<streamVars, active, log>>

WorkerHears ==
    /\ toWorker # <<>>
    /\ toWorker' = Tail(toWorker)
    /\ LET m == Head(toWorker)
       IN  load(m) \/ runCommand(m) \/ handleStdin(m) \/ handleControl(m) \/ UnknownStream(m)
    /\ UNCHANGED ui

\* The executor reads stdin and writes output.
WorkerReads == active.id # 0 /\ ReadChunk /\ UNCHANGED terminalVars

WorkerWrites ==
    /\ active.id # 0 /\ log[active.run].posted < MaxOutput
    /\ Post(<<Message("output", active.id, active.run)>>)
    /\ log' = [log EXCEPT ![active.run].posted = @ + 1]
    /\ UNCHANGED <<streamVars, ui, toWorker, active>>

\* The run ends; an aborted one may still complete while its result is imported.
WorkerEnds(result) ==
    /\ active.id # 0 /\ (result = "cancelled" => active.aborted)
    /\ EndRun(result)
    /\ UNCHANGED <<ui, toWorker>>

-----------------------------------------------------------------------------

Worker == WorkerHears \/ \E result \in Terminals : WorkerEnds(result)

TerminalNext ==
    \/ Run \/ configurePackage \/ destroy \/ writeStdin \/ closeStdin \/ resize \/ cancel
    \/ PageHears \/ WorkerReads \/ WorkerWrites \/ Worker

allVars == <<streamVars, terminalVars>>

\* Messages are delivered and runs end (AbortedRunsEnd of CommandWorker, and executors
\* that return); the user does nothing he does not want to.
TerminalFairness ==
    /\ WF_allVars(PageHears)
    /\ WF_allVars(WorkerHears)
    /\ WF_allVars(\E result \in Terminals : WorkerEnds(result))

TerminalSpec == TerminalInit /\ [][TerminalNext]_allVars /\ TerminalFairness

-----------------------------------------------------------------------------

\* A session ends with the end of its own run, and has then shown all its output, also
\* when input sent too late is answered with command.error under a run's id, and when
\* the numbering of runs starts again.
OwnOutcome ==
    \A k \in DOMAIN log :
        log[k].page # "none" => log[k].page = log[k].worker /\ log[k].shown = log[k].posted

\* The terminal does not stay loading or running for ever.
BusyEnds == Busy ~> (~Busy \/ ui.destroyed)
=============================================================================
