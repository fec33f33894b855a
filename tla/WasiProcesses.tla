---------------------------- MODULE WasiProcesses ----------------------------
(***************************************************************************)
(* The descriptor tables, pipes and processes of a raw WASI run            *)
(* (WasiPreview1Runtime and WasixRuntime).                                 *)
(*                                                                         *)
(* A run has one runtime, "root".  proc_fork(copy_memory=true) adds a      *)
(* second one, "copy", and suspends the first until the copy has ended.    *)
(* Within a runtime, proc_fork(copy_memory=false) lets the guest go on as  *)
(* the child until the child ends, with the same tables.  One guest runs   *)
(* at a time and a step is one of its import calls, with the unwinding and *)
(* rewinding of its stack that the call causes.  A call that only returns  *)
(* an error changes nothing and is not a step.                             *)
(***************************************************************************)
EXTENDS Naturals, FiniteSets, FiniteSetsExt

CONSTANTS
    PackageRoot,    \* whether the package root is preopened as FIRST_FILE_FD
    Redirected,     \* bound: the standard streams that the guest redirects
    Duplicated,     \* bound: the host streams and preopens that it duplicates
    Mounts,         \* bound: mounts of opened files ("workspace" or "other")
    MaxFd,          \* bound: highest descriptor number
    MaxOpenFiles,   \* bound: open files in a table
    MaxObjects,     \* bound: pipes, path_open calls and handles of host streams
    MaxOffset,      \* bound: file offsets
    MaxForks,       \* bound: forks, those of a copied child that is gone apart
    PipeLimit       \* PIPE_BUFFER_LIMIT, in units of data

StdioFds      == 0 .. 2
WORKSPACE_FD  == 3
TMP_FD        == 4
FIRST_FILE_FD == 5
RootPid       == 1
NoPid         == 0

ASSUME Bounds ==
    /\ PackageRoot \in BOOLEAN
    /\ Redirected \subseteq StdioFds /\ Mounts \subseteq {"workspace", "other"}
    /\ Duplicated \subseteq 0 .. FIRST_FILE_FD
    /\ {MaxFd, MaxOpenFiles, MaxObjects, MaxOffset, MaxForks, PipeLimit} \subseteq Nat
    /\ MaxFd >= FIRST_FILE_FD

Runtimes == {"root", "copy"}
Fds      == 0 .. MaxFd
Pipes    == 1 .. MaxObjects
Opens    == 1 .. MaxObjects
Offsets  == 0 .. MaxOffset
Pids     == RootPid .. RootPid + MaxForks

VARIABLES
    phase,          \* runtime -> absent, guest, exec, ended or failed
    how,            \* runtime -> the call that ended it
    openFiles,      \* runtime -> descriptor -> open file
    nextFileFd,     \* runtime -> next descriptor of path_open
    pipes,          \* pipe -> [bytes, readers, writers]
    offsetRef,      \* opening -> offset cell shared by its descriptors
    npipes,         \* pipes created so far
    nopens,         \* openings so far
    processes,      \* runtime -> pid -> process record
    nextProcessId,  \* runtime -> next pid
    currentProcessId,  \* runtime -> pid the guest runs as
    activeVfork,    \* runtime -> [childPid, parentPid] of the suspended parent
    forkedPid,      \* pid under which the copied child was started
    eof             \* pipes of which a read has reported the end

tables == <<openFiles, nextFileFd, pipes, offsetRef, npipes, nopens>>
procs  == <<processes, nextProcessId, currentProcessId, activeVfork, forkedPid>>
vars   == <<phase, how, tables, procs, eof>>

-----------------------------------------------------------------------------
(* Open files *)

NoFile         == [kind |-> "none"]
PipeEnd(p, d)  == [kind |-> "pipe", pipe |-> p, direction |-> d]
Stdio(fd)      == [kind |-> "stdio", stdioFd |-> fd]

\* A file or a directory.  Its offset is its own until the descriptor is
\* duplicated; from then on it is the cell offsetRef[open].
Opened(m, o, off, sh) ==
    [kind |-> "file", mount |-> m, open |-> o, offset |-> off, shared |-> sh]

isOpenPipe(f)  == f.kind = "pipe"
isOpenStdio(f) == f.kind = "stdio"
IsOpened(f)    == f.kind = "file"

Offset(f) == IF f.shared THEN offsetRef[f.open] ELSE f.offset

Preopens == StdioFds \cup {WORKSPACE_FD, TMP_FD}
                     \cup (IF PackageRoot THEN {FIRST_FILE_FD} ELSE {})

isDynamicFileFdNumber(fd) == fd >= FIRST_FILE_FD

\* fdStat: the descriptor is open, or stands for a host stream or a preopen.
fdStat(rt, fd) == openFiles[rt][fd] # NoFile \/ fd \in Preopens

\* What a file may be put in the place of a standard stream.
MayReplaceStdio(f) ==
    IF IsOpened(f) THEN f.mount = "workspace" ELSE TRUE

\* nextFileFd of a new runtime: above the package root, if there is one.
FirstFreeFd == IF PackageRoot THEN FIRST_FILE_FD + 1 ELSE FIRST_FILE_FD

RenumberTargets == {fd \in Fds : isDynamicFileFdNumber(fd) \/ fd \in Redirected}

\* Mutant: a duplicated pipe end is not counted.
RetainNothing(ps, f) == ps

\* retainOpenFile and closeOpenFile.
Retain(ps, f) ==
    CASE ~isOpenPipe(f)                          -> ps
      [] isOpenPipe(f) /\ f.direction = "read"   -> [ps EXCEPT ![f.pipe].readers = @ + 1]
      [] OTHER                                   -> [ps EXCEPT ![f.pipe].writers = @ + 1]

Decrease(k, n) == IF n > k THEN 0 ELSE k - n

Release(ps, f) ==
    CASE ~isOpenPipe(f)                          -> ps
      [] isOpenPipe(f) /\ f.direction = "read"   -> [ps EXCEPT ![f.pipe].readers = Decrease(@, 1)]
      [] OTHER                                   -> [ps EXCEPT ![f.pipe].writers = Decrease(@, 1)]

\* The descriptors of a table that hold file f.
Holding(table, f) == {fd \in Fds : table[fd] = f}

\* closeAllOpenFiles of a table: every pipe end in it is released.
ReleaseAll(table) ==
    [p \in Pipes |->
        [pipes[p] EXCEPT
            !.readers = Decrease(@, Cardinality(Holding(table, PipeEnd(p, "read")))),
            !.writers = Decrease(@, Cardinality(Holding(table, PipeEnd(p, "write"))))]]

EmptyTable == [fd \in Fds |-> NoFile]

\* Mutant: a duplicate is a plain copy, with its own offset.
ShareNothing(f) == f

\* openFileOffsetRef: the first duplication moves the offset to a shared cell.
Share(f) == IF IsOpened(f) THEN [f EXCEPT !.offset = 0, !.shared = TRUE] ELSE f

CellAfterShare(refs, f) ==
    IF IsOpened(f) /\ ~f.shared THEN [refs EXCEPT ![f.open] = f.offset] ELSE refs

\* duplicateOpenFileForFd: a copy of an open file, a handle of a host stream or
\* a new directory handle of a preopen.
DuplicateOf(rt, fd) ==
    IF openFiles[rt][fd] # NoFile THEN Share(openFiles[rt][fd])
    ELSE CASE fd \in StdioFds   -> Stdio(fd)
           [] fd = WORKSPACE_FD -> Opened("workspace", nopens + 1, 0, FALSE)
           [] OTHER             -> Opened("other", nopens + 1, 0, FALSE)

\* A new handle of a host stream or of a preopen is an opening of its own.
CountOpening(rt, fd) ==
    nopens' = IF openFiles[rt][fd] = NoFile THEN nopens + 1 ELSE nopens

\* allocateDynamicFileFd: the least free descriptors from min on.
FreeFds(rt, min) == {fd \in Fds : fd >= min /\ ~fdStat(rt, fd)}

\* nextFileFd stays above every descriptor given out.
Above(rt, fd) == IF fd >= nextFileFd[rt] THEN fd + 1 ELSE nextFileFd[rt]

\* Room for n more open files.
Room(rt, n) == Cardinality({fd \in Fds : openFiles[rt][fd] # NoFile}) + n <= MaxOpenFiles

-----------------------------------------------------------------------------
(* Descriptor calls *)

\* The guest of runtime rt runs; the root guest is suspended by a copied child.
Running(rt) == phase[rt] = "guest" /\ (rt = "root" => phase["copy"] = "absent")

\* path_open in all its variants, once the path and the rights are accepted.
pathOpen(rt, m, off) ==
    /\ Running(rt) /\ npipes + nopens < MaxObjects /\ Room(rt, 1)
    /\ nextFileFd[rt] \in Fds
    /\ openFiles' = [openFiles EXCEPT
                        ![rt][nextFileFd[rt]] = Opened(m, nopens + 1, off, FALSE)]
    /\ nextFileFd' = [nextFileFd EXCEPT ![rt] = @ + 1]
    /\ nopens' = nopens + 1
    /\ UNCHANGED <<phase, how, pipes, offsetRef, npipes, procs, eof>>

\* What fd_seek, fd_read and fd_write do to a file's offset.
SetOffset(rt, fd, off) ==
    LET f == openFiles[rt][fd]
    IN  IF f.shared
        THEN offsetRef' = [offsetRef EXCEPT ![f.open] = off] /\ UNCHANGED openFiles
        ELSE openFiles' = [openFiles EXCEPT ![rt][fd].offset = off]
             /\ UNCHANGED offsetRef

moveOffset(rt, fd, off) ==
    /\ Running(rt) /\ IsOpened(openFiles[rt][fd])
    /\ SetOffset(rt, fd, off)
    /\ UNCHANGED <<phase, how, nextFileFd, pipes, npipes, nopens, procs, eof>>

fdClose(rt, fd) ==
    /\ Running(rt) /\ openFiles[rt][fd] # NoFile
    /\ pipes' = Release(pipes, openFiles[rt][fd])
    /\ openFiles' = [openFiles EXCEPT ![rt][fd] = NoFile]
    /\ UNCHANGED <<phase, how, nextFileFd, offsetRef, npipes, nopens, procs, eof>>

\* Mutant: nextFileFd does not move past the descriptor taken.
RenumberUncounted(rt, fd, to) ==
    LET f == openFiles[rt][fd] IN
    /\ Running(rt) /\ f # NoFile
    /\ to \in StdioFds => MayReplaceStdio(f)
    /\ fd # to
    /\ pipes' = Release(pipes, openFiles[rt][to])
    /\ openFiles' = [openFiles EXCEPT ![rt][fd] = NoFile, ![rt][to] = f]
    /\ UNCHANGED <<phase, how, nextFileFd, offsetRef, npipes, nopens, procs, eof>>

fdRenumber(rt, fd, to) ==
    LET f == openFiles[rt][fd] IN
    /\ Running(rt) /\ f # NoFile
    /\ to \in StdioFds => MayReplaceStdio(f)
    /\ fd # to
    /\ pipes' = Release(pipes, openFiles[rt][to])
    /\ openFiles' = [openFiles EXCEPT ![rt][fd] = NoFile, ![rt][to] = f]
    /\ nextFileFd' = [nextFileFd EXCEPT
                         ![rt] = IF isDynamicFileFdNumber(to) THEN Above(rt, to) ELSE @]
    /\ UNCHANGED <<phase, how, offsetRef, npipes, nopens, procs, eof>>

\* Puts a duplicate of fd at descriptor to, which held the file old.
Duplicate(rt, fd, to, old) ==
    LET f == DuplicateOf(rt, fd) IN
    /\ pipes' = Retain(Release(pipes, old), f)
    /\ openFiles' = [openFiles EXCEPT ![rt][fd] = Share(@), ![rt][to] = f]
    /\ offsetRef' = CellAfterShare(offsetRef, openFiles[rt][fd])
    /\ nextFileFd' = [nextFileFd EXCEPT
                         ![rt] = IF isDynamicFileFdNumber(to) THEN Above(rt, to) ELSE @]
    /\ CountOpening(rt, fd) /\ npipes + nopens' <= MaxObjects
    /\ openFiles[rt][fd] = NoFile => fd \in Duplicated
    /\ old = NoFile => Room(rt, 1)
    /\ UNCHANGED <<phase, how, npipes, procs, eof>>

fdDup(rt, fd) ==
    /\ Running(rt) /\ fdStat(rt, fd)
    /\ FreeFds(rt, FIRST_FILE_FD) # {}
    /\ Duplicate(rt, fd, Min(FreeFds(rt, FIRST_FILE_FD)), NoFile)

fdDup2(rt, fd, to) ==
    /\ Running(rt) /\ fdStat(rt, fd) /\ fd # to
    /\ to \in StdioFds => MayReplaceStdio(DuplicateOf(rt, fd))
    /\ Duplicate(rt, fd, to, openFiles[rt][to])

fdPipe(rt) ==
    LET r == Min(FreeFds(rt, FIRST_FILE_FD))
        w == Min(FreeFds(rt, r + 1))
        p == npipes + 1
    IN  /\ Running(rt) /\ npipes + nopens < MaxObjects /\ Room(rt, 2)
        /\ Cardinality(FreeFds(rt, FIRST_FILE_FD)) >= 2
        /\ npipes' = p
        /\ pipes' = [pipes EXCEPT ![p] = [bytes |-> 0, readers |-> 1, writers |-> 1]]
        /\ openFiles' = [openFiles EXCEPT ![rt][r] = PipeEnd(p, "read"),
                                          ![rt][w] = PipeEnd(p, "write")]
        /\ nextFileFd' = [nextFileFd EXCEPT ![rt] = Above(rt, w)]
        /\ UNCHANGED <<phase, how, offsetRef, nopens, procs, eof>>

\* fdWritePipe, once it accepts n units of data.
fdWritePipe(rt, fd, n) ==
    LET f == openFiles[rt][fd] IN
    /\ Running(rt) /\ isOpenPipe(f)
    /\ f.direction = "write" /\ pipes[f.pipe].readers > 0
    /\ pipes[f.pipe].bytes + n <= PipeLimit
    /\ pipes' = [pipes EXCEPT ![f.pipe].bytes = @ + n]
    /\ UNCHANGED <<phase, how, openFiles, nextFileFd, offsetRef, npipes, nopens,
                   procs, eof>>

\* fdReadPipe into a buffer of n > 0 units: data, or the end of the pipe.
fdReadPipe(rt, fd, n) ==
    LET f == openFiles[rt][fd] IN
    /\ Running(rt) /\ isOpenPipe(f) /\ f.direction = "read"
    /\ \/ /\ pipes[f.pipe].bytes > 0
          /\ pipes' = [pipes EXCEPT ![f.pipe].bytes = Decrease(@, n)]
          /\ UNCHANGED eof
       \/ /\ pipes[f.pipe].bytes = 0 /\ pipes[f.pipe].writers = 0
          /\ eof' = eof \cup {f.pipe}
          /\ UNCHANGED pipes
    /\ UNCHANGED <<phase, how, openFiles, nextFileFd, offsetRef, npipes, nopens, procs>>

-----------------------------------------------------------------------------
(* Processes *)

NoVfork   == [childPid |-> NoPid, parentPid |-> NoPid]
NoProcess == [parentPid |-> NoPid, state |-> "none"]
Process(parent, state) == [parentPid |-> parent, state |-> state]

hasActiveVforkChild(rt) ==
    activeVfork[rt] # NoVfork /\ currentProcessId[rt] = activeVfork[rt].childPid

\* Process ids given out by the live runtimes.
Forks ==
    (nextProcessId["root"] - RootPid - 1) +
    (IF phase["copy"] = "absent" THEN 0 ELSE nextProcessId["copy"] - RootPid - 1)

\* markProcessExited does nothing for an unknown pid.
Exited(table, pid) ==
    IF table[pid] = NoProcess THEN table ELSE [table EXCEPT ![pid].state = "exited"]

\* Mutant: a vfork inside a vfork child is allowed.
NestedVfork(rt) ==
    LET child == nextProcessId[rt] IN
    /\ Running(rt) /\ Forks < MaxForks
    /\ nextProcessId' = [nextProcessId EXCEPT ![rt] = @ + 1]
    /\ processes' = [processes EXCEPT
                        ![rt][child] = Process(currentProcessId[rt], "running")]
    /\ activeVfork' = [activeVfork EXCEPT
           ![rt] = [childPid |-> child, parentPid |-> currentProcessId[rt]]]
    /\ currentProcessId' = [currentProcessId EXCEPT ![rt] = child]
    /\ UNCHANGED <<phase, how, tables, forkedPid, eof>>

\* proc_fork(copy_memory=false): the guest goes on as the child.
vfork(rt) ==
    LET child == nextProcessId[rt] IN
    /\ Running(rt) /\ Forks < MaxForks
    /\ activeVfork[rt] = NoVfork
    /\ nextProcessId' = [nextProcessId EXCEPT ![rt] = @ + 1]
    /\ processes' = [processes EXCEPT
                        ![rt][child] = Process(currentProcessId[rt], "running")]
    /\ activeVfork' = [activeVfork EXCEPT
           ![rt] = [childPid |-> child, parentPid |-> currentProcessId[rt]]]
    /\ currentProcessId' = [currentProcessId EXCEPT ![rt] = child]
    /\ UNCHANGED <<phase, how, tables, forkedPid, eof>>

\* Mutant: the parent goes on without the child being marked as exited.
ResumeUnmarked(rt) ==
    /\ currentProcessId' = [currentProcessId EXCEPT ![rt] = activeVfork[rt].parentPid]
    /\ activeVfork' = [activeVfork EXCEPT ![rt] = NoVfork]
    /\ UNCHANGED processes

\* The vfork child has ended: beginVforkChildExit or completeActiveVforkChild,
\* then beginVforkParentRewind.
ResumeVforkParent(rt) ==
    /\ processes' = [processes EXCEPT ![rt] = Exited(@, activeVfork[rt].childPid)]
    /\ currentProcessId' = [currentProcessId EXCEPT ![rt] = activeVfork[rt].parentPid]
    /\ activeVfork' = [activeVfork EXCEPT ![rt] = NoVfork]

\* Mutant: the copied child's pipe ends are not counted.
ForkUncounted == pipes

\* duplicateOpenFilesForFork retains every pipe end a second time.
ForkedPipes ==
    [p \in Pipes |->
        [pipes[p] EXCEPT
            !.readers = @ + Cardinality(Holding(openFiles["root"], PipeEnd(p, "read"))),
            !.writers = @ + Cardinality(Holding(openFiles["root"], PipeEnd(p, "write")))]]

\* The files of a table that alone stand for opening o.
Unshared(table, o) ==
    {f \in {table[fd] : fd \in Fds} : IsOpened(f) /\ f.open = o /\ ~f.shared}

\* proc_fork(copy_memory=true), up to the first step of the copied child, which
\* is a new runtime with duplicates of all descriptors and a process table that
\* holds the root and itself.
copyFork ==
    LET child  == nextProcessId["root"]
        parent == currentProcessId["root"]
        table  == openFiles["root"]
    IN  /\ Running("root") /\ Forks < MaxForks
        /\ activeVfork["root"] = NoVfork
        /\ phase' = [phase EXCEPT !["copy"] = "guest"]
        /\ pipes' = ForkedPipes
        /\ openFiles' = [rt \in Runtimes |-> [fd \in Fds |-> Share(table[fd])]]
        /\ offsetRef' = [o \in Opens |->
               IF Unshared(table, o) = {} THEN offsetRef[o]
               ELSE (CHOOSE f \in Unshared(table, o) : TRUE).offset]
        /\ nextFileFd' = [nextFileFd EXCEPT !["copy"] = nextFileFd["root"]]
        /\ processes' = [root |-> [processes["root"] EXCEPT
                                      ![child] = Process(parent, "running")],
                         copy |-> [pid \in Pids |->
                             CASE pid = child   -> Process(parent, "running")
                               [] pid = RootPid -> Process(NoPid, "running")
                               [] OTHER         -> NoProcess]]
        /\ nextProcessId' = [root |-> child + 1, copy |-> RootPid + 1]
        /\ currentProcessId' = [currentProcessId EXCEPT !["copy"] = child]
        /\ forkedPid' = child
        /\ UNCHANGED <<how, npipes, nopens, activeVfork, eof>>

\* When a run is over, its tables and pipes are garbage.
DropTables ==
    /\ openFiles' = [rt \in Runtimes |-> EmptyTable]
    /\ nextFileFd' = [rt \in Runtimes |-> MaxFd + 1]
    /\ pipes' = [p \in Pipes |-> [bytes |-> 0, readers |-> 0, writers |-> 0]]
    /\ offsetRef' = [o \in Opens |-> 0]
    /\ npipes' = MaxObjects /\ nopens' = 0
    /\ eof' = {}

\* The runtime's guest is over.  A copied child closes its descriptors
\* (closeAllOpenFiles); the root's end is the end of the run.
EndRuntime(rt, call) ==
    /\ phase' = [phase EXCEPT ![rt] = "ended"]
    /\ how' = [how EXCEPT ![rt] = call]
    /\ UNCHANGED procs
    /\ \/ /\ rt = "copy"
          /\ pipes' = ReleaseAll(openFiles["copy"])
          /\ openFiles' = [openFiles EXCEPT !["copy"] = EmptyTable]
          /\ UNCHANGED <<nextFileFd, offsetRef, npipes, nopens, eof>>
       \/ rt = "root" /\ DropTables

\* The entrypoint returns, or the guest calls proc_exit.
exit(rt) ==
    Running(rt) /\ \E call \in {"return", "proc_exit"} : EndRuntime(rt, call)

procExit2(rt) ==
    /\ Running(rt)
    /\ IF hasActiveVforkChild(rt)
       THEN ResumeVforkParent(rt)
            /\ UNCHANGED <<phase, how, tables, nextProcessId, forkedPid, eof>>
       ELSE EndRuntime(rt, "proc_exit2")

\* The copied child has ended and the root goes on with its pid.
resumeCopyParent ==
    /\ phase["copy"] = "ended"
    /\ phase' = [phase EXCEPT !["copy"] = "absent"]
    /\ processes' = [root |-> Exited(processes["root"], forkedPid),
                     copy |-> [pid \in Pids |-> NoProcess]]
    /\ currentProcessId' = [currentProcessId EXCEPT !["copy"] = NoPid]
    /\ activeVfork' = [activeVfork EXCEPT !["copy"] = NoVfork]
    /\ nextFileFd' = [nextFileFd EXCEPT !["copy"] = FirstFreeFd]
    /\ nextProcessId' = [nextProcessId EXCEPT !["copy"] = RootPid]
    /\ how' = [how EXCEPT !["copy"] = "none"]
    /\ forkedPid' = NoPid
    /\ UNCHANGED <<openFiles, pipes, offsetRef, npipes, nopens, eof>>

\* proc_join of an exited child, which is then forgotten.  The root is not.
procJoin(rt, pid) ==
    /\ Running(rt)
    /\ processes[rt][pid].state = "exited"
    /\ processes[rt][pid].parentPid = currentProcessId[rt]
    /\ pid # RootPid
    /\ processes' = [processes EXCEPT ![rt][pid] = NoProcess]
    /\ UNCHANGED <<phase, how, tables, nextProcessId, currentProcessId, activeVfork,
                   forkedPid, eof>>

\* An abort, an import that throws, or a failed copied child end the whole run.
FailRun ==
    /\ phase' = [root |-> "failed", copy |-> "absent"]
    /\ DropTables
    /\ UNCHANGED <<how, procs>>

abort == (\E rt \in Runtimes : phase[rt] \notin {"absent", "ended", "failed"}
                                /\ (rt = "root" => phase["copy"] = "absent"))
         /\ FailRun

-----------------------------------------------------------------------------
(* proc_exec: the guest is left and a child command runs in its place *)

\* throwProcExec takes the command's standard input: all that a pipe holds, the
\* rest of a file, or the host's stdin.  Any other descriptor 0 is an error.
procExec(rt) ==
    LET f == openFiles[rt][0] IN
    /\ Running(rt)
    /\ \/ /\ \/ f = NoFile \/ f = Stdio(0)
          /\ UNCHANGED <<pipes, openFiles, offsetRef>>
          /\ phase' = [phase EXCEPT ![rt] = "exec"]
          /\ UNCHANGED <<how, nextFileFd, npipes, nopens, procs, eof>>
       \/ /\ isOpenPipe(f) /\ f.direction = "read"
          /\ pipes' = [pipes EXCEPT ![f.pipe].bytes = 0]
          /\ phase' = [phase EXCEPT ![rt] = "exec"]
          /\ UNCHANGED <<how, openFiles, nextFileFd, offsetRef, npipes, nopens, procs,
                         eof>>
       \/ /\ IsOpened(f)
          /\ \E off \in Offsets : SetOffset(rt, 0, off)
          /\ phase' = [phase EXCEPT ![rt] = "exec"]
          /\ UNCHANGED <<how, pipes, nextFileFd, npipes, nopens, procs, eof>>
       \/ f # NoFile /\ f # Stdio(0) /\ FailRun

\* runProcessExec, once childCommands.run has answered: the captured output of
\* stream fd is written to the file that stands for it.  Output to a host stream
\* is not captured.
writeCaptured(rt, fd, from, to) ==
    LET f == openFiles[rt][fd] IN
    /\ phase[rt] = from
    /\ \/ /\ UNCHANGED tables
          /\ phase' = [phase EXCEPT ![rt] = to] /\ UNCHANGED <<how, procs, eof>>
       \/ /\ isOpenPipe(f) /\ f.direction = "write" /\ pipes[f.pipe].readers > 0
          /\ pipes[f.pipe].bytes < PipeLimit
          /\ pipes' = [pipes EXCEPT ![f.pipe].bytes = @ + 1]
          /\ phase' = [phase EXCEPT ![rt] = to]
          /\ UNCHANGED <<how, openFiles, nextFileFd, offsetRef, npipes, nopens, procs,
                         eof>>
       \/ /\ isOpenPipe(f)
          /\ \/ f.direction = "read" \/ pipes[f.pipe].readers = 0
             \/ pipes[f.pipe].bytes = PipeLimit
          /\ FailRun
       \/ /\ IsOpened(f)
          /\ \E off \in Offsets : SetOffset(rt, fd, off)
          /\ phase' = [phase EXCEPT ![rt] = to]
          /\ UNCHANGED <<how, pipes, nextFileFd, npipes, nopens, procs, eof>>
       \/ IsOpened(f) /\ FailRun

\* The root's runner resumes a vfork parent; the copied child's does not ask.
finishExec(rt) ==
    /\ phase[rt] = "written"
    /\ IF rt = "root" /\ hasActiveVforkChild(rt)
       THEN /\ ResumeVforkParent(rt)
            /\ phase' = [phase EXCEPT ![rt] = "guest"]
            /\ UNCHANGED <<how, tables, nextProcessId, forkedPid, eof>>
       ELSE EndRuntime(rt, "proc_exec")

-----------------------------------------------------------------------------

Init ==
    /\ phase = [root |-> "guest", copy |-> "absent"]
    /\ how = [rt \in Runtimes |-> "none"]
    /\ openFiles = [rt \in Runtimes |-> EmptyTable]
    /\ nextFileFd = [rt \in Runtimes |-> FirstFreeFd]
    /\ pipes = [p \in Pipes |-> [bytes |-> 0, readers |-> 0, writers |-> 0]]
    /\ offsetRef = [o \in Opens |-> 0]
    /\ npipes = 0 /\ nopens = 0
    /\ processes = [root |-> [pid \in Pids |-> IF pid = RootPid
                                               THEN Process(NoPid, "running")
                                               ELSE NoProcess],
                    copy |-> [pid \in Pids |-> NoProcess]]
    /\ nextProcessId = [root |-> RootPid + 1, copy |-> RootPid]
    /\ currentProcessId = [root |-> RootPid, copy |-> NoPid]
    /\ activeVfork = [rt \in Runtimes |-> NoVfork]
    /\ forkedPid = NoPid
    /\ eof = {}

Descriptors(rt) ==
    \/ \E m \in Mounts, off \in Offsets : pathOpen(rt, m, off)
    \/ fdPipe(rt)
    \/ \E fd \in Fds :
          \/ \E off \in Offsets : moveOffset(rt, fd, off)
          \/ fdClose(rt, fd)
          \/ fdDup(rt, fd)
          \/ \E to \in RenumberTargets : fdRenumber(rt, fd, to) \/ fdDup2(rt, fd, to)
          \/ \E n \in 1 .. PipeLimit : fdWritePipe(rt, fd, n) \/ fdReadPipe(rt, fd, n)

Processes(rt) ==
    \/ vfork(rt)
    \/ exit(rt)
    \/ procExit2(rt)
    \/ \E pid \in Pids : procJoin(rt, pid)
    \/ procExec(rt)
    \/ writeCaptured(rt, 1, "exec", "stderr")
    \/ writeCaptured(rt, 2, "stderr", "written")
    \/ finishExec(rt)

Next ==
    \/ \E rt \in Runtimes : Descriptors(rt) \/ Processes(rt)
    \/ copyFork
    \/ resumeCopyParent
    \/ abort

Spec == Init /\ [][Next]_vars

-----------------------------------------------------------------------------
(* Properties *)

\* The descriptors, in all tables, that hold a given pipe end.
Holders(p, d) == {h \in Runtimes \X Fds : openFiles[h[1]][h[2]] = PipeEnd(p, d)}

\* A pipe's reader and writer counts are the numbers of descriptors that hold its
\* ends, whatever was duplicated, renumbered, closed, forked or exited
\* (retainOpenFile, closeOpenFile).
PipeCounts ==
    \A p \in Pipes : /\ pipes[p].readers = Cardinality(Holders(p, "read"))
                     /\ pipes[p].writers = Cardinality(Holders(p, "write"))

\* Once fd_read has reported the end of a pipe, nothing can ever be written to it.
EofIsFinal == \A p \in eof : pipes[p].bytes = 0 /\ Holders(p, "write") = {}

\* path_open takes nextFileFd without looking: no open descriptor has a number
\* from there on.
FreshDescriptors ==
    \A rt \in Runtimes, fd \in Fds : fd >= nextFileFd[rt] => ~fdStat(rt, fd)

\* All descriptors of one opening are at the same offset, also across a fork
\* (openFileOffsetRef).
SharedOffsets ==
    \A r1, r2 \in Runtimes, f1, f2 \in Fds :
        LET a == openFiles[r1][f1]
            b == openFiles[r2][f2]
        IN  IsOpened(a) /\ IsOpened(b) /\ a.open = b.open => Offset(a) = Offset(b)

\* A runtime's guest runs as its own process, or as the vfork child that its own
\* process waits for.
OwnProcessRuns ==
    \A rt \in Runtimes :
        LET own == IF rt = "root" THEN RootPid ELSE forkedPid
        IN  phase[rt] \notin {"absent", "failed"} =>
                IF activeVfork[rt] = NoVfork THEN currentProcessId[rt] = own
                ELSE /\ currentProcessId[rt] = activeVfork[rt].childPid
                     /\ activeVfork[rt].parentPid = own

\* proc_join cannot wait: whenever a guest runs as its own process, all its
\* children have exited.
JoinNeverWaits ==
    \A rt \in Runtimes : Running(rt) /\ activeVfork[rt] = NoVfork =>
        \A pid \in Pids : processes[rt][pid].parentPid = currentProcessId[rt]
                           => processes[rt][pid].state = "exited"

\* A vfork child that finishes through proc_exit2 or proc_exec gives way to its
\* parent: it never ends the runtime.
VforkParentResumes ==
    \A rt \in Runtimes : how[rt] \in {"proc_exit2", "proc_exec"}
                          => activeVfork[rt] = NoVfork

=============================================================================
