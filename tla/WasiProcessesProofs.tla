------------------------ MODULE WasiProcessesProofs ------------------------
(***************************************************************************)
(* Proofs about WasiProcesses for any bounds: any number of descriptors,   *)
(* pipes, openings and forks.                                              *)
(***************************************************************************)
EXTENDS WasiProcesses, FiniteSetTheorems, WellFoundedInduction, TLAPS

-----------------------------------------------------------------------------
(* Processes *)

Phases == {"absent", "guest", "exec", "stderr", "written", "ended", "failed"}
Records == [parentPid : Nat, state : {"none", "running", "exited"}]

ProcTypes ==
    /\ phase \in [Runtimes -> Phases]
    /\ how \in [Runtimes -> {"none", "return", "proc_exit", "proc_exit2", "proc_exec"}]
    /\ processes \in [Runtimes -> [Pids -> Records]]
    /\ nextProcessId \in [Runtimes -> Nat]
    /\ currentProcessId \in [Runtimes -> Nat]
    /\ activeVfork \in [Runtimes -> [childPid : Nat, parentPid : Nat]]
    /\ forkedPid \in Nat

Live(rt) == phase[rt] \notin {"absent", "failed"}
Own(rt)  == IF rt = "root" THEN RootPid ELSE forkedPid

\* The root guest is suspended, with no vfork of its own, as long as there is a
\* copied child; a runtime that is not there has no vfork child either.
PhaseInv ==
    /\ phase["root"] # "absent"
    /\ phase["copy"] # "failed"
    /\ nextProcessId["root"] >= 2
    /\ phase["copy"] # "absent" =>
           /\ phase["root"] = "guest" /\ activeVfork["root"] = NoVfork
           /\ forkedPid >= 2 /\ forkedPid \in Pids
           /\ nextProcessId["root"] >= 2 /\ nextProcessId["copy"] >= 2
    /\ phase["copy"] = "absent" /\ phase["root"] # "failed" => activeVfork["copy"] = NoVfork

\* A runtime runs as its own process or as the one vfork child it waits for.
VforkInv(rt) ==
    IF activeVfork[rt] = NoVfork THEN currentProcessId[rt] = Own(rt)
    ELSE /\ currentProcessId[rt] = activeVfork[rt].childPid
         /\ activeVfork[rt].parentPid = Own(rt)
         /\ activeVfork[rt].childPid \in Pids

\* Of the children of a runtime's own process, only the one it waits for has not
\* exited: the vfork child or the copied child.
ChildInv(rt) ==
    \A pid \in Pids :
        processes[rt][pid].parentPid = Own(rt) =>
            \/ processes[rt][pid].state = "exited"
            \/ activeVfork[rt] # NoVfork /\ pid = activeVfork[rt].childPid
            \/ rt = "root" /\ phase["copy"] # "absent" /\ pid = forkedPid

LiveInv == \A rt \in Runtimes : Live(rt) => VforkInv(rt) /\ ChildInv(rt)

ProcInv == ProcTypes /\ PhaseInv /\ LiveInv

LEMMA NatBounds == MaxForks \in Nat /\ MaxObjects \in Nat /\ MaxFd \in Nat /\ MaxFd >= 5
                   /\ MaxOffset \in Nat /\ PipeLimit \in Nat
BY Bounds DEF FIRST_FILE_FD

\* A process id that may be given out is one of the table.
LEMMA NewPid ==
    ASSUME ProcInv, NEW rt \in Runtimes, Running(rt), Forks < MaxForks
    PROVE  nextProcessId[rt] \in Pids /\ nextProcessId[rt] \in Nat /\ nextProcessId[rt] >= 2
<1>1. nextProcessId["root"] \in Nat /\ nextProcessId["copy"] \in Nat
  BY DEF ProcInv, ProcTypes, Runtimes
<1>2. CASE rt = "root"
  BY <1>1, <1>2, NatBounds DEF ProcInv, PhaseInv, Running, Forks, Pids, RootPid
<1>3. CASE rt = "copy"
  BY <1>1, <1>3, NatBounds DEF ProcInv, PhaseInv, Running, Forks, Pids, RootPid
<1> QED
  BY <1>2, <1>3 DEF Runtimes

LEMMA ProcessFacts ==
    /\ NoProcess \in Records /\ NoProcess.parentPid = 0
    /\ \A parent \in Nat, state \in {"running", "exited"} :
           /\ Process(parent, state) \in Records
           /\ Process(parent, state).parentPid = parent
           /\ Process(parent, state).state = state
    /\ NoVfork \in [childPid : Nat, parentPid : Nat]
    /\ \A c \in Nat, q \in Nat : c # 0 =>
           /\ [childPid |-> c, parentPid |-> q] # NoVfork
           /\ [childPid |-> c, parentPid |-> q].childPid = c
           /\ [childPid |-> c, parentPid |-> q].parentPid = q
BY DEF NoProcess, Process, Records, NoVfork, NoPid

LEMMA ExitedFacts ==
    ASSUME NEW table \in [Pids -> Records], NEW pid \in Pids
    PROVE  /\ Exited(table, pid) \in [Pids -> Records]
           /\ \A k \in Pids : Exited(table, pid)[k].parentPid = table[k].parentPid
           /\ \A k \in Pids : k # pid => Exited(table, pid)[k] = table[k]
           /\ table[pid].parentPid # 0 => Exited(table, pid)[pid].state = "exited"
<1>1. CASE table[pid] = NoProcess
  BY <1>1, ProcessFacts DEF Exited
<1>2. CASE table[pid] # NoProcess
  <2>1. Exited(table, pid) = [table EXCEPT ![pid].state = "exited"]
    BY <1>2 DEF Exited
  <2> QED
    BY <2>1 DEF Records
<1> QED
  BY <1>1, <1>2

\* A step that leaves the processes alone and only moves the phase of a runtime.
LEMMA PhaseMoves ==
    ASSUME ProcInv, NEW rt \in Runtimes, NEW ph \in {"guest", "exec", "stderr", "written", "ended"},
           phase' = [phase EXCEPT ![rt] = ph], UNCHANGED procs,
           how' \in [Runtimes -> {"none", "return", "proc_exit", "proc_exit2", "proc_exec"}],
           Live(rt), rt = "root" => phase["copy"] = "absent"
    PROVE  ProcInv'
<1>1. UNCHANGED <<processes, nextProcessId, currentProcessId, activeVfork, forkedPid>>
  BY DEF procs
<1>2. ProcTypes'
  BY <1>1 DEF ProcInv, ProcTypes, Phases
<1>3. \A r \in Runtimes : (phase'[r] = "absent" <=> phase[r] = "absent")
                          /\ (phase'[r] = "failed" <=> phase[r] = "failed")
                          /\ (r # rt => phase'[r] = phase[r])
  BY DEF ProcInv, ProcTypes, Live
<1>4. "root" \in Runtimes /\ "copy" \in Runtimes /\ (rt = "root" \/ rt = "copy")
  BY DEF Runtimes
<1>5. PhaseInv'
  BY <1>1, <1>3, <1>4 DEF ProcInv, PhaseInv
<1>6. LiveInv'
  BY <1>1, <1>3, <1>4 DEF ProcInv, LiveInv, Live, VforkInv, ChildInv, Own
<1> QED
  BY <1>2, <1>5, <1>6 DEF ProcInv

LEMMA StillProc == ASSUME ProcInv, UNCHANGED <<phase, how, procs>> PROVE ProcInv'
BY DEF procs, ProcInv, ProcTypes, PhaseInv, LiveInv, Live, VforkInv, ChildInv, Own

LEMMA FailedProc ==
    ASSUME ProcInv, phase' = [root |-> "failed", copy |-> "absent"], UNCHANGED <<how, procs>>
    PROVE  ProcInv'
<1>1. UNCHANGED <<processes, nextProcessId, currentProcessId, activeVfork, forkedPid>>
  BY DEF procs
<1>2. phase' \in [Runtimes -> Phases] /\ phase'["root"] = "failed" /\ phase'["copy"] = "absent"
  BY DEF Runtimes, Phases
<1>3. \A rt \in Runtimes : ~Live(rt)'
  BY <1>2 DEF Live, Runtimes
<1>4. ProcTypes' /\ PhaseInv'
  BY <1>1, <1>2 DEF ProcInv, ProcTypes, PhaseInv
<1> QED
  BY <1>3, <1>4 DEF ProcInv, LiveInv

LEMMA VforkKeeps ==
    ASSUME ProcInv, NEW rt \in Runtimes, vfork(rt)
    PROVE  ProcInv'
<1> DEFINE child == nextProcessId[rt]
           cur   == currentProcessId[rt]
           v     == [childPid |-> child, parentPid |-> cur]
<1>1. child \in Pids /\ child \in Nat /\ child >= 2 /\ Running(rt) /\ cur \in Nat
  BY NewPid DEF vfork, ProcInv, ProcTypes
<1>2. activeVfork[rt] = NoVfork
  BY DEF vfork
<1>3. /\ nextProcessId' = [nextProcessId EXCEPT ![rt] = child + 1]
      /\ processes' = [processes EXCEPT ![rt][child] = Process(cur, "running")]
      /\ activeVfork' = [activeVfork EXCEPT ![rt] = v]
      /\ currentProcessId' = [currentProcessId EXCEPT ![rt] = child]
      /\ UNCHANGED <<phase, how, forkedPid>>
  BY DEF vfork
<1>4. v # NoVfork /\ v.childPid = child /\ v.parentPid = cur /\ v \in [childPid : Nat, parentPid : Nat]
  BY <1>1, ProcessFacts
<1> HIDE DEF v, child, cur
<1>5. ProcTypes'
  <2>1. processes' \in [Runtimes -> [Pids -> Records]]
    BY <1>1, <1>3, ProcessFacts DEF ProcInv, ProcTypes
  <2> QED
    BY <1>1, <1>3, <1>4, <2>1 DEF ProcInv, ProcTypes
<1>6. Live(rt) /\ (rt = "root" => phase["copy"] = "absent") /\ (rt = "root" \/ rt = "copy")
      /\ (rt = "copy" => phase["copy"] = "guest")
  BY <1>1 DEF Running, Live, Runtimes
<1>7. /\ activeVfork'[rt] = v /\ currentProcessId'[rt] = child /\ nextProcessId'[rt] = child + 1
      /\ \A r \in Runtimes : r # rt => /\ activeVfork'[r] = activeVfork[r]
                                       /\ currentProcessId'[r] = currentProcessId[r]
                                       /\ nextProcessId'[r] = nextProcessId[r]
                                       /\ processes'[r] = processes[r]
  BY <1>3 DEF ProcInv, ProcTypes
<1>8. PhaseInv'
  BY <1>1, <1>3, <1>6, <1>7 DEF ProcInv, PhaseInv, Runtimes
<1>9. cur = Own(rt)
  BY <1>2, <1>6 DEF ProcInv, LiveInv, VforkInv, cur
<1>10. \A k \in Pids : k # child => processes'[rt][k] = processes[rt][k]
  BY <1>1, <1>3 DEF ProcInv, ProcTypes
<1>11. ASSUME NEW r \in Runtimes, Live(r)' PROVE VforkInv(r)' /\ ChildInv(r)'
  <2>1. Live(r) /\ Own(r)' = Own(r) /\ VforkInv(r) /\ ChildInv(r)
    BY <1>3, <1>11 DEF Live, Own, ProcInv, LiveInv
  <2>2. CASE r = rt
    <3>1. VforkInv(r)'
      BY <1>1, <1>4, <1>7, <1>9, <2>1, <2>2 DEF VforkInv
    <3>2. ChildInv(r)'
      BY <1>2, <1>3, <1>4, <1>6, <1>7, <1>10, <2>1, <2>2 DEF ChildInv
    <3> QED
      BY <3>1, <3>2
  <2>3. CASE r # rt
    BY <1>3, <1>7, <2>1, <2>3 DEF VforkInv, ChildInv
  <2> QED
    BY <2>2, <2>3
<1> QED
  BY <1>5, <1>8, <1>11 DEF ProcInv, LiveInv

LEMMA ResumeKeeps ==
    ASSUME ProcInv, NEW rt \in Runtimes, ResumeVforkParent(rt), hasActiveVforkChild(rt),
           UNCHANGED <<how, nextProcessId, forkedPid>>,
           Live(rt), rt = "root" => phase["copy"] = "absent",
           phase' = [phase EXCEPT ![rt] = "guest"]
    PROVE  ProcInv'
<1> DEFINE v == activeVfork[rt]
<1>1. v # NoVfork /\ v.childPid \in Pids /\ v.parentPid = Own(rt)
      /\ currentProcessId[rt] = v.childPid /\ v.parentPid \in Nat
  BY DEF hasActiveVforkChild, ProcInv, ProcTypes, LiveInv, VforkInv
<1>2. /\ processes' = [processes EXCEPT ![rt] = Exited(processes[rt], v.childPid)]
      /\ currentProcessId' = [currentProcessId EXCEPT ![rt] = v.parentPid]
      /\ activeVfork' = [activeVfork EXCEPT ![rt] = NoVfork]
  BY DEF ResumeVforkParent
<1>3. processes[rt] \in [Pids -> Records]
  BY DEF ProcInv, ProcTypes
<1> DEFINE t == Exited(processes[rt], v.childPid)
<1>4. /\ t \in [Pids -> Records]
      /\ \A k \in Pids : t[k].parentPid = processes[rt][k].parentPid
      /\ \A k \in Pids : k # v.childPid => t[k] = processes[rt][k]
      /\ processes[rt][v.childPid].parentPid # 0 => t[v.childPid].state = "exited"
  BY <1>1, <1>3, ExitedFacts
<1> HIDE DEF v, t
<1>5. ProcTypes'
  <2>1. processes' \in [Runtimes -> [Pids -> Records]]
    BY <1>2, <1>4 DEF ProcInv, ProcTypes, t
  <2>2. phase' \in [Runtimes -> Phases]
    BY DEF ProcInv, ProcTypes, Phases
  <2> QED
    BY <1>1, <1>2, <2>1, <2>2, ProcessFacts DEF ProcInv, ProcTypes
<1>6. /\ activeVfork'[rt] = NoVfork /\ currentProcessId'[rt] = v.parentPid /\ processes'[rt] = t
      /\ phase'[rt] = "guest"
      /\ \A r \in Runtimes : r # rt => /\ activeVfork'[r] = activeVfork[r]
                                       /\ currentProcessId'[r] = currentProcessId[r]
                                       /\ processes'[r] = processes[r]
                                       /\ phase'[r] = phase[r]
  BY <1>2 DEF ProcInv, ProcTypes, t
<1>7. rt = "root" \/ rt = "copy"
  BY DEF Runtimes
<1>8. PhaseInv'
  BY <1>6, <1>7 DEF ProcInv, PhaseInv, Runtimes, Live
<1>9. ASSUME NEW r \in Runtimes, Live(r)' PROVE VforkInv(r)' /\ ChildInv(r)'
  <2>1. Live(r) /\ Own(r)' = Own(r) /\ VforkInv(r) /\ ChildInv(r) /\ Own(r) # 0
        /\ (phase'["copy"] # "absent" <=> phase["copy"] # "absent")
    BY <1>6, <1>7, <1>9 DEF Live, Own, ProcInv, LiveInv, PhaseInv, Runtimes, RootPid
  <2>2. CASE r = rt
    <3>1. VforkInv(r)'
      BY <1>1, <1>6, <2>1, <2>2 DEF VforkInv
    <3>2. ChildInv(r)'
      BY <1>1, <1>4, <1>6, <2>1, <2>2 DEF ChildInv, v
    <3> QED
      BY <3>1, <3>2
  <2>3. CASE r # rt
    BY <1>6, <2>1, <2>3 DEF VforkInv, ChildInv
  <2> QED
    BY <2>2, <2>3
<1> QED
  BY <1>5, <1>8, <1>9 DEF ProcInv, LiveInv

LEMMA JoinKeeps ==
    ASSUME ProcInv, NEW rt \in Runtimes, NEW pid \in Pids, procJoin(rt, pid)
    PROVE  ProcInv'
<1>1. processes' = [processes EXCEPT ![rt][pid] = NoProcess]
      /\ UNCHANGED <<phase, how, nextProcessId, currentProcessId, activeVfork, forkedPid>>
  BY DEF procJoin
<1>2. ProcTypes' /\ PhaseInv'
  BY <1>1, ProcessFacts DEF ProcInv, ProcTypes, PhaseInv
<1>3. \A r \in Runtimes, k \in Pids :
          processes'[r][k] = processes[r][k] \/ processes'[r][k] = NoProcess
  BY <1>1 DEF ProcInv, ProcTypes
<1>4. ASSUME NEW r \in Runtimes, Live(r)' PROVE VforkInv(r)' /\ ChildInv(r)'
  <2>1. Live(r) /\ Own(r)' = Own(r) /\ VforkInv(r) /\ ChildInv(r) /\ Own(r) # 0
    BY <1>1, <1>4 DEF Live, Own, ProcInv, LiveInv, PhaseInv, Runtimes, RootPid
  <2> QED
    BY <1>1, <1>3, <2>1, ProcessFacts DEF VforkInv, ChildInv
<1> QED
  BY <1>2, <1>4 DEF ProcInv, LiveInv

LEMMA CopyForkProc == ASSUME ProcInv, copyFork PROVE ProcInv'
<1> DEFINE child  == nextProcessId["root"]
           parent == currentProcessId["root"]
<1>0. "root" \in Runtimes /\ "copy" \in Runtimes /\ Running("root")
  BY DEF Runtimes, copyFork
<1>1. child \in Pids /\ child \in Nat /\ child >= 2 /\ parent \in Nat
  BY <1>0, NewPid DEF copyFork, ProcInv, ProcTypes
<1>2. phase["root"] = "guest" /\ phase["copy"] = "absent" /\ activeVfork["root"] = NoVfork
      /\ activeVfork["copy"] = NoVfork
  BY <1>0 DEF copyFork, Running, ProcInv, PhaseInv
<1>3. parent = RootPid
  BY <1>0, <1>2 DEF ProcInv, LiveInv, Live, VforkInv, Own
<1>4. /\ phase' = [phase EXCEPT !["copy"] = "guest"]
      /\ nextProcessId' = [root |-> child + 1, copy |-> RootPid + 1]
      /\ currentProcessId' = [currentProcessId EXCEPT !["copy"] = child]
      /\ forkedPid' = child
      /\ UNCHANGED <<how, activeVfork>>
  BY DEF copyFork
<1> DEFINE rt1 == [processes["root"] EXCEPT ![child] = Process(parent, "running")]
           rt2 == [pid \in Pids |-> CASE pid = child   -> Process(parent, "running")
                                      [] pid = RootPid -> Process(NoPid, "running")
                                      [] OTHER         -> NoProcess]
<1>5. processes' = [root |-> rt1, copy |-> rt2]
  BY DEF copyFork
<1>6. /\ rt1 \in [Pids -> Records]
      /\ \A k \in Pids : k # child => rt1[k] = processes["root"][k]
  BY <1>1, ProcessFacts DEF ProcInv, ProcTypes, Runtimes
<1>7. /\ rt2 \in [Pids -> Records]
      /\ \A k \in Pids : rt2[k].parentPid \in {0, RootPid}
  BY <1>1, <1>3, ProcessFacts DEF NoPid, RootPid
<1> HIDE DEF child, parent, rt1, rt2
<1>8. /\ processes' \in [Runtimes -> [Pids -> Records]]
      /\ processes'["root"] = rt1 /\ processes'["copy"] = rt2
  BY <1>5, <1>6, <1>7 DEF Runtimes
<1>9. /\ nextProcessId' \in [Runtimes -> Nat]
      /\ nextProcessId'["root"] = child + 1 /\ nextProcessId'["copy"] = 2
  BY <1>1, <1>4 DEF Runtimes, RootPid
<1>10. /\ phase' \in [Runtimes -> Phases] /\ phase'["root"] = "guest" /\ phase'["copy"] = "guest"
       /\ currentProcessId' \in [Runtimes -> Nat]
       /\ currentProcessId'["root"] = RootPid /\ currentProcessId'["copy"] = child
  BY <1>1, <1>2, <1>3, <1>4 DEF ProcInv, ProcTypes, Runtimes, Phases, parent
<1>11. ProcTypes'
  BY <1>1, <1>4, <1>8, <1>9, <1>10 DEF ProcInv, ProcTypes
<1>12. PhaseInv'
  BY <1>1, <1>2, <1>4, <1>9, <1>10 DEF PhaseInv
<1>13. VforkInv("root")' /\ VforkInv("copy")'
  BY <1>2, <1>4, <1>10 DEF VforkInv, Own
<1>14. ChildInv("root")'
  <2>1. ChildInv("root") /\ Own("root")' = Own("root")
    BY <1>0, <1>2 DEF ProcInv, LiveInv, Live, Own
  <2> QED
    BY <1>2, <1>4, <1>6, <1>8, <1>10, <2>1 DEF ChildInv
<1>15. ChildInv("copy")'
  <2>1. Own("copy")' = child
    BY <1>4 DEF Own
  <2>2. \A k \in Pids : rt2[k].parentPid # child
    BY <1>1, <1>7 DEF RootPid
  <2> QED
    BY <1>8, <2>1, <2>2 DEF ChildInv
<1> QED
  BY <1>11, <1>12, <1>13, <1>14, <1>15 DEF ProcInv, LiveInv, Runtimes

LEMMA ResumeCopyProc == ASSUME ProcInv, resumeCopyParent PROVE ProcInv'
<1>0. "root" \in Runtimes /\ "copy" \in Runtimes
  BY DEF Runtimes
<1>1. phase["copy"] = "ended" /\ phase["root"] = "guest" /\ activeVfork["root"] = NoVfork
      /\ forkedPid \in Pids
  BY DEF resumeCopyParent, ProcInv, PhaseInv
<1> DEFINE rt1 == Exited(processes["root"], forkedPid)
           rt2 == [pid \in Pids |-> NoProcess]
<1>2. /\ phase' = [phase EXCEPT !["copy"] = "absent"]
      /\ processes' = [root |-> rt1, copy |-> rt2]
      /\ currentProcessId' = [currentProcessId EXCEPT !["copy"] = NoPid]
      /\ activeVfork' = [activeVfork EXCEPT !["copy"] = NoVfork]
      /\ nextProcessId' = [nextProcessId EXCEPT !["copy"] = RootPid]
      /\ how' = [how EXCEPT !["copy"] = "none"]
      /\ forkedPid' = NoPid
  BY DEF resumeCopyParent
<1>3. processes["root"] \in [Pids -> Records]
  BY <1>0 DEF ProcInv, ProcTypes
<1>4. /\ rt1 \in [Pids -> Records]
      /\ \A k \in Pids : rt1[k].parentPid = processes["root"][k].parentPid
      /\ \A k \in Pids : k # forkedPid => rt1[k] = processes["root"][k]
      /\ processes["root"][forkedPid].parentPid # 0 => rt1[forkedPid].state = "exited"
  BY <1>1, <1>3, ExitedFacts
<1>5. rt2 \in [Pids -> Records]
  BY ProcessFacts
<1> HIDE DEF rt1, rt2
<1>6. processes' \in [Runtimes -> [Pids -> Records]] /\ processes'["root"] = rt1
  BY <1>2, <1>4, <1>5 DEF Runtimes
<1>7. ProcTypes'
  BY <1>2, <1>6, ProcessFacts DEF ProcInv, ProcTypes, NoPid, RootPid, Phases
<1>8. /\ phase'["root"] = "guest" /\ phase'["copy"] = "absent"
      /\ activeVfork'["root"] = NoVfork /\ activeVfork'["copy"] = NoVfork
      /\ nextProcessId'["root"] = nextProcessId["root"]
      /\ currentProcessId'["root"] = currentProcessId["root"]
  BY <1>0, <1>1, <1>2 DEF ProcInv, ProcTypes
<1>9. PhaseInv'
  BY <1>8 DEF ProcInv, PhaseInv
<1>10. VforkInv("root") /\ ChildInv("root") /\ Own("root")' = Own("root") /\ Own("root") # 0
  BY <1>0, <1>1 DEF ProcInv, LiveInv, Live, Own, RootPid
<1>11. VforkInv("root")'
  BY <1>1, <1>8, <1>10 DEF VforkInv
<1>12. ChildInv("root")'
  BY <1>1, <1>4, <1>6, <1>8, <1>10 DEF ChildInv
<1>13. ~Live("copy")'
  BY <1>8 DEF Live
<1> QED
  BY <1>7, <1>9, <1>11, <1>12, <1>13 DEF ProcInv, LiveInv, Runtimes

LEMMA EndRuntimeProc ==
    ASSUME ProcInv, NEW rt \in Runtimes, Live(rt), rt = "root" => phase["copy"] = "absent",
           NEW call \in {"return", "proc_exit", "proc_exit2", "proc_exec"}, EndRuntime(rt, call)
    PROVE  ProcInv'
<1>1. how' \in [Runtimes -> {"none", "return", "proc_exit", "proc_exit2", "proc_exec"}]
  BY DEF EndRuntime, ProcInv, ProcTypes
<1> QED
  BY <1>1, PhaseMoves DEF EndRuntime

LEMMA RunningFacts ==
    ASSUME NEW rt \in Runtimes, Running(rt)
    PROVE  Live(rt) /\ (rt = "root" => phase["copy"] = "absent") /\ phase[rt] = "guest"
BY DEF Running, Live

\* Outside of the guest, the root's runtime has no copied child either.
LEMMA ExecFacts ==
    ASSUME ProcInv, NEW rt \in Runtimes, phase[rt] \in {"exec", "stderr", "written"}
    PROVE  Live(rt) /\ (rt = "root" => phase["copy"] = "absent")
BY DEF Live, ProcInv, PhaseInv

LEMMA FailRunProc == ASSUME ProcInv, FailRun PROVE ProcInv'
BY FailedProc DEF FailRun

LEMMA DescriptorsProc ==
    ASSUME NEW rt \in Runtimes, Descriptors(rt)
    PROVE  UNCHANGED <<phase, how, procs>>
<1> USE DEF procs
<1>1. ASSUME NEW m \in Mounts, NEW off \in Offsets, pathOpen(rt, m, off)
      PROVE  UNCHANGED <<phase, how, procs>>
  BY <1>1 DEF pathOpen
<1>2. CASE fdPipe(rt)
  BY <1>2 DEF fdPipe
<1>3. ASSUME NEW fd \in Fds, NEW off \in Offsets, moveOffset(rt, fd, off)
      PROVE  UNCHANGED <<phase, how, procs>>
  BY <1>3 DEF moveOffset
<1>4. ASSUME NEW fd \in Fds, fdClose(rt, fd) PROVE UNCHANGED <<phase, how, procs>>
  BY <1>4 DEF fdClose
<1>5. ASSUME NEW fd \in Fds, fdDup(rt, fd) PROVE UNCHANGED <<phase, how, procs>>
  BY <1>5 DEF fdDup, Duplicate
<1>6. ASSUME NEW fd \in Fds, NEW to \in RenumberTargets, fdRenumber(rt, fd, to)
      PROVE  UNCHANGED <<phase, how, procs>>
  BY <1>6 DEF fdRenumber
<1>7. ASSUME NEW fd \in Fds, NEW to \in RenumberTargets, fdDup2(rt, fd, to)
      PROVE  UNCHANGED <<phase, how, procs>>
  BY <1>7 DEF fdDup2, Duplicate
<1>8. ASSUME NEW fd \in Fds, NEW n \in 1 .. PipeLimit, fdWritePipe(rt, fd, n)
      PROVE  UNCHANGED <<phase, how, procs>>
  BY <1>8 DEF fdWritePipe
<1>9. ASSUME NEW fd \in Fds, NEW n \in 1 .. PipeLimit, fdReadPipe(rt, fd, n)
      PROVE  UNCHANGED <<phase, how, procs>>
  BY <1>9 DEF fdReadPipe
<1> QED
  BY <1>1, <1>2, <1>3, <1>4, <1>5, <1>6, <1>7, <1>8, <1>9 DEF Descriptors

LEMMA ProcNext == ProcInv /\ [Next]_vars => ProcInv'
<1> SUFFICES ASSUME ProcInv, [Next]_vars PROVE ProcInv'
  OBVIOUS
<1>1. ASSUME NEW rt \in Runtimes, Descriptors(rt) PROVE ProcInv'
  BY <1>1, DescriptorsProc, StillProc
<1>2. ASSUME NEW rt \in Runtimes, vfork(rt) PROVE ProcInv'
  BY <1>2, VforkKeeps
<1>3. ASSUME NEW rt \in Runtimes, exit(rt) PROVE ProcInv'
  BY <1>3, EndRuntimeProc, RunningFacts DEF exit
<1>4. ASSUME NEW rt \in Runtimes, procExit2(rt) PROVE ProcInv'
  <2>1. Running(rt) /\ Live(rt) /\ (rt = "root" => phase["copy"] = "absent") /\ phase[rt] = "guest"
    BY <1>4, RunningFacts DEF procExit2
  <2>2. CASE hasActiveVforkChild(rt)
    <3>1. phase' = [phase EXCEPT ![rt] = "guest"]
      BY <1>4, <2>1, <2>2 DEF procExit2, ProcInv, ProcTypes
    <3>2. ResumeVforkParent(rt) /\ UNCHANGED <<how, nextProcessId, forkedPid>>
      BY <1>4, <2>2 DEF procExit2
    <3> QED
      BY <2>1, <2>2, <3>1, <3>2, ResumeKeeps
  <2>3. CASE ~hasActiveVforkChild(rt)
    BY <1>4, <2>1, <2>3, EndRuntimeProc DEF procExit2
  <2> QED
    BY <2>2, <2>3
<1>5. ASSUME NEW rt \in Runtimes, NEW pid \in Pids, procJoin(rt, pid) PROVE ProcInv'
  BY <1>5, JoinKeeps
<1>6. how \in [Runtimes -> {"none", "return", "proc_exit", "proc_exit2", "proc_exec"}]
  BY DEF ProcInv, ProcTypes
<1>7. ASSUME NEW rt \in Runtimes, procExec(rt) PROVE ProcInv'
  <2>1. Running(rt) /\ Live(rt) /\ (rt = "root" => phase["copy"] = "absent")
    BY <1>7, RunningFacts DEF procExec
  <2>2. FailRun \/ (phase' = [phase EXCEPT ![rt] = "exec"] /\ UNCHANGED <<how, procs>>)
    BY <1>7 DEF procExec
  <2> QED
    BY <1>6, <2>1, <2>2, FailRunProc, PhaseMoves
<1>8. ASSUME NEW rt \in Runtimes, NEW fd, NEW from, NEW to, from \in {"exec", "stderr"},
             to \in {"stderr", "written"}, writeCaptured(rt, fd, from, to)
      PROVE  ProcInv'
  <2>1. Live(rt) /\ (rt = "root" => phase["copy"] = "absent")
    BY <1>8, ExecFacts DEF writeCaptured
  <2>2. FailRun \/ (phase' = [phase EXCEPT ![rt] = to] /\ UNCHANGED <<how, procs>>)
    BY <1>8 DEF writeCaptured
  <2> QED
    BY <1>6, <1>8, <2>1, <2>2, FailRunProc, PhaseMoves
<1>9. ASSUME NEW rt \in Runtimes, finishExec(rt) PROVE ProcInv'
  <2>1. Live(rt) /\ (rt = "root" => phase["copy"] = "absent")
    BY <1>9, ExecFacts DEF finishExec
  <2>2. CASE rt = "root" /\ hasActiveVforkChild(rt)
    BY <1>9, <2>1, <2>2, ResumeKeeps DEF finishExec
  <2>3. CASE ~(rt = "root" /\ hasActiveVforkChild(rt))
    BY <1>9, <2>1, <2>3, EndRuntimeProc DEF finishExec
  <2> QED
    BY <2>2, <2>3
<1>10. CASE copyFork
  BY <1>10, CopyForkProc
<1>11. CASE resumeCopyParent
  BY <1>11, ResumeCopyProc
<1>12. CASE abort
  BY <1>12, FailRunProc DEF abort
<1>13. CASE UNCHANGED vars
  BY <1>13, StillProc DEF vars
<1>14. ASSUME NEW rt \in Runtimes, Processes(rt) PROVE ProcInv'
  BY <1>2, <1>3, <1>4, <1>5, <1>7, <1>8, <1>9, <1>14 DEF Processes
<1> QED
  BY <1>1, <1>10, <1>11, <1>12, <1>13, <1>14 DEF Next

LEMMA ProcInit == Init => ProcInv
<1> SUFFICES ASSUME Init PROVE ProcInv
  OBVIOUS
<1>1. /\ phase \in [Runtimes -> Phases] /\ phase["root"] = "guest" /\ phase["copy"] = "absent"
      /\ nextProcessId \in [Runtimes -> Nat] /\ nextProcessId["root"] = 2
      /\ currentProcessId \in [Runtimes -> Nat] /\ currentProcessId["root"] = RootPid
  BY DEF Init, Runtimes, Phases, RootPid, NoPid
<1>2. activeVfork \in [Runtimes -> [childPid : Nat, parentPid : Nat]]
      /\ activeVfork["root"] = NoVfork /\ activeVfork["copy"] = NoVfork
  BY ProcessFacts DEF Init, Runtimes
<1>3. /\ processes \in [Runtimes -> [Pids -> Records]]
      /\ \A k \in Pids : processes["root"][k].parentPid = 0
  <2>1. /\ \A k \in Pids : (IF k = RootPid THEN Process(NoPid, "running") ELSE NoProcess) \in Records
        /\ \A k \in Pids :
               (IF k = RootPid THEN Process(NoPid, "running") ELSE NoProcess).parentPid = 0
    BY ProcessFacts DEF NoPid
  <2> QED
    BY <2>1, ProcessFacts DEF Init, Runtimes
<1>4. ProcTypes
  BY <1>1, <1>2, <1>3 DEF Init, ProcTypes, NoPid
<1>5. PhaseInv
  BY <1>1, <1>2 DEF PhaseInv
<1>6. VforkInv("root") /\ ChildInv("root") /\ ~Live("copy")
  BY <1>1, <1>2, <1>3 DEF VforkInv, ChildInv, Own, Live, RootPid
<1> QED
  BY <1>4, <1>5, <1>6 DEF ProcInv, LiveInv, Runtimes

LEMMA ProcSpec == Spec => []ProcInv
BY ProcInit, ProcNext, PTL DEF Spec

\* A guest runs as its own process or as the vfork child its process waits for,
\* also below a copied child whose numbers start again (proc_fork,
\* beginVforkParentRewind, beginVforkChildExit).
THEOREM OwnProcess == Spec => []OwnProcessRuns
<1>1. ProcInv => OwnProcessRuns
  BY DEF ProcInv, LiveInv, Live, VforkInv, Own, OwnProcessRuns
<1> QED
  BY <1>1, ProcSpec, PTL

\* proc_join need not wait: the guest that calls it has no child that still runs
\* (proc_join, markProcessExited).
THEOREM JoinsAtOnce == Spec => []JoinNeverWaits
<1>1. ProcInv => JoinNeverWaits
  <2> SUFFICES ASSUME ProcInv, NEW rt \in Runtimes, Running(rt), activeVfork[rt] = NoVfork,
                      NEW pid \in Pids, processes[rt][pid].parentPid = currentProcessId[rt]
               PROVE  processes[rt][pid].state = "exited"
    BY DEF JoinNeverWaits
  <2>1. Live(rt) /\ (rt = "root" => phase["copy"] = "absent")
    BY RunningFacts
  <2>2. currentProcessId[rt] = Own(rt) /\ ChildInv(rt)
    BY <2>1 DEF ProcInv, LiveInv, VforkInv
  <2> QED
    BY <2>1, <2>2 DEF ChildInv
<1> QED
  BY <1>1, ProcSpec, PTL

-----------------------------------------------------------------------------
(* Open files *)

Directions == {"read", "write"}
PipeEnds   == {PipeEnd(p, d) : p \in Pipes, d \in Directions}
Streams    == {Stdio(fd) : fd \in StdioFds}
OpenedSet  == {Opened(m, o, off, sh) : m \in {"workspace", "other"}, o \in Opens,
                                       off \in Offsets, sh \in BOOLEAN}
Files      == {NoFile} \cup PipeEnds \cup Streams \cup OpenedSet

LEMMA FileFacts ==
    /\ NoFile \in Files /\ ~isOpenPipe(NoFile) /\ ~IsOpened(NoFile)
    /\ \A p \in Pipes, d \in Directions :
           /\ PipeEnd(p, d) \in Files /\ isOpenPipe(PipeEnd(p, d)) /\ ~IsOpened(PipeEnd(p, d))
           /\ PipeEnd(p, d).pipe = p /\ PipeEnd(p, d).direction = d
    /\ \A fd \in StdioFds : /\ Stdio(fd) \in Files /\ ~isOpenPipe(Stdio(fd))
                            /\ ~IsOpened(Stdio(fd)) /\ Stdio(fd) # NoFile
    /\ \A m \in {"workspace", "other"}, o \in Opens, off \in Offsets, sh \in BOOLEAN :
           /\ Opened(m, o, off, sh) \in Files /\ IsOpened(Opened(m, o, off, sh))
           /\ ~isOpenPipe(Opened(m, o, off, sh))
           /\ Opened(m, o, off, sh).open = o /\ Opened(m, o, off, sh).shared = sh
           /\ Opened(m, o, off, sh).offset = off
<1>1. NoFile \in Files /\ ~isOpenPipe(NoFile) /\ ~IsOpened(NoFile)
  BY DEF NoFile, Files, isOpenPipe, IsOpened
<1>2. ASSUME NEW p \in Pipes, NEW d \in Directions
      PROVE  /\ PipeEnd(p, d) \in Files /\ isOpenPipe(PipeEnd(p, d)) /\ ~IsOpened(PipeEnd(p, d))
             /\ PipeEnd(p, d).pipe = p /\ PipeEnd(p, d).direction = d
  <2>1. PipeEnd(p, d) \in Files
    BY DEF Files, PipeEnds
  <2> QED
    BY <2>1 DEF PipeEnd, isOpenPipe, IsOpened
<1>3. ASSUME NEW fd \in StdioFds
      PROVE  /\ Stdio(fd) \in Files /\ ~isOpenPipe(Stdio(fd))
             /\ ~IsOpened(Stdio(fd)) /\ Stdio(fd) # NoFile
  <2>1. Stdio(fd) \in Files
    BY DEF Files, Streams
  <2> QED
    BY <2>1 DEF Stdio, NoFile, isOpenPipe, IsOpened
<1>4. ASSUME NEW m \in {"workspace", "other"}, NEW o \in Opens, NEW off \in Offsets,
             NEW sh \in BOOLEAN
      PROVE  /\ Opened(m, o, off, sh) \in Files /\ IsOpened(Opened(m, o, off, sh))
             /\ ~isOpenPipe(Opened(m, o, off, sh))
             /\ Opened(m, o, off, sh).open = o /\ Opened(m, o, off, sh).shared = sh
             /\ Opened(m, o, off, sh).offset = off
  <2>1. Opened(m, o, off, sh) \in Files
    BY DEF Files, OpenedSet
  <2> QED
    BY <2>1 DEF Opened, isOpenPipe, IsOpened
<1> QED
  BY <1>1, <1>2, <1>3, <1>4

LEMMA PipeFile ==
    ASSUME NEW f \in Files, isOpenPipe(f)
    PROVE  /\ f.pipe \in Pipes /\ f.direction \in Directions
           /\ f = PipeEnd(f.pipe, f.direction) /\ f # NoFile /\ ~IsOpened(f)
<1>1. f \in PipeEnds
  BY DEF NoFile, Stdio, Opened, Files, Streams, OpenedSet, isOpenPipe
<1>2. PICK p \in Pipes, d \in Directions : f = PipeEnd(p, d)
  BY <1>1 DEF PipeEnds
<1> QED
  BY <1>2, FileFacts

LEMMA OpenedFile ==
    ASSUME NEW f \in Files, IsOpened(f)
    PROVE  /\ f.open \in Opens /\ f.offset \in Offsets /\ f.shared \in BOOLEAN
           /\ f.mount \in {"workspace", "other"}
           /\ f = Opened(f.mount, f.open, f.offset, f.shared) /\ f # NoFile /\ ~isOpenPipe(f)
<1>1. f \in OpenedSet
  BY DEF NoFile, Stdio, PipeEnd, Files, Streams, PipeEnds, IsOpened
<1>2. PICK m \in {"workspace", "other"}, o \in Opens, off \in Offsets, sh \in BOOLEAN :
          f = Opened(m, o, off, sh)
  BY <1>1 DEF OpenedSet
<1>3. f.mount = m
  BY <1>2 DEF Opened
<1> QED
  BY <1>2, <1>3, FileFacts

\* A file with its offset replaced.
LEMMA MovedFile ==
    ASSUME NEW f \in Files, IsOpened(f), NEW off \in Offsets
    PROVE  LET g == [f EXCEPT !.offset = off]
           IN  g \in Files /\ IsOpened(g) /\ g.open = f.open /\ g.shared = f.shared
<1>1. [f EXCEPT !.offset = off] = Opened(f.mount, f.open, off, f.shared)
  BY OpenedFile DEF Opened
<1> QED
  BY <1>1, OpenedFile, FileFacts

LEMMA ShareFacts ==
    ASSUME NEW f \in Files, 0 \in Offsets
    PROVE  /\ Share(f) \in Files
           /\ IsOpened(Share(f)) <=> IsOpened(f)
           /\ IsOpened(f) => Share(f).open = f.open /\ Share(f).shared
           /\ ~IsOpened(f) => Share(f) = f
           /\ Share(f) = NoFile <=> f = NoFile
<1>1. CASE IsOpened(f)
  <2>1. PICK m \in {"workspace", "other"}, o \in Opens, off \in Offsets, sh \in BOOLEAN :
            f = Opened(m, o, off, sh)
    BY <1>1, OpenedFile
  <2>2. Share(f) = Opened(m, o, 0, TRUE)
    BY <1>1, <2>1 DEF Share, Opened
  <2>3. f.open = o
    BY <2>1, FileFacts
  <2>4. Opened(m, o, 0, TRUE) \in Files
    <3>1. \A b \in BOOLEAN : Opened(m, o, 0, b) \in Files
      BY FileFacts
    <3> QED
      BY <3>1, Zenon
  <2>5. /\ IsOpened(Opened(m, o, 0, TRUE)) /\ Opened(m, o, 0, TRUE).open = o
        /\ Opened(m, o, 0, TRUE).shared
    BY DEF Opened, IsOpened
  <2>6. f # NoFile /\ Opened(m, o, 0, TRUE) # NoFile
    BY <1>1, <2>5, FileFacts, Zenon
  <2> QED
    BY <1>1, <2>2, <2>3, <2>4, <2>5, <2>6
<1>2. CASE ~IsOpened(f)
  BY <1>2 DEF Share
<1> QED
  BY <1>1, <1>2

-----------------------------------------------------------------------------
(* Counting the holders of a pipe end *)

Tables == [Fds -> Files]
Count(table, p, d) == Cardinality(Holding(table, PipeEnd(p, d)))
One(b) == IF b THEN 1 ELSE 0

LEMMA FdsFinite == IsFiniteSet(Fds)
BY NatBounds, FS_Interval DEF Fds

LEMMA CountType ==
    ASSUME NEW table, NEW f
    PROVE  /\ IsFiniteSet(Holding(table, f)) /\ Cardinality(Holding(table, f)) \in Nat
           /\ \A fd \in Fds : table[fd] = f => Cardinality(Holding(table, f)) >= 1
           /\ Cardinality(Holding(table, f)) = 0 <=> \A fd \in Fds : table[fd] # f
<1>1. Holding(table, f) \in SUBSET Fds
  BY DEF Holding
<1>2. IsFiniteSet(Holding(table, f))
  BY <1>1, FdsFinite, FS_Subset
<1>3. Cardinality(Holding(table, f)) \in Nat
  BY <1>2, FS_CardinalityType
<1>4. Cardinality(Holding(table, f)) = 0 <=> Holding(table, f) = {}
  BY <1>2, FS_EmptySet
<1>5. Cardinality(Holding(table, f)) = 0 <=> \A fd \in Fds : table[fd] # f
  BY <1>4 DEF Holding
<1> QED
  BY <1>2, <1>3, <1>5

\* One entry of a table is replaced.
LEMMA CountPut ==
    ASSUME NEW table \in Tables, NEW fd \in Fds, NEW g \in Files, NEW f
    PROVE  Cardinality(Holding([table EXCEPT ![fd] = g], f)) =
               Cardinality(Holding(table, f)) - One(table[fd] = f) + One(g = f)
<1> DEFINE H == Holding(table, f)
           K == Holding([table EXCEPT ![fd] = g], f)
<1>1. IsFiniteSet(H) /\ IsFiniteSet(H \ {fd}) /\ Cardinality(H) \in Nat
      /\ Cardinality(H \ {fd}) = IF fd \in H THEN Cardinality(H) - 1 ELSE Cardinality(H)
  BY CountType, FS_RemoveElement
<1>2. K = IF g = f THEN (H \ {fd}) \cup {fd} ELSE H \ {fd}
  BY DEF Holding, Tables
<1>3. fd \in H <=> table[fd] = f
  BY DEF Holding
<1>4. Cardinality((H \ {fd}) \cup {fd}) = Cardinality(H \ {fd}) + 1
  BY <1>1, FS_AddElement
<1> HIDE DEF H, K
<1>5. Cardinality(K) = Cardinality(H) - One(table[fd] = f) + One(g = f)
  BY <1>1, <1>2, <1>3, <1>4 DEF One
<1> QED
  BY <1>5 DEF H, K

\* The holders in both tables.
LEMMA HoldersCount ==
    ASSUME NEW p, NEW d, openFiles \in [Runtimes -> Tables]
    PROVE  /\ Cardinality(Holders(p, d)) =
                  Count(openFiles["root"], p, d) + Count(openFiles["copy"], p, d)
           /\ Holders(p, d) = {} <=> \A rt \in Runtimes, fd \in Fds : openFiles[rt][fd] # PipeEnd(p, d)
<1> DEFINE R == Holding(openFiles["root"], PipeEnd(p, d))
           C == Holding(openFiles["copy"], PipeEnd(p, d))
<1>1. Holders(p, d) = ({"root"} \X R) \cup ({"copy"} \X C)
  BY DEF Holders, Holding, Runtimes
<1>2. ({"root"} \X R) \cap ({"copy"} \X C) = {}
  OBVIOUS
<1>3. IsFiniteSet(R) /\ IsFiniteSet(C) /\ Cardinality(R) \in Nat /\ Cardinality(C) \in Nat
  BY CountType
<1>4. /\ IsFiniteSet({"root"}) /\ Cardinality({"root"}) = 1
      /\ IsFiniteSet({"copy"}) /\ Cardinality({"copy"}) = 1
  BY FS_Singleton
<1>5. /\ IsFiniteSet({"root"} \X R) /\ Cardinality({"root"} \X R) = 1 * Cardinality(R)
      /\ IsFiniteSet({"copy"} \X C) /\ Cardinality({"copy"} \X C) = 1 * Cardinality(C)
  BY <1>3, <1>4, FS_Product
<1>6. Cardinality({}) = 0
  BY FS_EmptySet
<1>7. Cardinality(Holders(p, d)) = Cardinality({"root"} \X R) + Cardinality({"copy"} \X C)
                                     - Cardinality(({"root"} \X R) \cap ({"copy"} \X C))
  BY <1>1, <1>5, FS_Union
<1>8. Cardinality(Holders(p, d)) = Cardinality(R) + Cardinality(C)
  <2>1. Cardinality(({"root"} \X R) \cap ({"copy"} \X C)) = 0
    BY <1>2, <1>6, Zenon
  <2> DEFINE x == Cardinality(R)
             y == Cardinality(C)
             z == Cardinality(({"root"} \X R) \cap ({"copy"} \X C))
  <2>2. Cardinality(Holders(p, d)) = 1 * x + 1 * y - z /\ z = 0 /\ x \in Nat /\ y \in Nat
    BY <1>3, <1>5, <1>7, <2>1
  <2> HIDE DEF x, y, z
  <2>3. Cardinality(Holders(p, d)) = x + y
    BY <2>2
  <2> QED
    BY <2>3 DEF x, y
<1>9. Holders(p, d) = {} <=> \A rt \in Runtimes, fd \in Fds : openFiles[rt][fd] # PipeEnd(p, d)
  <2>1. ASSUME NEW rt \in Runtimes, NEW fd \in Fds, openFiles[rt][fd] = PipeEnd(p, d)
        PROVE  <<rt, fd>> \in Holders(p, d)
    BY <2>1 DEF Holders
  <2>2. ASSUME NEW h \in Holders(p, d)
        PROVE  h[1] \in Runtimes /\ h[2] \in Fds /\ openFiles[h[1]][h[2]] = PipeEnd(p, d)
    BY DEF Holders
  <2> QED
    BY <2>1, <2>2
<1> QED
  BY <1>8, <1>9 DEF Count

-----------------------------------------------------------------------------
(* What holds of the tables T of a run, as a whole *)

AllTables == [Runtimes -> Tables]
PipeRecs  == [bytes : 0 .. PipeLimit, readers : Nat, writers : Nat]

\* The pipe ends and openings in the tables have been given out.
Known(T, np, no) ==
    \A rt \in Runtimes, fd \in Fds :
        /\ isOpenPipe(T[rt][fd]) => T[rt][fd].pipe <= np
        /\ IsOpened(T[rt][fd]) => T[rt][fd].open <= no

\* No table has a descriptor from its nextFileFd on.
Fresh(T, nx) ==
    \A rt \in Runtimes :
        /\ nx[rt] >= FIRST_FILE_FD
        /\ \A fd \in Fds : fd >= nx[rt] => T[rt][fd] = NoFile /\ fd \notin Preopens

\* Two descriptors of one opening share its offset cell.
Separate(T) ==
    \A r1, r2 \in Runtimes, f1, f2 \in Fds :
        (r1 # r2 \/ f1 # f2) /\ IsOpened(T[r1][f1]) /\ IsOpened(T[r2][f2])
            /\ T[r1][f1].open = T[r2][f2].open => T[r1][f1].shared /\ T[r2][f2].shared

\* Nobody can write to a pipe of which a read has reported the end.
NoWriters(T, ef) == \A p \in ef, rt \in Runtimes, fd \in Fds : T[rt][fd] # PipeEnd(p, "write")

Shape(T, nx, np, no, ef) ==
    /\ T \in AllTables /\ nx \in [Runtimes -> Nat]
    /\ np \in Nat /\ no \in Nat /\ np + no <= MaxObjects
    /\ ef \subseteq 1 .. np
    /\ Known(T, np, no) /\ Fresh(T, nx) /\ Separate(T) /\ NoWriters(T, ef)

\* The pipes, apart from their counts.
Drained(ps, ef) == ps \in [Pipes -> PipeRecs] /\ \A p \in ef : ps[p].bytes = 0

Total(T, p, d) == Count(T["root"], p, d) + Count(T["copy"], p, d)
Balanced(T, ps) ==
    \A p \in Pipes : ps[p].readers = Total(T, p, "read") /\ ps[p].writers = Total(T, p, "write")

CopyInv == phase["copy"] \in {"absent", "ended"} => openFiles["copy"] = EmptyTable

TabOK ==
    /\ Shape(openFiles, nextFileFd, npipes, nopens, eof)
    /\ Drained(pipes, eof) /\ Balanced(openFiles, pipes)
    /\ offsetRef \in [Opens -> Offsets]

TabInv == TabOK /\ CopyInv

-----------------------------------------------------------------------------
(* One entry is replaced *)

Put(T, rt, fd, g) == [T EXCEPT ![rt] = [T[rt] EXCEPT ![fd] = g]]

LEMMA PutFacts ==
    ASSUME NEW T \in AllTables, NEW rt \in Runtimes, NEW fd \in Fds, NEW g \in Files
    PROVE  /\ Put(T, rt, fd, g) \in AllTables
           /\ Put(T, rt, fd, g)[rt][fd] = g
           /\ \A r \in Runtimes, k \in Fds :
                  r # rt \/ k # fd => Put(T, rt, fd, g)[r][k] = T[r][k]
           /\ \A r \in Runtimes : r # rt => Put(T, rt, fd, g)[r] = T[r]
           /\ Put(T, rt, fd, g)[rt] = [T[rt] EXCEPT ![fd] = g]
BY DEF Put, AllTables, Tables

LEMMA PutTwice ==
    ASSUME NEW T \in AllTables, NEW rt \in Runtimes, NEW a \in Fds, NEW b \in Fds,
           NEW x \in Files, NEW y \in Files
    PROVE  [T EXCEPT ![rt][a] = x, ![rt][b] = y] = Put(Put(T, rt, a, x), rt, b, y)
BY DEF Put, AllTables, Tables

LEMMA PutOnce ==
    ASSUME NEW T \in AllTables, NEW rt \in Runtimes, NEW a \in Fds, NEW x \in Files
    PROVE  [T EXCEPT ![rt][a] = x] = Put(T, rt, a, x)
BY DEF Put, AllTables, Tables

LEMMA TotalPut ==
    ASSUME NEW T \in AllTables, NEW rt \in Runtimes, NEW fd \in Fds, NEW g \in Files, NEW p, NEW d
    PROVE  /\ Total(T, p, d) \in Nat
           /\ Total(T, p, d) >= One(T[rt][fd] = PipeEnd(p, d))
           /\ Total(Put(T, rt, fd, g), p, d) =
                  Total(T, p, d) - One(T[rt][fd] = PipeEnd(p, d)) + One(g = PipeEnd(p, d))
<1> DEFINE U == Put(T, rt, fd, g)
           e == PipeEnd(p, d)
<1>0. "root" \in Runtimes /\ "copy" \in Runtimes /\ (rt = "root" \/ rt = "copy")
  BY DEF Runtimes
<1>1. T[rt] \in Tables /\ U[rt] = [T[rt] EXCEPT ![fd] = g]
      /\ \A r \in Runtimes : r # rt => U[r] = T[r]
  BY PutFacts DEF AllTables
<1>2. Cardinality(Holding(U[rt], e)) =
          Cardinality(Holding(T[rt], e)) - One(T[rt][fd] = e) + One(g = e)
  BY <1>1, CountPut
<1>3. \A r \in Runtimes : Cardinality(Holding(T[r], e)) \in Nat
  BY CountType
<1>4. Cardinality(Holding(T[rt], e)) >= One(T[rt][fd] = e)
  <2>1. Cardinality(Holding(T[rt], e)) \in Nat
    BY CountType
  <2>2. T[rt][fd] = e => Cardinality(Holding(T[rt], e)) >= 1
    BY CountType
  <2> QED
    BY <2>1, <2>2 DEF One
<1>5. One(T[rt][fd] = e) \in {0, 1} /\ One(g = e) \in {0, 1}
  BY DEF One
<1> DEFINE a == Cardinality(Holding(T["root"], e))
           b == Cardinality(Holding(T["copy"], e))
<1>6. a \in Nat /\ b \in Nat /\ Total(T, p, d) = a + b
  BY <1>0, <1>3 DEF Total, Count
<1>7. CASE rt = "root"
  <2>1. Total(U, p, d) = a - One(T[rt][fd] = e) + One(g = e) + b /\ a >= One(T[rt][fd] = e)
    BY <1>0, <1>1, <1>2, <1>4, <1>7 DEF Total, Count
  <2> HIDE DEF a, b, U, e
  <2> QED
    BY <1>5, <1>6, <2>1 DEF U, e
<1>8. CASE rt = "copy"
  <2>1. Total(U, p, d) = a + (b - One(T[rt][fd] = e) + One(g = e)) /\ b >= One(T[rt][fd] = e)
    BY <1>0, <1>1, <1>2, <1>4, <1>8 DEF Total, Count
  <2> HIDE DEF a, b, U, e
  <2> QED
    BY <1>5, <1>6, <2>1 DEF U, e
<1> QED
  BY <1>0, <1>7, <1>8

LEMMA TotalNat == ASSUME NEW T, NEW p, NEW d PROVE Total(T, p, d) \in Nat
BY CountType DEF Total, Count

\* One handle less: what closeOpenFile does to the counts.
LEMMA ReleaseBalance ==
    ASSUME NEW T, NEW U, NEW ps \in [Pipes -> PipeRecs], Balanced(T, ps), NEW f \in Files,
           \A p \in Pipes, d \in Directions :
               Total(T, p, d) = Total(U, p, d) + One(f = PipeEnd(p, d))
    PROVE  /\ Balanced(U, Release(ps, f)) /\ Release(ps, f) \in [Pipes -> PipeRecs]
           /\ \A p \in Pipes : Release(ps, f)[p].bytes = ps[p].bytes
<1>0. "read" \in Directions /\ "write" \in Directions
  BY DEF Directions
<1>00. \A p \in Pipes, d \in Directions : Total(U, p, d) \in Nat
  BY TotalNat
<1>1. CASE ~isOpenPipe(f)
  <2>1. Release(ps, f) = ps
    BY <1>1 DEF Release
  <2>2. \A p \in Pipes, d \in Directions : f # PipeEnd(p, d)
    BY <1>1, FileFacts
  <2>3. \A p \in Pipes, d \in Directions : Total(T, p, d) = Total(U, p, d)
    BY <1>00, <2>2 DEF One
  <2> QED
    BY <1>0, <2>1, <2>3 DEF Balanced
<1>2. CASE isOpenPipe(f)
  <2> DEFINE q == f.pipe
  <2>1. q \in Pipes /\ f.direction \in Directions /\ f = PipeEnd(q, f.direction)
    BY <1>2, PipeFile
  <2>2. \A p \in Pipes, d \in Directions : f = PipeEnd(p, d) <=> p = q /\ d = f.direction
    BY <2>1, FileFacts
  <2>3. \A p \in Pipes, d \in Directions :
            Total(T, p, d) = IF p = q /\ d = f.direction THEN Total(U, p, d) + 1 ELSE Total(U, p, d)
    BY <1>00, <2>2 DEF One
  <2>4. \A p \in Pipes : ps[p] \in PipeRecs /\ ps[p].readers \in Nat /\ ps[p].writers \in Nat
    BY DEF PipeRecs
  <2>5. CASE f.direction = "read"
    <3>1. Release(ps, f) = [ps EXCEPT ![q].readers = Decrease(@, 1)]
      BY <1>2, <2>5 DEF Release
    <3>2. ps[q].readers = Total(U, q, "read") + 1 /\ Total(U, q, "read") \in Nat
      BY <1>0, <1>00, <2>1, <2>3, <2>5 DEF Balanced
    <3>3. Decrease(ps[q].readers, 1) = Total(U, q, "read")
      BY <3>2 DEF Decrease
    <3>4. /\ Release(ps, f) \in [Pipes -> PipeRecs]
          /\ Release(ps, f)[q].readers = Total(U, q, "read")
          /\ Release(ps, f)[q].writers = ps[q].writers /\ Release(ps, f)[q].bytes = ps[q].bytes
          /\ \A p \in Pipes : p # q => Release(ps, f)[p] = ps[p]
      BY <2>1, <3>1, <3>2, <3>3 DEF PipeRecs
    <3> QED
      BY <1>0, <2>1, <2>3, <2>5, <3>4 DEF Balanced
  <2>6. CASE f.direction = "write"
    <3>1. Release(ps, f) = [ps EXCEPT ![q].writers = Decrease(@, 1)]
      BY <1>2, <2>6 DEF Release
    <3>2. ps[q].writers = Total(U, q, "write") + 1 /\ Total(U, q, "write") \in Nat
      BY <1>0, <1>00, <2>1, <2>3, <2>6 DEF Balanced
    <3>3. Decrease(ps[q].writers, 1) = Total(U, q, "write")
      BY <3>2 DEF Decrease
    <3>4. /\ Release(ps, f) \in [Pipes -> PipeRecs]
          /\ Release(ps, f)[q].writers = Total(U, q, "write")
          /\ Release(ps, f)[q].readers = ps[q].readers /\ Release(ps, f)[q].bytes = ps[q].bytes
          /\ \A p \in Pipes : p # q => Release(ps, f)[p] = ps[p]
      BY <2>1, <3>1, <3>2, <3>3 DEF PipeRecs
    <3> QED
      BY <1>0, <2>1, <2>3, <2>6, <3>4 DEF Balanced
  <2> QED
    BY <2>1, <2>5, <2>6 DEF Directions
<1> QED
  BY <1>1, <1>2

\* One handle more: what retainOpenFile does to the counts.
LEMMA RetainBalance ==
    ASSUME NEW T, NEW U, NEW ps \in [Pipes -> PipeRecs], Balanced(T, ps), NEW f \in Files,
           \A p \in Pipes, d \in Directions :
               Total(U, p, d) = Total(T, p, d) + One(f = PipeEnd(p, d))
    PROVE  /\ Balanced(U, Retain(ps, f)) /\ Retain(ps, f) \in [Pipes -> PipeRecs]
           /\ \A p \in Pipes : Retain(ps, f)[p].bytes = ps[p].bytes
<1>0. "read" \in Directions /\ "write" \in Directions
  BY DEF Directions
<1>00. \A p \in Pipes, d \in Directions : Total(T, p, d) \in Nat
  BY TotalNat
<1>1. CASE ~isOpenPipe(f)
  <2>1. Retain(ps, f) = ps
    BY <1>1 DEF Retain
  <2>2. \A p \in Pipes, d \in Directions : f # PipeEnd(p, d)
    BY <1>1, FileFacts
  <2>3. \A p \in Pipes, d \in Directions : Total(T, p, d) = Total(U, p, d)
    BY <1>00, <2>2 DEF One
  <2> QED
    BY <1>0, <2>1, <2>3 DEF Balanced
<1>2. CASE isOpenPipe(f)
  <2> DEFINE q == f.pipe
  <2>1. q \in Pipes /\ f.direction \in Directions /\ f = PipeEnd(q, f.direction)
    BY <1>2, PipeFile
  <2>2. \A p \in Pipes, d \in Directions : f = PipeEnd(p, d) <=> p = q /\ d = f.direction
    BY <2>1, FileFacts
  <2>3. \A p \in Pipes, d \in Directions :
            Total(U, p, d) = IF p = q /\ d = f.direction THEN Total(T, p, d) + 1 ELSE Total(T, p, d)
    BY <1>00, <2>2 DEF One
  <2>5. CASE f.direction = "read"
    <3>1. Retain(ps, f) = [ps EXCEPT ![q].readers = @ + 1]
      BY <1>2, <2>5 DEF Retain
    <3>2. ps[q].readers + 1 = Total(U, q, "read") /\ ps[q].readers + 1 \in Nat
      BY <1>0, <1>00, <2>1, <2>3, <2>5 DEF Balanced
    <3>4. /\ Retain(ps, f) \in [Pipes -> PipeRecs]
          /\ Retain(ps, f)[q].readers = Total(U, q, "read")
          /\ Retain(ps, f)[q].writers = ps[q].writers /\ Retain(ps, f)[q].bytes = ps[q].bytes
          /\ \A p \in Pipes : p # q => Retain(ps, f)[p] = ps[p]
      BY <2>1, <3>1, <3>2 DEF PipeRecs
    <3> QED
      BY <1>0, <2>1, <2>3, <2>5, <3>4 DEF Balanced
  <2>6. CASE f.direction = "write"
    <3>1. Retain(ps, f) = [ps EXCEPT ![q].writers = @ + 1]
      BY <1>2, <2>6 DEF Retain
    <3>2. ps[q].writers + 1 = Total(U, q, "write") /\ ps[q].writers + 1 \in Nat
      BY <1>0, <1>00, <2>1, <2>3, <2>6 DEF Balanced
    <3>4. /\ Retain(ps, f) \in [Pipes -> PipeRecs]
          /\ Retain(ps, f)[q].writers = Total(U, q, "write")
          /\ Retain(ps, f)[q].readers = ps[q].readers /\ Retain(ps, f)[q].bytes = ps[q].bytes
          /\ \A p \in Pipes : p # q => Retain(ps, f)[p] = ps[p]
      BY <2>1, <3>1, <3>2 DEF PipeRecs
    <3> QED
      BY <1>0, <2>1, <2>3, <2>6, <3>4 DEF Balanced
  <2> QED
    BY <2>1, <2>5, <2>6 DEF Directions
<1> QED
  BY <1>1, <1>2

\* The tables after one entry is replaced by g, with the descriptors from k on free.
LEMMA PutShape ==
    ASSUME NEW T, NEW nx, NEW np, NEW no, NEW ef, Shape(T, nx, np, no, ef),
           NEW rt \in Runtimes, NEW fd \in Fds, NEW g \in Files,
           NEW k \in Nat, k >= nx[rt], g = NoFile \/ fd < k,
           NEW np2 \in Nat, np2 >= np, NEW no2 \in Nat, no2 >= no, np2 + no2 <= MaxObjects,
           isOpenPipe(g) => g.pipe <= np2,
           \A p \in ef : g # PipeEnd(p, "write"),
           IsOpened(g) =>
               /\ g.open <= no2
               /\ \A r \in Runtimes, f \in Fds :
                      (r # rt \/ f # fd) /\ IsOpened(T[r][f]) /\ T[r][f].open = g.open
                          => T[r][f].shared /\ g.shared
    PROVE  Shape(Put(T, rt, fd, g), [nx EXCEPT ![rt] = k], np2, no2, ef)
<1> DEFINE U  == Put(T, rt, fd, g)
           nx2 == [nx EXCEPT ![rt] = k]
<1>0. /\ T \in AllTables /\ nx \in [Runtimes -> Nat] /\ ef \subseteq 1 .. np
      /\ np \in Nat /\ no \in Nat
      /\ Known(T, np, no) /\ Fresh(T, nx) /\ Separate(T) /\ NoWriters(T, ef)
  BY DEF Shape
<1>1. U \in AllTables /\ U[rt][fd] = g
      /\ \A r \in Runtimes, f \in Fds : r # rt \/ f # fd => U[r][f] = T[r][f]
  <2>1. T \in AllTables
    BY DEF Shape
  <2>2. U \in AllTables
    BY <2>1, PutFacts, Zenon
  <2>3. U[rt][fd] = g
    BY <2>1 DEF Put, AllTables, Tables
  <2>4. \A r \in Runtimes, f \in Fds : r # rt \/ f # fd => U[r][f] = T[r][f]
    BY <2>1 DEF Put, AllTables, Tables
  <2> QED
    BY <2>2, <2>3, <2>4
<1>2. nx2 \in [Runtimes -> Nat] /\ nx2[rt] = k /\ \A r \in Runtimes : r # rt => nx2[r] = nx[r]
  BY <1>0
<1> HIDE DEF U, nx2
<1>3. Known(U, np2, no2)
  <2> SUFFICES ASSUME NEW r \in Runtimes, NEW f \in Fds
               PROVE  /\ isOpenPipe(U[r][f]) => U[r][f].pipe <= np2
                      /\ IsOpened(U[r][f]) => U[r][f].open <= no2
    BY DEF Known
  <2>1. CASE r = rt /\ f = fd
    BY <1>1, <2>1
  <2>2. CASE r # rt \/ f # fd
    <3>1. U[r][f] = T[r][f] /\ T[r][f] \in Files
      BY <1>0, <1>1, <2>2 DEF AllTables, Tables
    <3>2. /\ isOpenPipe(T[r][f]) => T[r][f].pipe <= np /\ T[r][f].pipe \in Nat
          /\ IsOpened(T[r][f]) => T[r][f].open <= no /\ T[r][f].open \in Nat
      BY <1>0, <3>1, PipeFile, OpenedFile DEF Known, Pipes, Opens
    <3> QED
      BY <1>0, <3>1, <3>2
  <2> QED
    BY <2>1, <2>2
<1>4. Fresh(U, nx2)
  <2> SUFFICES ASSUME NEW r \in Runtimes
               PROVE  /\ nx2[r] >= FIRST_FILE_FD
                      /\ \A f \in Fds : f >= nx2[r] => U[r][f] = NoFile /\ f \notin Preopens
    BY DEF Fresh
  <2>1. nx[r] >= FIRST_FILE_FD /\ nx[r] \in Nat
        /\ \A f \in Fds : f >= nx[r] => T[r][f] = NoFile /\ f \notin Preopens
    BY <1>0 DEF Fresh
  <2>2. nx2[r] >= nx[r]
    BY <1>0, <1>2, <2>1
  <2>3. nx2[r] >= FIRST_FILE_FD
    BY <1>2, <2>1, <2>2 DEF FIRST_FILE_FD
  <2>4. ASSUME NEW f \in Fds, f >= nx2[r] PROVE U[r][f] = NoFile /\ f \notin Preopens
    <3>1. f >= nx[r] /\ f \in Nat
      BY <1>2, <2>1, <2>2, <2>4, NatBounds DEF Fds
    <3>2. CASE r = rt /\ f = fd
      BY <1>1, <1>2, <2>1, <2>4, <3>1, <3>2
    <3>3. CASE r # rt \/ f # fd
      BY <1>1, <2>1, <3>1, <3>3
    <3> QED
      BY <3>2, <3>3
  <2> QED
    BY <2>3, <2>4
<1>5. Separate(U)
  BY <1>0, <1>1 DEF Separate
<1>6. NoWriters(U, ef)
  BY <1>0, <1>1 DEF NoWriters
<1>7. ef \subseteq 1 .. np2
  BY <1>0
<1>8. Shape(U, nx2, np2, no2, ef)
  BY <1>1, <1>2, <1>3, <1>4, <1>5, <1>6, <1>7 DEF Shape
<1> QED
  BY <1>8 DEF U, nx2

\* The facts about an entry of the tables that the steps use.
LEMMA EntryFacts ==
    ASSUME NEW T, NEW nx, NEW np, NEW no, NEW ef, Shape(T, nx, np, no, ef),
           NEW rt \in Runtimes, NEW fd \in Fds
    PROVE  /\ T[rt][fd] \in Files /\ fd \in Nat /\ nx[rt] \in Nat /\ nx[rt] >= FIRST_FILE_FD
           /\ T[rt][fd] # NoFile => fd < nx[rt]
           /\ isOpenPipe(T[rt][fd]) => T[rt][fd].pipe \in 1 .. np
           /\ IsOpened(T[rt][fd]) => T[rt][fd].open \in 1 .. no
           /\ \A p \in ef : T[rt][fd] # PipeEnd(p, "write")
<1>1. /\ T \in AllTables /\ nx \in [Runtimes -> Nat] /\ np \in Nat /\ no \in Nat
      /\ Known(T, np, no) /\ Fresh(T, nx) /\ NoWriters(T, ef)
  BY DEF Shape
<1>2. T[rt][fd] \in Files /\ fd \in Nat /\ nx[rt] \in Nat
  BY <1>1, NatBounds DEF AllTables, Tables, Fds
<1>3. nx[rt] >= FIRST_FILE_FD /\ (T[rt][fd] # NoFile => fd < nx[rt])
  BY <1>1, <1>2 DEF Fresh
<1>4. isOpenPipe(T[rt][fd]) => T[rt][fd].pipe \in 1 .. np
  BY <1>1, <1>2, PipeFile DEF Known, Pipes
<1>5. IsOpened(T[rt][fd]) => T[rt][fd].open \in 1 .. no
  BY <1>1, <1>2, OpenedFile DEF Known, Opens
<1> QED
  BY <1>1, <1>2, <1>3, <1>4, <1>5 DEF NoWriters

LEMMA MinFacts ==
    ASSUME NEW S \in SUBSET Nat, S # {}
    PROVE  Min(S) \in S /\ \A s \in S : Min(S) <= s
<1>1. IsWellFoundedOn(OpToRel(<, Nat), S)
  BY NatLessThanWellFounded, IsWellFoundedOnSubset
<1>2. PICK m \in S : \A s \in S : ~(<<s, m>> \in OpToRel(<, Nat))
  BY <1>1, WFMin
<1>3. \A s \in S : ~(s < m)
  BY <1>2 DEF OpToRel
<1>4. \A s \in S : m <= s
  BY <1>3
<1> QED
  BY <1>4 DEF Min

LEMMA TotalZero ==
    ASSUME NEW T, NEW p, NEW d
    PROVE  Total(T, p, d) = 0 <=> \A rt \in Runtimes, fd \in Fds : T[rt][fd] # PipeEnd(p, d)
<1>1. /\ Count(T["root"], p, d) \in Nat /\ Count(T["copy"], p, d) \in Nat
      /\ Count(T["root"], p, d) = 0 <=> \A fd \in Fds : T["root"][fd] # PipeEnd(p, d)
      /\ Count(T["copy"], p, d) = 0 <=> \A fd \in Fds : T["copy"][fd] # PipeEnd(p, d)
  BY CountType DEF Count
<1>2. Total(T, p, d) = 0 <=> Count(T["root"], p, d) = 0 /\ Count(T["copy"], p, d) = 0
  BY <1>1 DEF Total
<1> QED
  BY <1>1, <1>2 DEF Runtimes

\* The counts follow the tables as long as no pipe end comes or goes.
LEMMA SameBalance ==
    ASSUME NEW T, NEW U, NEW ps, Balanced(T, ps),
           \A p \in Pipes, d \in Directions : Total(U, p, d) = Total(T, p, d)
    PROVE  Balanced(U, ps)
BY DEF Balanced, Directions

LEMMA PlainPut ==
    ASSUME NEW T \in AllTables, NEW rt \in Runtimes, NEW fd \in Fds, NEW g \in Files,
           ~isOpenPipe(T[rt][fd]), ~isOpenPipe(g)
    PROVE  \A p \in Pipes, d \in Directions : Total(Put(T, rt, fd, g), p, d) = Total(T, p, d)
<1> SUFFICES ASSUME NEW p \in Pipes, NEW d \in Directions
             PROVE  Total(Put(T, rt, fd, g), p, d) = Total(T, p, d)
  OBVIOUS
<1>1. T[rt][fd] # PipeEnd(p, d) /\ g # PipeEnd(p, d)
  BY FileFacts
<1>2. One(T[rt][fd] = PipeEnd(p, d)) = 0 /\ One(g = PipeEnd(p, d)) = 0
  BY <1>1 DEF One
<1>3. Total(T, p, d) \in Nat
      /\ Total(Put(T, rt, fd, g), p, d) =
            Total(T, p, d) - One(T[rt][fd] = PipeEnd(p, d)) + One(g = PipeEnd(p, d))
  BY TotalPut
<1> QED
  BY <1>2, <1>3

LEMMA SharePipe ==
    ASSUME NEW f \in Files, NEW p \in Pipes, NEW d \in Directions
    PROVE  Share(f) = PipeEnd(p, d) <=> f = PipeEnd(p, d)
<1>1. 0 \in Offsets
  BY NatBounds DEF Offsets
<1>2. ~IsOpened(PipeEnd(p, d))
  BY FileFacts
<1> QED
  BY <1>1, <1>2, ShareFacts, Zenon

-----------------------------------------------------------------------------
(* The descriptor calls *)

\* A step of the guest of rt that leaves the other table alone.
LEMMA GuestCopy ==
    ASSUME CopyInv, NEW rt \in Runtimes, Running(rt), UNCHANGED phase,
           rt = "root" => openFiles'["copy"] = openFiles["copy"]
    PROVE  CopyInv'
BY DEF CopyInv, Running, Runtimes

LEMMA TabFacts ==
    ASSUME TabOK
    PROVE  /\ openFiles \in AllTables /\ nextFileFd \in [Runtimes -> Nat]
           /\ npipes \in Nat /\ nopens \in Nat /\ npipes + nopens <= MaxObjects
           /\ pipes \in [Pipes -> PipeRecs]
BY DEF TabOK, Shape, Drained

LEMMA SameNext == ASSUME NEW nx \in [Runtimes -> Nat], NEW rt PROVE [nx EXCEPT ![rt] = nx[rt]] = nx
OBVIOUS

LEMMA PutCopy ==
    ASSUME NEW T \in AllTables, NEW rt \in Runtimes, NEW fd \in Fds, NEW g \in Files, rt = "root"
    PROVE  Put(T, rt, fd, g)["copy"] = T["copy"]
BY DEF Put, AllTables, Tables, Runtimes

\* A file that has just been opened.
LEMMA NewFile ==
    ASSUME NEW m \in {"workspace", "other"}, NEW o \in Opens, NEW off \in Offsets
    PROVE  LET g == Opened(m, o, off, FALSE)
           IN  g \in Files /\ IsOpened(g) /\ ~isOpenPipe(g) /\ g.open = o /\ g # NoFile
<1>1. \A b \in BOOLEAN : /\ Opened(m, o, off, b) \in Files /\ IsOpened(Opened(m, o, off, b))
                         /\ ~isOpenPipe(Opened(m, o, off, b)) /\ Opened(m, o, off, b).open = o
  BY FileFacts
<1>2. /\ Opened(m, o, off, FALSE) \in Files /\ IsOpened(Opened(m, o, off, FALSE))
      /\ ~isOpenPipe(Opened(m, o, off, FALSE)) /\ Opened(m, o, off, FALSE).open = o
  BY <1>1, Zenon
<1> QED
  BY <1>2, FileFacts, Zenon

LEMMA PathOpenTab ==
    ASSUME TabInv, NEW rt \in Runtimes, NEW m \in Mounts, NEW off \in Offsets, pathOpen(rt, m, off)
    PROVE  TabInv'
<1> DEFINE T == openFiles
           fd == nextFileFd[rt]
           g == Opened(m, nopens + 1, off, FALSE)
<1>0. TabOK /\ CopyInv /\ m \in {"workspace", "other"}
  BY Bounds DEF TabInv
<1>1. /\ T \in AllTables /\ nextFileFd \in [Runtimes -> Nat] /\ fd \in Nat
      /\ npipes \in Nat /\ nopens \in Nat /\ npipes + nopens < MaxObjects /\ fd \in Fds
      /\ Shape(T, nextFileFd, npipes, nopens, eof)
  BY <1>0, TabFacts DEF pathOpen, TabOK
<1>2. nopens + 1 \in Opens /\ npipes + (nopens + 1) <= MaxObjects
  BY <1>1, NatBounds DEF Opens
<1>3. g \in Files /\ IsOpened(g) /\ ~isOpenPipe(g) /\ g.open = nopens + 1
  BY <1>0, <1>2, NewFile, Zenon
<1>4. T[rt][fd] = NoFile
  BY <1>1, EntryFacts
<1> HIDE DEF g
<1>5. openFiles' = Put(T, rt, fd, g) /\ nextFileFd' = [nextFileFd EXCEPT ![rt] = fd + 1]
      /\ nopens' = nopens + 1 /\ UNCHANGED <<npipes, eof, pipes, offsetRef, phase>> /\ Running(rt)
  BY <1>1, <1>3, PutOnce DEF pathOpen, g
<1>6. \A r \in Runtimes, f \in Fds : IsOpened(T[r][f]) => T[r][f].open # g.open
  BY <1>1, <1>3, EntryFacts
<1>7. \A p \in eof : g # PipeEnd(p, "write")
  BY <1>3 DEF PipeEnd, IsOpened
<1>8. Shape(Put(T, rt, fd, g), [nextFileFd EXCEPT ![rt] = fd + 1], npipes, nopens + 1, eof)
  <2>1. fd + 1 \in Nat /\ fd + 1 >= nextFileFd[rt] /\ fd < fd + 1
        /\ nopens + 1 \in Nat /\ nopens + 1 >= nopens /\ npipes >= npipes
    BY <1>1
  <2> DEFINE k  == fd + 1
             no == nopens + 1
  <2>2. /\ k \in Nat /\ k >= nextFileFd[rt] /\ fd < k /\ no \in Nat /\ no >= nopens
        /\ npipes >= npipes /\ npipes + no <= MaxObjects /\ g.open <= no
    BY <1>1, <1>2, <1>3, <2>1
  <2> HIDE DEF T, k, no
  <2>3. Shape(Put(T, rt, fd, g), [nextFileFd EXCEPT ![rt] = k], npipes, no, eof)
    BY <1>1, <1>3, <1>6, <1>7, <2>2, PutShape
  <2> QED
    BY <2>3 DEF k, no
<1>9. Balanced(Put(T, rt, fd, g), pipes)
  BY <1>0, <1>1, <1>3, <1>4, PlainPut, SameBalance, FileFacts DEF TabOK
<1>10. TabOK'
  BY <1>0, <1>5, <1>8, <1>9 DEF TabOK
<1>11. CopyInv'
  BY <1>0, <1>1, <1>3, <1>5, PutCopy, GuestCopy
<1> QED
  BY <1>10, <1>11 DEF TabInv

\* fd_seek, fd_read, fd_write of a file, and the use of files by proc_exec.
LEMMA SetOffsetTab ==
    ASSUME TabOK, NEW rt \in Runtimes, NEW fd \in Fds, NEW off \in Offsets,
           IsOpened(openFiles[rt][fd]), SetOffset(rt, fd, off),
           UNCHANGED <<nextFileFd, pipes, npipes, nopens, eof>>
    PROVE  TabOK' /\ (rt = "root" => openFiles'["copy"] = openFiles["copy"])
<1> DEFINE T == openFiles
           f == T[rt][fd]
           g == [f EXCEPT !.offset = off]
<1>1. /\ T \in AllTables /\ nextFileFd \in [Runtimes -> Nat] /\ npipes \in Nat /\ nopens \in Nat
      /\ npipes + nopens <= MaxObjects /\ Shape(T, nextFileFd, npipes, nopens, eof)
      /\ offsetRef \in [Opens -> Offsets] /\ f \in Files
  BY TabFacts, EntryFacts DEF TabOK
<1>2. CASE f.shared
  <2>1. f.open \in Opens
    BY <1>1, OpenedFile
  <2>2. offsetRef' \in [Opens -> Offsets] /\ UNCHANGED openFiles
    BY <1>1, <1>2, <2>1 DEF SetOffset
  <2> QED
    BY <2>2 DEF TabOK
<1>3. CASE ~f.shared
  <2>1. g \in Files /\ IsOpened(g) /\ g.open = f.open /\ g.shared = f.shared
    BY <1>1, MovedFile
  <2>2. UNCHANGED offsetRef /\ openFiles' = [openFiles EXCEPT ![rt][fd].offset = off]
    BY <1>3 DEF SetOffset
  <2>3. [openFiles EXCEPT ![rt][fd].offset = off] = Put(T, rt, fd, g)
    BY <1>1 DEF Put, AllTables, Tables
  <2> HIDE DEF g
  <2>4. ~isOpenPipe(f) /\ ~isOpenPipe(g) /\ f # NoFile
    BY <1>1, <2>1, OpenedFile
  <2>5. fd < nextFileFd[rt] /\ nextFileFd[rt] \in Nat /\ f.open <= nopens
    BY <1>1, <2>4, EntryFacts
  <2>6. \A r \in Runtimes, h \in Fds :
            (r # rt \/ h # fd) /\ IsOpened(T[r][h]) /\ T[r][h].open = g.open
                => T[r][h].shared /\ g.shared
    BY <1>1, <2>1 DEF Shape, Separate
  <2>7. \A p \in eof : g # PipeEnd(p, "write")
    BY <2>1 DEF PipeEnd, IsOpened
  <2>8. Shape(Put(T, rt, fd, g), [nextFileFd EXCEPT ![rt] = nextFileFd[rt]], npipes, nopens, eof)
    <3>1. g.open <= nopens /\ nextFileFd[rt] >= nextFileFd[rt] /\ npipes >= npipes /\ nopens >= nopens
      BY <1>1, <2>1, <2>5
    <3> HIDE DEF T, f
    <3> QED
      BY <1>1, <2>1, <2>4, <2>5, <2>6, <2>7, <3>1, PutShape
  <2>9. Balanced(Put(T, rt, fd, g), pipes)
    BY <1>1, <2>1, <2>4, PlainPut, SameBalance DEF TabOK
  <2>10. TabOK'
    BY <1>1, <2>2, <2>3, <2>8, <2>9, SameNext DEF TabOK
  <2> QED
    BY <1>1, <2>1, <2>2, <2>3, <2>10, PutCopy
<1> QED
  BY <1>2, <1>3

LEMMA FdCloseTab ==
    ASSUME TabInv, NEW rt \in Runtimes, NEW fd \in Fds, fdClose(rt, fd)
    PROVE  TabInv'
<1> DEFINE T == openFiles
           f == T[rt][fd]
           U == Put(T, rt, fd, NoFile)
<1>1. /\ T \in AllTables /\ nextFileFd \in [Runtimes -> Nat] /\ npipes \in Nat /\ nopens \in Nat
      /\ npipes + nopens <= MaxObjects /\ Shape(T, nextFileFd, npipes, nopens, eof)
      /\ f \in Files /\ NoFile \in Files /\ nextFileFd[rt] \in Nat
      /\ pipes \in [Pipes -> PipeRecs]
  BY TabFacts, EntryFacts, FileFacts DEF TabInv, TabOK
<1>2. /\ openFiles' = U /\ pipes' = Release(pipes, f) /\ Running(rt)
      /\ UNCHANGED <<phase, nextFileFd, offsetRef, npipes, nopens, eof>>
  BY <1>1, PutOnce DEF fdClose
<1>3. Shape(U, [nextFileFd EXCEPT ![rt] = nextFileFd[rt]], npipes, nopens, eof)
  <2>1. ~isOpenPipe(NoFile) /\ ~IsOpened(NoFile) /\ nextFileFd[rt] >= nextFileFd[rt]
        /\ npipes >= npipes /\ nopens >= nopens
    BY <1>1, FileFacts
  <2>2. \A p \in eof : NoFile # PipeEnd(p, "write")
    BY DEF NoFile, PipeEnd
  <2> HIDE DEF T
  <2> QED
    BY <1>1, <2>1, <2>2, PutShape
<1>4. ASSUME NEW p \in Pipes, NEW d \in Directions
      PROVE  Total(T, p, d) = Total(U, p, d) + One(f = PipeEnd(p, d))
  <2>1. NoFile # PipeEnd(p, d)
    BY DEF NoFile, PipeEnd
  <2>2. One(NoFile = PipeEnd(p, d)) = 0 /\ One(f = PipeEnd(p, d)) \in {0, 1}
    BY <2>1 DEF One
  <2>3. Total(T, p, d) \in Nat
        /\ Total(U, p, d) = Total(T, p, d) - One(f = PipeEnd(p, d)) + One(NoFile = PipeEnd(p, d))
    BY <1>1, TotalPut
  <2> QED
    BY <2>2, <2>3
<1> HIDE DEF U, T, f
<1>5. /\ Balanced(U, Release(pipes, f)) /\ Release(pipes, f) \in [Pipes -> PipeRecs]
      /\ \A p \in Pipes : Release(pipes, f)[p].bytes = pipes[p].bytes
  <2>1. Balanced(T, pipes)
    BY DEF T, TabInv, TabOK
  <2> QED
    BY <1>1, <1>4, <2>1, ReleaseBalance
<1>6. eof \subseteq Pipes
  BY <1>1, NatBounds DEF Shape, Pipes
<1>7. TabOK'
  BY <1>1, <1>2, <1>3, <1>5, <1>6, SameNext DEF TabOK, TabInv, Drained
<1>8. CopyInv'
  BY <1>1, <1>2, PutCopy, GuestCopy DEF TabInv, U, T
<1> QED
  BY <1>7, <1>8 DEF TabInv

\* Whether and where nextFileFd moves when descriptor to is taken.
LEMMA AboveFacts ==
    ASSUME TabOK, NEW rt \in Runtimes, NEW to \in Fds
    PROVE  LET k == IF isDynamicFileFdNumber(to) THEN Above(rt, to) ELSE nextFileFd[rt]
           IN  k \in Nat /\ k >= nextFileFd[rt] /\ to < k
<1>1. nextFileFd[rt] \in Nat /\ to \in Nat /\ nextFileFd[rt] >= FIRST_FILE_FD
  BY EntryFacts DEF TabOK
<1> QED
  BY <1>1 DEF isDynamicFileFdNumber, Above, FIRST_FILE_FD

LEMMA FdRenumberTab ==
    ASSUME TabInv, NEW rt \in Runtimes, NEW fd \in Fds, NEW to \in Fds, fdRenumber(rt, fd, to)
    PROVE  TabInv'
<1> DEFINE T == openFiles
           f == T[rt][fd]
           old == T[rt][to]
           U == Put(T, rt, fd, NoFile)
           W == Put(U, rt, to, f)
           k == IF isDynamicFileFdNumber(to) THEN Above(rt, to) ELSE nextFileFd[rt]
<1>1. /\ T \in AllTables /\ nextFileFd \in [Runtimes -> Nat] /\ npipes \in Nat /\ nopens \in Nat
      /\ npipes + nopens <= MaxObjects /\ Shape(T, nextFileFd, npipes, nopens, eof)
      /\ f \in Files /\ old \in Files /\ NoFile \in Files /\ nextFileFd[rt] \in Nat
      /\ pipes \in [Pipes -> PipeRecs]
  BY TabFacts, EntryFacts, FileFacts DEF TabInv, TabOK
<1>2. k \in Nat /\ k >= nextFileFd[rt] /\ to < k
  BY AboveFacts DEF TabInv
<1>3. /\ openFiles' = W /\ pipes' = Release(pipes, old) /\ Running(rt) /\ fd # to /\ f # NoFile
      /\ nextFileFd' = [nextFileFd EXCEPT ![rt] = k]
      /\ UNCHANGED <<phase, offsetRef, npipes, nopens, eof>>
  <2>1. [openFiles EXCEPT ![rt][fd] = NoFile, ![rt][to] = f] = W
    <3>1. T \in AllTables /\ NoFile \in Files /\ f \in Files
      BY <1>1
    <3> HIDE DEF f, T
    <3>2. [T EXCEPT ![rt][fd] = NoFile, ![rt][to] = f] = W
      BY <3>1, PutTwice
    <3> QED
      BY <3>2 DEF T
  <2> HIDE DEF W, k
  <2>2. nextFileFd' = [nextFileFd EXCEPT ![rt] = k]
    BY DEF fdRenumber, k
  <2> QED
    BY <2>1, <2>2 DEF fdRenumber
<1>4. /\ ~isOpenPipe(NoFile) /\ ~IsOpened(NoFile) /\ nextFileFd[rt] >= nextFileFd[rt]
      /\ npipes >= npipes /\ nopens >= nopens /\ \A p, d : NoFile # PipeEnd(p, d)
  BY <1>1, FileFacts DEF NoFile, PipeEnd
<1>5. Shape(U, [nextFileFd EXCEPT ![rt] = nextFileFd[rt]], npipes, nopens, eof)
  <2> HIDE DEF T
  <2> QED
    BY <1>1, <1>4, PutShape
<1>6. Shape(U, nextFileFd, npipes, nopens, eof) /\ U \in AllTables
  BY <1>1, <1>5, SameNext DEF Shape
<1>7. /\ U[rt][fd] = NoFile /\ U[rt][to] = old
      /\ \A r \in Runtimes, h \in Fds : r # rt \/ h # fd => U[r][h] = T[r][h]
  BY <1>1, <1>3 DEF Put, AllTables, Tables
<1>8. /\ isOpenPipe(f) => f.pipe <= npipes
      /\ IsOpened(f) => f.open <= nopens
      /\ \A p \in eof : f # PipeEnd(p, "write")
  BY <1>1, EntryFacts
<1>9. \A r \in Runtimes, h \in Fds :
          IsOpened(f) /\ (r # rt \/ h # to) /\ IsOpened(U[r][h]) /\ U[r][h].open = f.open
              => U[r][h].shared /\ f.shared
  <2> SUFFICES ASSUME NEW r \in Runtimes, NEW h \in Fds, IsOpened(f), r # rt \/ h # to,
                      IsOpened(U[r][h]), U[r][h].open = f.open
               PROVE  U[r][h].shared /\ f.shared
    OBVIOUS
  <2>1. r # rt \/ h # fd
    BY <1>4, <1>7
  <2>2. U[r][h] = T[r][h]
    BY <1>7, <2>1
  <2>3. Separate(T)
    BY <1>1 DEF Shape
  <2> HIDE DEF U
  <2> QED
    BY <2>1, <2>2, <2>3 DEF Separate
<1>10. ASSUME NEW p \in Pipes, NEW d \in Directions
       PROVE  Total(T, p, d) = Total(W, p, d) + One(old = PipeEnd(p, d))
  <2> DEFINE e == PipeEnd(p, d)
  <2>1. /\ One(NoFile = e) = 0 /\ One(f = e) \in {0, 1} /\ One(old = e) \in {0, 1}
    BY <1>4 DEF One
  <2>2. Total(T, p, d) \in Nat
        /\ Total(U, p, d) = Total(T, p, d) - One(f = e) + One(NoFile = e)
    BY <1>1, TotalPut
  <2> HIDE DEF U, e
  <2>3. Total(W, p, d) = Total(U, p, d) - One(U[rt][to] = e) + One(f = e)
    BY <1>1, <1>6, TotalPut DEF e
  <2>4. Total(W, p, d) = Total(U, p, d) - One(old = e) + One(f = e)
    BY <1>7, <2>3
  <2> HIDE DEF W, T, f, old
  <2>5. Total(T, p, d) = Total(W, p, d) + One(old = e)
    BY <2>1, <2>2, <2>4
  <2> QED
    BY <2>5 DEF e
<1>11. Shape(W, [nextFileFd EXCEPT ![rt] = k], npipes, nopens, eof)
  <2> HIDE DEF T, U, f, k
  <2> QED
    BY <1>1, <1>2, <1>4, <1>6, <1>8, <1>9, PutShape
<1>12. rt = "root" => W["copy"] = T["copy"]
  BY <1>1, <1>6, PutCopy
<1> HIDE DEF U, W, k, old
<1>13. /\ Balanced(W, Release(pipes, old)) /\ Release(pipes, old) \in [Pipes -> PipeRecs]
       /\ \A p \in Pipes : Release(pipes, old)[p].bytes = pipes[p].bytes
  <2>1. Balanced(T, pipes)
    BY DEF TabInv, TabOK
  <2> HIDE DEF T
  <2> QED
    BY <1>1, <1>10, <2>1, ReleaseBalance
<1>14. eof \subseteq Pipes
  BY <1>1, NatBounds DEF Shape, Pipes
<1>15. TabOK'
  BY <1>1, <1>3, <1>11, <1>13, <1>14 DEF TabOK, TabInv, Drained
<1>16. CopyInv'
  BY <1>3, <1>12, GuestCopy DEF TabInv
<1> QED
  BY <1>15, <1>16 DEF TabInv

\* The file that a duplicate of fd is, and the openings it leaves.
LEMMA DuplicateFile ==
    ASSUME TabOK, NEW rt \in Runtimes, NEW fd \in Fds, fdStat(rt, fd),
           NEW no \in Nat, no = IF openFiles[rt][fd] = NoFile THEN nopens + 1 ELSE nopens,
           npipes + no <= MaxObjects
    PROVE  LET f == DuplicateOf(rt, fd)
           IN  /\ f \in Files
               /\ isOpenPipe(f) => f.pipe <= npipes
               /\ IsOpened(f) => f.open <= no
               /\ openFiles[rt][fd] # NoFile => f = Share(openFiles[rt][fd])
               /\ openFiles[rt][fd] = NoFile => ~isOpenPipe(f)
               /\ openFiles[rt][fd] = NoFile /\ IsOpened(f) => f.open = nopens + 1
               /\ \A p \in eof : f # PipeEnd(p, "write")
<1> DEFINE f == DuplicateOf(rt, fd)
           g == openFiles[rt][fd]
<1>1. /\ npipes \in Nat /\ nopens \in Nat /\ Shape(openFiles, nextFileFd, npipes, nopens, eof)
      /\ g \in Files /\ 0 \in Offsets
  BY TabFacts, EntryFacts, NatBounds DEF TabOK, Offsets
<1>2. CASE g # NoFile
  <2>1. f = Share(g) /\ no = nopens
    BY <1>2 DEF DuplicateOf
  <2>2. /\ Share(g) \in Files
        /\ IsOpened(Share(g)) <=> IsOpened(g)
        /\ IsOpened(g) => Share(g).open = g.open
        /\ ~IsOpened(g) => Share(g) = g
    BY <1>1, ShareFacts
  <2>3. /\ isOpenPipe(g) => g.pipe <= npipes
        /\ IsOpened(g) => g.open <= nopens
        /\ \A p \in eof : g # PipeEnd(p, "write")
    BY <1>1, EntryFacts
  <2> HIDE DEF f, g
  <2>4. isOpenPipe(Share(g)) => Share(g) = g
    BY <2>2, OpenedFile
  <2>5. \A p : ~IsOpened(PipeEnd(p, "write"))
    BY DEF PipeEnd, IsOpened
  <2>6. \A p \in eof : Share(g) # PipeEnd(p, "write")
    BY <2>2, <2>3, <2>5, Zenon
  <2> QED
    BY <1>2, <2>1, <2>2, <2>3, <2>4, <2>6 DEF f, g
<1>3. CASE g = NoFile
  <2>1. no = nopens + 1 /\ nopens + 1 \in Opens /\ fd \in Preopens
    BY <1>1, <1>3, NatBounds DEF Opens, fdStat
  <2>2. CASE fd \in StdioFds
    <3>1. f = Stdio(fd)
      <4>1. fd # WORKSPACE_FD
        BY <2>2 DEF StdioFds, WORKSPACE_FD
      <4> QED
        BY <1>3, <2>2, <4>1 DEF DuplicateOf
    <3>2. Stdio(fd) \in Files /\ ~isOpenPipe(Stdio(fd)) /\ ~IsOpened(Stdio(fd))
      BY <2>2, FileFacts
    <3>3. \A p : Stdio(fd) # PipeEnd(p, "write")
      BY DEF Stdio, PipeEnd
    <3> HIDE DEF f
    <3> QED
      BY <1>3, <3>1, <3>2, <3>3 DEF f
  <2>3. CASE fd \notin StdioFds
    <3>1. PICK m \in {"workspace", "other"} : f = Opened(m, nopens + 1, 0, FALSE)
      BY <1>3, <2>3 DEF DuplicateOf
    <3>2. f \in Files /\ IsOpened(f) /\ ~isOpenPipe(f) /\ f.open = nopens + 1
      BY <1>1, <2>1, <3>1, NewFile, Zenon
    <3> HIDE DEF f
    <3>3. \A p : f # PipeEnd(p, "write")
      BY <3>2 DEF PipeEnd, IsOpened
    <3>4. f.open <= no
      BY <1>1, <2>1, <3>2
    <3> QED
      BY <1>3, <3>2, <3>3, <3>4 DEF f
  <2> QED
    BY <2>2, <2>3
<1> QED
  BY <1>2, <1>3

\* The tables with the duplicate in place.
LEMMA DuplicateShape ==
    ASSUME TabOK, NEW rt \in Runtimes, NEW fd \in Fds, NEW to \in Fds, fdStat(rt, fd), fd # to,
           NEW no \in Nat, no = IF openFiles[rt][fd] = NoFile THEN nopens + 1 ELSE nopens,
           npipes + no <= MaxObjects, NEW k \in Nat, k >= nextFileFd[rt], to < k
    PROVE  LET U == Put(openFiles, rt, fd, Share(openFiles[rt][fd]))
           IN  /\ U \in AllTables /\ U[rt][to] = openFiles[rt][to]
               /\ Shape(Put(U, rt, to, DuplicateOf(rt, fd)), [nextFileFd EXCEPT ![rt] = k],
                        npipes, no, eof)
<1> DEFINE T == openFiles
           g == T[rt][fd]
           s == Share(g)
           U == Put(T, rt, fd, s)
           f == DuplicateOf(rt, fd)
<1>1. /\ T \in AllTables /\ nextFileFd \in [Runtimes -> Nat] /\ npipes \in Nat /\ nopens \in Nat
      /\ npipes + nopens <= MaxObjects /\ Shape(T, nextFileFd, npipes, nopens, eof)
      /\ g \in Files /\ nextFileFd[rt] \in Nat /\ 0 \in Offsets /\ Separate(T)
  <2>1. Separate(T)
    BY DEF TabOK, Shape
  <2> QED
    BY <2>1, TabFacts, EntryFacts, NatBounds DEF TabOK, Offsets
<1>2. /\ s \in Files
      /\ IsOpened(s) <=> IsOpened(g)
      /\ IsOpened(g) => s.open = g.open /\ s.shared
      /\ ~IsOpened(g) => s = g
      /\ s = NoFile <=> g = NoFile
  BY <1>1, ShareFacts
<1>3. /\ isOpenPipe(g) => g.pipe <= npipes
      /\ IsOpened(g) => g.open <= nopens
      /\ \A p \in eof : g # PipeEnd(p, "write")
      /\ g # NoFile => fd < nextFileFd[rt]
  BY <1>1, EntryFacts
<1>4. /\ f \in Files
      /\ isOpenPipe(f) => f.pipe <= npipes
      /\ IsOpened(f) => f.open <= no
      /\ g # NoFile => f = s
      /\ g = NoFile /\ IsOpened(f) => f.open = nopens + 1
      /\ \A p \in eof : f # PipeEnd(p, "write")
  BY DuplicateFile
<1>5. /\ no >= nopens /\ nopens >= nopens /\ npipes >= npipes /\ nextFileFd[rt] >= nextFileFd[rt]
  BY <1>1
<1> HIDE DEF f, s
<1>6. \A r \in Runtimes, h \in Fds :
          IsOpened(s) /\ (r # rt \/ h # fd) /\ IsOpened(T[r][h]) /\ T[r][h].open = s.open
              => T[r][h].shared /\ s.shared
  <2> SUFFICES ASSUME NEW r \in Runtimes, NEW h \in Fds, IsOpened(s), r # rt \/ h # fd,
                      IsOpened(T[r][h]), T[r][h].open = s.open
               PROVE  T[r][h].shared /\ s.shared
    OBVIOUS
  <2>1. IsOpened(g) /\ s.open = g.open /\ s.shared
    BY <1>2
  <2>2. T[r][h].shared
    BY <1>1, <2>1 DEF Separate
  <2> QED
    BY <2>1, <2>2
<1>7. /\ isOpenPipe(s) => s.pipe <= npipes
      /\ IsOpened(s) => s.open <= nopens
      /\ \A p \in eof : s # PipeEnd(p, "write")
  <2>1. isOpenPipe(s) => s = g
    BY <1>1, <1>2, OpenedFile
  <2>2. \A p : ~IsOpened(PipeEnd(p, "write"))
    BY DEF PipeEnd, IsOpened
  <2>3. \A p \in eof : s # PipeEnd(p, "write")
    BY <1>2, <1>3, <2>2, Zenon
  <2> QED
    BY <1>2, <1>3, <2>1, <2>3
<1>8. Shape(U, [nextFileFd EXCEPT ![rt] = nextFileFd[rt]], npipes, nopens, eof)
  <2>1. s = NoFile \/ fd < nextFileFd[rt]
    BY <1>2, <1>3
  <2> HIDE DEF T
  <2> QED
    BY <1>1, <1>2, <1>5, <1>6, <1>7, <2>1, PutShape
<1>9. Shape(U, nextFileFd, npipes, nopens, eof) /\ U \in AllTables /\ Separate(U)
  BY <1>1, <1>8, SameNext DEF Shape
<1>10. U[rt][fd] = s /\ U[rt][to] = T[rt][to]
  BY <1>1, <1>2 DEF Put, AllTables, Tables
<1>11. \A r \in Runtimes, h \in Fds : IsOpened(U[r][h]) => U[r][h].open \in 1 .. nopens
  <2> HIDE DEF U
  <2> QED
    BY <1>9, EntryFacts
<1> HIDE DEF U
<1>12. \A r \in Runtimes, h \in Fds :
          IsOpened(f) /\ (r # rt \/ h # to) /\ IsOpened(U[r][h]) /\ U[r][h].open = f.open
              => U[r][h].shared /\ f.shared
  <2> SUFFICES ASSUME NEW r \in Runtimes, NEW h \in Fds, IsOpened(f), r # rt \/ h # to,
                      IsOpened(U[r][h]), U[r][h].open = f.open
               PROVE  U[r][h].shared /\ f.shared
    OBVIOUS
  <2>1. g # NoFile
    <3>1. U[r][h].open \in 1 .. nopens
      BY <1>11
    <3> HIDE DEF g, T
    <3> QED
      BY <1>1, <1>4, <3>1
  <2>2. f = s /\ s.shared
    BY <1>2, <1>4, <2>1
  <2>3. CASE r = rt /\ h = fd
    BY <1>10, <2>2, <2>3
  <2>4. CASE r # rt \/ h # fd
    BY <1>9, <1>10, <2>2, <2>4 DEF Separate
  <2> QED
    BY <2>2, <2>3, <2>4
<1>13. Shape(Put(U, rt, to, f), [nextFileFd EXCEPT ![rt] = k], npipes, no, eof)
  BY <1>1, <1>4, <1>5, <1>9, <1>12, PutShape
<1> QED
  BY <1>9, <1>10, <1>13 DEF U, f, s

LEMMA DuplicateTab ==
    ASSUME TabInv, NEW rt \in Runtimes, NEW fd \in Fds, NEW to \in Fds, fdStat(rt, fd), fd # to,
           Running(rt), Duplicate(rt, fd, to, openFiles[rt][to])
    PROVE  TabInv'
<1> DEFINE T == openFiles
           g == T[rt][fd]
           s == Share(g)
           U == Put(T, rt, fd, s)
           f == DuplicateOf(rt, fd)
           W == Put(U, rt, to, f)
           old == T[rt][to]
           X == Put(T, rt, to, NoFile)
           k == IF isDynamicFileFdNumber(to) THEN Above(rt, to) ELSE nextFileFd[rt]
           no == IF T[rt][fd] = NoFile THEN nopens + 1 ELSE nopens
<1>1. /\ T \in AllTables /\ nextFileFd \in [Runtimes -> Nat] /\ npipes \in Nat /\ nopens \in Nat
      /\ offsetRef \in [Opens -> Offsets] /\ eof \subseteq Pipes
      /\ g \in Files /\ old \in Files /\ NoFile \in Files /\ pipes \in [Pipes -> PipeRecs]
  <2>1. eof \subseteq Pipes
    BY NatBounds DEF TabInv, TabOK, Shape, Pipes
  <2> QED
    BY <2>1, TabFacts, EntryFacts, FileFacts DEF TabInv, TabOK
<1>2. k \in Nat /\ k >= nextFileFd[rt] /\ to < k
  BY AboveFacts DEF TabInv
<1>3. no \in Nat /\ nopens' = no /\ npipes + no <= MaxObjects
  BY <1>1 DEF Duplicate, CountOpening
<1>4. /\ U \in AllTables /\ U[rt][to] = old
      /\ Shape(W, [nextFileFd EXCEPT ![rt] = k], npipes, no, eof)
  <2> HIDE DEF k, no
  <2>1. no = IF openFiles[rt][fd] = NoFile THEN nopens + 1 ELSE nopens
    BY DEF no
  <2>2. TabOK
    BY DEF TabInv
  <2> QED
    BY <1>2, <1>3, <2>1, <2>2, DuplicateShape
<1>5. f \in Files /\ s \in Files
  <2>1. 0 \in Offsets
    BY NatBounds DEF Offsets
  <2>2. s \in Files
    BY <1>1, <2>1, ShareFacts
  <2>3. f \in Files
    <3> HIDE DEF no
    <3>1. no = IF openFiles[rt][fd] = NoFile THEN nopens + 1 ELSE nopens
      BY DEF no
    <3> QED
      BY <1>3, <3>1, DuplicateFile DEF TabInv
  <2> QED
    BY <2>2, <2>3
<1>6. nextFileFd' = [nextFileFd EXCEPT ![rt] = k]
  <2> HIDE DEF f
  <2> QED
    BY DEF Duplicate
<1> HIDE DEF f, s, k, no
<1>7. /\ openFiles' = [T EXCEPT ![rt][fd] = s, ![rt][to] = f]
      /\ pipes' = Retain(Release(pipes, old), f)
      /\ offsetRef' = CellAfterShare(offsetRef, g)
      /\ UNCHANGED <<phase, npipes, eof>>
  BY <1>1 DEF Duplicate, f, s, AllTables, Tables
<1>8. openFiles' = W
  <2> HIDE DEF T
  <2>1. [T EXCEPT ![rt][fd] = s, ![rt][to] = f] = W
    BY <1>1, <1>5, PutTwice
  <2> QED
    BY <1>7, <2>1
<1>9. offsetRef' \in [Opens -> Offsets]
  <2>1. IsOpened(g) => g.open \in Opens /\ g.offset \in Offsets
    BY <1>1, OpenedFile
  <2> QED
    BY <1>1, <1>7, <2>1 DEF CellAfterShare
<1>10. ASSUME NEW p \in Pipes, NEW d \in Directions
       PROVE  /\ Total(T, p, d) = Total(X, p, d) + One(old = PipeEnd(p, d))
              /\ Total(W, p, d) = Total(X, p, d) + One(f = PipeEnd(p, d))
  <2> DEFINE e == PipeEnd(p, d)
  <2>1. /\ One(NoFile = e) = 0 /\ One(f = e) \in {0, 1} /\ One(old = e) \in {0, 1}
        /\ One(g = e) \in {0, 1}
    BY DEF One, NoFile, PipeEnd
  <2>2. One(s = e) = One(g = e)
    BY <1>1, SharePipe DEF s, One
  <2>3. Total(T, p, d) \in Nat
        /\ Total(X, p, d) = Total(T, p, d) - One(old = e) + One(NoFile = e)
    BY <1>1, TotalPut
  <2>4. Total(U, p, d) = Total(T, p, d) - One(g = e) + One(s = e)
    BY <1>1, <1>5, TotalPut
  <2> HIDE DEF U, e
  <2>5. Total(W, p, d) = Total(U, p, d) - One(old = e) + One(f = e)
    <3>1. Total(W, p, d) = Total(U, p, d) - One(U[rt][to] = e) + One(f = e)
      BY <1>4, <1>5, TotalPut DEF e
    <3> QED
      BY <1>4, <3>1
  <2> HIDE DEF W, T, X, g, old
  <2>6. Total(T, p, d) = Total(X, p, d) + One(old = e) /\ Total(W, p, d) = Total(X, p, d) + One(f = e)
    BY <2>1, <2>2, <2>3, <2>4, <2>5
  <2> QED
    BY <2>6 DEF e
<1>11. rt = "root" => W["copy"] = T["copy"]
  BY <1>1, <1>4, <1>5, PutCopy
<1> HIDE DEF U, W, X, old
<1>12. /\ Balanced(X, Release(pipes, old)) /\ Release(pipes, old) \in [Pipes -> PipeRecs]
       /\ \A p \in Pipes : Release(pipes, old)[p].bytes = pipes[p].bytes
  <2>1. Balanced(T, pipes)
    BY DEF TabInv, TabOK
  <2>2. \A p \in Pipes, d \in Directions :
            Total(T, p, d) = Total(X, p, d) + One(old = PipeEnd(p, d))
    BY <1>10
  <2> HIDE DEF T
  <2> QED
    BY <1>1, <2>1, <2>2, ReleaseBalance
<1>13. /\ Balanced(W, pipes') /\ pipes' \in [Pipes -> PipeRecs]
       /\ \A p \in Pipes : pipes'[p].bytes = pipes[p].bytes
  <2> DEFINE ps == Release(pipes, old)
  <2> HIDE DEF ps
  <2>1. /\ Balanced(X, ps) /\ ps \in [Pipes -> PipeRecs] /\ pipes' = Retain(ps, f)
        /\ \A p \in Pipes : ps[p].bytes = pipes[p].bytes
    BY <1>7, <1>12 DEF ps
  <2>2. \A p \in Pipes, d \in Directions :
            Total(W, p, d) = Total(X, p, d) + One(f = PipeEnd(p, d))
    BY <1>10
  <2>3. /\ Balanced(W, Retain(ps, f)) /\ Retain(ps, f) \in [Pipes -> PipeRecs]
        /\ \A p \in Pipes : Retain(ps, f)[p].bytes = ps[p].bytes
    BY <1>5, <2>1, <2>2, RetainBalance
  <2> QED
    BY <2>1, <2>3
<1>14. TabOK'
  <2>1. Drained(pipes', eof)
    BY <1>1, <1>13 DEF TabInv, TabOK, Drained
  <2> QED
    BY <1>3, <1>4, <1>6, <1>7, <1>8, <1>9, <1>13, <2>1 DEF TabOK
<1>15. CopyInv'
  BY <1>7, <1>8, <1>11, GuestCopy DEF TabInv
<1> QED
  BY <1>14, <1>15 DEF TabInv

LEMMA FreeFacts ==
    ASSUME TabOK, NEW rt \in Runtimes, NEW min \in Nat, FreeFds(rt, min) # {}
    PROVE  LET m == Min(FreeFds(rt, min))
           IN  m \in Fds /\ m >= min /\ ~fdStat(rt, m)
<1>1. FreeFds(rt, min) \in SUBSET Nat
  BY NatBounds DEF FreeFds, Fds
<1>2. Min(FreeFds(rt, min)) \in FreeFds(rt, min)
  BY <1>1, MinFacts
<1> QED
  BY <1>2 DEF FreeFds

LEMMA FdDupTab ==
    ASSUME TabInv, NEW rt \in Runtimes, NEW fd \in Fds, fdDup(rt, fd)
    PROVE  TabInv'
<1> DEFINE to == Min(FreeFds(rt, FIRST_FILE_FD))
<1>1. to \in Fds /\ ~fdStat(rt, to)
  <2>1. FIRST_FILE_FD \in Nat
    BY DEF FIRST_FILE_FD
  <2> QED
    BY <2>1, FreeFacts DEF TabInv, fdDup
<1>2. Running(rt) /\ fdStat(rt, fd) /\ Duplicate(rt, fd, to, NoFile)
  BY DEF fdDup
<1> HIDE DEF to
<1>3. fd # to /\ openFiles[rt][to] = NoFile
  BY <1>1, <1>2 DEF fdStat
<1> QED
  BY <1>1, <1>2, <1>3, DuplicateTab

LEMMA FdDup2Tab ==
    ASSUME TabInv, NEW rt \in Runtimes, NEW fd \in Fds, NEW to \in Fds, fdDup2(rt, fd, to)
    PROVE  TabInv'
BY DuplicateTab DEF fdDup2

LEMMA FdPipeTab ==
    ASSUME TabInv, NEW rt \in Runtimes, fdPipe(rt)
    PROVE  TabInv'
<1> DEFINE T == openFiles
           S == FreeFds(rt, FIRST_FILE_FD)
           r == Min(S)
           w == Min(FreeFds(rt, r + 1))
           q == npipes + 1
           a == PipeEnd(q, "read")
           b == PipeEnd(q, "write")
           U == Put(T, rt, r, a)
           W == Put(U, rt, w, b)
           k == Above(rt, w)
<1>1. /\ T \in AllTables /\ nextFileFd \in [Runtimes -> Nat] /\ npipes \in Nat /\ nopens \in Nat
      /\ npipes + nopens < MaxObjects /\ Shape(T, nextFileFd, npipes, nopens, eof)
      /\ nextFileFd[rt] \in Nat /\ nextFileFd[rt] >= FIRST_FILE_FD
      /\ pipes \in [Pipes -> PipeRecs] /\ TabOK
  <2>1. "root" \in Runtimes /\ 0 \in Fds
    BY NatBounds DEF Runtimes, Fds
  <2>2. TabOK /\ Shape(T, nextFileFd, npipes, nopens, eof)
    BY DEF TabInv, TabOK
  <2>3. nextFileFd[rt] \in Nat /\ nextFileFd[rt] >= FIRST_FILE_FD
    BY <2>1, <2>2, EntryFacts
  <2> QED
    BY <2>2, <2>3, TabFacts DEF fdPipe
<1>2. S \in SUBSET Fds /\ S \in SUBSET Nat /\ IsFiniteSet(S) /\ Cardinality(S) \in Nat
      /\ Cardinality(S) >= 2
  <2>1. S \in SUBSET Fds /\ S \in SUBSET Nat
    BY NatBounds DEF FreeFds, Fds
  <2>2. IsFiniteSet(S)
    BY <2>1, FdsFinite, FS_Subset
  <2> QED
    BY <2>1, <2>2, FS_CardinalityType DEF fdPipe
<1>3. S # {}
  <2>1. Cardinality({}) = 0
    BY FS_EmptySet
  <2> QED
    BY <1>2, <2>1
<1>4. r \in S /\ r \in Nat /\ r \in Fds /\ ~fdStat(rt, r) /\ \A s \in S : r <= s
  <2>1. r \in S /\ \A s \in S : r <= s
    BY <1>2, <1>3, MinFacts
  <2> QED
    BY <1>2, <2>1 DEF FreeFds
<1>5. FreeFds(rt, r + 1) # {}
  <2>1. IsFiniteSet(S \ {r}) /\ Cardinality(S \ {r}) = Cardinality(S) - 1
    BY <1>2, <1>4, FS_RemoveElement
  <2>2. Cardinality({}) = 0
    BY FS_EmptySet
  <2>3. S \ {r} # {}
    <3> HIDE DEF S, r
    <3> QED
      BY <1>2, <2>1, <2>2
  <2>4. PICK s \in S : s # r
    BY <2>3
  <2>5. s >= r + 1
    <3> HIDE DEF S, r
    <3> QED
      BY <1>2, <1>4, <2>4
  <2> QED
    BY <2>5, <2>4 DEF FreeFds
<1>6. w \in Fds /\ w \in Nat /\ w >= r + 1 /\ ~fdStat(rt, w)
  <2>1. r + 1 \in Nat
    BY <1>4
  <2>2. w \in Fds /\ w >= r + 1 /\ ~fdStat(rt, w)
    <3> DEFINE n == r + 1
    <3> HIDE DEF n
    <3>1. n \in Nat /\ FreeFds(rt, n) # {} /\ w = Min(FreeFds(rt, n))
      BY <1>5, <2>1 DEF n
    <3>2. w \in Fds /\ w >= n /\ ~fdStat(rt, w)
      BY <1>1, <3>1, FreeFacts
    <3> QED
      BY <3>2 DEF n
  <2> QED
    BY <2>2, NatBounds DEF Fds
<1>7. pipes' = [pipes EXCEPT ![q] = [bytes |-> 0, readers |-> 1, writers |-> 1]]
      /\ npipes' = q /\ nextFileFd' = [nextFileFd EXCEPT ![rt] = k] /\ Running(rt)
      /\ openFiles' = [openFiles EXCEPT ![rt][r] = a, ![rt][w] = b]
      /\ UNCHANGED <<phase, offsetRef, nopens, eof>>
  BY DEF fdPipe
<1>8. q \in Pipes /\ q \in Nat /\ q >= npipes /\ q + nopens <= MaxObjects /\ nopens >= nopens /\ q >= q
  BY <1>1, NatBounds DEF Pipes
<1>9. T[rt][r] = NoFile /\ T[rt][w] = NoFile
  BY <1>4, <1>6 DEF fdStat
<1> HIDE DEF r, w, S
<1>10. r # w
  BY <1>4, <1>6
<1>11. k \in Nat /\ k >= nextFileFd[rt] /\ r < k /\ w < k /\ k >= k
  BY <1>1, <1>4, <1>6 DEF Above
<1>12. /\ a \in Files /\ b \in Files /\ isOpenPipe(a) /\ isOpenPipe(b) /\ ~IsOpened(a) /\ ~IsOpened(b)
       /\ a.pipe = q /\ b.pipe = q /\ NoFile \in Files
       /\ \A p \in Pipes, d \in Directions : a = PipeEnd(p, d) <=> p = q /\ d = "read"
       /\ \A p \in Pipes, d \in Directions : b = PipeEnd(p, d) <=> p = q /\ d = "write"
  <2>1. "read" \in Directions /\ "write" \in Directions
    BY DEF Directions
  <2> HIDE DEF q
  <2> QED
    BY <1>8, <2>1, FileFacts
<1>13. \A p \in eof : a # PipeEnd(p, "write") /\ b # PipeEnd(p, "write")
  <2>1. eof \subseteq 1 .. npipes
    BY <1>1 DEF Shape
  <2>2. \A p \in eof : p # q
    BY <1>1, <2>1
  <2> QED
    BY <2>2 DEF PipeEnd
<1>14. Shape(U, [nextFileFd EXCEPT ![rt] = k], q, nopens, eof)
  <2> HIDE DEF T, k, q, a
  <2>1. a.pipe <= q
    BY <1>8, <1>12
  <2> QED
    BY <1>1, <1>4, <1>8, <1>11, <1>12, <1>13, <2>1, PutShape
<1>15. Shape(W, [nextFileFd EXCEPT ![rt] = k], q, nopens, eof) /\ U \in AllTables
  <2> DEFINE nx == [nextFileFd EXCEPT ![rt] = k]
  <2>1. nx[rt] = k /\ nx \in [Runtimes -> Nat] /\ [nx EXCEPT ![rt] = k] = nx
    BY <1>1, <1>11
  <2> HIDE DEF T, k, q, b, U, nx
  <2>2. b.pipe <= q /\ k >= nx[rt] /\ Shape(U, nx, q, nopens, eof)
    BY <1>8, <1>11, <1>12, <1>14, <2>1 DEF nx
  <2>3. Shape(W, [nx EXCEPT ![rt] = k], q, nopens, eof)
    BY <1>1, <1>6, <1>8, <1>11, <1>12, <1>13, <2>2, PutShape
  <2> QED
    BY <2>1, <2>2, <2>3 DEF Shape, nx
<1>16. openFiles' = W
  <2> HIDE DEF T, a, b
  <2>1. [T EXCEPT ![rt][r] = a, ![rt][w] = b] = W
    BY <1>1, <1>4, <1>6, <1>12, PutTwice
  <2> QED
    BY <1>7, <2>1 DEF T
<1>17. U[rt][w] = NoFile
  BY <1>1, <1>4, <1>6, <1>9, <1>10, <1>12 DEF Put, AllTables, Tables
<1>18. ASSUME NEW p \in Pipes, NEW d \in Directions
       PROVE  Total(W, p, d) = IF p = q THEN 1 ELSE Total(T, p, d)
  <2> DEFINE e == PipeEnd(p, d)
  <2>1. One(NoFile = e) = 0
    BY DEF One, NoFile, PipeEnd
  <2>2. Total(T, p, d) \in Nat /\ Total(U, p, d) = Total(T, p, d) - One(NoFile = e) + One(a = e)
    BY <1>1, <1>4, <1>9, <1>12, TotalPut
  <2> HIDE DEF U, a, b
  <2>3. Total(W, p, d) = Total(U, p, d) - One(NoFile = e) + One(b = e)
    BY <1>6, <1>12, <1>15, <1>17, TotalPut
  <2>4. p = q => Total(T, p, d) = 0
    <3>1. ASSUME p = q PROVE \A rr \in Runtimes, fd \in Fds : T[rr][fd] # PipeEnd(p, d)
      <4> SUFFICES ASSUME NEW rr \in Runtimes, NEW fd \in Fds, T[rr][fd] = PipeEnd(p, d)
                   PROVE  FALSE
        OBVIOUS
      <4>1. isOpenPipe(PipeEnd(p, d)) /\ PipeEnd(p, d).pipe = q
        BY <3>1, FileFacts
      <4>2. T[rr][fd].pipe \in 1 .. npipes
        BY <1>1, <4>1, EntryFacts
      <4> QED
        BY <1>1, <4>1, <4>2
    <3> QED
      BY <3>1, TotalZero
  <2>5. One(a = e) = (IF p = q /\ d = "read" THEN 1 ELSE 0)
        /\ One(b = e) = (IF p = q /\ d = "write" THEN 1 ELSE 0)
    <3> HIDE DEF q
    <3> QED
      BY <1>12 DEF One
  <2> HIDE DEF T, q, e, W
  <2> QED
    BY <2>1, <2>2, <2>3, <2>4, <2>5 DEF Directions
<1> HIDE DEF W, U, a, b, k
<1>19. pipes' \in [Pipes -> PipeRecs] /\ Balanced(W, pipes')
  <2> DEFINE new == [bytes |-> 0, readers |-> 1, writers |-> 1]
  <2>1. new \in PipeRecs /\ new.readers = 1 /\ new.writers = 1
    BY NatBounds DEF PipeRecs
  <2> HIDE DEF new, q
  <2>2. pipes' = [pipes EXCEPT ![q] = new]
    BY <1>7 DEF new
  <2>3. pipes' \in [Pipes -> PipeRecs] /\ pipes'[q] = new /\ \A p \in Pipes : p # q => pipes'[p] = pipes[p]
    BY <1>1, <1>8, <2>1, <2>2
  <2>4. Balanced(T, pipes) /\ "read" \in Directions /\ "write" \in Directions
    BY DEF TabInv, TabOK, Directions
  <2> QED
    BY <1>18, <2>1, <2>3, <2>4 DEF Balanced
<1>20. Drained(pipes', eof)
  <2>1. eof \subseteq Pipes /\ \A p \in eof : p # q
    BY <1>1, NatBounds DEF Shape, Pipes
  <2> HIDE DEF q
  <2> QED
    BY <1>1, <1>7, <1>19, <2>1 DEF TabOK, Drained
<1>21. TabOK'
  BY <1>1, <1>7, <1>15, <1>16, <1>19, <1>20 DEF TabOK
<1>22. CopyInv'
  <2>1. rt = "root" => W["copy"] = T["copy"]
    BY <1>1, <1>4, <1>6, <1>12, <1>15, PutCopy DEF W, U
  <2> QED
    BY <1>7, <1>16, <2>1, GuestCopy DEF TabInv
<1> QED
  BY <1>21, <1>22 DEF TabInv

\* Data moves through a pipe.
LEMMA BytesTab ==
    ASSUME TabOK, NEW q \in Pipes, NEW n \in 0 .. PipeLimit, q \in eof => n = 0,
           pipes' = [pipes EXCEPT ![q].bytes = n],
           UNCHANGED <<openFiles, nextFileFd, offsetRef, npipes, nopens, eof>>
    PROVE  TabOK'
<1>1. pipes \in [Pipes -> PipeRecs] /\ eof \subseteq Pipes
  BY NatBounds DEF TabOK, Drained, Shape, Pipes
<1>2. /\ pipes' \in [Pipes -> PipeRecs] /\ pipes'[q].bytes = n
      /\ \A p \in Pipes : pipes'[p].readers = pipes[p].readers /\ pipes'[p].writers = pipes[p].writers
      /\ \A p \in Pipes : p # q => pipes'[p].bytes = pipes[p].bytes
  BY <1>1 DEF PipeRecs
<1>3. Drained(pipes', eof')
  BY <1>1, <1>2 DEF TabOK, Drained
<1>4. Balanced(openFiles', pipes')
  BY <1>2 DEF TabOK, Balanced
<1> QED
  BY <1>3, <1>4 DEF TabOK

\* A descriptor's pipe.
LEMMA HeldPipe ==
    ASSUME TabOK, NEW rt \in Runtimes, NEW fd \in Fds, isOpenPipe(openFiles[rt][fd])
    PROVE  LET f == openFiles[rt][fd]
           IN  /\ f.pipe \in Pipes /\ f.pipe \in 1 .. npipes
               /\ pipes[f.pipe].bytes \in 0 .. PipeLimit
               /\ f.direction = "write" => f.pipe \notin eof
<1> DEFINE f == openFiles[rt][fd]
<1>1. f \in Files /\ f.pipe \in 1 .. npipes /\ \A p \in eof : f # PipeEnd(p, "write")
  BY EntryFacts DEF TabOK
<1>2. f.pipe \in Pipes /\ f = PipeEnd(f.pipe, f.direction)
  BY <1>1, PipeFile
<1>3. f.direction = "write" => f.pipe \notin eof
  BY <1>1, <1>2
<1>4. pipes[f.pipe].bytes \in 0 .. PipeLimit
  BY <1>2 DEF TabOK, Drained, PipeRecs
<1> QED
  BY <1>1, <1>2, <1>3, <1>4

LEMMA FdWritePipeTab ==
    ASSUME TabInv, NEW rt \in Runtimes, NEW fd \in Fds, NEW n \in 1 .. PipeLimit,
           fdWritePipe(rt, fd, n)
    PROVE  TabInv'
<1> DEFINE f == openFiles[rt][fd]
           m == pipes[f.pipe].bytes + n
<1>1. /\ f.pipe \in Pipes /\ pipes[f.pipe].bytes \in 0 .. PipeLimit /\ f.pipe \notin eof
      /\ TabOK /\ CopyInv
  BY HeldPipe DEF TabInv, fdWritePipe
<1>2. m \in 0 .. PipeLimit
  BY <1>1, NatBounds DEF fdWritePipe
<1>3. pipes' = [pipes EXCEPT ![f.pipe].bytes = m] /\ Running(rt)
      /\ UNCHANGED <<openFiles, nextFileFd, offsetRef, npipes, nopens, eof, phase>>
  BY <1>1 DEF fdWritePipe
<1> HIDE DEF f, m
<1>4. TabOK'
  BY <1>1, <1>2, <1>3, BytesTab
<1> QED
  BY <1>1, <1>3, <1>4, GuestCopy DEF TabInv

LEMMA FdReadPipeTab ==
    ASSUME TabInv, NEW rt \in Runtimes, NEW fd \in Fds, NEW n \in 1 .. PipeLimit,
           fdReadPipe(rt, fd, n)
    PROVE  TabInv'
<1> DEFINE f == openFiles[rt][fd]
           q == f.pipe
           m == Decrease(pipes[q].bytes, n)
<1>1. /\ q \in Pipes /\ q \in 1 .. npipes /\ pipes[q].bytes \in 0 .. PipeLimit /\ TabOK /\ CopyInv
  BY HeldPipe DEF TabInv, fdReadPipe
<1>2. m \in 0 .. PipeLimit
  BY <1>1, NatBounds DEF Decrease
<1>3. UNCHANGED <<openFiles, nextFileFd, offsetRef, npipes, nopens, phase>> /\ Running(rt)
  BY DEF fdReadPipe
<1>4. CopyInv'
  BY <1>1, <1>3, GuestCopy
<1>5. CASE /\ pipes[q].bytes > 0 /\ pipes' = [pipes EXCEPT ![q].bytes = Decrease(@, n)]
           /\ UNCHANGED eof
  <2>1. pipes' = [pipes EXCEPT ![q].bytes = m]
    BY <1>5
  <2>2. q \notin eof
    BY <1>1, <1>5 DEF TabOK, Drained
  <2> HIDE DEF q, m
  <2> QED
    BY <1>1, <1>2, <1>3, <1>4, <1>5, <2>1, <2>2, BytesTab DEF TabInv
<1>6. CASE /\ pipes[q].bytes = 0 /\ pipes[q].writers = 0
           /\ eof' = eof \cup {q} /\ UNCHANGED pipes
  <2> HIDE DEF q
  <2>1. Total(openFiles, q, "write") = 0
    BY <1>1, <1>6 DEF TabOK, Balanced
  <2>2. \A r \in Runtimes, h \in Fds : openFiles[r][h] # PipeEnd(q, "write")
    BY <2>1, TotalZero
  <2>3. NoWriters(openFiles, eof') /\ eof' \subseteq 1 .. npipes
    BY <1>1, <1>6, <2>2 DEF TabOK, Shape, NoWriters
  <2>4. Shape(openFiles, nextFileFd, npipes, nopens, eof')
    BY <1>1, <2>3 DEF TabOK, Shape
  <2>5. Drained(pipes, eof')
    BY <1>1, <1>6 DEF TabOK, Drained
  <2> QED
    BY <1>1, <1>3, <1>4, <1>6, <2>4, <2>5 DEF TabInv, TabOK
<1> QED
  BY <1>5, <1>6 DEF fdReadPipe

-----------------------------------------------------------------------------
(* Forks and ends *)

\* The tables when nothing is open.
Nothing == [rt \in Runtimes |-> EmptyTable]
NoPipes == [p \in Pipes |-> [bytes |-> 0, readers |-> 0, writers |-> 0]]

LEMMA NothingOpen ==
    ASSUME NEW nx \in [Runtimes -> Nat], NEW np \in Nat, np <= MaxObjects,
           \A rt \in Runtimes : nx[rt] >= FirstFreeFd
    PROVE  Shape(Nothing, nx, np, 0, {}) /\ Drained(NoPipes, {}) /\ Balanced(Nothing, NoPipes)
<1>1. Nothing \in AllTables /\ \A rt \in Runtimes, fd \in Fds : Nothing[rt][fd] = NoFile
  BY FileFacts DEF Nothing, EmptyTable, AllTables, Tables
<1>2. Known(Nothing, np, 0) /\ Separate(Nothing) /\ NoWriters(Nothing, {})
  BY <1>1, FileFacts DEF Known, Separate, NoWriters
<1>3. Fresh(Nothing, nx)
  <2> SUFFICES ASSUME NEW rt \in Runtimes
               PROVE  /\ nx[rt] >= FIRST_FILE_FD
                      /\ \A fd \in Fds : fd >= nx[rt] => fd \notin Preopens
    BY <1>1 DEF Fresh
  <2>1. nx[rt] \in Nat /\ nx[rt] >= FirstFreeFd /\ (FirstFreeFd = 5 \/ FirstFreeFd = 6)
        /\ (PackageRoot => FirstFreeFd = 6)
    BY DEF FirstFreeFd, FIRST_FILE_FD
  <2>2. nx[rt] >= FIRST_FILE_FD
    BY <2>1 DEF FIRST_FILE_FD
  <2>3. ASSUME NEW fd \in Fds, fd >= nx[rt] PROVE fd \notin Preopens
    <3>1. fd \in Nat /\ fd >= 5 /\ (PackageRoot => fd >= 6)
      BY <2>1, <2>3, NatBounds DEF Fds
    <3>2. fd \notin StdioFds /\ fd # WORKSPACE_FD /\ fd # TMP_FD /\ (PackageRoot => fd # FIRST_FILE_FD)
      BY <3>1 DEF StdioFds, WORKSPACE_FD, TMP_FD, FIRST_FILE_FD
    <3> QED
      BY <3>2 DEF Preopens
  <2> QED
    BY <2>2, <2>3
<1>4. Shape(Nothing, nx, np, 0, {})
  BY <1>1, <1>2, <1>3, NatBounds DEF Shape
<1>5. NoPipes \in [Pipes -> PipeRecs] /\ \A p \in Pipes : NoPipes[p].readers = 0 /\ NoPipes[p].writers = 0
  BY NatBounds DEF NoPipes, PipeRecs
<1>6. \A p \in Pipes, d \in Directions : Total(Nothing, p, d) = 0
  <2>1. \A p, d : NoFile # PipeEnd(p, d)
    BY DEF NoFile, PipeEnd
  <2> QED
    BY <1>1, <2>1, TotalZero
<1> QED
  BY <1>4, <1>5, <1>6 DEF Drained, Balanced, Directions

LEMMA DropTab == ASSUME DropTables PROVE TabOK' /\ openFiles'["copy"] = EmptyTable
<1> DEFINE nx == [rt \in Runtimes |-> MaxFd + 1]
<1>1. nx \in [Runtimes -> Nat] /\ \A rt \in Runtimes : nx[rt] >= FirstFreeFd
  BY NatBounds DEF FirstFreeFd, FIRST_FILE_FD
<1>2. MaxObjects \in Nat /\ MaxObjects <= MaxObjects
  BY NatBounds
<1>3. /\ openFiles' = Nothing /\ nextFileFd' = nx /\ pipes' = NoPipes /\ npipes' = MaxObjects
      /\ nopens' = 0 /\ eof' = {} /\ offsetRef' = [o \in Opens |-> 0]
  BY DEF DropTables, Nothing, NoPipes
<1> HIDE DEF nx
<1>4. Shape(Nothing, nx, MaxObjects, 0, {}) /\ Drained(NoPipes, {}) /\ Balanced(Nothing, NoPipes)
  BY <1>1, <1>2, NothingOpen
<1>5. offsetRef' \in [Opens -> Offsets]
  BY <1>3, NatBounds DEF Offsets
<1> QED
  BY <1>3, <1>4, <1>5 DEF TabOK, Nothing, Runtimes

LEMMA FailRunTab == ASSUME FailRun PROVE TabInv'
BY DropTab DEF FailRun, TabInv, CopyInv

\* Both tables after proc_fork(copy_memory=true).
LEMMA CopyForkTab == ASSUME ProcInv, TabInv, copyFork PROVE TabInv'
<1> DEFINE T == openFiles
           R == T["root"]
           half == [fd \in Fds |-> Share(R[fd])]
           U == [rt \in Runtimes |-> half]
           nx == [nextFileFd EXCEPT !["copy"] = nextFileFd["root"]]
<1>1. /\ T \in AllTables /\ nextFileFd \in [Runtimes -> Nat] /\ npipes \in Nat /\ nopens \in Nat
      /\ npipes + nopens <= MaxObjects /\ Shape(T, nextFileFd, npipes, nopens, eof)
      /\ pipes \in [Pipes -> PipeRecs] /\ TabOK /\ offsetRef \in [Opens -> Offsets]
      /\ "root" \in Runtimes /\ "copy" \in Runtimes
  BY TabFacts DEF TabInv, TabOK, Runtimes
<1>2. /\ openFiles' = U /\ nextFileFd' = nx /\ pipes' = ForkedPipes
      /\ phase'  = [phase EXCEPT !["copy"] = "guest"] /\ phase["copy"] = "absent"
      /\ UNCHANGED <<npipes, nopens, eof>>
  BY DEF copyFork, Running
<1>3. T["copy"] = EmptyTable
  BY <1>2 DEF TabInv, CopyInv
<1>4. 0 \in Offsets
  BY NatBounds DEF Offsets
<1>5. ASSUME NEW fd \in Fds
      PROVE  /\ R[fd] \in Files /\ Share(R[fd]) \in Files
             /\ IsOpened(Share(R[fd])) <=> IsOpened(R[fd])
             /\ IsOpened(R[fd]) => Share(R[fd]).open = R[fd].open /\ Share(R[fd]).shared
             /\ ~IsOpened(R[fd]) => Share(R[fd]) = R[fd]
             /\ Share(R[fd]) = NoFile <=> R[fd] = NoFile
             /\ isOpenPipe(R[fd]) => R[fd].pipe <= npipes
             /\ IsOpened(R[fd]) => R[fd].open <= nopens
  <2>1. /\ R[fd] \in Files
        /\ isOpenPipe(R[fd]) => R[fd].pipe <= npipes
        /\ IsOpened(R[fd]) => R[fd].open <= nopens
    BY <1>1, EntryFacts
  <2> HIDE DEF R
  <2> QED
    BY <1>4, <2>1, ShareFacts
<1>6. U \in AllTables /\ \A rt \in Runtimes, fd \in Fds : U[rt][fd] = Share(R[fd])
  BY <1>5 DEF AllTables, Tables
<1>7. Known(U, npipes, nopens)
  <2> SUFFICES ASSUME NEW rt \in Runtimes, NEW fd \in Fds
               PROVE  /\ isOpenPipe(Share(R[fd])) => Share(R[fd]).pipe <= npipes
                      /\ IsOpened(Share(R[fd])) => Share(R[fd]).open <= nopens
    BY <1>6 DEF Known
  <2>1. isOpenPipe(Share(R[fd])) => ~IsOpened(Share(R[fd]))
    BY <1>5, PipeFile
  <2> HIDE DEF R
  <2> QED
    BY <1>5, <2>1
<1>8. Fresh(U, nx)
  <2> SUFFICES ASSUME NEW rt \in Runtimes
               PROVE  /\ nx[rt] >= FIRST_FILE_FD
                      /\ \A fd \in Fds : fd >= nx[rt] => U[rt][fd] = NoFile /\ fd \notin Preopens
    BY DEF Fresh
  <2>1. nx[rt] = nextFileFd["root"]
    BY <1>1 DEF Runtimes
  <2>2. /\ nextFileFd["root"] >= FIRST_FILE_FD
        /\ \A fd \in Fds : fd >= nextFileFd["root"] => R[fd] = NoFile /\ fd \notin Preopens
    BY <1>1 DEF Shape, Fresh
  <2> HIDE DEF nx, U, R
  <2> QED
    BY <1>5, <1>6, <2>1, <2>2
<1>9. Separate(U)
  <2> HIDE DEF U, R
  <2> QED
    BY <1>5, <1>6 DEF Separate
<1>10. ASSUME NEW p \in Pipes, NEW d \in Directions, NEW fd \in Fds
       PROVE  half[fd] = PipeEnd(p, d) <=> R[fd] = PipeEnd(p, d)
  BY <1>5, SharePipe
<1>11. eof \subseteq Pipes /\ eof \subseteq 1 .. npipes /\ NoWriters(T, eof)
  BY <1>1, NatBounds DEF Shape, Pipes
<1>12. NoWriters(U, eof)
  <2> SUFFICES ASSUME NEW p \in eof, NEW rt \in Runtimes, NEW fd \in Fds
               PROVE  U[rt][fd] # PipeEnd(p, "write")
    BY DEF NoWriters
  <2>1. R[fd] # PipeEnd(p, "write") /\ p \in Pipes /\ "write" \in Directions
    BY <1>1, <1>11 DEF NoWriters, Directions
  <2> QED
    BY <1>10, <2>1
<1>13. nx \in [Runtimes -> Nat]
  BY <1>1
<1>14. Shape(U, nx, npipes, nopens, eof)
  <2> HIDE DEF U, nx
  <2> QED
    BY <1>1, <1>6, <1>7, <1>8, <1>9, <1>11, <1>12, <1>13 DEF Shape
<1>15. ASSUME NEW p \in Pipes, NEW d \in Directions
       PROVE  /\ Total(T, p, d) = Count(R, p, d) /\ Count(R, p, d) \in Nat
              /\ Total(U, p, d) = Total(T, p, d) + Count(R, p, d)
  <2>1. Holding(half, PipeEnd(p, d)) = Holding(R, PipeEnd(p, d))
    <3> HIDE DEF half, R
    <3> QED
      BY <1>10 DEF Holding
  <2>2. Count(half, p, d) = Count(R, p, d)
    BY <2>1 DEF Count
  <2>3. Count(R, p, d) \in Nat
    BY CountType DEF Count
  <2>4. Count(T["copy"], p, d) = 0
    <3>1. \A fd \in Fds : EmptyTable[fd] # PipeEnd(p, d)
      BY DEF EmptyTable, NoFile, PipeEnd
    <3> QED
      BY <1>3, <3>1, CountType DEF Count
  <2>5. U["root"] = half /\ U["copy"] = half
    BY DEF Runtimes
  <2>6. Total(T, p, d) = Count(R, p, d)
    BY <2>3, <2>4 DEF Total
  <2>7. Total(U, p, d) = Count(R, p, d) + Count(R, p, d)
    BY <2>2, <2>5 DEF Total
  <2> HIDE DEF U, R, T
  <2> QED
    BY <2>3, <2>6, <2>7
<1>16. /\ ForkedPipes \in [Pipes -> PipeRecs]
       /\ \A p \in Pipes : /\ ForkedPipes[p].bytes = pipes[p].bytes
                           /\ ForkedPipes[p].readers = pipes[p].readers + Count(R, p, "read")
                           /\ ForkedPipes[p].writers = pipes[p].writers + Count(R, p, "write")
  <2>1. \A p \in Pipes : Count(R, p, "read") \in Nat /\ Count(R, p, "write") \in Nat
    BY CountType DEF Count
  <2>2. ForkedPipes = [p \in Pipes |-> [pipes[p] EXCEPT !.readers = @ + Count(R, p, "read"),
                                                        !.writers = @ + Count(R, p, "write")]]
    BY DEF ForkedPipes, Count
  <2> HIDE DEF R
  <2>3. ASSUME NEW p \in Pipes
        PROVE  /\ ForkedPipes[p] \in PipeRecs /\ ForkedPipes[p].bytes = pipes[p].bytes
               /\ ForkedPipes[p].readers = pipes[p].readers + Count(R, p, "read")
               /\ ForkedPipes[p].writers = pipes[p].writers + Count(R, p, "write")
    <3>1. pipes[p] \in PipeRecs
      BY <1>1
    <3>2. ForkedPipes[p] = [pipes[p] EXCEPT !.readers = @ + Count(R, p, "read"),
                                            !.writers = @ + Count(R, p, "write")]
      BY <2>2
    <3> DEFINE a == pipes[p].readers + Count(R, p, "read")
               b == pipes[p].writers + Count(R, p, "write")
    <3>3. a \in Nat /\ b \in Nat
      BY <2>1, <3>1 DEF PipeRecs
    <3>4. ForkedPipes[p] = [pipes[p] EXCEPT !.readers = a, !.writers = b]
      BY <3>2
    <3> HIDE DEF a, b
    <3>5. ForkedPipes[p] \in PipeRecs /\ ForkedPipes[p].bytes = pipes[p].bytes
          /\ ForkedPipes[p].readers = a /\ ForkedPipes[p].writers = b
      BY <3>1, <3>3, <3>4 DEF PipeRecs
    <3> QED
      BY <3>5 DEF a, b
  <2>4. ForkedPipes \in [Pipes -> PipeRecs]
    BY <2>2, <2>3
  <2> QED
    BY <2>3, <2>4
<1> HIDE DEF U, R, nx, half
<1>17. Balanced(U, ForkedPipes)
  <2>1. Balanced(T, pipes) /\ "read" \in Directions /\ "write" \in Directions
    BY DEF TabInv, TabOK, Directions
  <2> QED
    BY <1>15, <1>16, <2>1 DEF Balanced
<1>18. Drained(ForkedPipes, eof)
  BY <1>1, <1>11, <1>16 DEF TabOK, Drained
<1>19. offsetRef' \in [Opens -> Offsets]
  <2>1. ASSUME NEW o \in Opens, Unshared(R, o) # {}
        PROVE  (CHOOSE f \in Unshared(R, o) : TRUE).offset \in Offsets
    <3>1. PICK f \in Unshared(R, o) : f = CHOOSE x \in Unshared(R, o) : TRUE
      BY <2>1
    <3>2. f \in Files /\ IsOpened(f)
      BY <1>5, <3>1 DEF Unshared
    <3> QED
      BY <3>1, <3>2, OpenedFile
  <2>2. offsetRef' = [o \in Opens |-> IF Unshared(R, o) = {} THEN offsetRef[o]
                                      ELSE (CHOOSE f \in Unshared(R, o) : TRUE).offset]
    BY DEF copyFork, R
  <2> QED
    BY <1>1, <2>1, <2>2
<1>20. TabOK'
  BY <1>2, <1>14, <1>17, <1>18, <1>19 DEF TabOK
<1>21. CopyInv'
  <2>1. phase'["copy"] = "guest"
    BY <1>1, <1>2 DEF ProcInv, ProcTypes
  <2> QED
    BY <1>2, <2>1 DEF CopyInv
<1> QED
  BY <1>20, <1>21 DEF TabInv

\* The copied child closes all its descriptors.
LEMMA CloseAllTab ==
    ASSUME TabOK, pipes' = ReleaseAll(openFiles["copy"]),
           openFiles' = [openFiles EXCEPT !["copy"] = EmptyTable],
           UNCHANGED <<nextFileFd, offsetRef, npipes, nopens, eof>>
    PROVE  TabOK' /\ openFiles'["copy"] = EmptyTable
<1> DEFINE T == openFiles
           C == T["copy"]
           U == [T EXCEPT !["copy"] = EmptyTable]
<1>1. /\ T \in AllTables /\ pipes \in [Pipes -> PipeRecs]
      /\ Shape(T, nextFileFd, npipes, nopens, eof) /\ "root" \in Runtimes /\ "copy" \in Runtimes
  BY TabFacts DEF TabOK, Runtimes
<1>2. /\ U \in AllTables /\ U["copy"] = EmptyTable /\ U["root"] = T["root"]
      /\ \A rt \in Runtimes, fd \in Fds : U[rt][fd] = T[rt][fd] \/ U[rt][fd] = NoFile
  BY <1>1, FileFacts DEF AllTables, Tables, EmptyTable
<1>3. Shape(U, nextFileFd, npipes, nopens, eof)
  <2>1. \A p : NoFile # PipeEnd(p, "write")
    BY DEF NoFile, PipeEnd
  <2> HIDE DEF U
  <2>2. Known(U, npipes, nopens) /\ Fresh(U, nextFileFd) /\ Separate(U)
    BY <1>1, <1>2, FileFacts DEF Shape, Known, Fresh, Separate
  <2>3. NoWriters(U, eof)
    BY <1>1, <1>2, <2>1 DEF Shape, NoWriters
  <2> QED
    BY <1>1, <1>2, <2>2, <2>3 DEF Shape
<1>4. ASSUME NEW p \in Pipes, NEW d \in Directions
      PROVE  Count(C, p, d) \in Nat /\ Total(U, p, d) \in Nat
             /\ Total(T, p, d) = Total(U, p, d) + Count(C, p, d)
  <2>1. Count(C, p, d) \in Nat /\ Count(T["root"], p, d) \in Nat
    BY CountType DEF Count
  <2>2. Count(U["copy"], p, d) = 0
    <3>1. \A fd \in Fds : EmptyTable[fd] # PipeEnd(p, d)
      BY DEF EmptyTable, NoFile, PipeEnd
    <3> QED
      BY <1>2, <3>1, CountType DEF Count
  <2>3. Total(U, p, d) = Count(T["root"], p, d)
    BY <1>2, <2>1, <2>2 DEF Total
  <2> QED
    BY <2>1, <2>3 DEF Total
<1>5. ASSUME NEW p \in Pipes
      PROVE  /\ pipes'[p] \in PipeRecs /\ pipes'[p].bytes = pipes[p].bytes
             /\ pipes'[p].readers = Total(U, p, "read")
             /\ pipes'[p].writers = Total(U, p, "write")
  <2>1. pipes[p] \in PipeRecs
    BY <1>1
  <2>2. pipes'[p] = [pipes[p] EXCEPT !.readers = Decrease(@, Count(C, p, "read")),
                                     !.writers = Decrease(@, Count(C, p, "write"))]
    BY DEF ReleaseAll, Count
  <2>3. pipes[p].readers = Total(T, p, "read") /\ pipes[p].writers = Total(T, p, "write")
    BY DEF TabOK, Balanced
  <2>4. "read" \in Directions /\ "write" \in Directions
    BY DEF Directions
  <2> HIDE DEF T, U, C
  <2>5. /\ Decrease(pipes[p].readers, Count(C, p, "read")) = Total(U, p, "read")
        /\ Total(U, p, "read") \in Nat
    BY <1>4, <2>3, <2>4 DEF Decrease
  <2>6. /\ Decrease(pipes[p].writers, Count(C, p, "write")) = Total(U, p, "write")
        /\ Total(U, p, "write") \in Nat
    BY <1>4, <2>3, <2>4 DEF Decrease
  <2> QED
    BY <2>1, <2>2, <2>5, <2>6 DEF PipeRecs
<1>6. pipes' \in [Pipes -> PipeRecs]
  <2>1. pipes' = [p \in Pipes |-> pipes'[p]]
    BY DEF ReleaseAll
  <2> QED
    BY <1>5, <2>1
<1>7. Balanced(U, pipes')
  BY <1>5 DEF Balanced
<1>8. Drained(pipes', eof)
  <2>1. eof \subseteq Pipes
    BY <1>1, NatBounds DEF Shape, Pipes
  <2> QED
    BY <1>5, <1>6, <2>1 DEF TabOK, Drained
<1> QED
  BY <1>2, <1>3, <1>7, <1>8 DEF TabOK

LEMMA EndRuntimeTab ==
    ASSUME ProcInv, TabInv, NEW rt \in Runtimes, NEW call, EndRuntime(rt, call),
           rt = "root" => phase["copy"] = "absent"
    PROVE  TabInv'
<1>1. CASE rt = "copy"
  <2>1. TabOK' /\ openFiles'["copy"] = EmptyTable
    BY <1>1, CloseAllTab DEF EndRuntime, TabInv
  <2> QED
    BY <2>1 DEF TabInv, CopyInv
<1>2. CASE rt = "root"
  <2>1. TabOK' /\ openFiles'["copy"] = EmptyTable
    BY <1>2, DropTab DEF EndRuntime
  <2> QED
    BY <2>1 DEF TabInv, CopyInv
<1> QED
  BY <1>1, <1>2 DEF Runtimes

LEMMA ResumeCopyTab == ASSUME TabInv, resumeCopyParent PROVE TabInv'
<1> DEFINE T == openFiles
           nx == [nextFileFd EXCEPT !["copy"] = FirstFreeFd]
           all == [rt \in Runtimes |-> FirstFreeFd]
<1>1. /\ nextFileFd \in [Runtimes -> Nat] /\ Shape(T, nextFileFd, npipes, nopens, eof)
      /\ "root" \in Runtimes /\ "copy" \in Runtimes /\ FirstFreeFd \in Nat
  BY TabFacts DEF TabInv, TabOK, Runtimes, FirstFreeFd, FIRST_FILE_FD
<1>2. T["copy"] = EmptyTable /\ nextFileFd' = nx
      /\ UNCHANGED <<openFiles, pipes, offsetRef, npipes, nopens, eof>>
  BY DEF TabInv, CopyInv, resumeCopyParent
<1>3. Fresh(Nothing, all)
  <2>1. all \in [Runtimes -> Nat] /\ (\A rt \in Runtimes : all[rt] >= FirstFreeFd)
        /\ 0 \in Nat /\ 0 <= MaxObjects
    BY <1>1, NatBounds
  <2> HIDE DEF all
  <2>2. Shape(Nothing, all, 0, 0, {})
    BY <2>1, NothingOpen
  <2> QED
    BY <2>2 DEF Shape
<1>4. nx["root"] = nextFileFd["root"] /\ nx["copy"] = all["copy"] /\ Nothing["copy"] = EmptyTable
      /\ nx \in [Runtimes -> Nat]
  BY <1>1 DEF Nothing, Runtimes
<1>5. Fresh(T, nx)
  <2> SUFFICES ASSUME NEW rt \in Runtimes
               PROVE  /\ nx[rt] >= FIRST_FILE_FD
                      /\ \A fd \in Fds : fd >= nx[rt] => T[rt][fd] = NoFile /\ fd \notin Preopens
    BY DEF Fresh
  <2>1. CASE rt = "root"
    BY <1>1, <1>4, <2>1 DEF Shape, Fresh
  <2>2. CASE rt = "copy"
    <3> HIDE DEF nx, all
    <3> QED
      BY <1>2, <1>3, <1>4, <2>2 DEF Fresh
  <2> QED
    BY <2>1, <2>2 DEF Runtimes
<1>6. Shape(T, nx, npipes, nopens, eof)
  BY <1>1, <1>4, <1>5 DEF Shape
<1>7. TabOK'
  BY <1>2, <1>6 DEF TabOK, TabInv
<1> QED
  BY <1>2, <1>7 DEF TabInv, CopyInv

-----------------------------------------------------------------------------
(* proc_exec *)

\* A step of rt on its way through proc_exec.
LEMMA ExecCopy ==
    ASSUME ProcInv, CopyInv, NEW rt \in Runtimes, NEW ph \in {"exec", "stderr", "written"},
           phase' = [phase EXCEPT ![rt] = ph],
           rt = "root" => openFiles'["copy"] = openFiles["copy"]
    PROVE  CopyInv'
<1>1. phase \in [Runtimes -> Phases]
  BY DEF ProcInv, ProcTypes
<1>2. CASE rt = "root"
  BY <1>1, <1>2 DEF CopyInv, Runtimes
<1>3. CASE rt = "copy"
  BY <1>1, <1>3 DEF CopyInv, Runtimes
<1> QED
  BY <1>2, <1>3 DEF Runtimes

LEMMA ProcExecTab ==
    ASSUME ProcInv, TabInv, NEW rt \in Runtimes, procExec(rt)
    PROVE  TabInv'
<1> DEFINE f == openFiles[rt][0]
<1>0. 0 \in Fds /\ TabOK /\ CopyInv /\ 0 \in 0 .. PipeLimit
  BY NatBounds DEF Fds, TabInv
<1>1. CASE UNCHANGED <<pipes, openFiles, offsetRef, nextFileFd, npipes, nopens, eof>>
           /\ phase' = [phase EXCEPT ![rt] = "exec"]
  <2>1. TabOK'
    BY <1>0, <1>1 DEF TabOK
  <2> QED
    BY <1>0, <1>1, <2>1, ExecCopy DEF TabInv
<1>2. CASE /\ isOpenPipe(f) /\ pipes' = [pipes EXCEPT ![f.pipe].bytes = 0]
           /\ phase' = [phase EXCEPT ![rt] = "exec"]
           /\ UNCHANGED <<openFiles, nextFileFd, offsetRef, npipes, nopens, eof>>
  <2>1. f.pipe \in Pipes
    BY <1>0, <1>2, HeldPipe
  <2>2. TabOK'
    BY <1>0, <1>2, <2>1, BytesTab
  <2> QED
    BY <1>0, <1>2, <2>2, ExecCopy DEF TabInv
<1>3. CASE /\ IsOpened(f) /\ \E off \in Offsets : SetOffset(rt, 0, off)
           /\ phase' = [phase EXCEPT ![rt] = "exec"]
           /\ UNCHANGED <<pipes, nextFileFd, npipes, nopens, eof>>
  <2>1. PICK off \in Offsets : SetOffset(rt, 0, off)
    BY <1>3
  <2>2. TabOK' /\ (rt = "root" => openFiles'["copy"] = openFiles["copy"])
    BY <1>0, <1>3, <2>1, SetOffsetTab
  <2> QED
    BY <1>0, <1>3, <2>2, ExecCopy DEF TabInv
<1>4. CASE FailRun
  BY <1>4, FailRunTab
<1> QED
  BY <1>1, <1>2, <1>3, <1>4 DEF procExec

LEMMA WriteCapturedTab ==
    ASSUME ProcInv, TabInv, NEW rt \in Runtimes, NEW fd \in Fds, NEW from,
           NEW to \in {"stderr", "written"}, writeCaptured(rt, fd, from, to)
    PROVE  TabInv'
<1> DEFINE f == openFiles[rt][fd]
<1>0. TabOK /\ CopyInv
  BY DEF TabInv
<1>1. CASE UNCHANGED tables /\ phase' = [phase EXCEPT ![rt] = to] /\ UNCHANGED eof
  <2>1. UNCHANGED <<openFiles, nextFileFd, pipes, offsetRef, npipes, nopens>>
    BY <1>1 DEF tables
  <2>2. TabOK'
    BY <1>0, <1>1, <2>1 DEF TabOK
  <2> QED
    BY <1>0, <1>1, <2>1, <2>2, ExecCopy DEF TabInv
<1>2. CASE /\ isOpenPipe(f) /\ f.direction = "write" /\ pipes[f.pipe].bytes < PipeLimit
           /\ pipes' = [pipes EXCEPT ![f.pipe].bytes = @ + 1]
           /\ phase' = [phase EXCEPT ![rt] = to]
           /\ UNCHANGED <<openFiles, nextFileFd, offsetRef, npipes, nopens, eof>>
  <2> DEFINE q == f.pipe
             n == pipes[q].bytes + 1
  <2>1. q \in Pipes /\ pipes[q].bytes \in 0 .. PipeLimit /\ q \notin eof
    BY <1>0, <1>2, HeldPipe
  <2>2. n \in 0 .. PipeLimit
    BY <1>2, <2>1, NatBounds
  <2>3. pipes' = [pipes EXCEPT ![q].bytes = n]
    BY <1>2
  <2> HIDE DEF q, n
  <2>4. TabOK'
    BY <1>0, <1>2, <2>1, <2>2, <2>3, BytesTab
  <2> QED
    BY <1>0, <1>2, <2>4, ExecCopy DEF TabInv
<1>3. CASE /\ IsOpened(f) /\ \E off \in Offsets : SetOffset(rt, fd, off)
           /\ phase' = [phase EXCEPT ![rt] = to]
           /\ UNCHANGED <<pipes, nextFileFd, npipes, nopens, eof>>
  <2>1. PICK off \in Offsets : SetOffset(rt, fd, off)
    BY <1>3
  <2>2. TabOK' /\ (rt = "root" => openFiles'["copy"] = openFiles["copy"])
    BY <1>0, <1>3, <2>1, SetOffsetTab
  <2> QED
    BY <1>0, <1>3, <2>2, ExecCopy DEF TabInv
<1>4. CASE FailRun
  BY <1>4, FailRunTab
<1> QED
  BY <1>1, <1>2, <1>3, <1>4 DEF writeCaptured

\* A step that changes neither the tables nor whether there is a copied child.
LEMMA StillTab ==
    ASSUME TabInv, UNCHANGED <<tables, eof>>, phase' = phase
    PROVE  TabInv'
BY DEF tables, TabInv, TabOK, CopyInv

LEMMA FinishExecTab ==
    ASSUME ProcInv, TabInv, NEW rt \in Runtimes, finishExec(rt)
    PROVE  TabInv'
<1>1. phase \in [Runtimes -> Phases] /\ phase[rt] = "written" /\ PhaseInv
  BY DEF ProcInv, ProcTypes, finishExec
<1>2. rt = "root" => phase["copy"] = "absent"
  BY <1>1 DEF PhaseInv
<1>3. CASE rt = "root" /\ phase' = [phase EXCEPT ![rt] = "guest"] /\ UNCHANGED <<tables, eof>>
  <2>1. phase'["copy"] = phase["copy"] /\ UNCHANGED openFiles
    BY <1>1, <1>3 DEF Runtimes, tables
  <2>2. TabOK' /\ CopyInv'
    BY <1>3, <2>1 DEF tables, TabInv, TabOK, CopyInv
  <2> QED
    BY <2>2 DEF TabInv
<1>4. CASE EndRuntime(rt, "proc_exec")
  BY <1>2, <1>4, EndRuntimeTab
<1> QED
  BY <1>3, <1>4 DEF finishExec

-----------------------------------------------------------------------------

LEMMA DescriptorsTab ==
    ASSUME TabInv, NEW rt \in Runtimes, Descriptors(rt)
    PROVE  TabInv'
<1>0. RenumberTargets \subseteq Fds
  BY DEF RenumberTargets
<1>1. ASSUME NEW m \in Mounts, NEW off \in Offsets, pathOpen(rt, m, off) PROVE TabInv'
  BY <1>1, PathOpenTab
<1>2. CASE fdPipe(rt)
  BY <1>2, FdPipeTab
<1>3. ASSUME NEW fd \in Fds, NEW off \in Offsets, moveOffset(rt, fd, off) PROVE TabInv'
  <2>1. Running(rt) /\ IsOpened(openFiles[rt][fd]) /\ SetOffset(rt, fd, off) /\ UNCHANGED phase
        /\ UNCHANGED <<nextFileFd, pipes, npipes, nopens, eof>> /\ TabOK /\ CopyInv
    BY <1>3 DEF moveOffset, TabInv
  <2>2. TabOK' /\ (rt = "root" => openFiles'["copy"] = openFiles["copy"])
    BY <2>1, SetOffsetTab
  <2> QED
    BY <2>1, <2>2, GuestCopy DEF TabInv
<1>4. ASSUME NEW fd \in Fds, fdClose(rt, fd) PROVE TabInv'
  BY <1>4, FdCloseTab
<1>5. ASSUME NEW fd \in Fds, fdDup(rt, fd) PROVE TabInv'
  BY <1>5, FdDupTab
<1>6. ASSUME NEW fd \in Fds, NEW to \in RenumberTargets, fdRenumber(rt, fd, to) PROVE TabInv'
  BY <1>0, <1>6, FdRenumberTab
<1>7. ASSUME NEW fd \in Fds, NEW to \in RenumberTargets, fdDup2(rt, fd, to) PROVE TabInv'
  BY <1>0, <1>7, FdDup2Tab
<1>8. ASSUME NEW fd \in Fds, NEW n \in 1 .. PipeLimit, fdWritePipe(rt, fd, n) PROVE TabInv'
  BY <1>8, FdWritePipeTab
<1>9. ASSUME NEW fd \in Fds, NEW n \in 1 .. PipeLimit, fdReadPipe(rt, fd, n) PROVE TabInv'
  BY <1>9, FdReadPipeTab
<1> QED
  BY <1>1, <1>2, <1>3, <1>4, <1>5, <1>6, <1>7, <1>8, <1>9 DEF Descriptors

LEMMA ProcessesTab ==
    ASSUME ProcInv, TabInv, NEW rt \in Runtimes, Processes(rt)
    PROVE  TabInv'
<1>0. Running(rt) => (rt = "root" => phase["copy"] = "absent")
  BY DEF Running
<1>1. CASE vfork(rt)
  BY <1>1, StillTab DEF vfork
<1>2. CASE exit(rt)
  BY <1>0, <1>2, EndRuntimeTab DEF exit
<1>3. CASE procExit2(rt)
  BY <1>0, <1>3, EndRuntimeTab, StillTab DEF procExit2
<1>4. CASE \E pid \in Pids : procJoin(rt, pid)
  BY <1>4, StillTab DEF procJoin
<1>5. CASE procExec(rt)
  BY <1>5, ProcExecTab
<1>6. CASE writeCaptured(rt, 1, "exec", "stderr") \/ writeCaptured(rt, 2, "stderr", "written")
  <2>1. 1 \in Fds /\ 2 \in Fds
    BY NatBounds DEF Fds
  <2> QED
    BY <1>6, <2>1, WriteCapturedTab
<1>7. CASE finishExec(rt)
  BY <1>7, FinishExecTab
<1> QED
  BY <1>1, <1>2, <1>3, <1>4, <1>5, <1>6, <1>7 DEF Processes

LEMMA TabNext == ProcInv /\ TabInv /\ [Next]_vars => TabInv'
<1> SUFFICES ASSUME ProcInv, TabInv, [Next]_vars PROVE TabInv'
  OBVIOUS
<1>1. ASSUME NEW rt \in Runtimes, Descriptors(rt) PROVE TabInv'
  BY <1>1, DescriptorsTab
<1>2. ASSUME NEW rt \in Runtimes, Processes(rt) PROVE TabInv'
  BY <1>2, ProcessesTab
<1>3. CASE copyFork
  BY <1>3, CopyForkTab
<1>4. CASE resumeCopyParent
  BY <1>4, ResumeCopyTab
<1>5. CASE abort
  BY <1>5, FailRunTab DEF abort
<1>6. CASE UNCHANGED vars
  BY <1>6, StillTab DEF vars
<1> QED
  BY <1>1, <1>2, <1>3, <1>4, <1>5, <1>6 DEF Next

LEMMA TabInit == Init => TabInv
<1> SUFFICES ASSUME Init PROVE TabInv
  OBVIOUS
<1> DEFINE all == [rt \in Runtimes |-> FirstFreeFd]
<1>1. all \in [Runtimes -> Nat] /\ \A rt \in Runtimes : all[rt] >= FirstFreeFd
  BY DEF FirstFreeFd, FIRST_FILE_FD
<1>2. /\ openFiles = Nothing /\ nextFileFd = all /\ pipes = NoPipes /\ npipes = 0 /\ nopens = 0
      /\ eof = {} /\ offsetRef = [o \in Opens |-> 0]
  BY DEF Init, Nothing, NoPipes
<1> HIDE DEF all
<1>3. Shape(Nothing, all, 0, 0, {}) /\ Drained(NoPipes, {}) /\ Balanced(Nothing, NoPipes)
  <2>1. 0 \in Nat /\ 0 <= MaxObjects
    BY NatBounds
  <2> QED
    BY <1>1, <2>1, NothingOpen
<1>4. offsetRef \in [Opens -> Offsets] /\ openFiles["copy"] = EmptyTable
  BY <1>2, NatBounds DEF Offsets, Nothing, Runtimes
<1> QED
  BY <1>2, <1>3, <1>4 DEF TabInv, TabOK, CopyInv

LEMMA TabSpec == Spec => [](ProcInv /\ TabInv)
<1>1. Init => ProcInv /\ TabInv
  BY ProcInit, TabInit
<1>2. ProcInv /\ TabInv /\ [Next]_vars => (ProcInv /\ TabInv)'
  BY ProcNext, TabNext
<1> QED
  BY <1>1, <1>2, PTL DEF Spec

\* Every variable has its type: the tables map descriptors to files, the pipes
\* have counts and at most PIPE_BUFFER_LIMIT units of data, the processes have
\* records.
THEOREM TypeCorrect ==
    Spec => [](ProcTypes /\ openFiles \in AllTables /\ nextFileFd \in [Runtimes -> Nat]
               /\ pipes \in [Pipes -> PipeRecs] /\ offsetRef \in [Opens -> Offsets]
               /\ npipes \in Nat /\ nopens \in Nat /\ eof \subseteq Pipes)
<1>1. ASSUME ProcInv, TabInv
      PROVE  ProcTypes /\ openFiles \in AllTables /\ nextFileFd \in [Runtimes -> Nat]
             /\ pipes \in [Pipes -> PipeRecs] /\ offsetRef \in [Opens -> Offsets]
             /\ npipes \in Nat /\ nopens \in Nat /\ eof \subseteq Pipes
  BY <1>1, NatBounds DEF ProcInv, TabInv, TabOK, Shape, Drained, Pipes
<1> QED
  BY <1>1, TabSpec, PTL

\* The reader and writer counts of a pipe are the numbers of descriptors that hold
\* its ends, whatever retainOpenFile, closeOpenFile, duplicateOpenFilesForFork and
\* closeAllOpenFiles did in whatever order.
THEOREM CountsHolders == Spec => []PipeCounts
<1>1. ASSUME ProcInv, TabInv PROVE PipeCounts
  <2>1. openFiles \in [Runtimes -> Tables] /\ Balanced(openFiles, pipes)
    BY <1>1 DEF TabInv, TabOK, Shape, AllTables
  <2> QED
    BY <2>1, HoldersCount DEF Balanced, Total, PipeCounts
<1> QED
  BY <1>1, TabSpec, PTL

\* Once fd_read has reported the end of a pipe, no data is in it and no descriptor
\* of any runtime can write to it.
THEOREM EndOfPipeIsFinal == Spec => []EofIsFinal
<1>1. ASSUME ProcInv, TabInv PROVE EofIsFinal
  <2>1. openFiles \in [Runtimes -> Tables] /\ NoWriters(openFiles, eof) /\ Drained(pipes, eof)
    BY <1>1 DEF TabInv, TabOK, Shape, AllTables
  <2>2. \A p \in eof : Holders(p, "write") = {}
    BY <2>1, HoldersCount DEF NoWriters
  <2> QED
    BY <2>1, <2>2 DEF EofIsFinal, Drained
<1> QED
  BY <1>1, TabSpec, PTL

\* path_open never takes the number of an open descriptor or of a preopen, though
\* it does not look.
THEOREM PathOpenIsFresh == Spec => []FreshDescriptors
<1>1. ASSUME ProcInv, TabInv PROVE FreshDescriptors
  <2>1. Fresh(openFiles, nextFileFd)
    BY <1>1 DEF TabInv, TabOK, Shape
  <2> QED
    BY <2>1 DEF Fresh, FreshDescriptors, fdStat
<1> QED
  BY <1>1, TabSpec, PTL

\* All descriptors of one opening are at the same offset, in both runtimes.
THEOREM OneOffsetPerOpening == Spec => []SharedOffsets
<1>1. ASSUME ProcInv, TabInv PROVE SharedOffsets
  <2>1. Separate(openFiles)
    BY <1>1 DEF TabInv, TabOK, Shape
  <2> SUFFICES ASSUME NEW r1 \in Runtimes, NEW r2 \in Runtimes, NEW f1 \in Fds, NEW f2 \in Fds,
                      IsOpened(openFiles[r1][f1]), IsOpened(openFiles[r2][f2]),
                      openFiles[r1][f1].open = openFiles[r2][f2].open
               PROVE  Offset(openFiles[r1][f1]) = Offset(openFiles[r2][f2])
    BY DEF SharedOffsets
  <2>2. CASE r1 = r2 /\ f1 = f2
    BY <2>2
  <2>3. CASE r1 # r2 \/ f1 # f2
    BY <2>1, <2>3 DEF Separate, Offset
  <2> QED
    BY <2>2, <2>3
<1> QED
  BY <1>1, TabSpec, PTL
=============================================================================
