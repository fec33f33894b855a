------------------------ MODULE CommandWorkerProofs ------------------------
(***************************************************************************)
(* Proofs about CommandWorker for any sets of runs, packages and commands  *)
(* and any bounds.                                                         *)
(***************************************************************************)
EXTENDS CommandWorker, TLAPS

\* No stream of s has been closed.
Open(s) == \A i \in 1 .. Len(s) : Rank(s[i]) <= 2

\* How a run's phase, its executor, its abort and its events go together.  The
\* executor may outlive the run only if the run was aborted, which is why the
\* writer's check of the signal is enough to protect closed streams.
RunInv(r) ==
    /\ Ordered(posted[r])
    /\ pc[r] \in {"new", "rejected", "resolving"} =>
           posted[r] = <<>> /\ executor[r] = "idle" /\ abortError[r] = "none"
    /\ pc[r] \in {"exporting", "executing", "importing"} => Open(posted[r])
    /\ pc[r] = "exporting" => executor[r] = "idle"
    /\ pc[r] = "executing" => executor[r] \in RunnableTypes /\ abortError[r] = "none"
    /\ pc[r] = "importing" => executor[r] = "settled"
    /\ timer[r] => pc[r] \in InFlight
    /\ pc[r] = "done" =>
           /\ Ended(posted[r])
           /\ executor[r] \in RunnableTypes => abortError[r] # "none"

PhaseInv == \A r \in Runs : RunInv(r)

\* A run that waits for a package owns the worker, and a stopped worker has no owner.
Exclusion ==
    /\ \A r \in Runs : pc[r] = "resolving" => activeRun = r
    /\ ~listening => activeRun = NoRun

IInv == TypeOK /\ PhaseInv /\ SingleActive /\ Exclusion /\ NoOrphanWaiter
           /\ NoLostUpdate /\ CatalogMatchesPackages

-----------------------------------------------------------------------------
(* Streams of events *)

LEMMA RankFacts ==
    /\ Rank("started") = 1 /\ Rank("stdout") = 2 /\ Rank("stderr") = 2
    /\ Rank("stdout.close") = 3 /\ Rank("stderr.close") = 4
    /\ Rank("complete") = 5 /\ Rank("error") = 5
    /\ \A e \in Events : Rank(e) \in 1 .. 5
BY DEF Rank, Events

\* Output may be appended while no stream is closed.
LEMMA AppendOutput ==
    ASSUME NEW s \in Seq(Events), Ordered(s), Open(s), NEW e \in {"stdout", "stderr"}
    PROVE  /\ Append(s, e) \in Seq(Events)
           /\ Ordered(Append(s, e))
           /\ Open(Append(s, e))
<1>1. e \in Events /\ Rank(e) = 2
  BY DEF Rank, Events
<1>2. \A i \in 1 .. Len(s) : Rank(s[i]) \in 1 .. 5
  BY RankFacts
<1> QED
  BY <1>1, <1>2 DEF Ordered, Open

\* The first event of a run.
LEMMA FirstEvent ==
    /\ Append(<<>>, "started") \in Seq(Events)
    /\ Ordered(Append(<<>>, "started"))
    /\ Open(Append(<<>>, "started"))
BY RankFacts DEF Ordered, Open, Events

\* What EndRun appends closes an open stream and ends it.
LEMMA CloseStream ==
    ASSUME NEW s \in Seq(Events), Ordered(s), Open(s), NEW e \in {"complete", "error"}
    PROVE  LET t == s \o <<"stdout.close", "stderr.close", e>>
           IN  t \in Seq(Events) /\ Ordered(t) /\ Ended(t)
<1> DEFINE t == s \o <<"stdout.close", "stderr.close", e>>
<1>1. e \in Events /\ Rank(e) = 5 /\ "stdout.close" \in Events /\ "stderr.close" \in Events
  BY DEF Rank, Events
<1>2. \A i \in 1 .. Len(s) : Rank(s[i]) \in 1 .. 5 /\ Rank(s[i]) <= 2
  BY RankFacts DEF Open
<1>3. /\ t \in Seq(Events)
      /\ Len(t) = Len(s) + 3
      /\ \A i \in 1 .. Len(s) : t[i] = s[i]
      /\ t[Len(s) + 1] = "stdout.close"
      /\ t[Len(s) + 2] = "stderr.close"
      /\ t[Len(s) + 3] = e
  BY <1>1
<1>4. /\ Rank(t[Len(s) + 1]) = 3
      /\ Rank(t[Len(s) + 2]) = 4
      /\ Rank(t[Len(s) + 3]) = 5
  BY <1>1, <1>3, RankFacts
<1>5. \A i \in 1 .. Len(t) :
          i \in 1 .. Len(s) \/ i = Len(s) + 1 \/ i = Len(s) + 2 \/ i = Len(s) + 3
  BY <1>3
<1>6. Ordered(t)
  <2> SUFFICES ASSUME NEW i \in 1 .. Len(t), NEW j \in 1 .. Len(t), i < j
               PROVE  \/ Rank(t[i]) < Rank(t[j])
                      \/ Rank(t[i]) = 2 /\ Rank(t[j]) = 2
    BY DEF Ordered
  <2>1. CASE j \in 1 .. Len(s)
    BY <2>1, <1>3 DEF Ordered
  <2>2. CASE j \notin 1 .. Len(s) /\ i \in 1 .. Len(s)
    BY <2>2, <1>2, <1>3, <1>4, <1>5
  <2>3. CASE j \notin 1 .. Len(s) /\ i \notin 1 .. Len(s)
    BY <2>3, <1>3, <1>4, <1>5
  <2> QED
    BY <2>1, <2>2, <2>3
<1>7. Ended(t)
  BY <1>3, <1>4 DEF Ended
<1> QED
  BY <1>3, <1>6, <1>7

-----------------------------------------------------------------------------
(* Types *)

\* The part of TypeOK that the end of a run touches.
RunTypes ==
    /\ pc \in [Runs -> PcValues]
    /\ posted \in [Runs -> Seq(Events)]
    /\ outcome \in [Runs -> AbortKinds \cup {"none", "complete", "failed"}]
    /\ timer \in [Runs -> BOOLEAN]

LEMMA EndRunType ==
    ASSUME TypeOK, NEW r \in Runs, NEW e \in {"complete", "error"},
           NEW status \in AbortKinds \cup {"complete", "failed"}, EndRun(r, e, status)
    PROVE  RunTypes'
<1>1. <<"stdout.close", "stderr.close", e>> \in Seq(Events)
  BY DEF Events
<1>2. posted[r] \o <<"stdout.close", "stderr.close", e>> \in Seq(Events)
  BY <1>1 DEF TypeOK
<1>3. posted' \in [Runs -> Seq(Events)]
  BY <1>2 DEF TypeOK, EndRun
<1> QED
  BY <1>3 DEF TypeOK, EndRun, RunTypes, PcValues

LEMMA FinishType ==
    ASSUME TypeOK, NEW r \in Runs, NEW e \in {"complete", "error"},
           NEW status \in AbortKinds \cup {"complete", "failed"}, Finish(r, e, status)
    PROVE  /\ pc' \in [Runs -> PcValues]
           /\ posted' \in [Runs -> Seq(Events)]
           /\ outcome' \in [Runs -> AbortKinds \cup {"none", "complete", "failed"}]
           /\ timer' \in [Runs -> BOOLEAN]
           /\ activeRun' \in Runs \cup {NoRun}
BY EndRunType DEF Finish, Release, RunTypes, TypeOK

LEMMA StatusType ==
    ASSUME TypeOK, NEW r \in Runs
    PROVE  normalizeRunError(r) \in AbortKinds \cup {"complete", "failed"}
BY DEF TypeOK, normalizeRunError, AbortKinds

LEMMA AppendType ==
    ASSUME TypeOK, NEW r \in Runs, NEW e \in {"started", "stdout", "stderr"}
    PROVE  [posted EXCEPT ![r] = Append(@, e)] \in [Runs -> Seq(Events)]
<1>1. e \in Events
  BY DEF Events
<1> QED
  BY <1>1 DEF TypeOK

LEMMA StartType ==
    ASSUME TypeOK, NEW r \in Runs, NEW type \in RunnableTypes, StartResolved(r, type)
    PROVE  /\ pc' \in [Runs -> PcValues]
           /\ posted' \in [Runs -> Seq(Events)]
           /\ executor' \in [Runs -> RunnableTypes \cup {"idle", "settled"}]
BY AppendType DEF StartResolved, TypeOK, PcValues, InFlight

LEMMA AbortType ==
    ASSUME TypeOK, NEW r \in Runs, NEW error \in AbortKinds, abortRun(r, error)
    PROVE  /\ pc' \in [Runs -> PcValues]
           /\ posted' \in [Runs -> Seq(Events)]
           /\ outcome' \in [Runs -> AbortKinds \cup {"none", "complete", "failed"}]
           /\ timer' \in [Runs -> BOOLEAN]
           /\ abortError' \in [Runs -> AbortKinds \cup {"none"}]
           /\ awaited' \in Packages \cup {NoPackage}
           /\ executor' \in [Runs -> RunnableTypes \cup {"idle", "settled"}]
<1>1. CASE Raced(r)
  BY <1>1, EndRunType DEF abortRun, TypeOK, RunTypes
<1>2. CASE ~Raced(r)
  BY <1>2 DEF abortRun, TypeOK
<1> QED
  BY <1>1, <1>2

\* The catalog of packages that do not collide names the one provider of each
\* command.
LEMMA CatalogLemma ==
    ASSUME NEW pkgs, ~Collides(pkgs)
    PROVE  /\ createPackageCatalog(pkgs) \in [Commands -> Packages \cup {NoPackage}]
           /\ \A p \in Packages, c \in Commands :
                  createPackageCatalog(pkgs)[c] = p <=> c \in pkgs[p].commands
<1> DEFINE cat == createPackageCatalog(pkgs)
<1>1. ASSUME NEW c \in Commands
      PROVE  /\ cat[c] \in Packages \cup {NoPackage}
             /\ \A p \in Packages : cat[c] = p <=> c \in pkgs[p].commands
  <2>1. CASE \E p \in Packages : c \in pkgs[p].commands
    <3>1. cat[c] = CHOOSE p \in Packages : c \in pkgs[p].commands
      BY <2>1 DEF createPackageCatalog
    <3>2. cat[c] \in Packages /\ c \in pkgs[cat[c]].commands
      BY <2>1, <3>1
    <3> QED
      BY <3>2 DEF Collides
  <2>2. CASE ~\E p \in Packages : c \in pkgs[p].commands
    <3>1. cat[c] = NoPackage
      BY <2>2 DEF createPackageCatalog
    <3> QED
      BY <2>2, <3>1, NoPackageAssumption
  <2> QED
    BY <2>1, <2>2
<1>2. cat = [c \in Commands |-> cat[c]]
  BY DEF createPackageCatalog
<1> QED
  BY <1>1, <1>2

LEMMA RegisterType ==
    ASSUME TypeOK, NEW p \in Packages, NEW record \in PackageRecord,
           registerPackage(p, record)
    PROVE  /\ packages' \in [Packages -> PackageRecord \cup {Unloaded}]
           /\ catalog' \in [Commands -> Packages \cup {NoPackage}]
<1> DEFINE added == [packages EXCEPT ![p] = record]
<1>1. CASE Collides(added)
  BY <1>1 DEF registerPackage, TypeOK
<1>2. CASE ~Collides(added)
  <2>1. packages' = added /\ catalog' = createPackageCatalog(added)
    BY <1>2 DEF registerPackage
  <2>2. catalog' \in [Commands -> Packages \cup {NoPackage}]
    BY <1>2, <2>1, CatalogLemma
  <2> QED
    BY <2>1, <2>2 DEF TypeOK
<1> QED
  BY <1>1, <1>2

LEMMA ResumeType ==
    ASSUME TypeOK, NEW p, NEW pkg, ResumeResolving(p, pkg)
    PROVE  /\ pc' \in [Runs -> PcValues]
           /\ posted' \in [Runs -> Seq(Events)]
           /\ outcome' \in [Runs -> AbortKinds \cup {"none", "complete", "failed"}]
           /\ timer' \in [Runs -> BOOLEAN]
           /\ awaited' \in Packages \cup {NoPackage}
           /\ executor' \in [Runs -> RunnableTypes \cup {"idle", "settled"}]
           /\ activeRun' \in Runs \cup {NoRun}
<1>1. CASE activeRun # NoRun /\ pc[activeRun] = "resolving" /\ awaited = p
  <2>1. PICK r \in Runs : r = activeRun
    BY <1>1 DEF TypeOK
  <2>2. CASE pkg.type \in RunnableTypes
    <3>1. StartResolved(r, pkg.type)
      BY <1>1, <2>1, <2>2 DEF ResumeResolving
    <3> QED
      BY <1>1, <2>2, <3>1, StartType DEF ResumeResolving, TypeOK
  <2>3. CASE pkg.type \notin RunnableTypes
    <3>1. Finish(r, "error", "failed")
      BY <1>1, <2>1, <2>3 DEF ResumeResolving
    <3> QED
      BY <1>1, <2>3, <3>1, FinishType DEF ResumeResolving, TypeOK
  <2> QED
    BY <2>2, <2>3
<1>2. CASE ~(activeRun # NoRun /\ pc[activeRun] = "resolving" /\ awaited = p)
  BY <1>2 DEF ResumeResolving, runVars, TypeOK
<1> QED
  BY <1>1, <1>2

-----------------------------------------------------------------------------
(* The invariant *)

\* Every step keeps the types.
LEMMA TypeStep ==
    ASSUME TypeOK, [Next]_vars PROVE TypeOK'
<1>1. ASSUME NEW r \in Runs, ExportSucceeds(r) PROVE TypeOK'
  <2>1. CASE abortError[r] = "none"
    BY <1>1, <2>1 DEF ExportSucceeds, packageVars, abortVars, TypeOK, PcValues, InFlight,
       RunnableTypes
  <2>2. CASE abortError[r] # "none"
    BY <1>1, <2>2, FinishType, StatusType DEF ExportSucceeds, packageVars, abortVars,
       TypeOK, RunnableTypes
  <2> QED
    BY <2>1, <2>2
<1>2. ASSUME NEW r \in Runs, ExportFails(r) PROVE TypeOK'
  BY <1>2, FinishType, StatusType DEF ExportFails, Release, packageVars, abortVars,
     storeVars, TypeOK
<1>3. ASSUME NEW r \in Runs, NEW stream \in {"stdout", "stderr"}, WriteOutput(r, stream)
      PROVE  TypeOK'
  BY <1>3, AppendType DEF WriteOutput, packageVars, workerVars, abortVars, storeVars, TypeOK
<1>4. ASSUME NEW r \in Runs, NEW snapshot \in BOOLEAN, ExecutorResolves(r, snapshot)
      PROVE  TypeOK'
  <2>1. CASE snapshot /\ executor[r] = "webc"
    BY <1>4, <2>1 DEF ExecutorResolves, packageVars, abortVars, storeVars, TypeOK,
       PcValues, InFlight
  <2>2. CASE ~(snapshot /\ executor[r] = "webc")
    BY <1>4, <2>2, FinishType DEF ExecutorResolves, packageVars, abortVars, storeVars,
       TypeOK
  <2> QED
    BY <2>1, <2>2
<1>5. ASSUME NEW r \in Runs, ExecutorRejects(r) PROVE TypeOK'
  BY <1>5, FinishType, StatusType DEF ExecutorRejects, Release, packageVars, abortVars,
     storeVars, TypeOK
<1>6. ASSUME NEW r \in Runs, ExecutorSettlesLate(r) PROVE TypeOK'
  BY <1>6, BoundsAssumption DEF ExecutorSettlesLate, packageVars, workerVars, abortVars,
     storeVars, TypeOK
<1>7. ASSUME NEW r \in Runs, ImportSucceeds(r) PROVE TypeOK'
  BY <1>7, FinishType DEF ImportSucceeds, Release, packageVars, abortVars, storeVars, TypeOK
<1>8. ASSUME NEW r \in Runs, ImportFails(r) PROVE TypeOK'
  BY <1>8, FinishType, StatusType DEF ImportFails, Release, packageVars, abortVars,
     storeVars, TypeOK
<1>9. ASSUME NEW r \in Runs, TimerFires(r) PROVE TypeOK'
  BY <1>9, AbortType DEF TimerFires, ReleaseIfEnded, Raced, packageVars, storeVars,
     TypeOK, AbortKinds
<1>10. ASSUME NEW r \in Runs, NEW malformed \in BOOLEAN, RunRejected(r, malformed)
       PROVE  TypeOK'
  BY <1>10, BoundsAssumption DEF RunRejected, packageVars, workerVars, abortVars,
     storeVars, TypeOK, PcValues, InFlight
<1>11. ASSUME NEW r \in Runs, NEW p \in Packages, NEW stdinOpen \in BOOLEAN, NEW timed \in
              BOOLEAN, RunWaitsForLoad(r, p, stdinOpen, timed)
       PROVE  TypeOK'
  BY <1>11 DEF RunWaitsForLoad, AcceptRun, packageVars, storeVars, TypeOK, PcValues,
     InFlight
<1>12. ASSUME NEW r \in Runs, NEW p \in Packages \cup {NoPackage}, NEW c \in Commands, NEW
              stdinOpen \in BOOLEAN, RunFailsStartup(r, p, c, stdinOpen)
       PROVE  TypeOK'
  BY <1>12, FinishType DEF RunFailsStartup, AcceptRun, Release, packageVars, storeVars,
     TypeOK
<1>13. ASSUME NEW r \in Runs, NEW p \in Packages \cup {NoPackage}, NEW c \in Commands, NEW
              stdinOpen \in BOOLEAN, NEW timed \in BOOLEAN, RunStarts(r, p, c, stdinOpen,
              timed)
       PROVE  TypeOK'
  BY <1>13, StartType DEF RunStarts, AcceptRun, packageVars, storeVars, TypeOK,
     TypeOfResolved
<1>14. ASSUME NEW r \in Runs, Cancel(r) PROVE TypeOK'
  BY <1>14, AbortType DEF Cancel, ReleaseIfEnded, Raced, packageVars, storeVars, TypeOK,
     AbortKinds
<1>15. ASSUME NEW r \in Runs, NEW malformed \in BOOLEAN, HandleStdinChunk(r, malformed)
       PROVE  TypeOK'
  <2>1. PICK error \in StdinFaults(r, malformed) : abortRun(r, error)
    BY <1>15 DEF HandleStdinChunk
  <2>2. error \in AbortKinds
    BY DEF StdinFaults, AbortKinds
  <2> QED
    BY <1>15, <2>1, <2>2, AbortType DEF HandleStdinChunk, ReleaseIfEnded, packageVars,
       storeVars, TypeOK
<1>16. ASSUME NEW r \in Runs, HandleStdinEnd(r) PROVE TypeOK'
  BY <1>16, BoundsAssumption DEF HandleStdinEnd, packageVars, workerVars, runVars,
     storeVars, TypeOK
<1>17. ASSUME NEW r \in Runs, HandleStdinError(r) PROVE TypeOK'
  BY <1>17, AbortType DEF HandleStdinError, ReleaseIfEnded, Raced, packageVars, storeVars,
     TypeOK, AbortKinds
<1>18. ASSUME NEW p \in Packages, LoadPackage(p) PROVE TypeOK'
  BY <1>18, BoundsAssumption DEF LoadPackage, workerVars, runVars, abortVars, storeVars,
     TypeOK
<1>19. ASSUME NEW p \in Packages, LoadFails(p) PROVE TypeOK'
  BY <1>19, ResumeType DEF LoadFails, Release, abortVars, storeVars, TypeOK
<1>20. ASSUME NEW p \in Packages, NEW record \in Loadable, LoadSucceeds(p, record)
       PROVE  TypeOK'
  BY <1>20, ResumeType, RegisterType, LoadableAssumption DEF LoadSucceeds, Release,
     abortVars, storeVars, TypeOK
<1>21. ASSUME Start PROVE TypeOK'
  BY <1>21, BoundsAssumption DEF Start, packageVars, runVars, abortVars, storeVars, TypeOK
<1>22. ASSUME Stop PROVE TypeOK'
  <2>1. CASE activeRun = NoRun
    BY <1>22, <2>1 DEF Stop, packageVars, runVars, storeVars, TypeOK
  <2>2. CASE activeRun # NoRun
    <3>1. PICK r \in Runs : r = activeRun
      BY <2>2 DEF TypeOK
    <3>2. abortRun(r, "cancelled")
      BY <1>22, <2>2, <3>1 DEF Stop
    <3> QED
      BY <1>22, <3>2, AbortType DEF Stop, packageVars, storeVars, TypeOK, AbortKinds
  <2> QED
    BY <2>1, <2>2
<1>23. ASSUME UNCHANGED vars PROVE TypeOK'
  BY <1>23 DEF vars, packageVars, workerVars, runVars, abortVars, storeVars, TypeOK
<1> QED
  BY <1>1, <1>2, <1>3, <1>4, <1>5, <1>6, <1>7, <1>8, <1>9, <1>10, <1>11, <1>12,
     <1>13, <1>14, <1>15, <1>16, <1>17, <1>18, <1>19, <1>20, <1>21, <1>22, <1>23 DEF Next,
     RunStep, RunMessage, PackageStep

-----------------------------------------------------------------------------
(* Phases *)

\* A step leaves what RunInv says of a run alone.
Same(q) ==
    /\ pc'[q] = pc[q] /\ posted'[q] = posted[q] /\ executor'[q] = executor[q]
    /\ abortError'[q] = abortError[q] /\ timer'[q] = timer[q]

LEMMA SameRun ==
    ASSUME NEW q \in Runs, RunInv(q), Same(q) PROVE RunInv(q)'
BY DEF RunInv, Same, Ordered, Ended, Open

\* Ending a run that is in flight, or that startup refuses.
LEMMA EndRunPhase ==
    ASSUME TypeOK, NEW r \in Runs, RunInv(r), pc[r] \in InFlight \cup {"new"},
           NEW e \in {"complete", "error"}, NEW status, EndRun(r, e, status),
           executor'[r] \in RunnableTypes => abortError'[r] # "none"
    PROVE  /\ RunInv(r)'
           /\ \A q \in Runs \ {r} : /\ pc'[q] = pc[q] /\ posted'[q] = posted[q]
                                    /\ timer'[q] = timer[q]
<1> DEFINE t == posted[r] \o <<"stdout.close", "stderr.close", e>>
<1>1. posted[r] \in Seq(Events)
  BY DEF TypeOK
<1>2. Ordered(posted[r]) /\ Open(posted[r])
  BY DEF RunInv, InFlight, Open
<1>3. t \in Seq(Events) /\ Ordered(t) /\ Ended(t)
  BY <1>1, <1>2, CloseStream
<1>4. pc'[r] = "done" /\ posted'[r] = t /\ timer'[r] = FALSE
  BY DEF EndRun, TypeOK
<1>5. Ordered(posted'[r]) /\ Ended(posted'[r])
  BY <1>3, <1>4
<1>6. RunInv(r)'
  BY <1>4, <1>5 DEF RunInv, Ordered, Ended
<1> QED
  BY <1>6 DEF EndRun, TypeOK

\* Aborting a run that is in flight.
LEMMA AbortPhase ==
    ASSUME TypeOK, NEW r \in Runs, PhaseInv, pc[r] \in InFlight,
           NEW error \in AbortKinds, abortRun(r, error)
    PROVE  PhaseInv'
<1>1. abortError'[r] = error /\ error # "none" /\ executor' = executor
  BY DEF abortRun, AbortKinds, TypeOK
<1>2. \A q \in Runs \ {r} : abortError'[q] = abortError[q]
  BY DEF abortRun, TypeOK
<1>3. RunInv(r)
  BY DEF PhaseInv
<1>4. CASE Raced(r)
  <2>1. EndRun(r, "error", error)
    BY <1>4 DEF abortRun
  <2>2. /\ RunInv(r)'
        /\ \A q \in Runs \ {r} : Same(q)
    BY <2>1, <1>1, <1>2, <1>3, EndRunPhase DEF Same
  <2> QED
    BY <2>2, SameRun DEF PhaseInv
<1>5. CASE ~Raced(r)
  <2>1. pc' = pc /\ posted' = posted /\ timer' = [timer EXCEPT ![r] = @ /\ error # "timeout"]
    BY <1>5 DEF abortRun
  <2>2. pc[r] \in {"exporting", "importing"}
    BY <1>5 DEF Raced, InFlight
  <2>3. RunInv(r)'
    BY <2>1, <2>2, <1>1, <1>3 DEF RunInv, RunnableTypes, InFlight, Ordered, Open
  <2>4. \A q \in Runs \ {r} : Same(q)
    BY <2>1, <1>1, <1>2 DEF Same, TypeOK
  <2> QED
    BY <2>3, <2>4, SameRun DEF PhaseInv
<1> QED
  BY <1>4, <1>5

\* Starting a resolved run.
LEMMA StartPhase ==
    ASSUME TypeOK, NEW r \in Runs, RunInv(r), pc[r] \in {"new", "resolving"},
           NEW type \in RunnableTypes, StartResolved(r, type), UNCHANGED abortError
    PROVE  /\ RunInv(r)'
           /\ \A q \in Runs \ {r} : /\ pc'[q] = pc[q] /\ posted'[q] = posted[q]
                                    /\ executor'[q] = executor[q]
<1>1. posted'[r] = Append(<<>>, "started")
  BY DEF RunInv, StartResolved, TypeOK
<1>2. Ordered(posted'[r]) /\ Open(posted'[r])
  BY <1>1, FirstEvent
<1>3. /\ pc'[r] = IF type = "webc" THEN "exporting" ELSE "executing"
      /\ executor'[r] = IF type = "webc" THEN "idle" ELSE type
      /\ abortError'[r] = "none"
  BY DEF RunInv, StartResolved, TypeOK
<1>4. RunInv(r)'
  BY <1>2, <1>3 DEF RunInv, InFlight, Ordered, Open
<1> QED
  BY <1>4 DEF StartResolved, TypeOK

\* The load that a run waits for settles.
LEMMA ResumePhase ==
    ASSUME TypeOK, PhaseInv, NEW p, NEW pkg, ResumeResolving(p, pkg), UNCHANGED abortError
    PROVE  PhaseInv'
<1>1. CASE activeRun # NoRun /\ pc[activeRun] = "resolving" /\ awaited = p
  <2>0. PICK r \in Runs : r = activeRun
    BY <1>1 DEF TypeOK
  <2>1. RunInv(r) /\ pc[r] = "resolving" /\ pc[r] \in InFlight /\ executor[r] = "idle"
    BY <1>1, <2>0 DEF PhaseInv, RunInv, InFlight
  <2>2. CASE pkg.type \in RunnableTypes
    <3>1. StartResolved(r, pkg.type) /\ UNCHANGED timer
      BY <1>1, <2>0, <2>2 DEF ResumeResolving
    <3>2. /\ RunInv(r)'
          /\ \A q \in Runs \ {r} : Same(q)
      BY <2>1, <2>2, <3>1, StartPhase DEF Same
    <3> QED
      BY <2>1, <3>2, SameRun DEF PhaseInv
  <2>3. CASE pkg.type \notin RunnableTypes
    <3>1. EndRun(r, "error", "failed") /\ UNCHANGED executor
      BY <1>1, <2>0, <2>3 DEF ResumeResolving, Finish
    <3>2. /\ RunInv(r)'
          /\ \A q \in Runs \ {r} : Same(q)
      BY <2>1, <3>1, EndRunPhase DEF Same, RunnableTypes
    <3> QED
      BY <2>1, <3>2, SameRun DEF PhaseInv
  <2> QED
    BY <2>2, <2>3
<1>2. CASE ~(activeRun # NoRun /\ pc[activeRun] = "resolving" /\ awaited = p)
  BY <1>2, SameRun DEF ResumeResolving, runVars, Same, PhaseInv
<1> QED
  BY <1>1, <1>2

\* Every step keeps the phases.
LEMMA PhaseStep ==
    ASSUME TypeOK, PhaseInv, SingleActive, [Next]_vars PROVE PhaseInv'
<1>1. ASSUME NEW r \in Runs, ExportSucceeds(r) PROVE PhaseInv'
  <2>1. RunInv(r) /\ pc[r] = "exporting" /\ executor'[r] = "webc" /\ UNCHANGED abortError
    BY <1>1 DEF PhaseInv, ExportSucceeds, abortVars, TypeOK
  <2>2. \A q \in Runs \ {r} : executor'[q] = executor[q]
    BY <1>1 DEF ExportSucceeds, TypeOK
  <2>3. CASE abortError[r] = "none"
    <3>1. /\ pc' = [pc EXCEPT ![r] = "executing"]
          /\ UNCHANGED <<posted, timer>>
      BY <1>1, <2>3 DEF ExportSucceeds
    <3>2. RunInv(r)'
      BY <2>1, <2>3, <3>1 DEF RunInv, TypeOK, RunnableTypes, InFlight, Ordered, Open
    <3>3. \A q \in Runs \ {r} : Same(q)
      BY <2>1, <2>2, <3>1 DEF Same, TypeOK
    <3> QED
      BY <3>2, <3>3, SameRun DEF PhaseInv
  <2>4. CASE abortError[r] # "none"
    <3>1. EndRun(r, "error", normalizeRunError(r))
      BY <1>1, <2>4 DEF ExportSucceeds, Finish
    <3>2. /\ RunInv(r)'
          /\ \A q \in Runs \ {r} : Same(q)
      BY <2>1, <2>2, <2>4, <3>1, EndRunPhase DEF Same, InFlight
    <3> QED
      BY <3>2, SameRun DEF PhaseInv
  <2> QED
    BY <2>3, <2>4
<1>2. ASSUME NEW r \in Runs, ExportFails(r) PROVE PhaseInv'
  <2>1. RunInv(r) /\ pc[r] \in InFlight \cup {"new"}
    BY <1>2 DEF PhaseInv, ExportFails, InFlight
  <2>2. EndRun(r, "error", normalizeRunError(r))
    BY <1>2 DEF ExportFails, Finish
  <2>3. /\ executor'[r] \notin RunnableTypes
        /\ \A q \in Runs \ {r} : executor'[q] = executor[q]
        /\ abortError' = abortError
    BY <1>2, <2>1 DEF ExportFails, abortVars, RunInv, RunnableTypes, TypeOK
  <2>4. /\ RunInv(r)'
        /\ \A q \in Runs \ {r} : Same(q)
    BY <2>1, <2>2, <2>3, EndRunPhase DEF Same
  <2> QED
    BY <2>4, SameRun DEF PhaseInv
<1>3. ASSUME NEW r \in Runs, NEW stream \in {"stdout", "stderr"}, WriteOutput(r, stream)
      PROVE  PhaseInv'
  <2>1. RunInv(r) /\ executor[r] \in RunnableTypes /\ abortError[r] = "none"
    BY <1>3 DEF WriteOutput, PhaseInv
  <2>2. pc[r] = "executing"
    BY <2>1 DEF RunInv, TypeOK, PcValues, InFlight, RunnableTypes
  <2>3. posted[r] \in Seq(Events) /\ Ordered(posted[r]) /\ Open(posted[r])
    BY <2>1, <2>2 DEF RunInv, TypeOK
  <2>4. posted'[r] = Append(posted[r], stream)
    BY <1>3 DEF WriteOutput, TypeOK
  <2>5. Ordered(posted'[r]) /\ Open(posted'[r])
    BY <2>3, <2>4, AppendOutput
  <2>6. RunInv(r)'
    BY <1>3, <2>1, <2>2, <2>5 DEF RunInv, WriteOutput, abortVars, Ordered, Open, InFlight
  <2>7. \A q \in Runs \ {r} : Same(q)
    BY <1>3 DEF WriteOutput, Same, abortVars, TypeOK
  <2> QED
    BY <2>6, <2>7, SameRun DEF PhaseInv
<1>4. ASSUME NEW r \in Runs, NEW snapshot \in BOOLEAN, ExecutorResolves(r, snapshot)
      PROVE  PhaseInv'
  <2>1. /\ RunInv(r) /\ pc[r] = "executing" /\ executor'[r] = "settled"
        /\ UNCHANGED abortError
        /\ \A q \in Runs \ {r} : executor'[q] = executor[q]
    BY <1>4 DEF PhaseInv, ExecutorResolves, abortVars, TypeOK
  <2>2. CASE snapshot /\ executor[r] = "webc"
    <3>1. /\ pc' = [pc EXCEPT ![r] = "importing"]
          /\ UNCHANGED <<posted, timer>>
      BY <1>4, <2>2 DEF ExecutorResolves
    <3>2. RunInv(r)'
      BY <2>1, <3>1 DEF RunInv, TypeOK, InFlight, Ordered, Open
    <3>3. \A q \in Runs \ {r} : Same(q)
      BY <2>1, <3>1 DEF Same, TypeOK
    <3> QED
      BY <3>2, <3>3, SameRun DEF PhaseInv
  <2>3. CASE ~(snapshot /\ executor[r] = "webc")
    <3>1. EndRun(r, "complete", "complete")
      BY <1>4, <2>3 DEF ExecutorResolves, Finish
    <3>2. /\ RunInv(r)'
          /\ \A q \in Runs \ {r} : Same(q)
      BY <2>1, <3>1, EndRunPhase DEF Same, InFlight, RunnableTypes
    <3> QED
      BY <3>2, SameRun DEF PhaseInv
  <2> QED
    BY <2>2, <2>3
<1>5. ASSUME NEW r \in Runs, ExecutorRejects(r) PROVE PhaseInv'
  <2>1. RunInv(r) /\ pc[r] \in InFlight \cup {"new"}
    BY <1>5 DEF PhaseInv, ExecutorRejects, InFlight
  <2>2. EndRun(r, "error", normalizeRunError(r))
    BY <1>5 DEF ExecutorRejects, Finish
  <2>3. /\ executor'[r] \notin RunnableTypes
        /\ \A q \in Runs \ {r} : executor'[q] = executor[q]
        /\ abortError' = abortError
    BY <1>5, <2>1 DEF ExecutorRejects, abortVars, RunInv, RunnableTypes, TypeOK
  <2>4. /\ RunInv(r)'
        /\ \A q \in Runs \ {r} : Same(q)
    BY <2>1, <2>2, <2>3, EndRunPhase DEF Same
  <2> QED
    BY <2>4, SameRun DEF PhaseInv
<1>6. ASSUME NEW r \in Runs, ExecutorSettlesLate(r) PROVE PhaseInv'
  <2>1. RunInv(r)
    BY DEF PhaseInv
  <2>2. RunInv(r)'
    BY <1>6, <2>1 DEF RunInv, ExecutorSettlesLate, abortVars, TypeOK, RunnableTypes,
       InFlight, Ordered, Ended
  <2>3. \A q \in Runs \ {r} : Same(q)
    BY <1>6 DEF ExecutorSettlesLate, Same, abortVars, TypeOK
  <2> QED
    BY <2>2, <2>3, SameRun DEF PhaseInv
<1>7. ASSUME NEW r \in Runs, ImportSucceeds(r) PROVE PhaseInv'
  <2>1. RunInv(r) /\ pc[r] \in InFlight \cup {"new"}
    BY <1>7 DEF PhaseInv, ImportSucceeds, InFlight
  <2>2. EndRun(r, "complete", "complete")
    BY <1>7 DEF ImportSucceeds, Finish
  <2>3. /\ executor'[r] \notin RunnableTypes
        /\ \A q \in Runs \ {r} : executor'[q] = executor[q]
        /\ abortError' = abortError
    BY <1>7, <2>1 DEF ImportSucceeds, abortVars, RunInv, RunnableTypes, TypeOK
  <2>4. /\ RunInv(r)'
        /\ \A q \in Runs \ {r} : Same(q)
    BY <2>1, <2>2, <2>3, EndRunPhase DEF Same
  <2> QED
    BY <2>4, SameRun DEF PhaseInv
<1>8. ASSUME NEW r \in Runs, ImportFails(r) PROVE PhaseInv'
  <2>1. RunInv(r) /\ pc[r] \in InFlight \cup {"new"}
    BY <1>8 DEF PhaseInv, ImportFails, InFlight
  <2>2. EndRun(r, "error", normalizeRunError(r))
    BY <1>8 DEF ImportFails, Finish
  <2>3. /\ executor'[r] \notin RunnableTypes
        /\ \A q \in Runs \ {r} : executor'[q] = executor[q]
        /\ abortError' = abortError
    BY <1>8, <2>1 DEF ImportFails, abortVars, RunInv, RunnableTypes, TypeOK
  <2>4. /\ RunInv(r)'
        /\ \A q \in Runs \ {r} : Same(q)
    BY <2>1, <2>2, <2>3, EndRunPhase DEF Same
  <2> QED
    BY <2>4, SameRun DEF PhaseInv
<1>9. ASSUME NEW r \in Runs, TimerFires(r) PROVE PhaseInv'
  <2>1. pc[r] \in InFlight
    BY <1>9, NoRunAssumption DEF TimerFires, SingleActive, PhaseInv, RunInv
  <2>2. "timeout" \in AbortKinds /\ abortRun(r, "timeout")
    BY <1>9 DEF TimerFires, AbortKinds
  <2> QED
    BY <2>1, <2>2, AbortPhase
<1>10. ASSUME NEW r \in Runs, NEW malformed \in BOOLEAN, RunRejected(r, malformed)
       PROVE  PhaseInv'
  <2>1. RunInv(r)
    BY DEF PhaseInv
  <2>2. RunInv(r)'
    BY <1>10, <2>1 DEF RunInv, RunRejected, abortVars, TypeOK, InFlight, Ordered
  <2>3. \A q \in Runs \ {r} : Same(q)
    BY <1>10 DEF RunRejected, Same, abortVars, TypeOK
  <2> QED
    BY <2>2, <2>3, SameRun DEF PhaseInv
<1>11. ASSUME NEW r \in Runs, NEW p \in Packages, NEW stdinOpen \in BOOLEAN, NEW timed \in
              BOOLEAN, RunWaitsForLoad(r, p, stdinOpen, timed)
       PROVE  PhaseInv'
  <2>1. RunInv(r)
    BY DEF PhaseInv
  <2>2. RunInv(r)'
    BY <1>11, <2>1 DEF RunInv, RunWaitsForLoad, AcceptRun, TypeOK, InFlight, Ordered
  <2>3. \A q \in Runs \ {r} : Same(q)
    BY <1>11 DEF RunWaitsForLoad, Same, TypeOK
  <2> QED
    BY <2>2, <2>3, SameRun DEF PhaseInv
<1>12. ASSUME NEW r \in Runs, NEW p \in Packages \cup {NoPackage}, NEW c \in Commands, NEW
              stdinOpen \in BOOLEAN, RunFailsStartup(r, p, c, stdinOpen)
       PROVE  PhaseInv'
  <2>1. RunInv(r) /\ pc[r] \in InFlight \cup {"new"}
    BY <1>12 DEF PhaseInv, RunFailsStartup, InFlight, AcceptRun
  <2>2. EndRun(r, "error", "failed")
    BY <1>12 DEF RunFailsStartup, Finish
  <2>3. /\ executor'[r] \notin RunnableTypes
        /\ \A q \in Runs \ {r} : executor'[q] = executor[q]
        /\ abortError' = abortError
    BY <1>12, <2>1 DEF RunFailsStartup, abortVars, RunInv, RunnableTypes, TypeOK, AcceptRun
  <2>4. /\ RunInv(r)'
        /\ \A q \in Runs \ {r} : Same(q)
    BY <2>1, <2>2, <2>3, EndRunPhase DEF Same
  <2> QED
    BY <2>4, SameRun DEF PhaseInv
<1>13. ASSUME NEW r \in Runs, NEW p \in Packages \cup {NoPackage}, NEW c \in Commands, NEW
              stdinOpen \in BOOLEAN, NEW timed \in BOOLEAN, RunStarts(r, p, c, stdinOpen,
              timed)
       PROVE  PhaseInv'
  <2>1. /\ RunInv(r) /\ pc[r] = "new" /\ UNCHANGED abortError
        /\ \A q \in Runs \ {r} : timer'[q] = timer[q]
    BY <1>13 DEF PhaseInv, RunStarts, AcceptRun, TypeOK
  <2>2. PICK type \in RunnableTypes : StartResolved(r, type)
    BY <1>13 DEF RunStarts
  <2>3. /\ RunInv(r)'
        /\ \A q \in Runs \ {r} : Same(q)
    BY <2>1, <2>2, StartPhase DEF Same
  <2> QED
    BY <2>3, SameRun DEF PhaseInv
<1>14. ASSUME NEW r \in Runs, Cancel(r) PROVE PhaseInv'
  <2>1. pc[r] \in InFlight
    BY <1>14, NoRunAssumption DEF Cancel, SingleActive, PhaseInv, RunInv
  <2>2. "cancelled" \in AbortKinds /\ abortRun(r, "cancelled")
    BY <1>14 DEF Cancel, AbortKinds
  <2> QED
    BY <2>1, <2>2, AbortPhase
<1>15. ASSUME NEW r \in Runs, NEW malformed \in BOOLEAN, HandleStdinChunk(r, malformed)
       PROVE  PhaseInv'
  <2>1. pc[r] \in InFlight
    BY <1>15, NoRunAssumption DEF HandleStdinChunk, SingleActive
  <2>2. PICK error \in StdinFaults(r, malformed) : abortRun(r, error)
    BY <1>15 DEF HandleStdinChunk
  <2>3. error \in AbortKinds
    BY DEF StdinFaults, AbortKinds
  <2> QED
    BY <2>1, <2>2, <2>3, AbortPhase
<1>16. ASSUME NEW r \in Runs, HandleStdinEnd(r) PROVE PhaseInv'
  BY <1>16, SameRun DEF HandleStdinEnd, packageVars, workerVars, runVars, abortVars,
     storeVars, Same, PhaseInv
<1>17. ASSUME NEW r \in Runs, HandleStdinError(r) PROVE PhaseInv'
  <2>1. pc[r] \in InFlight
    BY <1>17, NoRunAssumption DEF HandleStdinError, SingleActive, PhaseInv, RunInv
  <2>2. "stdio" \in AbortKinds /\ abortRun(r, "stdio")
    BY <1>17 DEF HandleStdinError, AbortKinds
  <2> QED
    BY <2>1, <2>2, AbortPhase
<1>18. ASSUME NEW p \in Packages, LoadPackage(p) PROVE PhaseInv'
  BY <1>18, SameRun DEF LoadPackage, packageVars, workerVars, runVars, abortVars,
     storeVars, Same, PhaseInv
<1>19. ASSUME NEW p \in Packages, LoadFails(p) PROVE PhaseInv'
  BY <1>19, ResumePhase DEF LoadFails, abortVars
<1>20. ASSUME NEW p \in Packages, NEW record \in Loadable, LoadSucceeds(p, record)
       PROVE  PhaseInv'
  BY <1>20, ResumePhase DEF LoadSucceeds, abortVars
<1>21. ASSUME Start PROVE PhaseInv'
  BY <1>21, SameRun DEF Start, packageVars, workerVars, runVars, abortVars, storeVars,
     Same, PhaseInv
<1>22. ASSUME Stop PROVE PhaseInv'
  <2>1. CASE activeRun = NoRun
    BY <1>22, <2>1, SameRun DEF Stop, runVars, Same, PhaseInv
  <2>2. CASE activeRun # NoRun
    <3>1. activeRun \in Runs /\ pc[activeRun] \in InFlight
      BY <2>2 DEF TypeOK, SingleActive
    <3>2. "cancelled" \in AbortKinds /\ abortRun(activeRun, "cancelled")
      BY <1>22, <2>2 DEF Stop, AbortKinds
    <3> QED
      BY <3>1, <3>2, AbortPhase
  <2> QED
    BY <2>1, <2>2
<1>23. ASSUME UNCHANGED vars PROVE PhaseInv'
  BY <1>23, SameRun DEF vars, packageVars, workerVars, runVars, abortVars, storeVars, Same, PhaseInv
<1> QED
  BY <1>1, <1>2, <1>3, <1>4, <1>5, <1>6, <1>7, <1>8, <1>9, <1>10, <1>11, <1>12,
     <1>13, <1>14, <1>15, <1>16, <1>17, <1>18, <1>19, <1>20, <1>21, <1>22, <1>23 DEF Next,
     RunStep, RunMessage, PackageStep

-----------------------------------------------------------------------------
(* Ownership of the worker *)

\* A run ends and gives the worker up if it owns it; a load that only this run
\* can have waited for may end with it.
LEMMA EndExclusion ==
    ASSUME TypeOK, SingleActive, Exclusion, NoOrphanWaiter, NEW r \in Runs,
           pc' = [pc EXCEPT ![r] = "done"],
           activeRun' = IF activeRun = r THEN NoRun ELSE activeRun,
           \A q \in Runs \ {r} : abortError'[q] = abortError[q],
           \/ packageLoads' = packageLoads
           \/ pc[r] = "resolving",
           UNCHANGED <<listening, restarts, awaited>>
    PROVE  SingleActive' /\ Exclusion' /\ NoOrphanWaiter'
<1>1. \A q \in Runs : pc'[q] = IF q = r THEN "done" ELSE pc[q]
  BY DEF TypeOK
<1>2. SingleActive'
  BY <1>1, NoRunAssumption DEF SingleActive, InFlight, TypeOK
<1>3. Exclusion'
  BY <1>1, NoRunAssumption DEF Exclusion, SingleActive, InFlight
<1>4. NoOrphanWaiter'
  BY <1>1 DEF NoOrphanWaiter, Exclusion
<1> QED
  BY <1>2, <1>3, <1>4

\* abortRun, followed by the release of the worker if that ends the run.
LEMMA AbortExclusion ==
    ASSUME TypeOK, SingleActive, Exclusion, NoOrphanWaiter, NEW r \in Runs,
           pc[r] \in InFlight, NEW error \in AbortKinds, abortRun(r, error),
           ReleaseIfEnded(r), UNCHANGED <<listening, restarts, packageLoads>>
    PROVE  SingleActive' /\ Exclusion' /\ NoOrphanWaiter'
<1>1. /\ abortError'[r] # "none"
      /\ \A q \in Runs \ {r} : abortError'[q] = abortError[q]
      /\ awaited' = awaited
  BY DEF abortRun, TypeOK, AbortKinds
<1>2. CASE Raced(r)
  BY <1>1, <1>2, EndExclusion DEF abortRun, EndRun, ReleaseIfEnded
<1>3. CASE ~Raced(r)
  <2>1. pc' = pc /\ activeRun' = activeRun
    BY <1>3 DEF abortRun, ReleaseIfEnded
  <2> QED
    BY <1>1, <2>1 DEF SingleActive, Exclusion, NoOrphanWaiter
<1> QED
  BY <1>2, <1>3

\* The load of p settles and is forgotten.
LEMMA ResumeExclusion ==
    ASSUME TypeOK, SingleActive, Exclusion, NoOrphanWaiter, NEW p, NEW pkg,
           ResumeResolving(p, pkg), packageLoads' = packageLoads \ {p},
           UNCHANGED <<listening, restarts, abortError>>
    PROVE  SingleActive' /\ Exclusion' /\ NoOrphanWaiter'
<1>1. CASE activeRun # NoRun /\ pc[activeRun] = "resolving" /\ awaited = p
  <2>1. PICK r \in Runs : r = activeRun
    BY <1>1 DEF TypeOK
  <2>2. CASE pkg.type \in RunnableTypes
    <3>1. /\ activeRun' = activeRun /\ awaited' = awaited
          /\ \A q \in Runs : q # r => pc'[q] = pc[q]
          /\ pc'[r] \in {"exporting", "executing"}
      BY <1>1, <2>1, <2>2 DEF ResumeResolving, StartResolved, TypeOK
    <3>2. SingleActive'
      BY <2>1, <3>1 DEF SingleActive, InFlight
    <3>3. Exclusion'
      BY <2>1, <3>1, <1>1 DEF Exclusion, InFlight
    <3>4. NoOrphanWaiter'
      BY <1>1, <2>1, <3>1 DEF NoOrphanWaiter, Exclusion
    <3> QED
      BY <3>2, <3>3, <3>4
  <2>3. CASE pkg.type \notin RunnableTypes
    <3>1. Finish(r, "error", "failed") /\ awaited' = awaited
      BY <1>1, <2>1, <2>3 DEF ResumeResolving
    <3> QED
      BY <1>1, <2>1, <3>1, EndExclusion DEF Finish, EndRun, Release
  <2> QED
    BY <2>2, <2>3
<1>2. CASE ~(activeRun # NoRun /\ pc[activeRun] = "resolving" /\ awaited = p)
  BY <1>2, NoRunAssumption
  DEF ResumeResolving, runVars, TypeOK, SingleActive, Exclusion, NoOrphanWaiter
<1> QED
  BY <1>1, <1>2

\* Every step keeps the worker with its one owner, and keeps a waiting run's
\* load pending.
LEMMA ExclusionStep ==
    ASSUME TypeOK, PhaseInv, SingleActive, Exclusion, NoOrphanWaiter, [Next]_vars
    PROVE  SingleActive' /\ Exclusion' /\ NoOrphanWaiter'
<1>1. ASSUME NEW r \in Runs, ExportSucceeds(r)
      PROVE  SingleActive' /\ Exclusion' /\ NoOrphanWaiter'
  <2>1. CASE abortError[r] = "none"
    BY <1>1, <2>1 DEF ExportSucceeds, TypeOK, SingleActive, Exclusion, NoOrphanWaiter,
       InFlight,
       packageVars, abortVars
  <2>2. CASE abortError[r] # "none"
    BY <1>1, <2>2, EndExclusion DEF ExportSucceeds, Finish, EndRun, Release, packageVars,
       abortVars
  <2> QED
    BY <2>1, <2>2
<1>2. ASSUME NEW r \in Runs, ExportFails(r)
      PROVE  SingleActive' /\ Exclusion' /\ NoOrphanWaiter'
  BY <1>2, EndExclusion DEF ExportFails, Finish, EndRun, Release, packageVars, abortVars
<1>3. ASSUME NEW r \in Runs, NEW stream \in {"stdout", "stderr"}, WriteOutput(r, stream)
      PROVE  SingleActive' /\ Exclusion' /\ NoOrphanWaiter'
  BY <1>3, NoRunAssumption DEF WriteOutput, packageVars, workerVars, abortVars, storeVars,
     TypeOK, SingleActive, Exclusion, NoOrphanWaiter, InFlight
<1>4. ASSUME NEW r \in Runs, NEW snapshot \in BOOLEAN, ExecutorResolves(r, snapshot)
      PROVE  SingleActive' /\ Exclusion' /\ NoOrphanWaiter'
  <2>1. CASE snapshot /\ executor[r] = "webc"
    <3>1. /\ pc[r] = "executing" /\ pc' = [pc EXCEPT ![r] = "importing"]
          /\ UNCHANGED <<activeRun, abortError, awaited, listening, restarts, packageLoads>>
      BY <1>4, <2>1 DEF ExecutorResolves, packageVars, abortVars
    <3> QED
      BY <3>1 DEF TypeOK, SingleActive, Exclusion, NoOrphanWaiter, InFlight
  <2>2. CASE ~(snapshot /\ executor[r] = "webc")
    BY <1>4, <2>2, EndExclusion DEF ExecutorResolves, Finish, EndRun, Release,
       packageVars, abortVars
  <2> QED
    BY <2>1, <2>2
<1>5. ASSUME NEW r \in Runs, ExecutorRejects(r)
      PROVE  SingleActive' /\ Exclusion' /\ NoOrphanWaiter'
  BY <1>5, EndExclusion DEF ExecutorRejects, Finish, EndRun, Release, packageVars, abortVars
<1>6. ASSUME NEW r \in Runs, ExecutorSettlesLate(r)
      PROVE  SingleActive' /\ Exclusion' /\ NoOrphanWaiter'
  BY <1>6, NoRunAssumption DEF ExecutorSettlesLate, packageVars, workerVars, abortVars,
     storeVars, TypeOK, SingleActive, Exclusion, NoOrphanWaiter, InFlight
<1>7. ASSUME NEW r \in Runs, ImportSucceeds(r)
      PROVE  SingleActive' /\ Exclusion' /\ NoOrphanWaiter'
  BY <1>7, EndExclusion DEF ImportSucceeds, Finish, EndRun, Release, packageVars, abortVars
<1>8. ASSUME NEW r \in Runs, ImportFails(r) PROVE SingleActive' /\ Exclusion' /\ NoOrphanWaiter'
  BY <1>8, EndExclusion DEF ImportFails, Finish, EndRun, Release, packageVars, abortVars
<1>9. ASSUME NEW r \in Runs, TimerFires(r)
       PROVE  SingleActive' /\ Exclusion' /\ NoOrphanWaiter'
  <2>1. pc[r] \in InFlight /\ "timeout" \in AbortKinds
    BY <1>9, NoRunAssumption DEF TimerFires, SingleActive, PhaseInv, RunInv, AbortKinds
  <2> QED
    BY <1>9, <2>1, AbortExclusion DEF TimerFires, packageVars
<1>10. ASSUME NEW r \in Runs, NEW malformed \in BOOLEAN, RunRejected(r, malformed)
       PROVE  SingleActive' /\ Exclusion' /\ NoOrphanWaiter'
  BY <1>10, NoRunAssumption DEF RunRejected, packageVars, workerVars, abortVars,
     storeVars, TypeOK, SingleActive, Exclusion, NoOrphanWaiter, InFlight
<1>11. ASSUME NEW r \in Runs, NEW p \in Packages, NEW stdinOpen \in BOOLEAN, NEW timed \in
              BOOLEAN, RunWaitsForLoad(r, p, stdinOpen, timed)
       PROVE  SingleActive' /\ Exclusion' /\ NoOrphanWaiter'
  BY <1>11, NoRunAssumption DEF RunWaitsForLoad, AcceptRun, packageVars, storeVars,
     TypeOK, SingleActive, Exclusion, NoOrphanWaiter, InFlight, PhaseInv, RunInv
<1>12. ASSUME NEW r \in Runs, NEW p \in Packages \cup {NoPackage}, NEW c \in Commands, NEW
              stdinOpen \in BOOLEAN, RunFailsStartup(r, p, c, stdinOpen)
       PROVE  SingleActive' /\ Exclusion' /\ NoOrphanWaiter'
  BY <1>12, EndExclusion DEF RunFailsStartup, Finish, EndRun, Release, packageVars
<1>13. ASSUME NEW r \in Runs, NEW p \in Packages \cup {NoPackage}, NEW c \in Commands, NEW
              stdinOpen \in BOOLEAN, NEW timed \in BOOLEAN, RunStarts(r, p, c, stdinOpen,
              timed)
       PROVE  SingleActive' /\ Exclusion' /\ NoOrphanWaiter'
  BY <1>13, NoRunAssumption DEF RunStarts, AcceptRun, StartResolved, packageVars,
     storeVars, TypeOK, SingleActive, Exclusion, NoOrphanWaiter, InFlight, PhaseInv,
     RunInv
<1>14. ASSUME NEW r \in Runs, Cancel(r) PROVE SingleActive' /\ Exclusion' /\ NoOrphanWaiter'
  <2>1. pc[r] \in InFlight /\ "cancelled" \in AbortKinds
    BY <1>14, NoRunAssumption DEF Cancel, SingleActive, PhaseInv, RunInv, AbortKinds
  <2> QED
    BY <1>14, <2>1, AbortExclusion DEF Cancel, packageVars
<1>15. ASSUME NEW r \in Runs, NEW malformed \in BOOLEAN, HandleStdinChunk(r, malformed)
       PROVE  SingleActive' /\ Exclusion' /\ NoOrphanWaiter'
  <2>1. PICK error \in StdinFaults(r, malformed) : abortRun(r, error)
    BY <1>15 DEF HandleStdinChunk
  <2>2. error \in AbortKinds
    BY DEF StdinFaults, AbortKinds
  <2>3. pc[r] \in InFlight
    BY <1>15, NoRunAssumption DEF HandleStdinChunk, SingleActive
  <2> QED
    BY <1>15, <2>1, <2>2, <2>3, AbortExclusion DEF HandleStdinChunk, packageVars
<1>16. ASSUME NEW r \in Runs, HandleStdinEnd(r)
       PROVE  SingleActive' /\ Exclusion' /\ NoOrphanWaiter'
  BY <1>16, NoRunAssumption DEF HandleStdinEnd, packageVars, workerVars, runVars,
     storeVars, TypeOK, SingleActive, Exclusion, NoOrphanWaiter, InFlight
<1>17. ASSUME NEW r \in Runs, HandleStdinError(r)
       PROVE  SingleActive' /\ Exclusion' /\ NoOrphanWaiter'
  <2>1. pc[r] \in InFlight /\ "stdio" \in AbortKinds
    BY <1>17, NoRunAssumption DEF HandleStdinError, SingleActive, PhaseInv, RunInv,
       AbortKinds
  <2> QED
    BY <1>17, <2>1, AbortExclusion DEF HandleStdinError, packageVars
<1>18. ASSUME NEW p \in Packages, LoadPackage(p)
       PROVE  SingleActive' /\ Exclusion' /\ NoOrphanWaiter'
  BY <1>18, NoRunAssumption DEF LoadPackage, workerVars, runVars, abortVars, storeVars,
     TypeOK, SingleActive, Exclusion, NoOrphanWaiter, InFlight
<1>19. ASSUME NEW p \in Packages, LoadFails(p)
       PROVE  SingleActive' /\ Exclusion' /\ NoOrphanWaiter'
  BY <1>19, ResumeExclusion DEF LoadFails, abortVars
<1>20. ASSUME NEW p \in Packages, NEW record \in Loadable, LoadSucceeds(p, record)
       PROVE  SingleActive' /\ Exclusion' /\ NoOrphanWaiter'
  BY <1>20, ResumeExclusion DEF LoadSucceeds, abortVars
<1>21. ASSUME Start PROVE SingleActive' /\ Exclusion' /\ NoOrphanWaiter'
  BY <1>21, NoRunAssumption DEF Start, packageVars, runVars, abortVars, storeVars, TypeOK,
     SingleActive, Exclusion, NoOrphanWaiter, InFlight
<1>22. ASSUME Stop PROVE SingleActive' /\ Exclusion' /\ NoOrphanWaiter'
  <2>1. CASE activeRun = NoRun
    BY <1>22, <2>1 DEF Stop, runVars, packageVars, SingleActive, Exclusion,
       NoOrphanWaiter, TypeOK
  <2>2. CASE activeRun # NoRun
    <3>1. PICK r \in Runs : r = activeRun
      BY <2>2 DEF TypeOK
    <3>2. abortRun(r, "cancelled") /\ activeRun' = NoRun /\ ~listening' /\ UNCHANGED
       <<restarts, packageLoads>>
      BY <1>22, <2>2, <3>1 DEF Stop, packageVars
    <3>3. \A q \in Runs \ {r} : pc'[q] = pc[q] /\ abortError'[q] = abortError[q]
      BY <3>2 DEF abortRun, EndRun, TypeOK
    <3>4. pc'[r] # "resolving" /\ abortError'[r] = "cancelled"
      BY <3>2 DEF abortRun, EndRun, Raced, TypeOK
    <3>5. \A q \in Runs : pc'[q] # "resolving"
      BY <3>1, <3>3, <3>4 DEF Exclusion
    <3> QED
      BY <3>1, <3>2, <3>3, <3>4, <3>5
      DEF SingleActive, Exclusion, NoOrphanWaiter
  <2> QED
    BY <2>1, <2>2
<1>23. ASSUME UNCHANGED vars PROVE SingleActive' /\ Exclusion' /\ NoOrphanWaiter'
  BY <1>23 DEF vars, packageVars, workerVars, runVars, abortVars, storeVars, TypeOK,
     SingleActive, Exclusion, NoOrphanWaiter, InFlight
<1> QED
  BY <1>1, <1>2, <1>3, <1>4, <1>5, <1>6, <1>7, <1>8, <1>9, <1>10, <1>11, <1>12,
     <1>13, <1>14, <1>15, <1>16, <1>17, <1>18, <1>19, <1>20, <1>21, <1>22, <1>23 DEF Next,
     RunStep, RunMessage, PackageStep

-----------------------------------------------------------------------------
(* The workspace *)

\* A step that imports nothing and starts no WebC executor.
Quiet ==
    /\ UNCHANGED storeVars
    /\ \A q \in Runs :
           pc'[q] = "executing" /\ executor'[q] = "webc" =>
               pc[q] = "executing" /\ executor[q] = "webc"

LEMMA QuietStore ==
    ASSUME NoLostUpdate, Quiet PROVE NoLostUpdate'
BY DEF NoLostUpdate, Quiet, storeVars

LEMMA ResumeQuiet ==
    ASSUME TypeOK, NEW p, NEW pkg, ResumeResolving(p, pkg), UNCHANGED storeVars
    PROVE  Quiet
<1>1. CASE activeRun # NoRun /\ pc[activeRun] = "resolving" /\ awaited = p
  <2>1. PICK r \in Runs : r = activeRun
    BY <1>1 DEF TypeOK
  <2>2. CASE pkg.type \in RunnableTypes
    BY <1>1, <2>1, <2>2 DEF ResumeResolving, StartResolved, Quiet, storeVars, TypeOK
  <2>3. CASE pkg.type \notin RunnableTypes
    BY <1>1, <2>1, <2>3 DEF ResumeResolving, Finish, EndRun, Quiet, storeVars, TypeOK
  <2> QED
    BY <2>2, <2>3
<1>2. CASE ~(activeRun # NoRun /\ pc[activeRun] = "resolving" /\ awaited = p)
  BY <1>2 DEF ResumeResolving, runVars, Quiet, storeVars
<1> QED
  BY <1>1, <1>2

\* Every step keeps a run's snapshot current until the run imports its result.
LEMMA StoreStep ==
    ASSUME TypeOK, PhaseInv, SingleActive, NoLostUpdate, [Next]_vars PROVE NoLostUpdate'
<1>1. ASSUME NEW r \in Runs, ExportSucceeds(r) PROVE NoLostUpdate'
  <2>1. /\ base'[r] = store /\ store' = store
        /\ \A q \in Runs \ {r} : base'[q] = base[q] /\ pc'[q] = pc[q] /\ executor'[q] =
           executor[q]
    BY <1>1 DEF ExportSucceeds, Finish, EndRun, TypeOK
  <2> QED
    BY <2>1 DEF NoLostUpdate
<1>2. ASSUME NEW r \in Runs, ExportFails(r) PROVE NoLostUpdate'
  BY <1>2, QuietStore DEF ExportFails, Quiet, Finish, EndRun, storeVars, TypeOK,
     RunnableTypes
<1>3. ASSUME NEW r \in Runs, NEW stream \in {"stdout", "stderr"}, WriteOutput(r, stream)
      PROVE  NoLostUpdate'
  BY <1>3, QuietStore DEF WriteOutput, Quiet, workerVars, storeVars
<1>4. ASSUME NEW r \in Runs, NEW snapshot \in BOOLEAN, ExecutorResolves(r, snapshot)
      PROVE  NoLostUpdate'
  <2>1. /\ pc[r] = "executing" /\ executor'[r] = "settled" /\ base' = base
        /\ \A q \in Runs \ {r} : pc'[q] = pc[q] /\ executor'[q] = executor[q]
    BY <1>4 DEF ExecutorResolves, Finish, EndRun, TypeOK
  <2>2. \A q \in Runs \ {r} : pc[q] # "executing"
    BY <2>1 DEF PhaseInv, RunInv, SingleActive, InFlight
  <2> QED
    BY <2>1, <2>2 DEF NoLostUpdate
<1>5. ASSUME NEW r \in Runs, ExecutorRejects(r) PROVE NoLostUpdate'
  BY <1>5, QuietStore DEF ExecutorRejects, Quiet, Finish, EndRun, storeVars, TypeOK,
     RunnableTypes
<1>6. ASSUME NEW r \in Runs, ExecutorSettlesLate(r) PROVE NoLostUpdate'
  BY <1>6, QuietStore DEF ExecutorSettlesLate, Quiet, workerVars, storeVars, TypeOK
<1>7. ASSUME NEW r \in Runs, ImportSucceeds(r) PROVE NoLostUpdate'
  BY <1>7, QuietStore DEF ImportSucceeds, Quiet, Finish, EndRun, storeVars, TypeOK
<1>8. ASSUME NEW r \in Runs, ImportFails(r) PROVE NoLostUpdate'
  BY <1>8, QuietStore DEF ImportFails, Quiet, Finish, EndRun, storeVars, TypeOK
<1>9. ASSUME NEW r \in Runs, TimerFires(r) PROVE NoLostUpdate'
  BY <1>9, QuietStore DEF TimerFires, Quiet, abortRun, EndRun, storeVars, TypeOK
<1>10. ASSUME NEW r \in Runs, NEW malformed \in BOOLEAN, RunRejected(r, malformed)
       PROVE  NoLostUpdate'
  BY <1>10, QuietStore DEF RunRejected, Quiet, workerVars, storeVars, TypeOK
<1>11. ASSUME NEW r \in Runs, NEW p \in Packages, NEW stdinOpen \in BOOLEAN, NEW timed \in
              BOOLEAN, RunWaitsForLoad(r, p, stdinOpen, timed)
       PROVE  NoLostUpdate'
  BY <1>11, QuietStore DEF RunWaitsForLoad, Quiet, storeVars, TypeOK
<1>12. ASSUME NEW r \in Runs, NEW p \in Packages \cup {NoPackage}, NEW c \in Commands, NEW
              stdinOpen \in BOOLEAN, RunFailsStartup(r, p, c, stdinOpen)
       PROVE  NoLostUpdate'
  BY <1>12, QuietStore DEF RunFailsStartup, Quiet, Finish, EndRun, storeVars, TypeOK,
     RunnableTypes, AcceptRun
<1>13. ASSUME NEW r \in Runs, NEW p \in Packages \cup {NoPackage}, NEW c \in Commands, NEW
              stdinOpen \in BOOLEAN, NEW timed \in BOOLEAN, RunStarts(r, p, c, stdinOpen,
              timed)
       PROVE  NoLostUpdate'
  BY <1>13, QuietStore DEF RunStarts, StartResolved, Quiet, storeVars, TypeOK
<1>14. ASSUME NEW r \in Runs, Cancel(r) PROVE NoLostUpdate'
  BY <1>14, QuietStore DEF Cancel, Quiet, abortRun, EndRun, storeVars, TypeOK
<1>15. ASSUME NEW r \in Runs, NEW malformed \in BOOLEAN, HandleStdinChunk(r, malformed)
       PROVE  NoLostUpdate'
  BY <1>15, QuietStore DEF HandleStdinChunk, Quiet, abortRun, EndRun, storeVars, TypeOK
<1>16. ASSUME NEW r \in Runs, HandleStdinEnd(r) PROVE NoLostUpdate'
  BY <1>16, QuietStore DEF HandleStdinEnd, Quiet, workerVars, runVars, storeVars
<1>17. ASSUME NEW r \in Runs, HandleStdinError(r) PROVE NoLostUpdate'
  BY <1>17, QuietStore DEF HandleStdinError, Quiet, abortRun, EndRun, storeVars, TypeOK
<1>18. ASSUME NEW p \in Packages, LoadPackage(p) PROVE NoLostUpdate'
  BY <1>18, QuietStore DEF LoadPackage, Quiet, workerVars, runVars, storeVars
<1>19. ASSUME NEW p \in Packages, LoadFails(p) PROVE NoLostUpdate'
  BY <1>19, ResumeQuiet, QuietStore DEF LoadFails
<1>20. ASSUME NEW p \in Packages, NEW record \in Loadable, LoadSucceeds(p, record)
       PROVE  NoLostUpdate'
  BY <1>20, ResumeQuiet, QuietStore DEF LoadSucceeds
<1>21. ASSUME Start PROVE NoLostUpdate'
  BY <1>21, QuietStore DEF Start, Quiet, runVars
<1>22. ASSUME Stop PROVE NoLostUpdate'
  <2>1. CASE activeRun = NoRun
    BY <1>22, <2>1, QuietStore DEF Stop, Quiet, runVars, storeVars
  <2>2. CASE activeRun # NoRun
    <3>1. PICK r \in Runs : r = activeRun
      BY <2>2 DEF TypeOK
    <3>2. abortRun(r, "cancelled") /\ UNCHANGED storeVars
      BY <1>22, <2>2, <3>1 DEF Stop, storeVars
    <3> QED
      BY <3>2, QuietStore DEF Quiet, abortRun, EndRun, TypeOK
  <2> QED
    BY <2>1, <2>2
<1>23. ASSUME UNCHANGED vars PROVE NoLostUpdate'
  BY <1>23 DEF vars, packageVars, workerVars, runVars, abortVars, storeVars, NoLostUpdate
<1> QED
  BY <1>1, <1>2, <1>3, <1>4, <1>5, <1>6, <1>7, <1>8, <1>9, <1>10, <1>11, <1>12,
     <1>13, <1>14, <1>15, <1>16, <1>17, <1>18, <1>19, <1>20, <1>21, <1>22, <1>23 DEF Next,
     RunStep, RunMessage, PackageStep

-----------------------------------------------------------------------------
(* The catalog *)

\* Only a load that succeeds touches the packages and the catalog.
LEMMA CatalogStep ==
    ASSUME TypeOK, CatalogMatchesPackages, [Next]_vars PROVE CatalogMatchesPackages'
<1>1. ASSUME UNCHANGED <<packages, catalog>> PROVE CatalogMatchesPackages'
  BY <1>1 DEF CatalogMatchesPackages
<1>2. ASSUME NEW p \in Packages, NEW record \in Loadable, LoadSucceeds(p, record)
      PROVE  CatalogMatchesPackages'
  <2> DEFINE added == [packages EXCEPT ![p] = record]
  <2>1. registerPackage(p, record)
    BY <1>2 DEF LoadSucceeds
  <2>2. CASE Collides(added)
    BY <2>1, <2>2, <1>1 DEF registerPackage
  <2>3. CASE ~Collides(added)
    <3>1. packages' = added /\ catalog' = createPackageCatalog(added)
      BY <2>1, <2>3 DEF registerPackage
    <3>2. \A q \in Packages, c \in Commands :
              createPackageCatalog(added)[c] = q <=> c \in added[q].commands
      BY <2>3, CatalogLemma
    <3> QED
      BY <3>1, <3>2 DEF CatalogMatchesPackages
  <2> QED
    BY <2>2, <2>3
<1>3. ASSUME NEW r \in Runs, RunStep(r) PROVE UNCHANGED <<packages, catalog>>
  BY <1>3 DEF RunStep, ExportSucceeds, ExportFails, WriteOutput, ExecutorResolves,
     ExecutorRejects, ExecutorSettlesLate, ImportSucceeds, ImportFails, TimerFires, packageVars
<1>4. ASSUME NEW r \in Runs, RunMessage(r) PROVE UNCHANGED <<packages, catalog>>
  BY <1>4 DEF RunMessage, RunRejected, RunWaitsForLoad, RunFailsStartup, RunStarts, Cancel,
     HandleStdinChunk, HandleStdinEnd, HandleStdinError, packageVars
<1>5. ASSUME NEW p \in Packages, PackageStep(p) PROVE CatalogMatchesPackages'
  BY <1>1, <1>2, <1>5 DEF PackageStep, LoadPackage, LoadFails
<1>6. ASSUME Start \/ Stop \/ UNCHANGED vars PROVE UNCHANGED <<packages, catalog>>
  BY <1>6 DEF Start, Stop, vars, packageVars
<1> QED
  BY <1>1, <1>3, <1>4, <1>5, <1>6 DEF Next

-----------------------------------------------------------------------------
(* Imports *)

\* A run's import begins only where its executor has just resolved.
LEMMA ImportFollowsExecutor ==
    ASSUME TypeOK, [Next]_vars
    PROVE  \A q \in Runs : pc'[q] = "importing" /\ pc[q] # "importing" => pc[q] = "executing"
<1> DEFINE Goal == \A q \in Runs :
                       pc'[q] = "importing" /\ pc[q] # "importing" => pc[q] = "executing"
<1>1. ASSUME NEW r \in Runs, RunStep(r) PROVE Goal
  BY <1>1 DEF RunStep, ExportSucceeds, ExportFails, WriteOutput, ExecutorResolves,
     ExecutorRejects, ExecutorSettlesLate, ImportSucceeds, ImportFails, TimerFires, abortRun,
     Finish, EndRun, runVars, TypeOK
<1>2. ASSUME NEW r \in Runs, RunMessage(r) PROVE Goal
  BY <1>2 DEF RunMessage, RunRejected, RunWaitsForLoad, RunFailsStartup, RunStarts, Cancel,
     HandleStdinChunk, HandleStdinEnd, HandleStdinError, StartResolved, abortRun, Finish, EndRun,
     runVars, TypeOK
<1>3. ASSUME NEW p, NEW pkg, ResumeResolving(p, pkg) PROVE Goal
  BY <1>3 DEF ResumeResolving, StartResolved, Finish, EndRun, runVars, TypeOK
<1>4. ASSUME NEW p \in Packages, PackageStep(p) PROVE Goal
  <2>1. CASE LoadPackage(p)
    BY <2>1 DEF LoadPackage, runVars
  <2>2. CASE LoadFails(p)
    BY <2>2, <1>3 DEF LoadFails
  <2>3. CASE \E record \in Loadable : LoadSucceeds(p, record)
    BY <2>3, <1>3 DEF LoadSucceeds
  <2> QED
    BY <1>4, <2>1, <2>2, <2>3 DEF PackageStep
<1>5. ASSUME Start \/ Stop \/ UNCHANGED vars PROVE Goal
  BY <1>5 DEF Start, Stop, abortRun, EndRun, runVars, vars, TypeOK
<1> QED
  BY <1>1, <1>2, <1>4, <1>5 DEF Next

-----------------------------------------------------------------------------
(* Theorems *)

LEMMA InitInv == Init => IInv
<1> SUFFICES ASSUME Init PROVE IInv
  OBVIOUS
<1>1. TypeOK
  <2>1. posted \in [Runs -> Seq(Events)] /\ restarts \in 0 .. MaxRestarts
    BY BoundsAssumption DEF Init
  <2>2. pc \in [Runs -> PcValues] /\ executor \in [Runs -> RunnableTypes \cup {"idle", "settled"}]
    BY DEF Init, PcValues
  <2> QED
    BY <2>1, <2>2 DEF Init, TypeOK
<1>2. PhaseInv
  BY DEF Init, PhaseInv, RunInv, Ordered, InFlight
<1>3. SingleActive /\ Exclusion /\ NoOrphanWaiter /\ NoLostUpdate
  BY DEF Init, SingleActive, Exclusion, NoOrphanWaiter, NoLostUpdate, InFlight
<1>4. CatalogMatchesPackages
  BY NoPackageAssumption DEF Init, CatalogMatchesPackages, Unloaded
<1> QED
  BY <1>1, <1>2, <1>3, <1>4 DEF IInv

LEMMA StepInv == IInv /\ [Next]_vars => IInv'
BY TypeStep, PhaseStep, ExclusionStep, StoreStep, CatalogStep DEF IInv

\* The inductive invariant holds in every behaviour.
THEOREM Invariance == Spec => []IInv
BY InitInv, StepInv, PTL DEF Spec

\* Every variable of the worker keeps its type.
THEOREM TypeCorrect == Spec => []TypeOK
<1>1. IInv => TypeOK
  BY DEF IInv
<1> QED
  BY <1>1, Invariance, PTL

\* However aborts, timers, executors that outlive their run and restarts of the
\* runtime interleave, the client of a run sees started, output, the two closes
\* and one terminal event in that order.
THEOREM StreamOrderHolds == Spec => []StreamOrder
<1>1. IInv => StreamOrder
  BY DEF IInv, PhaseInv, RunInv, StreamOrder
<1> QED
  BY <1>1, Invariance, PTL

\* A run has ended exactly if its terminal event was posted.
THEOREM EveryEndReportedHolds == Spec => []EveryEndReported
<1>1. ASSUME IInv, NEW r \in Runs, Ended(posted[r]) PROVE pc[r] = "done"
  <2>1. ~Open(posted[r])
    BY <1>1 DEF Ended, Open
  <2>2. posted[r] # <<>>
    BY <1>1 DEF Ended
  <2> QED
    BY <1>1, <2>1, <2>2 DEF IInv, PhaseInv, RunInv, TypeOK, PcValues, InFlight
<1>2. IInv => EveryEndReported
  BY <1>1 DEF IInv, PhaseInv, RunInv, EveryEndReported
<1> QED
  BY <1>2, Invariance, PTL

\* One run owns the worker (activeRun), however runs, aborts and replies interleave.
THEOREM OwnershipHolds == Spec => []SingleActive
<1>1. IInv => SingleActive
  BY DEF IInv
<1> QED
  BY <1>1, Invariance, PTL

\* A run that waits for a package waits for a load that is still pending: whatever
\* settles the load finds it.
THEOREM NoOrphanWaiterHolds == Spec => []NoOrphanWaiter
<1>1. IInv => NoOrphanWaiter
  BY DEF IInv
<1> QED
  BY <1>1, Invariance, PTL

\* No import of a run's result overwrites another run's update before a restart.
THEOREM NoLostUpdateHolds == Spec => []NoLostUpdate
<1>1. IInv => NoLostUpdate
  BY DEF IInv
<1> QED
  BY <1>1, Invariance, PTL

\* The catalog and the package map never disagree.
THEOREM CatalogHolds == Spec => []CatalogMatchesPackages
<1>1. IInv => CatalogMatchesPackages
  BY DEF IInv
<1> QED
  BY <1>1, Invariance, PTL

\* A run that was aborted before its import never begins the import.
THEOREM NoImportAfterAbortHolds == Spec => NoImportAfterAbort
<1>1. ASSUME IInv, [Next]_vars
      PROVE  [\A r \in Runs : abortError[r] # "none" /\ pc[r] # "importing"
                                  => pc'[r] # "importing"]_vars
  <2> SUFFICES ASSUME NEW r \in Runs, abortError[r] # "none", pc[r] # "importing"
               PROVE  pc'[r] # "importing"
    OBVIOUS
  <2>1. pc[r] # "executing"
    BY <1>1 DEF IInv, PhaseInv, RunInv
  <2> QED
    BY <1>1, <2>1, ImportFollowsExecutor DEF IInv
<1> QED
  BY <1>1, Invariance, PTL DEF Spec, NoImportAfterAbort
=============================================================================
