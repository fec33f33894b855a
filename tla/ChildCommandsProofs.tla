------------------------ MODULE ChildCommandsProofs ------------------------
(***************************************************************************)
(* Proofs about ChildCommands for any finite tree of invocations.          *)
(***************************************************************************)
EXTENDS ChildCommands, FiniteSetTheorems, WellFoundedInduction, TLAPS

\* An executor outlives its invocation only if the invocation was aborted.
ExecutorInv ==
    \A i \in Invocations :
        /\ executor[i] = "running" =>
               pc[i] = "executing" \/ (pc[i] = "done" /\ aborted[i])
        /\ pc[i] = "new" => ~aborted[i] /\ ~timer[i]

\* An invocation in flight is awaited all the way up, unless somebody above it
\* was aborted.
AwaitedInv ==
    \A i \in Invocations :
        pc[i] \in InFlight =>
            \/ \E j \in Ancestors[i] \ {i} : aborted[j]
            \/ \A j \in Ancestors[i] \ {i} : pc[j] = "executing"

\* The abort of the run reached whatever is still in flight, and ended what it
\* found in a raced promise.
AbortInv ==
    aborted[Root] =>
        \A i \in Invocations : pc[i] \in InFlight => aborted[i] /\ pc[i] \notin Raced

\* Only a run that has ended has closed its output.
OutputInv ==
    /\ NoOutputAfterClose
    /\ pc[Root] # "done" => \A k \in 1 .. Len(posted) : posted[k] # "close"

IInv == TypeOK /\ ExecutorInv /\ AwaitedInv /\ AbortInv /\ OutputInv

-----------------------------------------------------------------------------
(* The tree *)

LEMMA AncestorsFinite ==
    ASSUME NEW i \in Invocations
    PROVE  IsFiniteSet(Ancestors[i]) /\ Cardinality(Ancestors[i]) \in Nat
<1>1. Ancestors[i] \in SUBSET Invocations
  BY TreeAssumption
<1>2. IsFiniteSet(Ancestors[i])
  BY <1>1, FS_Subset, TreeAssumption
<1> QED
  BY <1>2, FS_CardinalityType

\* A set of invocations that holds the parent of each child in it holds nothing
\* but what leads to the run: an induction over the depth.
LEMMA NoEndlessAscent ==
    ASSUME NEW S \in SUBSET Children, \A i \in S : Parent[i] \in S
    PROVE  S = {}
<1> SUFFICES ASSUME S # {} PROVE FALSE
  OBVIOUS
<1> DEFINE Depths == {Cardinality(Ancestors[i]) : i \in S}
<1>1. Depths \subseteq Nat /\ Depths # {}
  BY AncestorsFinite DEF Children
<1>2. PICK m \in Depths : \A k \in Depths : ~(<<k, m>> \in OpToRel(<, Nat))
  BY <1>1, NatLessThanWellFounded, WFMin
<1>3. PICK i \in S : Cardinality(Ancestors[i]) = m
  BY <1>2
<1>4. i \in Children /\ Parent[i] \in S /\ Parent[i] \in Invocations
  BY <1>3 DEF Children
<1>5. Ancestors[i] = Ancestors[Parent[i]] \cup {i} /\ i \notin Ancestors[Parent[i]]
  BY <1>4, TreeAssumption
<1>6. IsFiniteSet(Ancestors[Parent[i]]) /\ Cardinality(Ancestors[Parent[i]]) \in Nat
  BY <1>4, AncestorsFinite
<1>7. Cardinality(Ancestors[i]) = Cardinality(Ancestors[Parent[i]]) + 1
  BY <1>5, <1>6, FS_AddElement
<1>8. <<Cardinality(Ancestors[Parent[i]]), m>> \in OpToRel(<, Nat)
  BY <1>1, <1>3, <1>6, <1>7 DEF OpToRel
<1> QED
  BY <1>2, <1>4, <1>8

LEMMA ParentFacts ==
    ASSUME NEW i \in Children
    PROVE  /\ i \in Invocations /\ i # Root /\ Parent[i] \in Invocations
           /\ Ancestors[i] \ {i} = Ancestors[Parent[i]]
           /\ Ancestors[i] = Ancestors[Parent[i]] \cup {i}
           /\ Parent[i] # i
BY TreeAssumption DEF Children

LEMMA SelfAbove == \A i \in Invocations : i \in Ancestors[i] /\ Ancestors[i] \subseteq Invocations
BY TreeAssumption DEF Children

LEMMA RootAbove == \A i \in Invocations : Root \in Ancestors[i]
<1> DEFINE S == {i \in Children : Root \notin Ancestors[i]}
<1>1. \A i \in S : Parent[i] \in S
  <2> SUFFICES ASSUME NEW i \in S PROVE Parent[i] \in S
    OBVIOUS
  <2>1. Root \notin Ancestors[Parent[i]] /\ Parent[i] \in Invocations
    BY ParentFacts
  <2>2. Parent[i] # Root
    BY <2>1, TreeAssumption
  <2> QED
    BY <2>1, <2>2 DEF Children
<1>2. S = {}
  BY <1>1, NoEndlessAscent
<1> QED
  BY <1>2, TreeAssumption DEF Children

\* Between an invocation and one above it stands a child of the upper one.
LEMMA ChildBetween ==
    ASSUME NEW a \in Invocations, NEW i \in Invocations, a \in Ancestors[i] \ {i}
    PROVE  \E c \in Ancestors[i] \cap Children : Parent[c] = a
<1> DEFINE S == {d \in Children : /\ a \in Ancestors[d] \ {d}
                                  /\ ~ \E c \in Ancestors[d] \cap Children : Parent[c] = a}
<1>1. \A d \in S : Parent[d] \in S
  <2> SUFFICES ASSUME NEW d \in S PROVE Parent[d] \in S
    OBVIOUS
  <2>1. a \in Ancestors[Parent[d]] /\ Parent[d] \in Invocations
    BY ParentFacts
  <2>2. Parent[d] # a
    BY SelfAbove, ParentFacts
  <2>3. Parent[d] # Root
    BY <2>1, <2>2, TreeAssumption
  <2>4. Ancestors[Parent[d]] \subseteq Ancestors[d]
    BY ParentFacts
  <2> QED
    BY <2>1, <2>2, <2>3, <2>4 DEF Children
<1>2. S = {}
  BY <1>1, NoEndlessAscent
<1>3. i \in Children
  BY TreeAssumption DEF Children
<1> QED
  BY <1>2, <1>3

-----------------------------------------------------------------------------
(* Output *)

Outputs == {"output", "close"}

LEMMA PostFacts ==
    ASSUME NEW s \in Seq(Outputs), NEW e \in Outputs
    PROVE  /\ Append(s, e) \in Seq(Outputs)
           /\ Len(Append(s, e)) = Len(s) + 1 /\ Len(s) \in Nat
           /\ Append(s, e)[Len(s) + 1] = e
           /\ \A k \in 1 .. Len(s) : Append(s, e)[k] = s[k]
OBVIOUS

\* A step that ends with ClosedBy and does not revive the run.
LEMMA CloseKeeps ==
    ASSUME TypeOK, OutputInv, posted' = ClosedBy(pc'), pc[Root] = "done" => pc'[Root] = "done"
    PROVE  posted' \in Seq(Outputs) /\ OutputInv'
<1>1. posted \in Seq(Outputs)
  BY DEF TypeOK, Outputs
<1>2. CASE pc'[Root] = "done" /\ pc[Root] # "done"
  <2>1. posted' = Append(posted, "close")
    BY <1>2 DEF ClosedBy
  <2>2. "close" \in Outputs
    BY DEF Outputs
  <2> QED
    BY <1>1, <1>2, <2>1, <2>2, PostFacts DEF OutputInv, NoOutputAfterClose
<1>3. CASE ~(pc'[Root] = "done" /\ pc[Root] # "done")
  <2>1. posted' = posted
    BY <1>3 DEF ClosedBy
  <2> QED
    BY <1>1, <1>3, <2>1 DEF OutputInv, NoOutputAfterClose
<1> QED
  BY <1>2, <1>3

\* A step that posts nothing and does not revive the run.
LEMMA QuietKeeps ==
    ASSUME TypeOK, OutputInv, posted' = posted, pc[Root] = "done" => pc'[Root] = "done"
    PROVE  posted' \in Seq(Outputs) /\ OutputInv'
BY DEF TypeOK, OutputInv, NoOutputAfterClose, Outputs

-----------------------------------------------------------------------------
(* What is in flight *)

Pcs == {"new", "done"} \cup InFlight

\* An invocation in flight goes on or ends, and no child in flight waits for it.
LEMMA AwaitedKeeps ==
    ASSUME TypeOK, AwaitedInv, NEW i \in Invocations, NEW p \in Pcs,
           pc' = [pc EXCEPT ![i] = p], aborted' = aborted,
           pc[i] \in InFlight, pc[i] = "executing" => Awaited(i) = {}
    PROVE  AwaitedInv'
<1>1. pc'[i] = p /\ \A j \in Invocations \ {i} : pc'[j] = pc[j]
  BY DEF TypeOK
<1> SUFFICES ASSUME NEW c \in Invocations, pc'[c] \in InFlight,
                    ~ \E j \in Ancestors[c] \ {c} : aborted[j]
             PROVE  \A j \in Ancestors[c] \ {c} : pc'[j] = "executing"
  BY DEF AwaitedInv
<1>2. \A j \in Ancestors[c] \ {c} : j \in Invocations /\ pc[j] = "executing"
  BY <1>1, SelfAbove DEF AwaitedInv
<1>3. i \notin Ancestors[c] \ {c}
  <2> SUFFICES ASSUME i \in Ancestors[c] \ {c} PROVE FALSE
    OBVIOUS
  <2>1. PICK d \in Ancestors[c] \cap Children : Parent[d] = i
    BY ChildBetween
  <2>2. d \notin Awaited(i)
    BY <1>2
  <2>3. pc[d] \notin InFlight
    BY <2>1, <2>2 DEF Awaited
  <2>4. d = c
    BY <1>2, <2>1, <2>3 DEF InFlight
  <2> QED
    BY <1>1, <2>1, <2>3, <2>4
<1> QED
  BY <1>1, <1>2, <1>3

\* An end by abort: whoever ends above something in flight is aborted.
LEMMA AwaitedAfterAbort ==
    ASSUME TypeOK, AwaitedInv, NEW them \in SUBSET Invocations, Abort(them)
    PROVE  AwaitedInv'
<1> SUFFICES ASSUME NEW c \in Invocations, pc'[c] \in InFlight,
                    ~ \E j \in Ancestors[c] \ {c} : aborted'[j]
             PROVE  \A j \in Ancestors[c] \ {c} : pc'[j] = "executing"
  BY DEF AwaitedInv
<1>1. \A j \in Ancestors[c] \ {c} : j \in Invocations /\ ~aborted[j] /\ j \notin them
  BY SelfAbove DEF Abort, TypeOK
<1>2. pc[c] \in InFlight
  BY DEF Abort, InFlight, TypeOK
<1>3. \A j \in Ancestors[c] \ {c} : pc[j] = "executing"
  BY <1>1, <1>2 DEF AwaitedInv
<1> QED
  BY <1>1, <1>3 DEF Abort, TypeOK

-----------------------------------------------------------------------------
(* The steps *)

LEMMA RunChildCommandKeeps ==
    ASSUME IInv, NEW i \in Invocations, NEW k \in Kinds, NEW inherits \in BOOLEAN,
           NEW timed \in BOOLEAN, NEW resolution \in {"unknown", "loading", "loaded"},
           RunChildCommand(i, k, inherits, timed, resolution)
    PROVE  IInv'
<1>1. i \in Children /\ pc[i] = "new" /\ i # Root
  BY ParentFacts DEF RunChildCommand
<1>2. /\ kind' = [kind EXCEPT ![i] = k] /\ inherit' = [inherit EXCEPT ![i] = inherits]
      /\ aborted' = [aborted EXCEPT ![i] = aborted[Root]]
      /\ posted' = posted /\ store' = store
  BY DEF RunChildCommand
<1>3. PICK p \in {"done", "resolving", "exporting", "executing"} :
         /\ pc' = [pc EXCEPT ![i] = p]
         /\ p # "done" => ~aborted[Root]
         /\ \/ executor' = executor
            \/ p = "executing" /\ executor' = [executor EXCEPT ![i] = "running"]
            \/ p = "exporting" /\ executor' = [executor EXCEPT ![i] = "idle"]
  BY DEF RunChildCommand, Begin
<1>4. TypeOK'
  <2>1. timer' = timer \/ timer' = [timer EXCEPT ![i] = timed]
    BY DEF RunChildCommand
  <2>2. timer' \in [Invocations -> BOOLEAN]
    BY <2>1 DEF IInv, TypeOK
  <2>3. pc' \in [Invocations -> {"new", "done"} \cup InFlight]
    BY <1>3 DEF IInv, TypeOK, InFlight
  <2>4. executor' \in [Invocations -> {"idle", "running", "settled"}]
    BY <1>3 DEF IInv, TypeOK
  <2>5. aborted' \in [Invocations -> BOOLEAN] /\ inherit' \in [Invocations -> BOOLEAN]
    BY <1>2, TreeAssumption DEF IInv, TypeOK
  <2> QED
    BY <1>2, <2>2, <2>3, <2>4, <2>5 DEF IInv, TypeOK
<1>5. pc'[i] = p /\ \A j \in Invocations \ {i} : pc'[j] = pc[j]
  BY <1>3 DEF IInv, TypeOK
<1>6. aborted'[i] = aborted[Root] /\ \A j \in Invocations \ {i} : aborted'[j] = aborted[j]
  BY <1>2 DEF IInv, TypeOK
<1>7. ~aborted[i] /\ executor[i] # "running"
  BY <1>1 DEF IInv, ExecutorInv
<1>8. ExecutorInv'
  <2>1. executor'[i] = "running" => p = "executing"
    BY <1>3, <1>7 DEF IInv, TypeOK
  <2>2. \A j \in Invocations \ {i} : executor'[j] = executor[j]
    BY <1>3 DEF IInv, TypeOK
  <2>3. \A j \in Invocations \ {i} : timer'[j] = timer[j]
    BY DEF IInv, TypeOK, RunChildCommand
  <2> QED
    BY <1>3, <1>5, <1>6, <2>1, <2>2, <2>3 DEF IInv, ExecutorInv
<1>9. AwaitedInv'
  <2>1. ASSUME NEW c \in Invocations, c # i, pc'[c] \in InFlight,
               ~ \E j \in Ancestors[c] \ {c} : aborted'[j]
        PROVE  \A j \in Ancestors[c] \ {c} : pc'[j] = "executing"
    <3>1. \A j \in Ancestors[c] \ {c} : j \in Invocations /\ ~aborted[j]
      BY <1>6, <1>7, <2>1, SelfAbove
    <3>2. \A j \in Ancestors[c] \ {c} : pc[j] = "executing"
      BY <1>5, <2>1, <3>1 DEF IInv, AwaitedInv
    <3> QED
      BY <1>1, <1>5, <3>1, <3>2
  <2>2. ASSUME pc'[i] \in InFlight, ~ \E j \in Ancestors[i] \ {i} : aborted'[j]
        PROVE  \A j \in Ancestors[i] \ {i} : pc'[j] = "executing"
    <3> DEFINE q == Parent[i]
    <3>1. q \in Invocations /\ q # i /\ Ancestors[i] \ {i} = Ancestors[q]
      BY <1>1, ParentFacts
    <3>2. executor[q] = "running"
      BY DEF RunChildCommand
    <3>3. \A j \in Ancestors[q] : j \in Invocations /\ j # i /\ ~aborted[j]
      BY <1>6, <2>2, <3>1, SelfAbove
    <3>4. pc[q] = "executing"
      BY <3>1, <3>2, <3>3, SelfAbove DEF IInv, ExecutorInv
    <3>5. \A j \in Ancestors[q] \ {q} : pc[j] = "executing"
      BY <3>1, <3>3, <3>4 DEF IInv, AwaitedInv, InFlight
    <3> QED
      BY <1>5, <3>1, <3>3, <3>4, <3>5
  <2> QED
    BY <2>1, <2>2 DEF AwaitedInv
<1>10. AbortInv'
  BY <1>1, <1>3, <1>5, <1>6, TreeAssumption DEF IInv, AbortInv, InFlight
<1>11. OutputInv'
  BY <1>1, <1>2, <1>5, QuietKeeps, TreeAssumption DEF IInv
<1> QED
  BY <1>4, <1>8, <1>9, <1>10, <1>11 DEF IInv

\* The steps of one invocation in flight that no signal interrupts: its phase,
\* its executor, its timer and the store are all that changes.
LEMMA MoveKeeps ==
    ASSUME IInv, NEW i \in Invocations, NEW p \in Pcs, NEW e \in {"idle", "running", "settled"},
           pc[i] \in InFlight, pc[i] = "executing" => Awaited(i) = {},
           pc' = [pc EXCEPT ![i] = p], executor' = [executor EXCEPT ![i] = e],
           UNCHANGED <<kind, inherit, aborted>>,
           timer' \in {timer, [timer EXCEPT ![i] = FALSE]}, store' \in Invocations \cup {NoOne},
           posted' = ClosedBy(pc'),
           e = "running" => p = "executing" \/ (p = "done" /\ aborted[i]),
           p # "new",
           p \in Raced => ~aborted[Root] \/ pc[i] \in Raced
    PROVE  IInv'
<1>1. pc'[i] = p /\ \A j \in Invocations \ {i} : pc'[j] = pc[j]
  BY DEF IInv, TypeOK
<1>2. executor'[i] = e /\ \A j \in Invocations \ {i} : executor'[j] = executor[j]
  BY DEF IInv, TypeOK
<1>3. posted' \in Seq(Outputs) /\ OutputInv'
  BY <1>1, CloseKeeps, TreeAssumption DEF IInv, InFlight
<1>4. TypeOK'
  BY <1>3 DEF IInv, TypeOK, Outputs, Pcs
<1>8. \A j \in Invocations \ {i} : timer'[j] = timer[j]
  BY DEF IInv, TypeOK
<1>5. ExecutorInv'
  BY <1>1, <1>2, <1>8 DEF IInv, ExecutorInv
<1>6. AwaitedInv'
  BY AwaitedKeeps DEF IInv
<1>7. AbortInv'
  BY <1>1 DEF IInv, AbortInv
<1> QED
  BY <1>3, <1>4, <1>5, <1>6, <1>7 DEF IInv

LEMMA StillOpen ==
    ASSUME NEW i \in Invocations, NEW p \in Pcs, pc \in [Invocations -> Pcs], p # "done",
           pc' = [pc EXCEPT ![i] = p]
    PROVE  ClosedBy(pc') = posted
BY TreeAssumption DEF ClosedBy

LEMMA ResolutionSettlesKeeps ==
    ASSUME IInv, NEW i \in Invocations, NEW ok \in BOOLEAN, ResolutionSettles(i, ok)
    PROVE  IInv'
<1>1. pc[i] = "resolving" /\ executor[i] \in {"idle", "settled"}
  BY DEF ResolutionSettles, IInv, TypeOK, ExecutorInv
<1>2. ~aborted[Root]
  BY <1>1 DEF IInv, AbortInv, InFlight, Raced
<1>3. timer' \in {timer, [timer EXCEPT ![i] = FALSE]} /\ store' \in Invocations \cup {NoOne}
  BY DEF ResolutionSettles, Settle, IInv, TypeOK
<1>4. PICK p \in {"exporting", "executing", "done"}, e \in {"idle", "running", "settled"} :
         /\ pc' = [pc EXCEPT ![i] = p] /\ executor' = [executor EXCEPT ![i] = e]
         /\ p = "done" => posted' = ClosedBy(pc')
         /\ p # "done" => posted' = posted
         /\ e = "running" => p = "executing"
  <2>1. CASE ok
    BY <2>1 DEF ResolutionSettles, Begin
  <2>2. CASE ~ok
    <3>1. executor' = [executor EXCEPT ![i] = executor[i]]
      BY <2>2 DEF ResolutionSettles, IInv, TypeOK
    <3> QED
      BY <1>1, <2>2, <3>1 DEF ResolutionSettles, Settle
  <2> QED
    BY <2>1, <2>2
<1>5. posted' = ClosedBy(pc')
  BY <1>4, StillOpen DEF IInv, TypeOK, Pcs, InFlight
<1> QED
  BY <1>1, <1>2, <1>3, <1>4, <1>5, MoveKeeps DEF ResolutionSettles, Pcs, InFlight

LEMMA ExportSettlesKeeps ==
    ASSUME IInv, NEW i \in Invocations, NEW ok \in BOOLEAN, ExportSettles(i, ok)
    PROVE  IInv'
<1>1. pc[i] = "exporting"
  BY DEF ExportSettles
<1>2. aborted[Root] => aborted[i]
  BY <1>1 DEF IInv, AbortInv, InFlight
<1>3. timer' \in {timer, [timer EXCEPT ![i] = FALSE]} /\ store' \in Invocations \cup {NoOne}
  BY DEF ExportSettles, Settle, IInv, TypeOK
<1> DEFINE p == IF ok /\ ~aborted[i] THEN "executing" ELSE "done"
           e == IF ok THEN "running" ELSE "idle"
<1>4. pc' = [pc EXCEPT ![i] = p] /\ executor' = [executor EXCEPT ![i] = e]
  BY DEF ExportSettles, Settle
<1>5. posted' = ClosedBy(pc')
  BY <1>4, StillOpen DEF ExportSettles, Settle, IInv, TypeOK, Pcs, InFlight
<1>6. p \in Pcs /\ p # "new" /\ e \in {"idle", "running", "settled"}
      /\ (e = "running" => p = "executing" \/ (p = "done" /\ aborted[i]))
      /\ (p \in Raced => ~aborted[Root])
  BY <1>2 DEF Pcs, InFlight, Raced
<1>7. UNCHANGED <<kind, inherit, aborted>>
  BY DEF ExportSettles
<1> HIDE DEF p, e
<1> QED
  BY <1>1, <1>3, <1>4, <1>5, <1>6, <1>7, MoveKeeps DEF InFlight

LEMMA ExecutorSettlesKeeps ==
    ASSUME IInv, NEW i \in Invocations, NEW snapshot \in BOOLEAN, ExecutorSettles(i, snapshot)
    PROVE  IInv'
<1>1. pc[i] = "executing" /\ Awaited(i) = {}
  BY DEF ExecutorSettles
<1>2. timer' \in {timer, [timer EXCEPT ![i] = FALSE]} /\ store' \in Invocations \cup {NoOne}
  BY DEF ExecutorSettles, Settle, IInv, TypeOK
<1> DEFINE p == IF snapshot /\ kind[i] = "webc" THEN "importing" ELSE "done"
<1>3. pc' = [pc EXCEPT ![i] = p] /\ executor' = [executor EXCEPT ![i] = "settled"]
  BY DEF ExecutorSettles, Settle
<1>4. posted' = ClosedBy(pc')
  BY <1>3, StillOpen DEF ExecutorSettles, Settle, IInv, TypeOK, Pcs, InFlight
<1>5. p \in Pcs /\ p # "new" /\ p \notin Raced
  BY DEF Pcs, InFlight, Raced
<1>6. UNCHANGED <<kind, inherit, aborted>>
  BY DEF ExecutorSettles
<1> HIDE DEF p
<1> QED
  BY <1>1, <1>2, <1>3, <1>4, <1>5, <1>6, MoveKeeps DEF InFlight

LEMMA ImportSettlesKeeps ==
    ASSUME IInv, NEW i \in Invocations, ImportSettles(i)
    PROVE  IInv'
<1>1. pc[i] = "importing" /\ executor[i] \in {"idle", "settled"}
  BY DEF ImportSettles, IInv, TypeOK, ExecutorInv
<1>2. timer' \in {timer, [timer EXCEPT ![i] = FALSE]} /\ store' \in Invocations \cup {NoOne}
  BY DEF ImportSettles, Settle, IInv, TypeOK
<1>3. pc' = [pc EXCEPT ![i] = "done"] /\ executor' = [executor EXCEPT ![i] = executor[i]]
      /\ posted' = ClosedBy(pc') /\ UNCHANGED <<kind, inherit, aborted>>
  BY DEF ImportSettles, Settle, IInv, TypeOK
<1>4. "done" \in Pcs /\ "done" \notin Raced
  BY DEF Pcs, Raced
<1> QED
  BY <1>1, <1>2, <1>3, <1>4, MoveKeeps DEF InFlight

LEMMA ExecutorSettlesLateKeeps ==
    ASSUME IInv, NEW i \in Invocations, ExecutorSettlesLate(i)
    PROVE  IInv'
<1>1. TypeOK'
  BY DEF ExecutorSettlesLate, IInv, TypeOK
<1>2. ExecutorInv'
  BY DEF ExecutorSettlesLate, IInv, ExecutorInv, TypeOK
<1>3. AwaitedInv' /\ AbortInv' /\ OutputInv'
  BY DEF ExecutorSettlesLate, IInv, AwaitedInv, AbortInv, OutputInv, NoOutputAfterClose
<1> QED
  BY <1>1, <1>2, <1>3 DEF IInv

\* A chunk reaches the port only while the run has not ended: the writer of an
\* unaborted invocation below unaborted ones is awaited by all of them.
LEMMA WriteInheritedKeeps ==
    ASSUME IInv, NEW i \in Invocations, WriteInherited(i)
    PROVE  IInv'
<1>1. \A j \in Ancestors[i] : ~aborted[j]
  BY DEF WriteInherited
<1>2. pc[i] = "executing"
  BY <1>1, SelfAbove DEF WriteInherited, IInv, ExecutorInv
<1>3. pc[Root] = "executing"
  BY <1>1, <1>2, RootAbove DEF IInv, AwaitedInv, InFlight
<1>4. posted \in Seq(Outputs) /\ "output" \in Outputs /\ posted' = Append(posted, "output")
  BY DEF IInv, TypeOK, Outputs, WriteInherited
<1>5. posted' \in Seq(Outputs)
  BY <1>4, PostFacts
<1>6. \A k \in 1 .. Len(posted') : posted'[k] # "close"
  <2>1. \A k \in 1 .. Len(posted) : posted[k] # "close"
    BY <1>3 DEF IInv, OutputInv
  <2> QED
    BY <1>4, <2>1, PostFacts
<1>7. UNCHANGED <<pc, kind, inherit, aborted, timer, executor, store>>
  BY DEF WriteInherited
<1>8. TypeOK'
  BY <1>5, <1>7 DEF IInv, TypeOK, Outputs
<1> QED
  BY <1>6, <1>7, <1>8 DEF IInv, ExecutorInv, AwaitedInv, AbortInv, OutputInv, NoOutputAfterClose

\* What an abort does to everything but the run's own signal.
LEMMA AbortKeeps ==
    ASSUME IInv, NEW them \in SUBSET Invocations, Abort(them),
           \A j \in them : pc[j] # "new",
           UNCHANGED <<kind, inherit, executor, store>>
    PROVE  TypeOK' /\ ExecutorInv' /\ AwaitedInv' /\ OutputInv'
<1>1. \A j \in Invocations :
          /\ aborted'[j] = (aborted[j] \/ j \in them)
          /\ pc'[j] = IF j \in them /\ pc[j] \in Raced THEN "done" ELSE pc[j]
          /\ timer'[j] = (timer[j] /\ j \notin them)
  BY DEF Abort, IInv, TypeOK
<1>2. posted' \in Seq(Outputs) /\ OutputInv'
  <2>1. posted' = ClosedBy(pc')
    BY DEF Abort
  <2> QED
    BY <1>1, <2>1, CloseKeeps, TreeAssumption DEF IInv
<1>3. TypeOK'
  <2>1. pc' \in [Invocations -> {"new", "done"} \cup InFlight]
    BY DEF Abort, IInv, TypeOK
  <2>2. aborted' \in [Invocations -> BOOLEAN] /\ timer' \in [Invocations -> BOOLEAN]
    BY DEF Abort, IInv, TypeOK
  <2> QED
    BY <1>2, <2>1, <2>2 DEF IInv, TypeOK, Outputs
<1>4. ExecutorInv'
  BY <1>1 DEF IInv, ExecutorInv, Raced
<1>5. AwaitedInv'
  BY AwaitedAfterAbort DEF IInv
<1> QED
  BY <1>2, <1>3, <1>4, <1>5

LEMMA ChildTimeoutKeeps ==
    ASSUME IInv, NEW i \in Invocations, ChildTimeout(i)
    PROVE  IInv'
<1>1. Abort({i}) /\ i # Root /\ pc[i] # "new"
  BY DEF ChildTimeout, Children, IInv, ExecutorInv
<1>2. TypeOK' /\ ExecutorInv' /\ AwaitedInv' /\ OutputInv'
  BY <1>1, AbortKeeps DEF ChildTimeout
<1>3. \A j \in Invocations :
          /\ aborted'[j] = (aborted[j] \/ j = i)
          /\ pc'[j] = IF j = i /\ pc[j] \in Raced THEN "done" ELSE pc[j]
  BY <1>1 DEF Abort, IInv, TypeOK
<1>4. AbortInv'
  BY <1>1, <1>3, TreeAssumption DEF IInv, AbortInv, InFlight
<1> QED
  BY <1>2, <1>4 DEF IInv

LEMMA AbortRunKeeps ==
    ASSUME IInv, AbortRun
    PROVE  IInv'
<1> DEFINE them == {i \in Invocations : pc[i] \in InFlight}
<1>1. Abort(them) /\ \A j \in them : pc[j] # "new"
  BY DEF AbortRun, InFlight
<1>2. TypeOK' /\ ExecutorInv' /\ AwaitedInv' /\ OutputInv'
  BY <1>1, AbortKeeps DEF AbortRun
<1>3. \A j \in Invocations :
          /\ aborted'[j] = (aborted[j] \/ pc[j] \in InFlight)
          /\ pc'[j] = IF pc[j] \in InFlight /\ pc[j] \in Raced THEN "done" ELSE pc[j]
  BY <1>1 DEF Abort, IInv, TypeOK
<1>4. AbortInv'
  BY <1>3 DEF AbortInv, InFlight, Raced
<1> QED
  BY <1>2, <1>4 DEF IInv

-----------------------------------------------------------------------------
(* The theorems *)

LEMMA InitInv == Init => IInv
<1> SUFFICES ASSUME Init PROVE IInv
  OBVIOUS
<1>1. TypeOK
  <2>1. kind \in [Invocations -> Kinds]
    BY DEF Init, Kinds
  <2> QED
    BY <2>1 DEF Init, TypeOK, InFlight
<1>2. ExecutorInv /\ AbortInv /\ OutputInv
  BY TreeAssumption DEF Init, ExecutorInv, AbortInv, OutputInv, NoOutputAfterClose
<1>3. AwaitedInv
  <2>1. \A i \in Invocations : pc[i] \in InFlight => i = Root
    BY DEF Init, InFlight
  <2> QED
    BY <2>1, TreeAssumption DEF AwaitedInv
<1> QED
  BY <1>1, <1>2, <1>3 DEF IInv

LEMMA NextKeeps == IInv /\ [Next]_vars => IInv'
<1> SUFFICES ASSUME IInv, [Next]_vars PROVE IInv'
  OBVIOUS
<1>1. ASSUME NEW i \in Invocations, NEW k \in Kinds, NEW inherits \in BOOLEAN,
             NEW timed \in BOOLEAN, NEW resolution \in {"unknown", "loading", "loaded"},
             RunChildCommand(i, k, inherits, timed, resolution)
      PROVE  IInv'
  BY <1>1, RunChildCommandKeeps
<1>2. ASSUME NEW i \in Invocations, NEW ok \in BOOLEAN, ResolutionSettles(i, ok) PROVE IInv'
  BY <1>2, ResolutionSettlesKeeps
<1>3. ASSUME NEW i \in Invocations, NEW ok \in BOOLEAN, ExportSettles(i, ok) PROVE IInv'
  BY <1>3, ExportSettlesKeeps
<1>4. ASSUME NEW i \in Invocations, WriteInherited(i) PROVE IInv'
  BY <1>4, WriteInheritedKeeps
<1>5. ASSUME NEW i \in Invocations, NEW snapshot \in BOOLEAN, ExecutorSettles(i, snapshot)
      PROVE  IInv'
  BY <1>5, ExecutorSettlesKeeps
<1>6. ASSUME NEW i \in Invocations, ExecutorSettlesLate(i) PROVE IInv'
  BY <1>6, ExecutorSettlesLateKeeps
<1>7. ASSUME NEW i \in Invocations, ImportSettles(i) PROVE IInv'
  BY <1>7, ImportSettlesKeeps
<1>8. ASSUME NEW i \in Invocations, ChildTimeout(i) PROVE IInv'
  BY <1>8, ChildTimeoutKeeps
<1>9. CASE AbortRun
  BY <1>9, AbortRunKeeps
<1>10. CASE UNCHANGED vars
  BY <1>10 DEF vars, IInv, TypeOK, ExecutorInv, AwaitedInv, AbortInv, OutputInv, NoOutputAfterClose
<1> QED
  BY <1>1, <1>2, <1>3, <1>4, <1>5, <1>6, <1>7, <1>8, <1>9, <1>10 DEF Next

LEMMA SpecInv == Spec => []IInv
BY InitInv, NextKeeps, PTL DEF Spec

\* The variables keep their types.
THEOREM TypeCorrect == Spec => []TypeOK
BY SpecInv, PTL DEF IInv

\* No chunk of a child command, at any depth, follows the close of the run's
\* output: ChildCommandOutputWriter.write asks every signal on the way, and an
\* invocation with no aborted signal above it is still awaited by the run.
THEOREM OutputClosedLast == Spec => []NoOutputAfterClose
BY SpecInv, PTL DEF IInv, OutputInv

\* A run that ends without an abort leaves nothing in flight, except below an
\* invocation whose own timeout ended it (runChildCommand).
THEOREM OnlyTimedOutSurvive == Spec => []SurvivorsTimedOut
<1>1. IInv => SurvivorsTimedOut
  <2> SUFFICES ASSUME IInv, pc[Root] = "done", NEW i \in Invocations, pc[i] \in InFlight
               PROVE  \E j \in Ancestors[i] \ {i} : aborted[j]
    BY DEF SurvivorsTimedOut
  <2>1. i # Root
    BY DEF InFlight
  <2> QED
    BY <2>1, RootAbove DEF IInv, AwaitedInv
<1> QED
  BY <1>1, SpecInv, PTL

\* After the abort of the run no result is imported any more, neither its own nor
\* one of a child: AbortRun ends every raced promise, and an export that comes
\* back later finds its signal aborted (callExecutorWithAbort).
THEOREM NoImportAfterAbort == Spec => AbortStopsImports
<1>1. IInv /\ [Next]_vars => [aborted[Root] => store' = store]_vars
  <2> SUFFICES ASSUME IInv, Next, aborted[Root] PROVE store' = store
    BY DEF vars
  <2>1. ASSUME NEW i \in Invocations, NEW snapshot \in BOOLEAN, ExecutorSettles(i, snapshot)
        PROVE  FALSE
    BY <2>1 DEF ExecutorSettles, IInv, AbortInv, InFlight, Raced
  <2> QED
    BY <2>1 DEF Next, RunChildCommand, ResolutionSettles, ExportSettles, WriteInherited,
                ExecutorSettlesLate, ImportSettles, ChildTimeout, AbortRun
<1> QED
  BY <1>1, SpecInv, PTL DEF Spec, AbortStopsImports
=============================================================================
