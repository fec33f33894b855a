-------------------------- MODULE TerminalProofs --------------------------
(***************************************************************************)
(* Proofs about InputStream and about Terminal, which extends it, for any  *)
(* bounds.                                                                 *)
(***************************************************************************)
EXTENDS Terminal, Integers, FiniteSetTheorems, TLAPS

-----------------------------------------------------------------------------
(* The input stream *)

Delivered == pushed - Len(chunks)
Settled   == reads - Len(waiters)

\* The queue holds the last chunks pushed and the waiters are the last reads.
QueueInv ==
    /\ Len(chunks) <= pushed /\ Len(waiters) <= reads
    /\ \A k \in 1 .. Len(chunks) : chunks[k] = Delivered + k
    /\ \A k \in 1 .. Len(waiters) : waiters[k] = Settled + k

\* The reads fall into three stretches: those that got a chunk, those that were
\* told of the end, and those that are pending.  The second is empty while the
\* stream is open, and the third once it is not.
PromiseInv ==
    /\ Delivered <= Settled
    /\ \A i \in ReadIds :
           /\ i <= Delivered => promise[i] = Bytes(i)
           /\ Delivered < i /\ i <= Settled => promise[i] \in {Null, Rejected}
           /\ Settled < i => promise[i] = Pending
    /\ Delivered < Settled => chunks = <<>> /\ (closed \/ failed)
    /\ Settled < reads => chunks = <<>> /\ ~closed /\ ~failed

IInv == TypeOK /\ QueueInv /\ PromiseInv

-----------------------------------------------------------------------------

\* What a read may settle to.
LEMMA OutcomeFacts ==
    /\ Pending \in Outcomes /\ Null \in Outcomes /\ Rejected \in Outcomes
    /\ \A n \in 0 .. MaxChunks : Bytes(n) \in Outcomes
    /\ Pending.kind = "pending" /\ Null.kind = "null" /\ Rejected.kind = "error"
    /\ \A n : Bytes(n).kind = "bytes" /\ Bytes(n).chunk = n
BY StreamBounds DEF Pending, Null, Rejected, Bytes, Outcomes

LEMMA InitInv == Init => IInv
<1> SUFFICES ASSUME Init PROVE IInv
  OBVIOUS
<1>1. TypeOK
  <2>1. chunks \in Seq(1 .. MaxChunks) /\ waiters \in Seq(ReadIds)
    BY DEF Init
  <2>2. pushed \in 0 .. MaxChunks /\ reads \in 0 .. MaxReads
    BY StreamBounds DEF Init
  <2>3. promise \in [ReadIds -> Outcomes]
    BY OutcomeFacts DEF Init
  <2> QED
    BY <2>1, <2>2, <2>3 DEF Init, TypeOK
<1>2. QueueInv
  BY DEF Init, QueueInv, Delivered, Settled
<1>3. PromiseInv
  BY StreamBounds DEF Init, PromiseInv, Delivered, Settled, ReadIds
<1> QED
  BY <1>1, <1>2, <1>3 DEF IInv

\* The waiters are exactly the reads that are not settled.
LEMMA WaitersArePending ==
    ASSUME IInv, NEW i \in ReadIds
    PROVE  (\E k \in 1 .. Len(waiters) : waiters[k] = i) <=> Settled < i /\ i <= reads
<1> USE DEF IInv, TypeOK, QueueInv, Settled, ReadIds
<1>1. reads \in Nat /\ Len(waiters) \in Nat /\ i \in Nat
  BY StreamBounds
<1>2. ASSUME Settled < i, i <= reads
      PROVE  \E k \in 1 .. Len(waiters) : waiters[k] = i
  <2>1. i - Settled \in 1 .. Len(waiters)
    BY <1>1, <1>2
  <2>2. waiters[i - Settled] = Settled + (i - Settled)
    BY <2>1
  <2>3. waiters[i - Settled] = i
    BY <2>2, <1>1
  <2> QED
    BY <2>1, <2>3
<1>3. ASSUME NEW k \in 1 .. Len(waiters), waiters[k] = i
      PROVE  Settled < i /\ i <= reads
  BY <1>1, <1>3
<1> QED
  BY <1>2, <1>3

\* A chunk pushed while reads are pending goes to the first of them, for which
\* it is the chunk of the same number; otherwise it joins the queue.
LEMMA PushInv == IInv /\ Push => IInv'
<1> SUFFICES ASSUME IInv, Push PROVE IInv'
  OBVIOUS
<1> USE StreamBounds DEF IInv
<1>0. /\ pushed \in Nat /\ reads \in Nat /\ MaxChunks \in Nat /\ MaxReads \in Nat
      /\ chunks \in Seq(1 .. MaxChunks) /\ waiters \in Seq(ReadIds)
      /\ Len(chunks) \in Nat /\ Len(waiters) \in Nat
      /\ pushed' = pushed + 1 /\ pushed' \in 1 .. MaxChunks
      /\ reads' = reads /\ closed' = closed /\ failed' = failed
      /\ ~closed /\ ~failed
      /\ Delivered \in Nat /\ Settled \in Nat /\ Delivered = Settled
  <2>1. /\ pushed \in Nat /\ reads \in Nat /\ MaxChunks \in Nat /\ MaxReads \in Nat
        /\ chunks \in Seq(1 .. MaxChunks) /\ waiters \in Seq(ReadIds)
        /\ Len(chunks) \in Nat /\ Len(waiters) \in Nat
    BY DEF TypeOK
  <2>2. Delivered \in Nat /\ Settled \in Nat
    BY <2>1 DEF QueueInv, Delivered, Settled
  <2>3. ~closed /\ ~failed /\ closed' = closed /\ failed' = failed
    BY DEF Push
  <2>4. pushed < MaxChunks /\ pushed' = pushed + 1 /\ reads' = reads
    BY DEF Push
  <2>5. Delivered = Settled
    BY <2>2, <2>3 DEF PromiseInv
  <2> QED
    BY <2>1, <2>2, <2>3, <2>4, <2>5
<1>1. CASE waiters # <<>>
  <2>0. Len(waiters) > 0 /\ chunks = <<>> /\ chunks' = <<>> /\ waiters' = Tail(waiters)
    BY <1>0, <1>1 DEF Push, PromiseInv, Settled
  <2>1. Head(waiters) = waiters[1] /\ waiters[1] = Settled + 1 /\ Head(waiters) \in ReadIds
    BY <1>0, <2>0 DEF QueueInv
  <2>2. Settled = pushed /\ Settled + 1 = pushed'
    BY <1>0, <2>0 DEF Delivered
  <2>3. promise' = [promise EXCEPT ![pushed'] = Bytes(pushed')]
    BY <1>1, <2>1, <2>2 DEF Push
  <2>4. /\ Len(waiters') = Len(waiters) - 1 /\ waiters' \in Seq(ReadIds)
        /\ \A k \in 1 .. Len(waiters') : waiters'[k] = waiters[k + 1]
    BY <1>0, <2>0
  <2>5. Settled' = Settled + 1 /\ Delivered' = Delivered + 1
    BY <1>0, <2>0, <2>4 DEF Settled, Delivered
  <2>6. TypeOK'
    <3>1. Bytes(pushed') \in Outcomes
      BY <1>0, OutcomeFacts
    <3>2. promise' \in [ReadIds -> Outcomes]
      BY <3>1, <2>3 DEF TypeOK
    <3> QED
      BY <3>2, <1>0, <2>0, <2>4 DEF TypeOK
  <2>7. QueueInv'
    <3>1. ASSUME NEW k \in 1 .. Len(waiters') PROVE waiters'[k] = Settled' + k
      <4>1. k + 1 \in 1 .. Len(waiters) /\ waiters'[k] = waiters[k + 1]
        BY <1>0, <2>4
      <4>2. waiters[k + 1] = Settled + (k + 1)
        BY <4>1 DEF QueueInv
      <4> QED
        BY <4>1, <4>2, <2>5, <1>0
    <3> QED
      BY <3>1, <1>0, <2>0, <2>4, <2>5 DEF QueueInv
  <2>8. PromiseInv'
    <3>1. pushed' \in ReadIds
      BY <2>1, <2>2
    <3>2. \A i \in ReadIds : promise'[i] = IF i = pushed' THEN Bytes(i) ELSE promise[i]
      BY <2>3, <3>1 DEF TypeOK
    <3>3. Settled \in Nat
      BY <1>0, <2>2
    <3> QED
      BY <3>2, <3>3, <1>0, <2>0, <2>2, <2>5 DEF PromiseInv, ReadIds
  <2> QED
    BY <2>6, <2>7, <2>8
<1>2. CASE waiters = <<>>
  <2>0. /\ chunks' = Append(chunks, pushed') /\ waiters' = <<>> /\ promise' = promise
        /\ Len(chunks') = Len(chunks) + 1 /\ chunks' \in Seq(1 .. MaxChunks)
    <3>1. chunks' = Append(chunks, pushed') /\ waiters' = waiters /\ promise' = promise
      BY <1>2 DEF Push
    <3> QED
      BY <3>1, <1>0, <1>2
  <2>1. Delivered' = Delivered /\ Settled' = Settled /\ Settled = reads
    BY <1>0, <1>2, <2>0 DEF Delivered, Settled
  <2>2. TypeOK'
    BY <1>0, <2>0, <1>2 DEF TypeOK
  <2>3. QueueInv'
    <3>1. \A k \in 1 .. Len(chunks') : chunks'[k] = Delivered' + k
      BY <1>0, <2>0, <2>1 DEF QueueInv, Delivered
    <3> QED
      BY <3>1, <1>0, <2>0 DEF QueueInv
  <2>4. PromiseInv'
    BY <1>0, <2>0, <2>1 DEF PromiseInv
  <2> QED
    BY <2>2, <2>3, <2>4
<1> QED
  BY <1>1, <1>2

\* What end() and fail() have in common: pending reads move to the second stretch.
LEMMA SettleInv ==
    ASSUME IInv, NEW value \in {Null, Rejected}, SettleWaiters(value),
           UNCHANGED <<chunks, pushed, reads>>,
           closed' \in BOOLEAN, failed' \in BOOLEAN, closed' \/ failed'
    PROVE  IInv'
<1> USE StreamBounds DEF IInv
<1>0. /\ pushed \in Nat /\ reads \in Nat /\ MaxChunks \in Nat /\ MaxReads \in Nat
      /\ Len(chunks) \in Nat /\ Len(waiters) \in Nat /\ Len(waiters) <= reads
      /\ waiters' = <<>> /\ Len(waiters') = 0
      /\ chunks' = chunks /\ pushed' = pushed /\ reads' = reads
  BY DEF TypeOK, QueueInv, SettleWaiters
<1>1. Settled' = reads /\ Settled <= reads /\ Settled \in Nat /\ Delivered' = Delivered
  BY <1>0 DEF Settled, Delivered
<1>2. \A i \in ReadIds :
         promise'[i] = IF Settled < i /\ i <= reads THEN value ELSE promise[i]
  BY WaitersArePending DEF SettleWaiters
<1>3. TypeOK'
  <2>1. value \in Outcomes
    BY OutcomeFacts
  <2>2. promise' \in [ReadIds -> Outcomes]
    BY <2>1 DEF SettleWaiters, TypeOK
  <2> QED
    BY <2>2, <1>0 DEF TypeOK
<1>4. QueueInv'
  BY <1>0, <1>1 DEF QueueInv
<1>5. PromiseInv'
  <2>1. Delivered \in Int
    BY <1>0 DEF Delivered
  <2> QED
    BY <1>0, <1>1, <1>2, <2>1 DEF PromiseInv, ReadIds
<1> QED
  BY <1>3, <1>4, <1>5

\* A read takes the chunk of its own number, or is settled, or waits.
LEMMA ReadInv == IInv /\ ReadChunk => IInv'
<1> SUFFICES ASSUME IInv, ReadChunk PROVE IInv'
  OBVIOUS
<1> USE StreamBounds DEF IInv
<1>0. /\ pushed \in Nat /\ reads \in Nat /\ MaxChunks \in Nat /\ MaxReads \in Nat
      /\ chunks \in Seq(1 .. MaxChunks) /\ waiters \in Seq(ReadIds)
      /\ Len(chunks) \in Nat /\ Len(waiters) \in Nat /\ Len(waiters) <= reads
      /\ Len(chunks) <= pushed
      /\ reads' = reads + 1 /\ reads' \in ReadIds
      /\ pushed' = pushed /\ closed' = closed /\ failed' = failed
      /\ Delivered \in Nat /\ Settled \in Nat /\ Settled <= reads
  BY DEF TypeOK, ReadChunk, ReadIds, QueueInv, Delivered, Settled
<1>1. CASE chunks # <<>>
  <2>0. /\ Len(chunks) > 0 /\ Settled = reads /\ Delivered = Settled
        /\ Len(waiters) = 0 /\ waiters' = waiters
        /\ chunks' = Tail(chunks) /\ Len(chunks') = Len(chunks) - 1
        /\ chunks' \in Seq(1 .. MaxChunks)
        /\ \A k \in 1 .. Len(chunks') : chunks'[k] = chunks[k + 1]
    <3>1. waiters' = waiters /\ chunks' = Tail(chunks)
      BY <1>1 DEF ReadChunk
    <3>2. ~(Delivered < Settled) /\ ~(Settled < reads) /\ Delivered <= Settled
      BY <1>1 DEF PromiseInv
    <3>3. Settled = reads /\ Delivered = Settled
      BY <1>0, <3>2
    <3>4. Len(waiters) = 0
      BY <1>0, <3>3 DEF Settled
    <3> QED
      BY <1>0, <1>1, <3>1, <3>3, <3>4
  <2>1. Head(chunks) = reads' /\ Head(chunks) \in 1 .. MaxChunks
    BY <1>0, <2>0 DEF QueueInv
  <2>2. promise' = [promise EXCEPT ![reads'] = Bytes(reads')]
    BY <1>1, <2>1 DEF ReadChunk
  <2>3. Delivered' = reads' /\ Settled' = reads'
    BY <1>0, <2>0 DEF Delivered, Settled
  <2>4. TypeOK'
    <3>1. Bytes(reads') \in Outcomes
      BY <1>0, <2>1, OutcomeFacts
    <3>2. promise' \in [ReadIds -> Outcomes]
      BY <3>1, <2>2 DEF TypeOK
    <3>3. reads' \in 0 .. MaxReads
      BY <1>0 DEF ReadIds
    <3> QED
      BY <3>2, <3>3, <1>0, <2>0 DEF TypeOK
  <2>5. QueueInv'
    <3>1. \A k \in 1 .. Len(chunks') : chunks'[k] = Delivered' + k
      BY <1>0, <2>0, <2>3 DEF QueueInv
    <3> QED
      BY <3>1, <1>0, <2>0 DEF QueueInv
  <2>6. PromiseInv'
    <3>1. \A i \in ReadIds : promise'[i] = IF i = reads' THEN Bytes(i) ELSE promise[i]
      BY <2>2, <1>0 DEF TypeOK
    <3> QED
      BY <3>1, <1>0, <2>0, <2>3 DEF PromiseInv, ReadIds
  <2> QED
    BY <2>4, <2>5, <2>6
<1>2. ASSUME chunks = <<>>, closed \/ failed, NEW value \in {Null, Rejected},
             promise' = [promise EXCEPT ![reads'] = value],
             UNCHANGED <<chunks, waiters>>
      PROVE  IInv'
  <2>0. Settled = reads /\ Settled' = reads' /\ Delivered' = Delivered /\ Len(waiters) = 0
    BY <1>0, <1>2 DEF PromiseInv, Settled, Delivered
  <2>1. TypeOK'
    <3>1. value \in Outcomes
      BY <1>2, OutcomeFacts
    <3>2. promise' \in [ReadIds -> Outcomes]
      BY <3>1, <1>2 DEF TypeOK
    <3>3. reads' \in 0 .. MaxReads
      BY <1>0 DEF ReadIds
    <3> QED
      BY <3>2, <3>3, <1>0, <1>2 DEF TypeOK
  <2>2. QueueInv'
    BY <1>0, <1>2, <2>0 DEF QueueInv
  <2>3. PromiseInv'
    <3>1. \A i \in ReadIds : promise'[i] = IF i = reads' THEN value ELSE promise[i]
      BY <1>2, <1>0 DEF TypeOK
    <3> QED
      BY <3>1, <1>0, <1>2, <2>0 DEF PromiseInv, ReadIds
  <2> QED
    BY <2>1, <2>2, <2>3
<1>3. CASE chunks = <<>> /\ ~failed /\ ~closed
  <2>0. /\ waiters' = Append(waiters, reads') /\ chunks' = chunks /\ promise' = promise
        /\ Len(waiters') = Len(waiters) + 1 /\ waiters' \in Seq(ReadIds)
    BY <1>0, <1>3 DEF ReadChunk
  <2>1. Settled' = Settled /\ Delivered' = Delivered
    BY <1>0, <2>0 DEF Settled, Delivered
  <2>2. TypeOK'
    <3>1. reads' \in 0 .. MaxReads
      BY <1>0 DEF ReadIds
    <3> QED
      BY <3>1, <1>0, <2>0 DEF TypeOK
  <2>3. QueueInv'
    <3>1. ASSUME NEW k \in 1 .. Len(waiters') PROVE waiters'[k] = Settled' + k
      <4>1. CASE k = Len(waiters) + 1
        BY <4>1, <1>0, <2>0, <2>1 DEF Settled
      <4>2. CASE k \in 1 .. Len(waiters)
        <5>1. waiters'[k] = waiters[k]
          BY <4>2, <1>0, <2>0
        <5> QED
          BY <5>1, <4>2, <2>1 DEF QueueInv
      <4> QED
        BY <4>1, <4>2, <1>0, <2>0
    <3> QED
      BY <3>1, <1>0, <2>0, <2>1 DEF QueueInv
  <2>4. PromiseInv'
    BY <1>0, <1>3, <2>0, <2>1 DEF PromiseInv
  <2> QED
    BY <2>2, <2>3, <2>4
<1> QED
  BY <1>1, <1>2, <1>3 DEF ReadChunk

LEMMA StepInv == IInv /\ [Next]_streamVars => IInv'
<1> SUFFICES ASSUME IInv, [Next]_streamVars PROVE IInv'
  OBVIOUS
<1>1. CASE Push
  BY <1>1, PushInv
<1>2. CASE End
  <2>1. closed' \in BOOLEAN /\ failed' \in BOOLEAN /\ (closed' \/ failed')
    BY <1>2 DEF End, IInv, TypeOK
  <2> QED
    BY <1>2, <2>1, SettleInv DEF End
<1>3. CASE Fail
  <2>1. closed' \in BOOLEAN /\ failed' \in BOOLEAN /\ (closed' \/ failed')
    BY <1>3 DEF Fail, IInv, TypeOK
  <2> QED
    BY <1>3, <2>1, SettleInv DEF Fail
<1>4. CASE ReadChunk
  BY <1>4, ReadInv
<1>5. CASE UNCHANGED streamVars
  BY <1>5 DEF streamVars, IInv, TypeOK, QueueInv, PromiseInv, Delivered, Settled
<1> QED
  BY <1>1, <1>2, <1>3, <1>4, <1>5 DEF Next

\* The queue, the waiters and the settled promises always fit together as
\* push, end, fail and readChunk leave them.
THEOREM StreamInvariance == Spec => []IInv
BY InitInv, StepInv, PTL DEF Spec

LEMMA FifoFromInv == IInv => FifoDelivery
<1> SUFFICES ASSUME IInv, NEW i \in ReadIds, promise[i].kind = "bytes"
             PROVE  promise[i].chunk = i /\ \A j \in 1 .. i : promise[j].kind = "bytes"
  BY DEF FifoDelivery
<1>0. Delivered \in Int /\ Settled \in Int
  BY StreamBounds DEF IInv, TypeOK, Delivered, Settled
<1>1. i <= Delivered
  BY <1>0, StreamBounds, OutcomeFacts DEF IInv, PromiseInv, ReadIds
<1>2. \A j \in 1 .. i : j \in ReadIds /\ promise[j] = Bytes(j)
  BY <1>0, <1>1, StreamBounds DEF IInv, PromiseInv, ReadIds
<1> QED
  BY <1>2, StreamBounds, OutcomeFacts DEF ReadIds

\* The i-th read gets the i-th chunk, with none skipped before it.
THEOREM FifoDeliveryHolds == Spec => []FifoDelivery
BY FifoFromInv, StreamInvariance, PTL

LEMMA DrainedFromInv == IInv => DrainedBeforeEnd
<1> SUFFICES ASSUME IInv, NEW i \in 1 .. reads, promise[i].kind \in {"null", "error"}
             PROVE  pushed < i
  BY DEF DrainedBeforeEnd
<1>0. i \in ReadIds /\ Delivered \in Int /\ Settled \in Int /\ pushed \in Nat
  BY StreamBounds DEF IInv, TypeOK, Delivered, Settled, ReadIds
<1>1. Delivered < i /\ i <= Settled
  BY <1>0, StreamBounds, OutcomeFacts DEF IInv, PromiseInv, ReadIds
<1>2. chunks = <<>>
  BY <1>0, <1>1, StreamBounds DEF IInv, PromiseInv, ReadIds
<1> QED
  BY <1>0, <1>1, <1>2 DEF Delivered

\* The end and an error are seen only after every accepted chunk.
THEOREM DrainedBeforeEndHolds == Spec => []DrainedBeforeEnd
BY DrainedFromInv, StreamInvariance, PTL

LEMMA ReaderFromInv == IInv => NoStrandedReader
<1> SUFFICES ASSUME IInv, NEW i \in 1 .. reads, promise[i].kind = "pending"
             PROVE  /\ chunks = <<>> /\ ~closed /\ ~failed
                    /\ \E k \in 1 .. Len(waiters) : waiters[k] = i
  BY DEF NoStrandedReader
<1>0. i \in ReadIds /\ Delivered \in Int /\ Settled \in Int /\ reads \in Nat
  BY StreamBounds DEF IInv, TypeOK, Delivered, Settled, ReadIds
<1>1. Settled < i /\ i <= reads
  BY <1>0, StreamBounds, OutcomeFacts DEF IInv, PromiseInv, ReadIds
<1>2. chunks = <<>> /\ ~closed /\ ~failed
  BY <1>0, <1>1, StreamBounds DEF IInv, PromiseInv, ReadIds
<1> QED
  BY <1>0, <1>1, <1>2, WaitersArePending

\* A pending read is among the waiters of a stream that is open and empty.
THEOREM NoStrandedReaderHolds == Spec => []NoStrandedReader
BY ReaderFromInv, StreamInvariance, PTL

-----------------------------------------------------------------------------
(* The terminal *)

LoadTypes   == {"loaded", "load.error"}
PageTypes   == LoadTypes \cup {"started", "output", "close"} \cup Terminals
WorkerTypes == {"load", "run", "stdin", "stdin.end", "resize", "cancel"}
PageMessages   == [type : PageTypes, id : Nat, run : Nat]
WorkerMessages == [type : WorkerTypes, id : Nat, run : Nat]
Ends        == Terminals \cup {"none"}
Entries     == [posted : Nat, shown : Nat, worker : Ends, page : Ends]
Uis         == [phase : {"idle", "loading", "running"} \cup Terminals, runCount : Nat,
                loaded : BOOLEAN, session : Nat, run : Nat, typed : Nat, eof : BOOLEAN,
                asked : BOOLEAN, resets : Nat, destroyed : BOOLEAN]
Runs        == [id : Nat, run : Nat, aborted : BOOLEAN]

Types(u, W, P, a, L) ==
    /\ u \in Uis /\ a \in Runs
    /\ W \in Seq(WorkerMessages) /\ P \in Seq(PageMessages)
    /\ L \in Seq(Entries)

\* Messages about runs carry the ids of runs of this worker, the others none.
Bears(id, isLoad, count) == IF isLoad THEN id = 0 ELSE id >= 1 /\ id <= count

IdsKnown(W, P, count) ==
    /\ \A i \in 1 .. Len(W) : Bears(W[i].id, W[i].type = "load", count)
    /\ \A i \in 1 .. Len(P) : Bears(P[i].id, P[i].type \in LoadTypes, count)

Outputs(P, s) == {i \in 1 .. Len(P) : P[i].type = "output" /\ P[i].id = s}

NoRunSent(W) == \A i \in 1 .. Len(W) : W[i].type # "run"

\* The stages of a session that listens for id s, the n-th one, with entry e in the log.
\* Its run is on its way to the worker, behind what is left of earlier runs;
Starting(s, n, W, P, a, e) ==
    /\ a.id = 0 /\ e.posted = 0 /\ e.shown = 0 /\ e.worker = "none"
    /\ \E p \in 1 .. Len(W) :
          /\ W[p].type = "run" /\ W[p].id = s /\ W[p].run = n
          /\ \A i \in 1 .. Len(W) : i # p => W[i].type # "run"
          /\ \A i \in 1 .. Len(W) : i < p => W[i].id # s
    /\ \A i \in 1 .. Len(P) : P[i].id # s

\* it is the active one;
Going(s, n, W, P, a, e) ==
    /\ a.id = s /\ a.run = n /\ e.worker = "none"
    /\ NoRunSent(W)
    /\ \A i \in 1 .. Len(P) : P[i].id = s => P[i].type \notin Terminals
    /\ e.shown + Cardinality(Outputs(P, s)) = e.posted

\* its end w is on the way to the page, behind all its output, and with nothing before it
\* that the session would take for an end.
EndsWith(P, s, w) ==
    \E t \in 1 .. Len(P) :
        /\ P[t].type = w /\ P[t].id = s
        /\ \A i \in 1 .. Len(P) : i < t /\ P[i].id = s => P[i].type \notin Terminals
        /\ \A i \in 1 .. Len(P) : i > t /\ P[i].id = s => P[i].type # "output"

Ending(s, n, W, P, a, e) ==
    /\ a.id = 0 /\ e.worker \in Terminals
    /\ NoRunSent(W)
    /\ EndsWith(P, s, e.worker)
    /\ e.shown + Cardinality(Outputs(P, s)) = e.posted

SessionInv(s, n, W, P, a, e) ==
    \/ Starting(s, n, W, P, a, e)
    \/ Going(s, n, W, P, a, e)
    \/ Ending(s, n, W, P, a, e)

PageInv(u, W, P, a, L) ==
    \/ /\ u.session = 0 /\ (u.phase # "running" \/ u.destroyed)
       /\ a.id = 0 /\ NoRunSent(W)
       /\ u.destroyed => W = <<>> /\ P = <<>>
    \/ /\ u.session # 0 /\ u.session <= u.runCount /\ u.phase = "running" /\ ~u.destroyed
       /\ u.run = Len(L) /\ L # <<>> /\ L[Len(L)].page = "none"
       /\ SessionInv(u.session, Len(L), W, P, a, L[Len(L)])

\* OwnOutcome of a log.
Own(L) == \A k \in 1 .. Len(L) :
              L[k].page # "none" => L[k].page = L[k].worker /\ L[k].shown = L[k].posted

Inv(u, W, P, a, L) ==
    Types(u, W, P, a, L) /\ IdsKnown(W, P, u.runCount) /\ PageInv(u, W, P, a, L) /\ Own(L)

TInv == Inv(ui, toWorker, toPage, active, log)

-----------------------------------------------------------------------------
(* Counting the output that is on its way *)

LEMMA OutputsFinite ==
    ASSUME NEW P \in Seq(PageMessages), NEW s
    PROVE  IsFiniteSet(Outputs(P, s)) /\ Cardinality(Outputs(P, s)) \in Nat
<1>1. Outputs(P, s) \in SUBSET (1 .. Len(P))
  BY DEF Outputs
<1>2. IsFiniteSet(1 .. Len(P))
  BY FS_Interval
<1> QED
  BY <1>1, <1>2, FS_Subset, FS_CardinalityType

LEMMA CountAppend ==
    ASSUME NEW P \in Seq(PageMessages), NEW m \in PageMessages, NEW s
    PROVE  Cardinality(Outputs(Append(P, m), s)) =
               Cardinality(Outputs(P, s)) + IF m.type = "output" /\ m.id = s THEN 1 ELSE 0
<1> DEFINE n == Len(P) + 1
           Q == Append(P, m)
<1>1. n \in Nat /\ n \notin 1 .. Len(P) /\ Len(Q) = n /\ Q[n] = m
      /\ 1 .. n = (1 .. Len(P)) \cup {n} /\ \A i \in 1 .. Len(P) : Q[i] = P[i]
  OBVIOUS
<1> HIDE DEF n, Q
<1>2. Cardinality(Outputs(P, s)) \in Nat /\ IsFiniteSet(Outputs(P, s))
  BY OutputsFinite
<1>3. CASE m.type = "output" /\ m.id = s
  <2>1. Outputs(Q, s) = Outputs(P, s) \cup {n} /\ n \notin Outputs(P, s)
    BY <1>1, <1>3 DEF Outputs
  <2> QED
    BY <1>2, <1>3, <2>1, FS_AddElement DEF Q
<1>4. CASE ~(m.type = "output" /\ m.id = s)
  <2>1. Outputs(Q, s) = Outputs(P, s)
    BY <1>1, <1>4 DEF Outputs
  <2> QED
    BY <1>2, <1>4, <2>1 DEF Q
<1> QED
  BY <1>3, <1>4

LEMMA CountTail ==
    ASSUME NEW P \in Seq(PageMessages), P # <<>>, NEW s
    PROVE  Cardinality(Outputs(P, s)) =
               Cardinality(Outputs(Tail(P), s))
                 + IF Head(P).type = "output" /\ Head(P).id = s THEN 1 ELSE 0
<1> DEFINE Q == Tail(P)
           A == Outputs(Q, s)
           B == Outputs(P, s) \ {1}
           f == [i \in A |-> i + 1]
<1>1. Q \in Seq(PageMessages) /\ Len(Q) = Len(P) - 1 /\ Len(P) \in Nat \ {0}
      /\ Head(P) = P[1] /\ \A i \in 1 .. Len(Q) : Q[i] = P[i + 1]
  OBVIOUS
<1> HIDE DEF Q
<1>2. A \subseteq Nat /\ \A i \in Nat : i \in A <=> i + 1 \in B
  BY <1>1 DEF Outputs
<1>3. \A j \in B : j - 1 \in A /\ j \in Nat
  BY <1>1 DEF Outputs
<1>4. IsFiniteSet(A) /\ Cardinality(A) \in Nat /\ IsFiniteSet(Outputs(P, s))
      /\ Cardinality(Outputs(P, s)) \in Nat
  BY <1>1, OutputsFinite
<1> HIDE DEF A, B
<1>5. f \in Bijection(A, B)
  <2>1. f \in [A -> B]
    BY <1>2
  <2>2. \A a, b \in A : f[a] = f[b] => a = b
    BY <1>2
  <2>3. \A j \in B : \E i \in A : f[i] = j
    BY <1>3
  <2> HIDE DEF f
  <2> QED
    BY <2>1, <2>2, <2>3 DEF Bijection, Injection, Surjection, IsInjective
<1>6. Cardinality(B) = Cardinality(A)
  BY <1>4, <1>5, FS_Bijection DEF ExistsBijection
<1>7. Cardinality(B) = IF 1 \in Outputs(P, s) THEN Cardinality(Outputs(P, s)) - 1
                       ELSE Cardinality(Outputs(P, s))
  BY <1>4, FS_RemoveElement DEF B
<1>8. 1 \in Outputs(P, s) <=> Head(P).type = "output" /\ Head(P).id = s
  BY <1>1 DEF Outputs
<1>9. CASE 1 \in Outputs(P, s)
  BY <1>4, <1>6, <1>7, <1>8, <1>9 DEF A, Q
<1>10. CASE 1 \notin Outputs(P, s)
  BY <1>4, <1>6, <1>7, <1>8, <1>10 DEF A, Q
<1> QED
  BY <1>9, <1>10

-----------------------------------------------------------------------------
(* One session *)

LEMMA PostToWorkerKeeps ==
    ASSUME NEW s \in Nat, NEW n, NEW W \in Seq(WorkerMessages), NEW P, NEW a, NEW e,
           SessionInv(s, n, W, P, a, e), NEW m \in WorkerMessages, m.type # "run"
    PROVE  SessionInv(s, n, Append(W, m), P, a, e)
<1> DEFINE V == Append(W, m)
<1>1. Len(V) = Len(W) + 1 /\ Len(W) \in Nat /\ V[Len(W) + 1] = m /\ \A i \in 1 .. Len(W) : V[i] = W[i]
  OBVIOUS
<1> HIDE DEF V
<1>2. NoRunSent(W) => NoRunSent(V)
  BY <1>1 DEF NoRunSent
<1>3. CASE Starting(s, n, W, P, a, e)
  <2>1. PICK p \in 1 .. Len(W) :
          /\ W[p].type = "run" /\ W[p].id = s /\ W[p].run = n
          /\ \A i \in 1 .. Len(W) : i # p => W[i].type # "run"
          /\ \A i \in 1 .. Len(W) : i < p => W[i].id # s
    BY <1>3 DEF Starting
  <2>2. p \in 1 .. Len(V)
        /\ V[p].type = "run" /\ V[p].id = s /\ V[p].run = n
        /\ (\A i \in 1 .. Len(V) : i # p => V[i].type # "run")
        /\ (\A i \in 1 .. Len(V) : i < p => V[i].id # s)
    BY <1>1, <2>1
  <2>3. Starting(s, n, V, P, a, e)
    BY <1>3, <2>2 DEF Starting
  <2> QED
    BY <2>3 DEF SessionInv, V
<1>4. CASE Going(s, n, W, P, a, e)
  BY <1>2, <1>4 DEF Going, SessionInv, V
<1>5. CASE Ending(s, n, W, P, a, e)
  BY <1>2, <1>5 DEF Ending, SessionInv, V
<1> QED
  BY <1>3, <1>4, <1>5 DEF SessionInv

\* The end of P is moved up by one.
LEMMA EndMovesUp ==
    ASSUME NEW s, NEW P \in Seq(PageMessages), P # <<>>, NEW w,
           EndsWith(P, s, w),
           ~(Head(P).id = s /\ Head(P).type = w)
    PROVE  EndsWith(Tail(P), s, w)
<1> DEFINE Q == Tail(P)
<1>1. Len(Q) = Len(P) - 1 /\ Len(P) \in Nat \ {0} /\ Head(P) = P[1]
      /\ \A i \in 1 .. Len(Q) : Q[i] = P[i + 1]
  OBVIOUS
<1> HIDE DEF Q
<1>2. PICK t \in 1 .. Len(P) :
         /\ P[t].type = w /\ P[t].id = s
         /\ \A i \in 1 .. Len(P) : i < t /\ P[i].id = s => P[i].type \notin Terminals
         /\ \A i \in 1 .. Len(P) : i > t /\ P[i].id = s => P[i].type # "output"
  BY DEF EndsWith
<1>3. t # 1
  BY <1>1, <1>2
<1>4. t - 1 \in 1 .. Len(Q) /\ Q[t - 1] = P[t]
  BY <1>1, <1>3
<1>5. \A i \in 1 .. Len(Q) : i < t - 1 /\ Q[i].id = s => Q[i].type \notin Terminals
  BY <1>1, <1>2
<1>6. \A i \in 1 .. Len(Q) : i > t - 1 /\ Q[i].id = s => Q[i].type # "output"
  BY <1>1, <1>2
<1> QED
  BY <1>2, <1>4, <1>5, <1>6 DEF Q, EndsWith

\* The page hears a message that is neither output nor the end for the session.
LEMMA HearOtherKeeps ==
    ASSUME NEW s \in Nat, NEW n, NEW W, NEW P \in Seq(PageMessages), P # <<>>, NEW a, NEW e \in Entries,
           SessionInv(s, n, W, P, a, e),
           ~(Head(P).id = s /\ Head(P).type \in Terminals \cup {"output"})
    PROVE  SessionInv(s, n, W, Tail(P), a, e)
<1> DEFINE Q == Tail(P)
<1>1. Q \in Seq(PageMessages) /\ Len(Q) = Len(P) - 1 /\ Len(P) \in Nat \ {0}
      /\ \A i \in 1 .. Len(Q) : Q[i] = P[i + 1]
  OBVIOUS
<1>2. Cardinality(Outputs(P, s)) = Cardinality(Outputs(Q, s)) + 0
  BY CountTail
<1>3. Cardinality(Outputs(Q, s)) \in Nat
  BY <1>1, OutputsFinite
<1>4. Cardinality(Outputs(P, s)) = Cardinality(Outputs(Q, s))
  BY <1>2, <1>3
<1>5. CASE Starting(s, n, W, P, a, e)
  <2>1. \A i \in 1 .. Len(Q) : Q[i].id # s
    BY <1>1, <1>5 DEF Starting
  <2> HIDE DEF Q
  <2> QED
    BY <1>5, <2>1 DEF Starting, SessionInv, Q
<1>6. CASE Going(s, n, W, P, a, e)
  <2>1. \A i \in 1 .. Len(Q) : Q[i].id = s => Q[i].type \notin Terminals
    BY <1>1, <1>6 DEF Going
  <2> HIDE DEF Q
  <2> QED
    BY <1>4, <1>6, <2>1 DEF Going, SessionInv, Q
<1>7. CASE Ending(s, n, W, P, a, e)
  <2>1. ~(Head(P).id = s /\ Head(P).type = e.worker)
    BY <1>7 DEF Ending
  <2>2. EndsWith(Q, s, e.worker)
    BY <1>7, <2>1, EndMovesUp DEF Ending
  <2> HIDE DEF Q
  <2>3. Ending(s, n, W, Q, a, e)
    BY <1>4, <1>7, <2>2 DEF Ending
  <2> QED
    BY <2>3 DEF SessionInv, Q
<1> QED
  BY <1>5, <1>6, <1>7 DEF SessionInv

\* The page hears output of the session.
LEMMA HearOutputKeeps ==
    ASSUME NEW s \in Nat, NEW n, NEW W, NEW P \in Seq(PageMessages), P # <<>>, NEW a, NEW e \in Entries,
           SessionInv(s, n, W, P, a, e), Head(P).id = s, Head(P).type = "output",
           NEW g \in Entries, g.worker = e.worker, g.posted = e.posted, g.shown = e.shown + 1
    PROVE  SessionInv(s, n, W, Tail(P), a, g)
<1> DEFINE Q == Tail(P)
<1>1. Q \in Seq(PageMessages) /\ Len(Q) = Len(P) - 1 /\ Len(P) \in Nat \ {0} /\ Head(P) = P[1]
      /\ \A i \in 1 .. Len(Q) : Q[i] = P[i + 1]
  OBVIOUS
<1>2. Cardinality(Outputs(P, s)) = Cardinality(Outputs(Q, s)) + 1
  BY CountTail
<1>3. Cardinality(Outputs(Q, s)) \in Nat
  BY <1>1, OutputsFinite
<1> DEFINE c == Cardinality(Outputs(Q, s))
           b == Cardinality(Outputs(P, s))
<1>4. b = c + 1 /\ c \in Nat /\ e.shown \in Nat
  BY <1>2, <1>3 DEF Entries
<1>5. e.shown + b = e.posted => g.shown + c = g.posted
  <2> HIDE DEF b, c
  <2> QED
    BY <1>4
<1>6. ~Starting(s, n, W, P, a, e)
  BY <1>1 DEF Starting
<1>7. CASE Going(s, n, W, P, a, e)
  <2>1. \A i \in 1 .. Len(Q) : Q[i].id = s => Q[i].type \notin Terminals
    BY <1>1, <1>7 DEF Going
  <2>2. g.shown + Cardinality(Outputs(Q, s)) = g.posted
    BY <1>5, <1>7 DEF Going
  <2> HIDE DEF Q
  <2>3. Going(s, n, W, Q, a, g)
    BY <1>7, <2>1, <2>2 DEF Going
  <2> QED
    BY <2>3 DEF SessionInv, Q
<1>8. CASE Ending(s, n, W, P, a, e)
  <2>1. ~(Head(P).id = s /\ Head(P).type = e.worker)
    BY <1>8 DEF Ending, Terminals
  <2>2. EndsWith(Q, s, e.worker)
    BY <1>8, <2>1, EndMovesUp DEF Ending
  <2> HIDE DEF Q
  <2>3. Ending(s, n, W, Q, a, g)
    BY <1>5, <1>8, <2>2 DEF Ending
  <2> QED
    BY <2>3 DEF SessionInv, Q
<1> QED
  BY <1>6, <1>7, <1>8 DEF SessionInv

\* The session takes its first end for its own, and it is.
LEMMA HearEnd ==
    ASSUME NEW s \in Nat, NEW n, NEW W, NEW P \in Seq(PageMessages), P # <<>>, NEW a, NEW e \in Entries,
           SessionInv(s, n, W, P, a, e), Head(P).id = s, Head(P).type \in Terminals
    PROVE  e.worker = Head(P).type /\ e.shown = e.posted /\ a.id = 0 /\ NoRunSent(W)
<1>1. Head(P) = P[1] /\ Len(P) \in Nat \ {0}
  OBVIOUS
<1>2. Ending(s, n, W, P, a, e)
  BY <1>1 DEF SessionInv, Starting, Going
<1>3. PICK t \in 1 .. Len(P) :
         /\ P[t].type = e.worker /\ P[t].id = s
         /\ \A i \in 1 .. Len(P) : i < t /\ P[i].id = s => P[i].type \notin Terminals
         /\ \A i \in 1 .. Len(P) : i > t /\ P[i].id = s => P[i].type # "output"
  BY <1>2 DEF Ending, EndsWith
<1>4. t = 1
  <2>1. 1 \in 1 .. Len(P) /\ ~(1 < t)
    BY <1>1, <1>3
  <2> QED
    BY <2>1
<1>5. Outputs(P, s) = {}
  <2> SUFFICES ASSUME NEW i \in 1 .. Len(P), P[i].type = "output", P[i].id = s PROVE FALSE
    BY DEF Outputs
  <2>1. CASE i = 1
    BY <1>1, <2>1 DEF Terminals
  <2>2. CASE i # 1
    BY <1>3, <1>4, <2>2
  <2> QED
    BY <2>1, <2>2
<1>6. Cardinality(Outputs(P, s)) = 0
  BY <1>5, FS_EmptySet
<1> QED
  BY <1>1, <1>2, <1>3, <1>4, <1>6 DEF Ending, Entries

\* The worker posts a message that is neither output nor, before the end, an end for the
\* session.
LEMMA PostToPageKeeps ==
    ASSUME NEW s \in Nat, NEW n, NEW W, NEW P \in Seq(PageMessages), NEW a, NEW e \in Entries,
           SessionInv(s, n, W, P, a, e), NEW m \in PageMessages,
           m.id # s \/ (Ending(s, n, W, P, a, e) /\ m.type # "output")
    PROVE  SessionInv(s, n, W, Append(P, m), a, e)
<1> DEFINE Q == Append(P, m)
<1>1. Len(Q) = Len(P) + 1 /\ Len(P) \in Nat /\ Q[Len(P) + 1] = m /\ \A i \in 1 .. Len(P) : Q[i] = P[i]
  OBVIOUS
<1>2. Cardinality(Outputs(Q, s)) = Cardinality(Outputs(P, s)) + 0
  BY CountAppend
<1>3. Cardinality(Outputs(P, s)) \in Nat
  BY OutputsFinite
<1>4. Cardinality(Outputs(Q, s)) = Cardinality(Outputs(P, s))
  BY <1>2, <1>3
<1> HIDE DEF Q
<1>5. CASE Starting(s, n, W, P, a, e)
  <2>1. m.id # s
    BY <1>5 DEF Starting, Ending, Terminals
  <2>2. \A i \in 1 .. Len(Q) : Q[i].id # s
    BY <1>1, <1>5, <2>1 DEF Starting
  <2> QED
    BY <1>5, <2>2 DEF Starting, SessionInv, Q
<1>6. CASE Going(s, n, W, P, a, e)
  <2>1. m.id # s
    BY <1>6 DEF Going, Ending, Terminals
  <2>2. \A i \in 1 .. Len(Q) : Q[i].id = s => Q[i].type \notin Terminals
    BY <1>1, <1>6, <2>1 DEF Going
  <2>3. Going(s, n, W, Q, a, e)
    BY <1>4, <1>6, <2>2 DEF Going
  <2> QED
    BY <2>3 DEF SessionInv, Q
<1>7. CASE Ending(s, n, W, P, a, e)
  <2>1. PICK t \in 1 .. Len(P) :
           /\ P[t].type = e.worker /\ P[t].id = s
           /\ \A i \in 1 .. Len(P) : i < t /\ P[i].id = s => P[i].type \notin Terminals
           /\ \A i \in 1 .. Len(P) : i > t /\ P[i].id = s => P[i].type # "output"
    BY <1>7 DEF Ending, EndsWith
  <2>2. t \in 1 .. Len(Q) /\ Q[t] = P[t]
    BY <1>1
  <2>3. \A i \in 1 .. Len(Q) : i < t /\ Q[i].id = s => Q[i].type \notin Terminals
    BY <1>1, <2>1
  <2>4. \A i \in 1 .. Len(Q) : i > t /\ Q[i].id = s => Q[i].type # "output"
    <3> SUFFICES ASSUME NEW i \in 1 .. Len(Q), i > t, Q[i].id = s PROVE Q[i].type # "output"
      OBVIOUS
    <3>1. CASE i = Len(P) + 1
      BY <1>1, <3>1
    <3>2. CASE i # Len(P) + 1
      BY <1>1, <2>1, <3>2
    <3> QED
      BY <3>1, <3>2
  <2>5. EndsWith(Q, s, e.worker)
    BY <2>1, <2>2, <2>3, <2>4 DEF EndsWith
  <2>6. Ending(s, n, W, Q, a, e)
    BY <1>4, <1>7, <2>5 DEF Ending
  <2> QED
    BY <2>6 DEF SessionInv, Q
<1> QED
  BY <1>5, <1>6, <1>7 DEF SessionInv

\* The worker takes a message that is not a run.
LEMMA WorkerTakes ==
    ASSUME NEW s \in Nat, NEW n, NEW W \in Seq(WorkerMessages), W # <<>>, NEW P, NEW a, NEW e,
           SessionInv(s, n, W, P, a, e), Head(W).type # "run"
    PROVE  /\ SessionInv(s, n, Tail(W), P, a, e)
           /\ Head(W).id = s => ~Starting(s, n, W, P, a, e)
           /\ Ending(s, n, W, P, a, e) => Ending(s, n, Tail(W), P, a, e)
<1> DEFINE V == Tail(W)
<1>1. Len(V) = Len(W) - 1 /\ Len(W) \in Nat \ {0} /\ Head(W) = W[1] /\ \A i \in 1 .. Len(V) : V[i] = W[i + 1]
  OBVIOUS
<1> HIDE DEF V
<1>2. NoRunSent(W) => NoRunSent(V)
  BY <1>1 DEF NoRunSent
<1>3. CASE Starting(s, n, W, P, a, e)
  <2>1. PICK p \in 1 .. Len(W) :
          /\ W[p].type = "run" /\ W[p].id = s /\ W[p].run = n
          /\ \A i \in 1 .. Len(W) : i # p => W[i].type # "run"
          /\ \A i \in 1 .. Len(W) : i < p => W[i].id # s
    BY <1>3 DEF Starting
  <2>2. p # 1 /\ 1 \in 1 .. Len(W)
    BY <1>1, <2>1
  <2>3. Head(W).id # s
    BY <1>1, <2>1, <2>2
  <2>4. p - 1 \in 1 .. Len(V) /\ V[p - 1] = W[p]
    BY <1>1, <2>2
  <2>5. \A i \in 1 .. Len(V) : i # p - 1 => V[i].type # "run"
    BY <1>1, <2>1
  <2>6. \A i \in 1 .. Len(V) : i < p - 1 => V[i].id # s
    BY <1>1, <2>1
  <2>7. Starting(s, n, V, P, a, e)
    BY <1>3, <2>1, <2>4, <2>5, <2>6 DEF Starting
  <2>8. ~Ending(s, n, W, P, a, e)
    BY <1>3 DEF Starting, Ending, Terminals
  <2> QED
    BY <2>3, <2>7, <2>8 DEF SessionInv, V
<1>4. CASE Going(s, n, W, P, a, e)
  <2>1. Going(s, n, V, P, a, e)
    BY <1>2, <1>4 DEF Going
  <2>2. ~Ending(s, n, W, P, a, e) /\ ~Starting(s, n, W, P, a, e)
    BY <1>4 DEF Going, Ending, Terminals, Starting, NoRunSent
  <2> QED
    BY <2>1, <2>2 DEF SessionInv, V
<1>5. CASE Ending(s, n, W, P, a, e)
  <2>1. Ending(s, n, V, P, a, e)
    BY <1>2, <1>5 DEF Ending
  <2>2. ~Starting(s, n, W, P, a, e)
    BY <1>5 DEF Ending, Terminals, Starting
  <2> QED
    BY <2>1, <2>2 DEF SessionInv, V
<1> QED
  BY <1>3, <1>4, <1>5 DEF SessionInv

\* The worker takes the run and starts it.
LEMMA WorkerStarts ==
    ASSUME NEW s \in Nat, NEW n, NEW W \in Seq(WorkerMessages), W # <<>>,
           NEW P \in Seq(PageMessages), NEW a, NEW e \in Entries,
           SessionInv(s, n, W, P, a, e), Head(W).type = "run",
           NEW m \in PageMessages, m.type = "started"
    PROVE  /\ Head(W).id = s /\ Head(W).run = n /\ a.id = 0
           /\ \A b : b.id = s /\ b.run = n => Going(s, n, Tail(W), Append(P, m), b, e)
<1> DEFINE V == Tail(W)
           Q == Append(P, m)
<1>1. Len(V) = Len(W) - 1 /\ Len(W) \in Nat \ {0} /\ Head(W) = W[1] /\ \A i \in 1 .. Len(V) : V[i] = W[i + 1]
  OBVIOUS
<1>2. Len(Q) = Len(P) + 1 /\ Len(P) \in Nat /\ Q[Len(P) + 1] = m /\ \A i \in 1 .. Len(P) : Q[i] = P[i]
  OBVIOUS
<1>3. Starting(s, n, W, P, a, e)
  BY <1>1 DEF SessionInv, Going, Ending, NoRunSent
<1>4. PICK p \in 1 .. Len(W) :
        /\ W[p].type = "run" /\ W[p].id = s /\ W[p].run = n
        /\ \A i \in 1 .. Len(W) : i # p => W[i].type # "run"
        /\ \A i \in 1 .. Len(W) : i < p => W[i].id # s
  BY <1>3 DEF Starting
<1>5. p = 1
  BY <1>1, <1>4
<1>6. NoRunSent(V)
  <2> HIDE DEF V
  <2> QED
    BY <1>1, <1>4, <1>5 DEF NoRunSent
<1>7. Cardinality(Outputs(Q, s)) = Cardinality(Outputs(P, s)) + 0
  BY CountAppend
<1>8. Cardinality(Outputs(P, s)) = 0
  <2>1. Outputs(P, s) = {}
    BY <1>3 DEF Starting, Outputs
  <2> QED
    BY <2>1, FS_EmptySet
<1> HIDE DEF V, Q
<1>9. \A i \in 1 .. Len(Q) : Q[i].id = s => Q[i].type \notin Terminals
  BY <1>2, <1>3 DEF Starting, Terminals
<1>10. \A b : b.id = s /\ b.run = n => Going(s, n, V, Q, b, e)
  BY <1>3, <1>6, <1>7, <1>8, <1>9 DEF Going, Starting
<1> QED
  BY <1>1, <1>3, <1>4, <1>5, <1>10 DEF Starting, V, Q

\* The active run writes output.
LEMMA OutputKeeps ==
    ASSUME NEW s \in Nat, NEW n, NEW W, NEW P \in Seq(PageMessages), NEW a, NEW e \in Entries,
           SessionInv(s, n, W, P, a, e), a.id # 0,
           NEW m \in PageMessages, m.type = "output",
           NEW g \in Entries, g.worker = e.worker, g.shown = e.shown, g.posted = e.posted + 1
    PROVE  a.id = s /\ a.run = n /\ (m.id = s => Going(s, n, W, Append(P, m), a, g))
<1> DEFINE Q == Append(P, m)
<1>1. Len(Q) = Len(P) + 1 /\ Len(P) \in Nat /\ Q[Len(P) + 1] = m /\ \A i \in 1 .. Len(P) : Q[i] = P[i]
  OBVIOUS
<1>2. Going(s, n, W, P, a, e)
  BY DEF SessionInv, Starting, Ending
<1>3. ASSUME m.id = s PROVE Going(s, n, W, Q, a, g)
  <2> DEFINE b == Cardinality(Outputs(P, s))
             c == Cardinality(Outputs(Q, s))
  <2>1. c = b + 1 /\ b \in Nat
    BY <1>3, CountAppend, OutputsFinite
  <2>2. e.shown + b = e.posted /\ e.shown \in Nat /\ e.posted \in Nat
    BY <1>2 DEF Going, Entries
  <2>3. g.shown + c = g.posted
    <3> HIDE DEF b, c
    <3> QED
      BY <2>1, <2>2
  <2> HIDE DEF Q
  <2>4. \A i \in 1 .. Len(Q) : Q[i].id = s => Q[i].type \notin Terminals
    BY <1>1, <1>2 DEF Going, Terminals
  <2> QED
    BY <1>2, <2>3, <2>4 DEF Going
<1> QED
  BY <1>2, <1>3 DEF Going

\* The active run ends: two closes, and the end.
LEMMA EndKeeps ==
    ASSUME NEW s \in Nat, NEW n, NEW W, NEW P \in Seq(PageMessages), NEW a, NEW e \in Entries,
           SessionInv(s, n, W, P, a, e), a.id # 0,
           NEW m1 \in PageMessages, m1.type = "close", NEW m2 \in PageMessages, m2.type = "close",
           NEW m3 \in PageMessages, m3.type \in Terminals, m3.id = s,
           NEW g \in Entries, g.worker = m3.type, g.shown = e.shown, g.posted = e.posted,
           NEW b, b.id = 0
    PROVE  Ending(s, n, W, Append(Append(Append(P, m1), m2), m3), b, g)
<1> DEFINE P1 == Append(P, m1)
           P2 == Append(P1, m2)
           Q == Append(P2, m3)
           N == Len(P)
<1>1. P1 \in Seq(PageMessages) /\ P2 \in Seq(PageMessages)
  OBVIOUS
<1>2. N \in Nat /\ Len(Q) = N + 3 /\ Q[N + 1] = m1 /\ Q[N + 2] = m2 /\ Q[N + 3] = m3
      /\ \A i \in 1 .. N : Q[i] = P[i]
  OBVIOUS
<1>3. Cardinality(Outputs(P1, s)) = Cardinality(Outputs(P, s)) + 0
  BY CountAppend
<1>4. Cardinality(Outputs(P2, s)) = Cardinality(Outputs(P1, s)) + 0
  <2> HIDE DEF P1
  <2> QED
    BY <1>1, CountAppend
<1>5. Cardinality(Outputs(Q, s)) = Cardinality(Outputs(P2, s)) + 0
  <2>1. m3.type # "output"
    BY DEF Terminals
  <2> HIDE DEF P2
  <2> QED
    BY <1>1, <2>1, CountAppend
<1> HIDE DEF P1, P2, Q, N
<1>6. Cardinality(Outputs(Q, s)) = Cardinality(Outputs(P, s))
  BY <1>3, <1>4, <1>5, OutputsFinite
<1>7. Going(s, n, W, P, a, e)
  BY DEF SessionInv, Starting, Ending
<1>8. EndsWith(Q, s, g.worker)
  <2>1. N + 3 \in 1 .. Len(Q) /\ Q[N + 3].type = g.worker /\ Q[N + 3].id = s
    BY <1>2
  <2>2. \A i \in 1 .. Len(Q) : i < N + 3 /\ Q[i].id = s => Q[i].type \notin Terminals
    <3> SUFFICES ASSUME NEW i \in 1 .. Len(Q), i < N + 3, Q[i].id = s PROVE Q[i].type \notin Terminals
      OBVIOUS
    <3>1. i \in 1 .. N \/ i = N + 1 \/ i = N + 2
      BY <1>2
    <3> QED
      BY <1>2, <1>7, <3>1 DEF Going, Terminals, N
  <2>3. \A i \in 1 .. Len(Q) : ~(i > N + 3)
    BY <1>2
  <2> QED
    BY <2>1, <2>2, <2>3 DEF EndsWith
<1>9. Ending(s, n, W, Q, b, g)
  BY <1>6, <1>7, <1>8 DEF Going, Ending
<1> QED
  BY <1>9 DEF P1, P2, Q

-----------------------------------------------------------------------------
(* Page, port and worker *)

LEMMA MessageType ==
    /\ \A t \in PageTypes, i \in Nat, n \in Nat :
           /\ Message(t, i, n) \in PageMessages /\ Message(t, i, n).type = t
           /\ Message(t, i, n).id = i /\ Message(t, i, n).run = n
    /\ \A t \in WorkerTypes, i \in Nat, n \in Nat :
           /\ Message(t, i, n) \in WorkerMessages /\ Message(t, i, n).type = t
           /\ Message(t, i, n).id = i /\ Message(t, i, n).run = n
BY DEF Message, PageMessages, WorkerMessages

\* What the session is and knows.
LEMMA InSessionFacts ==
    ASSUME NEW u, NEW W, NEW P, NEW a, NEW L, Inv(u, W, P, a, L), u.session # 0
    PROVE  /\ u.session <= u.runCount /\ u.phase = "running" /\ ~u.destroyed /\ u.run = Len(L)
           /\ L # <<>> /\ L \in Seq(Entries) /\ Len(L) \in 1 .. Len(L) /\ L[Len(L)] \in Entries
           /\ L[Len(L)].page = "none" /\ u.session \in Nat /\ Len(L) \in Nat
           /\ SessionInv(u.session, Len(L), W, P, a, L[Len(L)])
<1>1. u \in Uis /\ L \in Seq(Entries)
  BY DEF Inv, Types
<1>2. /\ u.session <= u.runCount /\ u.phase = "running" /\ ~u.destroyed /\ u.run = Len(L)
      /\ L # <<>> /\ L[Len(L)].page = "none"
      /\ SessionInv(u.session, Len(L), W, P, a, L[Len(L)])
  BY DEF Inv, PageInv
<1>3. Len(L) \in 1 .. Len(L) /\ Len(L) \in Nat /\ L[Len(L)] \in Entries
  BY <1>1, <1>2
<1>4. u.session \in Nat
  BY <1>1 DEF Uis
<1> QED
  BY <1>1, <1>2, <1>3, <1>4

\* Outside a session the worker is at rest.
LEMMA AtRest ==
    ASSUME NEW u, NEW W, NEW P, NEW a, NEW L, Inv(u, W, P, a, L), u.session = 0
    PROVE  (u.phase # "running" \/ u.destroyed) /\ a.id = 0 /\ NoRunSent(W) /\ (u.destroyed => W = <<>> /\ P = <<>>)
BY DEF Inv, PageInv

\* The entry of the session changes.
LEMMA EntryFacts ==
    ASSUME NEW L \in Seq(Entries), L # <<>>, Own(L), NEW g \in Entries,
           g.page = "none" \/ (g.page = g.worker /\ g.shown = g.posted)
    PROVE  LET M == [L EXCEPT ![Len(L)] = g]
           IN  M \in Seq(Entries) /\ Len(M) = Len(L) /\ M # <<>> /\ M[Len(L)] = g /\ Own(M)
<1> DEFINE n == Len(L)
           M == [L EXCEPT ![n] = g]
<1>1. n \in Nat /\ n \in 1 .. n
  OBVIOUS
<1>2. M \in Seq(Entries) /\ Len(M) = n /\ M[n] = g /\ \A k \in 1 .. n : k # n => M[k] = L[k]
  OBVIOUS
<1> HIDE DEF M
<1>3. M # <<>>
  BY <1>1, <1>2
<1>4. Own(M)
  BY <1>1, <1>2 DEF Own
<1> QED
  BY <1>2, <1>3, <1>4 DEF M

LEMMA IdsFacts ==
    ASSUME NEW W \in Seq(WorkerMessages), NEW P \in Seq(PageMessages), NEW c \in Nat, IdsKnown(W, P, c)
    PROVE  /\ P # <<>> => IdsKnown(W, Tail(P), c)
           /\ W # <<>> => IdsKnown(Tail(W), P, c)
           /\ \A m \in PageMessages :
                  Bears(m.id, m.type \in LoadTypes, c) => IdsKnown(W, Append(P, m), c)
           /\ \A m \in WorkerMessages :
                  Bears(m.id, m.type = "load", c) => IdsKnown(Append(W, m), P, c)
           /\ IdsKnown(W, P, c + 1)
<1>1. P # <<>> => IdsKnown(W, Tail(P), c)
  BY DEF IdsKnown
<1>2. W # <<>> => IdsKnown(Tail(W), P, c)
  BY DEF IdsKnown
<1>3. ASSUME NEW m \in PageMessages, Bears(m.id, m.type \in LoadTypes, c)
      PROVE  IdsKnown(W, Append(P, m), c)
  <2> DEFINE Q == Append(P, m)
  <2>1. Len(Q) = Len(P) + 1 /\ Len(P) \in Nat /\ Q[Len(P) + 1] = m /\ \A i \in 1 .. Len(P) : Q[i] = P[i]
    OBVIOUS
  <2> HIDE DEF Q
  <2>2. \A i \in 1 .. Len(Q) : i \in 1 .. Len(P) \/ i = Len(P) + 1
    BY <2>1
  <2>3. \A i \in 1 .. Len(Q) : Bears(Q[i].id, Q[i].type \in LoadTypes, c)
    BY <1>3, <2>1, <2>2 DEF IdsKnown
  <2> QED
    BY <2>3 DEF IdsKnown, Q
<1>4. ASSUME NEW m \in WorkerMessages, Bears(m.id, m.type = "load", c)
      PROVE  IdsKnown(Append(W, m), P, c)
  <2> DEFINE Q == Append(W, m)
  <2>1. Len(Q) = Len(W) + 1 /\ Len(W) \in Nat /\ Q[Len(W) + 1] = m /\ \A i \in 1 .. Len(W) : Q[i] = W[i]
    OBVIOUS
  <2> HIDE DEF Q
  <2>2. \A i \in 1 .. Len(Q) : i \in 1 .. Len(W) \/ i = Len(W) + 1
    BY <2>1
  <2>3. \A i \in 1 .. Len(Q) : Bears(Q[i].id, Q[i].type = "load", c)
    BY <1>4, <2>1, <2>2 DEF IdsKnown
  <2> QED
    BY <2>3 DEF IdsKnown, Q
<1>5. IdsKnown(W, P, c + 1)
  <2>1. ASSUME NEW i \in 1 .. Len(W) PROVE Bears(W[i].id, W[i].type = "load", c + 1)
    <3>1. W[i] \in WorkerMessages
      OBVIOUS
    <3>2. W[i].id \in Nat
      BY <3>1 DEF WorkerMessages
    <3> QED
      BY <3>2 DEF IdsKnown, Bears
  <2>2. ASSUME NEW i \in 1 .. Len(P) PROVE Bears(P[i].id, P[i].type \in LoadTypes, c + 1)
    <3>1. P[i] \in PageMessages
      OBVIOUS
    <3>2. P[i].id \in Nat
      BY <3>1 DEF PageMessages
    <3> QED
      BY <3>2 DEF IdsKnown, Bears
  <2> QED
    BY <2>1, <2>2 DEF IdsKnown
<1> QED
  BY <1>1, <1>2, <1>3, <1>4, <1>5

\* The head of the queue to the page is dropped.
LEMMA DropHeadKeeps ==
    ASSUME NEW u, NEW W, NEW P, NEW a, NEW L, Inv(u, W, P, a, L), P # <<>>,
           u.session = 0 \/ ~(Head(P).id = u.session /\ Head(P).type \in Terminals \cup {"output"})
    PROVE  Inv(u, W, Tail(P), a, L)
<1>1. Types(u, W, P, a, L) /\ IdsKnown(W, P, u.runCount) /\ Own(L) /\ u.runCount \in Nat
      /\ W \in Seq(WorkerMessages) /\ P \in Seq(PageMessages)
  BY DEF Inv, Types, Uis
<1>2. Types(u, W, Tail(P), a, L)
  BY <1>1 DEF Types
<1>3. IdsKnown(W, Tail(P), u.runCount)
  BY <1>1, IdsFacts
<1>4. CASE u.session = 0
  <2>1. ~u.destroyed
    BY <1>4, AtRest
  <2>2. PageInv(u, W, Tail(P), a, L)
    BY <1>4, <2>1, AtRest DEF PageInv
  <2> QED
    BY <1>1, <1>2, <1>3, <2>2 DEF Inv
<1>5. CASE u.session # 0
  <2>1. SessionInv(u.session, Len(L), W, Tail(P), a, L[Len(L)])
    BY <1>1, <1>5, InSessionFacts, HearOtherKeeps
  <2>2. PageInv(u, W, Tail(P), a, L)
    BY <1>5, <2>1, InSessionFacts DEF PageInv
  <2> QED
    BY <1>1, <1>2, <1>3, <2>2 DEF Inv
<1> QED
  BY <1>4, <1>5

Fresh == [posted |-> 0, shown |-> 0, worker |-> "none", page |-> "none"]

\* A new session, with an id that no message has.
LEMMA StartKeeps ==
    ASSUME NEW u, NEW W, NEW P, NEW a, NEW L, Inv(u, W, P, a, L), u.session = 0,
           NEW u2 \in Uis, u2.phase = "running", u2.runCount = u.runCount + 1,
           u2.session = u.runCount + 1, u2.run = Len(L) + 1, ~u2.destroyed
    PROVE  Inv(u2, Append(W, Message("run", u.runCount + 1, Len(L) + 1)), P, a, Append(L, Fresh))
<1> DEFINE s == u.runCount + 1
           n == Len(L) + 1
           m == Message("run", s, n)
           V == Append(W, m)
           M == Append(L, Fresh)
<1>1. Types(u, W, P, a, L) /\ IdsKnown(W, P, u.runCount) /\ Own(L) /\ u.runCount \in Nat
      /\ W \in Seq(WorkerMessages) /\ P \in Seq(PageMessages) /\ L \in Seq(Entries)
  BY DEF Inv, Types, Uis
<1>2. s \in Nat /\ s # 0 /\ n \in Nat /\ n # 0 /\ s = u.runCount + 1
  BY <1>1
<1>3. m \in WorkerMessages /\ m.type = "run" /\ m.id = s /\ m.run = n
  <2> HIDE DEF s, n
  <2> QED
    BY <1>2, MessageType DEF WorkerTypes
<1> HIDE DEF m
<1>4. V \in Seq(WorkerMessages) /\ Len(V) = Len(W) + 1 /\ Len(W) \in Nat /\ V[Len(W) + 1] = m
      /\ \A i \in 1 .. Len(W) : V[i] = W[i]
  BY <1>1, <1>3
<1>5. Fresh \in Entries /\ Fresh.posted = 0 /\ Fresh.shown = 0 /\ Fresh.worker = "none"
      /\ Fresh.page = "none"
  BY DEF Fresh, Entries, Ends
<1>6. M \in Seq(Entries) /\ Len(M) = n /\ M[n] = Fresh /\ \A k \in 1 .. Len(L) : M[k] = L[k]
  <2>1. \A g \in Entries : LET G == Append(L, g)
                            IN  G \in Seq(Entries) /\ Len(G) = n /\ G[n] = g
                                /\ \A k \in 1 .. Len(L) : G[k] = L[k]
    BY <1>1
  <2> HIDE DEF n
  <2> QED
    BY <1>5, <2>1
<1>7. IdsKnown(V, P, s)
  <2>1. IdsKnown(W, P, s)
    BY <1>1, IdsFacts
  <2>2. Bears(m.id, m.type = "load", s)
    BY <1>2, <1>3 DEF Bears
  <2> HIDE DEF s
  <2> QED
    BY <1>1, <1>2, <1>3, <2>1, <2>2, IdsFacts
<1> HIDE DEF s, n, V, M
<1>8. \A i \in 1 .. Len(P) : P[i].id # s
  <2> SUFFICES ASSUME NEW i \in 1 .. Len(P) PROVE P[i].id # s
    OBVIOUS
  <2>1. P[i] \in PageMessages
    BY <1>1
  <2>2. P[i].id \in Nat
    BY <2>1 DEF PageMessages
  <2>3. Bears(P[i].id, P[i].type \in LoadTypes, u.runCount)
    BY <1>1 DEF IdsKnown
  <2> QED
    BY <1>1, <1>2, <2>2, <2>3 DEF Bears
<1>9. \A i \in 1 .. Len(W) : W[i].id # s /\ W[i].type # "run"
  <2> SUFFICES ASSUME NEW i \in 1 .. Len(W) PROVE W[i].id # s /\ W[i].type # "run"
    OBVIOUS
  <2>1. W[i] \in WorkerMessages
    BY <1>1
  <2>2. W[i].id \in Nat
    BY <2>1 DEF WorkerMessages
  <2>3. Bears(W[i].id, W[i].type = "load", u.runCount)
    BY <1>1 DEF IdsKnown
  <2>4. W[i].type # "run"
    BY AtRest DEF NoRunSent
  <2> QED
    BY <1>1, <1>2, <2>2, <2>3, <2>4 DEF Bears
<1>10. Starting(s, n, V, P, a, Fresh)
  <2>1. Len(W) + 1 \in 1 .. Len(V)
    BY <1>4
  <2>2. \A i \in 1 .. Len(V) : i # Len(W) + 1 => i \in 1 .. Len(W)
    BY <1>4
  <2>3. V[Len(W) + 1].type = "run" /\ V[Len(W) + 1].id = s /\ V[Len(W) + 1].run = n
    BY <1>3, <1>4
  <2>4. \A i \in 1 .. Len(V) : i # Len(W) + 1 => V[i].type # "run"
    BY <1>4, <1>9, <2>2
  <2>5. \A i \in 1 .. Len(V) : i < Len(W) + 1 => V[i].id # s
    BY <1>4, <1>9, <2>2
  <2>6. a.id = 0
    BY AtRest
  <2> QED
    BY <1>5, <1>8, <2>1, <2>3, <2>4, <2>5, <2>6 DEF Starting
<1>11. M # <<>> /\ M[Len(M)] = Fresh
  BY <1>2, <1>6
<1>12. PageInv(u2, V, P, a, M)
  <2>1. u2.session = s /\ u2.runCount = s /\ u2.run = Len(M)
    BY <1>6 DEF s, n
  <2>2. SessionInv(u2.session, Len(M), V, P, a, M[Len(M)])
    BY <1>6, <1>10, <1>11, <2>1 DEF SessionInv
  <2>3. u2.session <= u2.runCount
    BY <1>2, <2>1
  <2>4. M[Len(M)].page = "none"
    BY <1>5, <1>11
  <2> QED
    BY <1>2, <1>11, <2>1, <2>2, <2>3, <2>4 DEF PageInv
<1>13. Types(u2, V, P, a, M)
  BY <1>1, <1>4, <1>6 DEF Types
<1>14. Own(M)
  <2>1. \A k \in 1 .. Len(M) : k \in 1 .. Len(L) \/ k = n
    BY <1>1, <1>6 DEF n
  <2> QED
    BY <1>1, <1>5, <1>6, <2>1 DEF Own
<1>15. Inv(u2, V, P, a, M)
  BY <1>7, <1>12, <1>13, <1>14 DEF Inv, s
<1> QED
  BY <1>15 DEF V, M, m, s, n

\* The page drops its worker, with the port.
LEMMA ResetKeeps ==
    ASSUME NEW u, NEW W, NEW P, NEW a, NEW L, Inv(u, W, P, a, L),
           NEW u2 \in Uis, u2.session = 0, u2.phase # "running" \/ u2.destroyed
    PROVE  Inv(u2, <<>>, <<>>, NoRun, L)
<1>1. L \in Seq(Entries) /\ Own(L)
  BY DEF Inv, Types
<1>2. NoRun \in Runs /\ NoRun.id = 0
  BY DEF NoRun, Runs
<1>3. Types(u2, <<>>, <<>>, NoRun, L)
  BY <1>1, <1>2 DEF Types
<1>4. IdsKnown(<<>>, <<>>, u2.runCount) /\ NoRunSent(<<>>)
  BY DEF IdsKnown, NoRunSent
<1>5. PageInv(u2, <<>>, <<>>, NoRun, L)
  BY <1>2, <1>4 DEF PageInv
<1> QED
  BY <1>1, <1>3, <1>4, <1>5 DEF Inv

\* ensureLoaded, and a page that changes nothing but its phase.
LEMMA LoadKeeps ==
    ASSUME NEW u, NEW W, NEW P, NEW a, NEW L, Inv(u, W, P, a, L), u.session = 0, ~u.destroyed,
           NEW u2 \in Uis, u2.session = 0, u2.phase # "running", ~u2.destroyed, u2.runCount = u.runCount
    PROVE  /\ Inv(u2, W, P, a, L)
           /\ Inv(u2, Append(W, Message("load", 0, 0)), P, a, L)
<1> DEFINE m == Message("load", 0, 0)
           V == Append(W, m)
<1>1. Types(u, W, P, a, L) /\ IdsKnown(W, P, u.runCount) /\ Own(L) /\ u.runCount \in Nat
      /\ W \in Seq(WorkerMessages) /\ P \in Seq(PageMessages)
  BY DEF Inv, Types, Uis
<1>2. m \in WorkerMessages /\ m.type = "load" /\ m.id = 0
  BY MessageType DEF WorkerTypes
<1> HIDE DEF m
<1>3. V \in Seq(WorkerMessages) /\ Len(V) = Len(W) + 1 /\ Len(W) \in Nat /\ V[Len(W) + 1] = m
      /\ \A i \in 1 .. Len(W) : V[i] = W[i]
  BY <1>1, <1>2
<1>4. IdsKnown(V, P, u.runCount)
  <2>1. Bears(m.id, m.type = "load", u.runCount)
    BY <1>2 DEF Bears
  <2> QED
    BY <1>1, <1>2, <2>1, IdsFacts
<1> HIDE DEF V
<1>5. NoRunSent(W) /\ a.id = 0
  BY AtRest
<1>6. NoRunSent(V)
  <2>1. \A i \in 1 .. Len(V) : i \in 1 .. Len(W) \/ i = Len(W) + 1
    BY <1>3
  <2> QED
    BY <1>2, <1>3, <1>5, <2>1 DEF NoRunSent
<1>7. PageInv(u2, W, P, a, L) /\ PageInv(u2, V, P, a, L)
  BY <1>5, <1>6 DEF PageInv
<1>8. Types(u2, W, P, a, L) /\ Types(u2, V, P, a, L)
  BY <1>1, <1>3 DEF Types
<1>9. Inv(u2, W, P, a, L) /\ Inv(u2, V, P, a, L)
  BY <1>1, <1>4, <1>7, <1>8 DEF Inv
<1> QED
  BY <1>9 DEF V, m

\* stdin, its end, a resize or a cancellation is sent for the session.
LEMMA SendKeeps ==
    ASSUME NEW u, NEW W, NEW P, NEW a, NEW L, Inv(u, W, P, a, L), u.session # 0,
           NEW type \in {"stdin", "stdin.end", "resize", "cancel"},
           NEW u2 \in Uis, u2.session = u.session, u2.run = u.run, u2.phase = u.phase,
           u2.destroyed = u.destroyed, u2.runCount = u.runCount
    PROVE  Inv(u2, Append(W, Message(type, u.session, u.run)), P, a, L)
<1> DEFINE m == Message(type, u.session, u.run)
           V == Append(W, m)
<1>1. Types(u, W, P, a, L) /\ IdsKnown(W, P, u.runCount) /\ Own(L) /\ u.runCount \in Nat
      /\ W \in Seq(WorkerMessages) /\ P \in Seq(PageMessages) /\ u.session \in Nat /\ u.run \in Nat
  BY DEF Inv, Types, Uis
<1>2. m \in WorkerMessages /\ m.type = type /\ m.id = u.session
  BY <1>1, MessageType DEF WorkerTypes
<1> HIDE DEF m
<1>3. V \in Seq(WorkerMessages)
  BY <1>1, <1>2
<1>4. IdsKnown(V, P, u.runCount)
  <2>1. Bears(m.id, m.type = "load", u.runCount)
    BY <1>1, <1>2, InSessionFacts DEF Bears
  <2> QED
    BY <1>1, <1>2, <2>1, IdsFacts
<1>5. SessionInv(u.session, Len(L), V, P, a, L[Len(L)])
  <2>1. m.type # "run"
    BY <1>2
  <2> QED
    BY <1>1, <1>2, <2>1, InSessionFacts, PostToWorkerKeeps
<1> HIDE DEF V
<1>6. PageInv(u2, V, P, a, L)
  BY <1>5, InSessionFacts DEF PageInv
<1>7. Types(u2, V, P, a, L)
  BY <1>1, <1>3 DEF Types
<1>8. Inv(u2, V, P, a, L)
  BY <1>1, <1>4, <1>6, <1>7 DEF Inv
<1> QED
  BY <1>8 DEF V, m

\* finish: the session has heard the end.
LEMMA FinishKeeps ==
    ASSUME NEW u, NEW W, NEW P, NEW a, NEW L, Inv(u, W, P, a, L), P # <<>>, u.session # 0,
           Head(P).id = u.session, Head(P).type \in Terminals,
           NEW u2 \in Uis, u2.session = 0, u2.phase # "running", ~u2.destroyed, u2.runCount = u.runCount
    PROVE  Inv(u2, W, Tail(P), a, [L EXCEPT ![u.run].page = Head(P).type])
<1> DEFINE n == Len(L)
           e == L[n]
           v == Head(P).type
           g == [e EXCEPT !.page = v]
           M == [L EXCEPT ![n] = g]
<1>1. Types(u, W, P, a, L) /\ IdsKnown(W, P, u.runCount) /\ Own(L) /\ u.runCount \in Nat
      /\ W \in Seq(WorkerMessages) /\ P \in Seq(PageMessages)
  BY DEF Inv, Types, Uis
<1>2. u.run = n /\ L \in Seq(Entries) /\ L # <<>> /\ e \in Entries /\ n \in 1 .. n
  BY InSessionFacts
<1>3. e.worker = v /\ e.shown = e.posted /\ a.id = 0 /\ NoRunSent(W)
  BY <1>1, InSessionFacts, HearEnd
<1>4. g \in Entries /\ g.page = v /\ g.worker = e.worker /\ g.shown = e.shown /\ g.posted = e.posted
  <2> HIDE DEF e, v
  <2>1. v \in Ends
    BY DEF Ends, v
  <2> QED
    BY <1>2, <2>1 DEF Entries
<1>5. [L EXCEPT ![u.run].page = Head(P).type] = M
  BY <1>2
<1> HIDE DEF g, e, v
<1>6. M \in Seq(Entries) /\ Own(M)
  <2>1. g.page = g.worker /\ g.shown = g.posted
    BY <1>3, <1>4
  <2> QED
    BY <1>1, <1>2, <1>4, <2>1, EntryFacts
<1> HIDE DEF M
<1>7. Types(u2, W, Tail(P), a, M)
  BY <1>1, <1>6 DEF Types
<1>8. IdsKnown(W, Tail(P), u2.runCount)
  BY <1>1, IdsFacts
<1>9. PageInv(u2, W, Tail(P), a, M)
  BY <1>3 DEF PageInv
<1> QED
  BY <1>5, <1>6, <1>7, <1>8, <1>9 DEF Inv

\* The session shows output.
LEMMA ShowKeeps ==
    ASSUME NEW u, NEW W, NEW P, NEW a, NEW L, Inv(u, W, P, a, L), P # <<>>, u.session # 0,
           Head(P).id = u.session, Head(P).type = "output"
    PROVE  Inv(u, W, Tail(P), a, [L EXCEPT ![u.run].shown = @ + 1])
<1> DEFINE n == Len(L)
           e == L[n]
           v == e.shown + 1
           g == [e EXCEPT !.shown = v]
           M == [L EXCEPT ![n] = g]
<1>1. Types(u, W, P, a, L) /\ IdsKnown(W, P, u.runCount) /\ Own(L) /\ u.runCount \in Nat
      /\ W \in Seq(WorkerMessages) /\ P \in Seq(PageMessages)
  BY DEF Inv, Types, Uis
<1>2. u.run = n /\ L \in Seq(Entries) /\ L # <<>> /\ e \in Entries /\ n \in 1 .. n
      /\ e.page = "none" /\ u.session \in Nat /\ n \in Nat
  BY InSessionFacts
<1>3. SessionInv(u.session, n, W, P, a, e)
  BY InSessionFacts
<1>4. [L EXCEPT ![u.run].shown = @ + 1] = M
  BY <1>2
<1>5. v \in Nat /\ v = e.shown + 1
  BY <1>2 DEF Entries
<1> HIDE DEF e, v
<1>6. g \in Entries /\ g.page = e.page /\ g.worker = e.worker /\ g.shown = v /\ g.posted = e.posted
  BY <1>2, <1>5 DEF Entries
<1> HIDE DEF g, n
<1>7. SessionInv(u.session, n, W, Tail(P), a, g)
  BY <1>1, <1>2, <1>3, <1>5, <1>6, HearOutputKeeps
<1>8. M \in Seq(Entries) /\ Own(M) /\ Len(M) = n /\ M # <<>> /\ M[n] = g
  <2>1. g.page = "none"
    BY <1>2, <1>6
  <2> QED
    BY <1>1, <1>2, <1>6, <2>1, EntryFacts DEF n
<1> HIDE DEF M
<1>9. Types(u, W, Tail(P), a, M)
  BY <1>1, <1>8 DEF Types
<1>10. IdsKnown(W, Tail(P), u.runCount)
  BY <1>1, IdsFacts
<1>11. PageInv(u, W, Tail(P), a, M)
  BY <1>2, <1>6, <1>7, <1>8, InSessionFacts DEF PageInv
<1> QED
  BY <1>4, <1>8, <1>9, <1>10, <1>11 DEF Inv

\* The worker takes a message that is not a run and posts nothing.
LEMMA TakeKeeps ==
    ASSUME NEW u, NEW W, NEW P, NEW a, NEW L, Inv(u, W, P, a, L), W # <<>>, Head(W).type # "run",
           NEW b \in Runs, b.id = a.id, b.run = a.run
    PROVE  Inv(u, Tail(W), P, b, L)
<1>1. Types(u, W, P, a, L) /\ IdsKnown(W, P, u.runCount) /\ Own(L) /\ u.runCount \in Nat
      /\ W \in Seq(WorkerMessages) /\ P \in Seq(PageMessages)
  BY DEF Inv, Types, Uis
<1>2. Types(u, Tail(W), P, b, L)
  BY <1>1 DEF Types
<1>3. IdsKnown(Tail(W), P, u.runCount)
  BY <1>1, IdsFacts
<1>4. CASE u.session = 0
  <2>1. NoRunSent(Tail(W)) /\ ~u.destroyed
    BY <1>1, <1>4, AtRest DEF NoRunSent
  <2>2. PageInv(u, Tail(W), P, b, L)
    BY <1>4, <2>1, AtRest DEF PageInv
  <2> QED
    BY <1>1, <1>2, <1>3, <2>2 DEF Inv
<1>5. CASE u.session # 0
  <2>1. SessionInv(u.session, Len(L), Tail(W), P, a, L[Len(L)])
    BY <1>1, <1>5, InSessionFacts, WorkerTakes
  <2>2. SessionInv(u.session, Len(L), Tail(W), P, b, L[Len(L)])
    BY <2>1 DEF SessionInv, Starting, Going, Ending
  <2>3. PageInv(u, Tail(W), P, b, L)
    BY <1>5, <2>2, InSessionFacts DEF PageInv
  <2> QED
    BY <1>1, <1>2, <1>3, <2>3 DEF Inv
<1> QED
  BY <1>4, <1>5

\* The worker answers a load, or a message for a run that is not active.
LEMMA AnswerKeeps ==
    ASSUME NEW u, NEW W, NEW P, NEW a, NEW L, Inv(u, W, P, a, L), W # <<>>, Head(W).type # "run",
           NEW m \in PageMessages,
           \/ m.type \in LoadTypes /\ m.id = 0
           \/ /\ m.type = "error" /\ m.id = Head(W).id /\ Head(W).type # "load"
              /\ ~(m.id = a.id /\ a.id # 0)
    PROVE  Inv(u, Tail(W), Append(P, m), a, L)
<1>1. Types(u, W, P, a, L) /\ IdsKnown(W, P, u.runCount) /\ Own(L) /\ u.runCount \in Nat
      /\ W \in Seq(WorkerMessages) /\ P \in Seq(PageMessages) /\ a \in Runs
  BY DEF Inv, Types, Uis
<1>2. Head(W) = W[1] /\ 1 \in 1 .. Len(W) /\ Tail(W) \in Seq(WorkerMessages)
  BY <1>1
<1>3. Bears(m.id, m.type \in LoadTypes, u.runCount)
  BY <1>1, <1>2 DEF IdsKnown, Bears, LoadTypes
<1>4. Inv(u, Tail(W), P, a, L)
  BY <1>1, TakeKeeps
<1>5. IdsKnown(Tail(W), Append(P, m), u.runCount)
  <2>1. IdsKnown(Tail(W), P, u.runCount)
    BY <1>4 DEF Inv
  <2> QED
    BY <1>1, <1>2, <1>3, <2>1, IdsFacts
<1>6. Types(u, Tail(W), Append(P, m), a, L)
  BY <1>1, <1>2 DEF Types
<1>7. CASE u.session = 0
  <2>1. ~u.destroyed /\ a.id = 0 /\ u.phase # "running"
    BY <1>7, AtRest
  <2>2. NoRunSent(Tail(W))
    BY <1>4, <1>7, AtRest
  <2>3. PageInv(u, Tail(W), Append(P, m), a, L)
    BY <1>7, <2>1, <2>2 DEF PageInv
  <2> QED
    BY <1>1, <1>5, <1>6, <2>3 DEF Inv
<1>8. CASE u.session # 0
  <2> DEFINE s == u.session
             n == Len(L)
             e == L[Len(L)]
             V == Tail(W)
  <2>1. s \in Nat /\ e \in Entries /\ SessionInv(s, n, W, P, a, e) /\ SessionInv(s, n, V, P, a, e)
    BY <1>4, <1>8, InSessionFacts
  <2>2. m.id # s \/ (Ending(s, n, V, P, a, e) /\ m.type # "output")
    <3>1. CASE m.type \in LoadTypes /\ m.id = 0
      BY <1>8, <3>1
    <3>2. CASE m.type = "error" /\ m.id = Head(W).id /\ ~(m.id = a.id /\ a.id # 0) /\ m.id = s
      <4>1. ~Starting(s, n, W, P, a, e)
        <5> HIDE DEF s, n, e, V
        <5> QED
          BY <1>1, <2>1, <3>2, WorkerTakes
      <4>2. ~Going(s, n, W, P, a, e)
        BY <1>8, <3>2 DEF Going
      <4>3. Ending(s, n, W, P, a, e)
        BY <2>1, <4>1, <4>2 DEF SessionInv
      <4>4. Ending(s, n, V, P, a, e)
        <5> HIDE DEF s, n, e
        <5> QED
          BY <1>1, <2>1, <4>3, WorkerTakes
      <4> QED
        BY <3>2, <4>4
    <3> QED
      BY <3>1, <3>2
  <2>3. SessionInv(s, n, V, Append(P, m), a, e)
    <3> HIDE DEF s, n, e, V
    <3> QED
      BY <1>1, <2>1, <2>2, PostToPageKeeps
  <2>4. PageInv(u, V, Append(P, m), a, L)
    BY <1>8, <2>3, InSessionFacts DEF PageInv
  <2> QED
    BY <1>1, <1>5, <1>6, <2>4 DEF Inv
<1> QED
  BY <1>7, <1>8

\* runCommand: it is the run of the session, and never refused.
LEMMA RunKeeps ==
    ASSUME NEW u, NEW W, NEW P, NEW a, NEW L, Inv(u, W, P, a, L), W # <<>>, Head(W).type = "run"
    PROVE  /\ a.id = 0
           /\ Inv(u, Tail(W), Append(P, Message("started", Head(W).id, Head(W).run)),
                  [id |-> Head(W).id, run |-> Head(W).run, aborted |-> FALSE], L)
<1> DEFINE s == u.session
           n == Len(L)
           e == L[n]
           V == Tail(W)
           m == Message("started", Head(W).id, Head(W).run)
           b == [id |-> Head(W).id, run |-> Head(W).run, aborted |-> FALSE]
<1>1. Types(u, W, P, a, L) /\ IdsKnown(W, P, u.runCount) /\ Own(L) /\ u.runCount \in Nat
      /\ W \in Seq(WorkerMessages) /\ P \in Seq(PageMessages)
  BY DEF Inv, Types, Uis
<1>2. Head(W) \in WorkerMessages /\ Head(W) = W[1] /\ 1 \in 1 .. Len(W) /\ V \in Seq(WorkerMessages)
  BY <1>1
<1>3. Head(W).id \in Nat /\ Head(W).run \in Nat
  BY <1>2 DEF WorkerMessages
<1>4. u.session # 0
  BY <1>2, AtRest DEF NoRunSent
<1>5. s \in Nat /\ n \in Nat /\ e \in Entries /\ SessionInv(s, n, W, P, a, e) /\ s <= u.runCount
  BY <1>4, InSessionFacts
<1>6. m \in PageMessages /\ m.type = "started" /\ m.id = Head(W).id
  BY <1>3, MessageType DEF PageTypes
<1>7. b \in Runs /\ b.id = Head(W).id /\ b.run = Head(W).run
  BY <1>3 DEF Runs
<1> HIDE DEF s, n, e, V, m, b
<1>8. Head(W).id = s /\ Head(W).run = n /\ a.id = 0
      /\ \A c : c.id = s /\ c.run = n => Going(s, n, V, Append(P, m), c, e)
  BY <1>1, <1>5, <1>6, WorkerStarts DEF V
<1>9. Going(s, n, V, Append(P, m), b, e)
  BY <1>7, <1>8
<1>10. PageInv(u, V, Append(P, m), b, L)
  BY <1>4, <1>9, InSessionFacts DEF PageInv, SessionInv, s, n, e
<1>11. Types(u, V, Append(P, m), b, L)
  BY <1>1, <1>2, <1>6, <1>7 DEF Types
<1>12. IdsKnown(V, Append(P, m), u.runCount)
  <2>1. Bears(m.id, m.type \in LoadTypes, u.runCount)
    BY <1>4, <1>5, <1>6, <1>8 DEF Bears, LoadTypes, s
  <2>2. IdsKnown(V, P, u.runCount)
    BY <1>1, IdsFacts DEF V
  <2> QED
    BY <1>1, <1>2, <1>6, <2>1, <2>2, IdsFacts
<1>13. Inv(u, V, Append(P, m), b, L)
  BY <1>1, <1>10, <1>11, <1>12 DEF Inv
<1> QED
  BY <1>8, <1>13 DEF V, m, b

\* The active run is that of the session.
LEMMA ActiveFacts ==
    ASSUME NEW u, NEW W, NEW P, NEW a, NEW L, Inv(u, W, P, a, L), a.id # 0
    PROVE  /\ u.session # 0 /\ a.id = u.session /\ a.run = Len(L)
           /\ Going(u.session, Len(L), W, P, a, L[Len(L)])
<1>1. u.session # 0
  BY AtRest
<1>2. SessionInv(u.session, Len(L), W, P, a, L[Len(L)])
  BY <1>1, InSessionFacts
<1>3. Going(u.session, Len(L), W, P, a, L[Len(L)])
  BY <1>2 DEF SessionInv, Starting, Ending
<1> QED
  BY <1>1, <1>3 DEF Going

LEMMA WriteKeeps ==
    ASSUME NEW u, NEW W, NEW P, NEW a, NEW L, Inv(u, W, P, a, L), a.id # 0
    PROVE  Inv(u, W, Append(P, Message("output", a.id, a.run)), a, [L EXCEPT ![a.run].posted = @ + 1])
<1> DEFINE s == u.session
           n == Len(L)
           e == L[n]
           v == e.posted + 1
           g == [e EXCEPT !.posted = v]
           M == [L EXCEPT ![n] = g]
           m == Message("output", a.id, a.run)
<1>1. Types(u, W, P, a, L) /\ IdsKnown(W, P, u.runCount) /\ Own(L) /\ u.runCount \in Nat
      /\ W \in Seq(WorkerMessages) /\ P \in Seq(PageMessages)
  BY DEF Inv, Types, Uis
<1>2. s # 0 /\ a.id = s /\ a.run = n
  BY ActiveFacts
<1>3. L \in Seq(Entries) /\ L # <<>> /\ e \in Entries /\ n \in 1 .. n /\ u.run = n
      /\ e.page = "none" /\ s \in Nat /\ n \in Nat /\ SessionInv(s, n, W, P, a, e) /\ s <= u.runCount
  BY <1>2, InSessionFacts
<1>4. [L EXCEPT ![a.run].posted = @ + 1] = M
  BY <1>2, <1>3
<1>5. v \in Nat /\ v = e.posted + 1
  BY <1>3 DEF Entries
<1>6. m \in PageMessages /\ m.type = "output" /\ m.id = s
  <2>1. "output" \in PageTypes /\ a.id \in Nat /\ a.run \in Nat
    BY <1>2, <1>3 DEF PageTypes
  <2> HIDE DEF s, n, e
  <2> QED
    BY <1>2, <2>1, MessageType
<1> HIDE DEF e, v
<1>7. g \in Entries /\ g.page = e.page /\ g.worker = e.worker /\ g.shown = e.shown /\ g.posted = v
  BY <1>3, <1>5 DEF Entries
<1> HIDE DEF s, g, n, m
<1>8. Going(s, n, W, Append(P, m), a, g)
  BY <1>1, <1>3, <1>5, <1>6, <1>7, OutputKeeps
<1>9. M \in Seq(Entries) /\ Own(M) /\ Len(M) = n /\ M # <<>> /\ M[n] = g
  <2>1. g.page = "none"
    BY <1>3, <1>7
  <2> QED
    BY <1>1, <1>3, <1>7, <2>1, EntryFacts DEF n
<1> HIDE DEF M
<1>10. Types(u, W, Append(P, m), a, M)
  BY <1>1, <1>6, <1>9 DEF Types
<1>11. IdsKnown(W, Append(P, m), u.runCount)
  <2>1. Bears(m.id, m.type \in LoadTypes, u.runCount)
    BY <1>2, <1>3, <1>6 DEF Bears, LoadTypes
  <2> QED
    BY <1>1, <1>6, <2>1, IdsFacts
<1>12. PageInv(u, W, Append(P, m), a, M)
  <2>1. u.session <= u.runCount /\ u.phase = "running" /\ ~u.destroyed
    BY <1>2, InSessionFacts DEF s
  <2> QED
    BY <1>2, <1>3, <1>7, <1>8, <1>9, <2>1 DEF PageInv, SessionInv, s
<1>13. Inv(u, W, Append(P, m), a, M)
  BY <1>9, <1>10, <1>11, <1>12 DEF Inv
<1> QED
  BY <1>4, <1>13 DEF m

\* EndRun.
LEMMA EndRunKeeps ==
    ASSUME NEW u, NEW W, NEW P, NEW a, NEW L, Inv(u, W, P, a, L), a.id # 0, NEW result \in Terminals
    PROVE  Inv(u, W, Append(Append(Append(P, Message("close", a.id, a.run)),
                                   Message("close", a.id, a.run)), Message(result, a.id, a.run)),
               NoRun, [L EXCEPT ![a.run].worker = result])
<1> DEFINE s == u.session
           n == Len(L)
           e == L[n]
           g == [e EXCEPT !.worker = result]
           M == [L EXCEPT ![n] = g]
           c == Message("close", a.id, a.run)
           m == Message(result, a.id, a.run)
           P1 == Append(P, c)
           P2 == Append(P1, c)
           Q == Append(P2, m)
<1>1. Types(u, W, P, a, L) /\ IdsKnown(W, P, u.runCount) /\ Own(L) /\ u.runCount \in Nat
      /\ W \in Seq(WorkerMessages) /\ P \in Seq(PageMessages)
  BY DEF Inv, Types, Uis
<1>2. s # 0 /\ a.id = s /\ a.run = n
  BY ActiveFacts
<1>3. L \in Seq(Entries) /\ L # <<>> /\ e \in Entries /\ n \in 1 .. n /\ u.run = n
      /\ e.page = "none" /\ s \in Nat /\ n \in Nat /\ SessionInv(s, n, W, P, a, e) /\ s <= u.runCount
  BY <1>2, InSessionFacts
<1>4. [L EXCEPT ![a.run].worker = result] = M
  BY <1>2, <1>3
<1>5. c \in PageMessages /\ c.type = "close" /\ c.id = s /\ m \in PageMessages /\ m.type = result /\ m.id = s
  <2>1. "close" \in PageTypes /\ result \in PageTypes /\ a.id \in Nat /\ a.run \in Nat
    BY <1>2, <1>3 DEF PageTypes
  <2> HIDE DEF s, n, e
  <2> QED
    BY <1>2, <2>1, MessageType
<1> HIDE DEF e
<1>6. g \in Entries /\ g.page = e.page /\ g.worker = result /\ g.shown = e.shown /\ g.posted = e.posted
  BY <1>3 DEF Entries, Ends
<1>7. NoRun \in Runs /\ NoRun.id = 0
  BY DEF NoRun, Runs
<1> HIDE DEF s, g, n, m, c
<1>8. Ending(s, n, W, Q, NoRun, g)
  BY <1>1, <1>3, <1>5, <1>6, <1>7, EndKeeps
<1>9. M \in Seq(Entries) /\ Own(M) /\ Len(M) = n /\ M # <<>> /\ M[n] = g
  <2>1. g.page = "none"
    BY <1>3, <1>6
  <2> QED
    BY <1>1, <1>3, <1>6, <2>1, EntryFacts DEF n
<1>10. P1 \in Seq(PageMessages) /\ P2 \in Seq(PageMessages) /\ Q \in Seq(PageMessages)
  BY <1>1, <1>5
<1> HIDE DEF M
<1>11. IdsKnown(W, Q, u.runCount)
  <2>1. Bears(c.id, c.type \in LoadTypes, u.runCount) /\ Bears(m.id, m.type \in LoadTypes, u.runCount)
    BY <1>2, <1>3, <1>5 DEF Bears, LoadTypes, Terminals
  <2>2. IdsKnown(W, P1, u.runCount)
    BY <1>1, <1>5, <2>1, IdsFacts
  <2>3. IdsKnown(W, P2, u.runCount)
    <3> HIDE DEF P1
    <3> QED
      BY <1>1, <1>5, <1>10, <2>1, <2>2, IdsFacts
  <2> HIDE DEF P2
  <2> QED
    BY <1>1, <1>5, <1>10, <2>1, <2>3, IdsFacts
<1> HIDE DEF P1, P2, Q
<1>12. Types(u, W, Q, NoRun, M)
  BY <1>1, <1>7, <1>9, <1>10 DEF Types
<1>13. PageInv(u, W, Q, NoRun, M)
  <2>1. u.session <= u.runCount /\ u.phase = "running" /\ ~u.destroyed
    BY <1>2, InSessionFacts DEF s
  <2> QED
    BY <1>2, <1>3, <1>6, <1>8, <1>9, <2>1 DEF PageInv, SessionInv, s
<1>14. Inv(u, W, Q, NoRun, M)
  BY <1>9, <1>11, <1>12, <1>13 DEF Inv
<1> QED
  BY <1>4, <1>14 DEF m, c, P1, P2, Q

-----------------------------------------------------------------------------
(* The steps *)

TInvNext == Inv(ui', toWorker', toPage', active', log')

LEMMA TInvFacts ==
    ASSUME TInv
    PROVE  /\ ui \in Uis /\ active \in Runs /\ toWorker \in Seq(WorkerMessages)
           /\ toPage \in Seq(PageMessages) /\ log \in Seq(Entries) /\ Len(log) \in Nat
           /\ Inv(ui, toWorker, toPage, active, log)
           /\ ui.runCount \in Nat /\ ui.session \in Nat /\ ui.run \in Nat
BY DEF TInv, Inv, Types, Uis

LEMMA StartSessionKeeps ==
    ASSUME TInv, NEW P, Inv(ui, toWorker, P, active, log), ui.session = 0, ~ui.destroyed,
           NEW u \in Uis, u.runCount = ui.runCount, ~u.destroyed, StartSession(u),
           toPage' = P, active' = active
    PROVE  TInvNext
<1> DEFINE s == u.runCount + 1
           n == Len(log) + 1
           w == [u EXCEPT !.phase = "running", !.runCount = s, !.session = s, !.run = n]
<1>1. ui' = w /\ toWorker' = Append(toWorker, Message("run", s, n)) /\ log' = Append(log, Fresh)
  BY DEF StartSession, Fresh
<1>2. s \in Nat /\ n \in Nat
  BY TInvFacts
<1> HIDE DEF s, n
<1>3. w \in Uis /\ w.phase = "running" /\ w.runCount = s /\ w.session = s /\ w.run = n
      /\ w.destroyed = u.destroyed
  BY <1>2 DEF Uis
<1> HIDE DEF w
<1>4. Inv(w, Append(toWorker, Message("run", s, n)), P, active, Append(log, Fresh))
  BY <1>3, StartKeeps DEF s, n
<1> QED
  BY <1>1, <1>4 DEF TInvNext

LEMMA PageStepsKeep ==
    ASSUME TInv, Run \/ configurePackage \/ destroy \/ writeStdin \/ closeStdin \/ resize \/ cancel
    PROVE  TInvNext
<1>1. CASE Run
  <2>1. ~ui.destroyed /\ ui.phase # "running" /\ toPage' = toPage /\ active' = active
    BY <1>1 DEF Run, Busy
  <2>2. ui.session = 0
    BY <2>1, TInvFacts, InSessionFacts
  <2>3. CASE ui.loaded
    <3>1. StartSession(ui)
      BY <1>1, <2>3 DEF Run
    <3> QED
      BY <2>1, <2>2, <3>1, TInvFacts, StartSessionKeeps
  <2>4. CASE ~ui.loaded
    <3> DEFINE w == [ui EXCEPT !.phase = "loading"]
    <3>1. ui' = w /\ toWorker' = Append(toWorker, Message("load", 0, 0)) /\ log' = log
      BY <1>1, <2>4 DEF Run, ensureLoaded
    <3>2. w \in Uis /\ w.session = 0 /\ w.phase # "running" /\ ~w.destroyed /\ w.runCount = ui.runCount
      BY <2>1, <2>2, TInvFacts DEF Uis
    <3> HIDE DEF w
    <3>3. Inv(w, Append(toWorker, Message("load", 0, 0)), toPage, active, log)
      BY <2>1, <2>2, <3>2, TInvFacts, LoadKeeps
    <3> QED
      BY <2>1, <3>1, <3>3 DEF TInvNext
  <2> QED
    BY <2>3, <2>4
<1>2. CASE configurePackage
  <2>1. ~ui.destroyed /\ ui.phase # "running"
    BY <1>2 DEF configurePackage, Busy
  <2>2. ui.session = 0
    BY <2>1, TInvFacts, InSessionFacts
  <2>3. toWorker' = <<>> /\ toPage' = <<>> /\ active' = NoRun /\ log' = log
    BY <1>2 DEF configurePackage
  <2>4. ui' \in Uis /\ ui'.session = 0 /\ ui'.phase # "running"
    <3> DEFINE r == ui.resets + 1
    <3>1. r \in Nat
      BY TInvFacts DEF Uis
    <3>2. ui' = [ui EXCEPT !.phase = "idle", !.loaded = FALSE, !.runCount = 0, !.resets = r]
      BY <1>2 DEF configurePackage
    <3> HIDE DEF r
    <3>3. ASSUME NEW f \in BOOLEAN
          PROVE  LET w == [ui EXCEPT !.phase = "idle", !.loaded = f, !.runCount = 0, !.resets = r]
                 IN  w \in Uis /\ w.session = 0 /\ w.phase # "running"
      BY <2>2, <3>1, TInvFacts DEF Uis
    <3> QED
      BY <3>2, <3>3
  <2> QED
    BY <2>3, <2>4, TInvFacts, ResetKeeps DEF TInvNext
<1>3. CASE destroy
  <2>1. toWorker' = <<>> /\ toPage' = <<>> /\ active' = NoRun /\ log' = log
    BY <1>3 DEF destroy
  <2>2. ui' \in Uis /\ ui'.session = 0 /\ ui'.destroyed
    <3>1. ASSUME NEW f \in BOOLEAN, NEW t \in BOOLEAN
          PROVE  LET w == [ui EXCEPT !.destroyed = t, !.session = 0, !.loaded = f]
                 IN  w \in Uis /\ w.session = 0 /\ w.destroyed = t
      BY TInvFacts DEF Uis
    <3>2. ui' = [ui EXCEPT !.destroyed = TRUE, !.session = 0, !.loaded = FALSE]
      BY <1>3 DEF destroy
    <3> QED
      BY <3>1, <3>2
  <2> QED
    BY <2>1, <2>2, TInvFacts, ResetKeeps DEF TInvNext
<1>4. ASSUME NEW type \in {"stdin", "stdin.end", "resize", "cancel"}, NEW w \in Uis,
             w.session = ui.session, w.run = ui.run, w.phase = ui.phase, w.destroyed = ui.destroyed,
             w.runCount = ui.runCount, postForActiveRun(type, w)
      PROVE  TInvNext
  <2>1. ui.session # 0 /\ ui' = w /\ toWorker' = Append(toWorker, Message(type, ui.session, ui.run))
        /\ toPage' = toPage /\ active' = active /\ log' = log
    BY <1>4 DEF postForActiveRun, InSession
  <2>2. Inv(w, Append(toWorker, Message(type, ui.session, ui.run)), toPage, active, log)
    BY <1>4, <2>1, TInvFacts, SendKeeps
  <2> QED
    BY <2>1, <2>2 DEF TInvNext
<1>5. CASE writeStdin
  <2> DEFINE n == ui.typed + 1
             w == [ui EXCEPT !.typed = n]
  <2>1. postForActiveRun("stdin", w) /\ n \in Nat
    BY <1>5, TInvFacts DEF writeStdin, Uis
  <2> HIDE DEF n
  <2>2. w \in Uis /\ w.session = ui.session /\ w.run = ui.run /\ w.phase = ui.phase
        /\ w.destroyed = ui.destroyed /\ w.runCount = ui.runCount
    BY <2>1, TInvFacts DEF Uis
  <2> HIDE DEF w
  <2> QED
    BY <1>4, <2>1, <2>2
<1>6. ASSUME NEW t \in BOOLEAN
      PROVE  /\ LET w == [ui EXCEPT !.eof = t]
                 IN  /\ w \in Uis /\ w.session = ui.session /\ w.run = ui.run /\ w.phase = ui.phase
                     /\ w.destroyed = ui.destroyed /\ w.runCount = ui.runCount
             /\ LET w == [ui EXCEPT !.asked = t]
                 IN  /\ w \in Uis /\ w.session = ui.session /\ w.run = ui.run /\ w.phase = ui.phase
                     /\ w.destroyed = ui.destroyed /\ w.runCount = ui.runCount
  BY TInvFacts DEF Uis
<1>7. CASE closeStdin
  <2>1. \E t \in BOOLEAN : postForActiveRun("stdin.end", [ui EXCEPT !.eof = t])
    BY <1>7, Zenon DEF closeStdin
  <2> QED
    BY <1>4, <1>6, <2>1
<1>8. CASE resize \/ cancel
  <2>1. \E t \in BOOLEAN, type \in {"resize", "cancel"} : postForActiveRun(type, [ui EXCEPT !.asked = t])
    BY <1>8, Zenon DEF resize, cancel, AskOnce
  <2> QED
    BY <1>4, <1>6, <2>1
<1> QED
  BY <1>1, <1>2, <1>3, <1>5, <1>7, <1>8

LEMMA PageHearsKeeps ==
    ASSUME TInv, PageHears
    PROVE  TInvNext
<1> DEFINE m == Head(toPage)
           P == Tail(toPage)
<1>1. toPage # <<>> /\ toPage' = P /\ active' = active /\ (HearLoad(m) \/ HearRun(m) \/ Ignored(m))
  BY DEF PageHears
<1>2. m \in PageMessages /\ m = toPage[1] /\ 1 \in 1 .. Len(toPage)
  BY <1>1, TInvFacts
<1>3. Bears(m.id, m.type \in LoadTypes, ui.runCount)
  BY <1>2, TInvFacts DEF Inv, IdsKnown
<1>4. ui.session = 0 \/ ~(m.id = ui.session /\ m.type \in Terminals \cup {"output"})
      => Inv(ui, toWorker, P, active, log)
  BY <1>1, TInvFacts, DropHeadKeeps
<1>5. CASE HearLoad(m)
  <2>1. ui.phase = "loading"
    BY <1>5 DEF HearLoad
  <2>2. ui.session = 0
    BY <2>1, TInvFacts, InSessionFacts
  <2>3. ~ui.destroyed
    BY <1>1, <2>2, TInvFacts, AtRest
  <2>4. Inv(ui, toWorker, P, active, log)
    BY <1>4, <2>2
  <2>5. CASE m.type = "loaded"
    <3>1. ASSUME NEW t \in BOOLEAN
          PROVE  LET u == [ui EXCEPT !.loaded = t]
                 IN  u \in Uis /\ u.runCount = ui.runCount /\ u.destroyed = ui.destroyed
      BY TInvFacts DEF Uis
    <3>2. \E u \in Uis : u.runCount = ui.runCount /\ ~u.destroyed /\ StartSession(u)
      <4>1. StartSession([ui EXCEPT !.loaded = TRUE])
        BY <1>5, <2>5 DEF HearLoad
      <4> QED
        BY <2>3, <3>1, <4>1
    <3> HIDE DEF P
    <3> QED
      BY <1>1, <2>2, <2>3, <2>4, <3>2, StartSessionKeeps
  <2>6. CASE m.type # "loaded"
    <3> DEFINE w == [ui EXCEPT !.phase = "error"]
    <3>1. ui' = w /\ toWorker' = toWorker /\ log' = log
      BY <1>5, <2>6 DEF HearLoad
    <3>2. w \in Uis /\ w.session = 0 /\ w.phase # "running" /\ ~w.destroyed /\ w.runCount = ui.runCount
      BY <2>2, <2>3, TInvFacts DEF Uis, Terminals
    <3> HIDE DEF w, P
    <3>3. Inv(w, toWorker, P, active, log)
      BY <2>2, <2>3, <2>4, <3>2, LoadKeeps
    <3> QED
      BY <1>1, <3>1, <3>3 DEF TInvNext
  <2> QED
    BY <2>5, <2>6
<1>6. CASE HearRun(m)
  <2>1. m.id = ui.session /\ m.type \notin LoadTypes
    BY <1>6 DEF HearRun, LoadTypes
  <2>2. ui.session # 0
    BY <1>3, <2>1, TInvFacts DEF Bears
  <2>3. CASE m.type \in Terminals
    <3> DEFINE v == m.type
    <3>1. ui' = [ui EXCEPT !.phase = v, !.session = 0, !.typed = 0, !.eof = FALSE, !.asked = FALSE]
          /\ log' = [log EXCEPT ![ui.run].page = v] /\ toWorker' = toWorker
      <4>1. finish(m)
        BY <1>6, <2>3 DEF HearRun, Terminals
      <4> QED
        BY <4>1 DEF finish
    <3>2. v \in Terminals /\ ~ui.destroyed
      BY <2>2, <2>3, TInvFacts, InSessionFacts
    <3>3. ui' \in Uis /\ ui'.session = 0 /\ ui'.phase # "running" /\ ~ui'.destroyed
          /\ ui'.runCount = ui.runCount
      <4> HIDE DEF v
      <4>1. ASSUME NEW f \in BOOLEAN
            PROVE  LET w == [ui EXCEPT !.phase = v, !.session = 0, !.typed = 0, !.eof = f, !.asked = f]
                   IN  /\ w \in Uis /\ w.session = 0 /\ w.phase # "running"
                       /\ w.destroyed = ui.destroyed /\ w.runCount = ui.runCount
        BY <3>2, TInvFacts DEF Uis, Terminals
      <4> QED
        BY <3>1, <3>2, <4>1
    <3>4. Inv(ui', toWorker, P, active, [log EXCEPT ![ui.run].page = m.type])
      BY <1>1, <2>1, <2>2, <2>3, <3>3, TInvFacts, FinishKeeps
    <3> QED
      BY <1>1, <3>1, <3>4 DEF TInvNext
  <2>4. CASE m.type = "output"
    <3>1. log' = [log EXCEPT ![ui.run].shown = @ + 1] /\ ui' = ui /\ toWorker' = toWorker
      BY <1>6, <2>4 DEF HearRun, finish, Terminals
    <3>2. Inv(ui, toWorker, P, active, [log EXCEPT ![ui.run].shown = @ + 1])
      BY <1>1, <2>1, <2>2, <2>4, TInvFacts, ShowKeeps
    <3> QED
      BY <1>1, <3>1, <3>2 DEF TInvNext
  <2>5. CASE m.type \notin Terminals \cup {"output"}
    <3>1. ui' = ui /\ toWorker' = toWorker /\ log' = log
      BY <1>6, <2>5 DEF HearRun
    <3> QED
      BY <1>1, <1>4, <2>5, <3>1 DEF TInvNext
  <2> QED
    BY <2>3, <2>4, <2>5
<1>7. CASE Ignored(m)
  <2>1. ui' = ui /\ toWorker' = toWorker /\ log' = log
    BY <1>7 DEF Ignored
  <2>2. ~(m.id = ui.session /\ m.type \in Terminals \cup {"output"})
    BY <1>7 DEF Ignored, Terminals
  <2> QED
    BY <1>1, <1>4, <2>1, <2>2 DEF TInvNext
<1> QED
  BY <1>1, <1>5, <1>6, <1>7

LEMMA ConcatIsAppend ==
    ASSUME NEW P \in Seq(PageMessages)
    PROVE  /\ \A m \in PageMessages : P \o <<m>> = Append(P, m)
           /\ \A a, b, c \in PageMessages : P \o <<a, b, c>> = Append(Append(Append(P, a), b), c)
<1>1. ASSUME NEW m \in PageMessages PROVE P \o <<m>> = Append(P, m)
  OBVIOUS
<1>2. ASSUME NEW a \in PageMessages, NEW b \in PageMessages, NEW c \in PageMessages
      PROVE  P \o <<a, b, c>> = Append(Append(Append(P, a), b), c)
  OBVIOUS
<1> QED
  BY <1>1, <1>2

LEMMA WorkerHearsKeeps ==
    ASSUME TInv, WorkerHears
    PROVE  TInvNext
<1> DEFINE m == Head(toWorker)
           V == Tail(toWorker)
<1>1. /\ toWorker # <<>> /\ toWorker' = V /\ ui' = ui
      /\ load(m) \/ runCommand(m) \/ handleStdin(m) \/ handleControl(m) \/ UnknownStream(m)
  BY DEF WorkerHears
<1>2. m \in WorkerMessages
  BY <1>1, TInvFacts
<1>3. m.id \in Nat /\ m.run \in Nat
  BY <1>2 DEF WorkerMessages
<1>4. CASE load(m)
  <2>1. PICK answer \in LoadTypes : toPage' = toPage \o <<Message(answer, 0, 0)>>
    BY <1>4 DEF load, Post, LoadTypes
  <2>2. m.type # "run" /\ active' = active /\ log' = log
    BY <1>4 DEF load
  <2> DEFINE r == Message(answer, 0, 0)
  <2>3. r \in PageMessages /\ r.type \in LoadTypes /\ r.id = 0
    BY <2>1, MessageType DEF PageTypes
  <2> HIDE DEF r
  <2>4. toPage' = Append(toPage, r)
    BY <2>1, <2>3, TInvFacts, ConcatIsAppend DEF r
  <2>5. Inv(ui, V, Append(toPage, r), active, log)
    BY <1>1, <2>2, <2>3, TInvFacts, AnswerKeeps
  <2> QED
    BY <1>1, <2>2, <2>4, <2>5 DEF TInvNext
<1>5. CASE runCommand(m)
  <2>1. m.type = "run"
    BY <1>5 DEF runCommand
  <2> DEFINE r == Message("started", m.id, m.run)
             b == [id |-> m.id, run |-> m.run, aborted |-> FALSE]
  <2>2. active.id = 0 /\ Inv(ui, V, Append(toPage, r), b, log)
    BY <1>1, <2>1, TInvFacts, RunKeeps
  <2>3. toPage' = toPage \o <<r>> /\ active' = b /\ log' = log
    BY <1>5, <2>2 DEF runCommand, Post
  <2>4. r \in PageMessages
    BY <1>3, MessageType DEF PageTypes
  <2> HIDE DEF r, b
  <2>5. toPage' = Append(toPage, r)
    BY <2>3, <2>4, TInvFacts, ConcatIsAppend
  <2> QED
    BY <1>1, <2>2, <2>3, <2>5 DEF TInvNext
<1>6. CASE handleStdin(m) \/ handleControl(m)
  <2>1. m.type # "run" /\ toPage' = toPage /\ log' = log
    BY <1>6 DEF handleStdin, handleControl
  <2>2. active' \in Runs /\ active'.id = active.id /\ active'.run = active.run
    <3>1. ASSUME NEW t \in BOOLEAN
          PROVE  LET b == [active EXCEPT !.aborted = t]
                 IN  b \in Runs /\ b.id = active.id /\ b.run = active.run
      BY TInvFacts DEF Runs
    <3>2. active' = active \/ active' = [active EXCEPT !.aborted = TRUE]
      BY <1>6 DEF handleStdin, handleControl, abortRun
    <3> QED
      BY <3>1, <3>2, TInvFacts
  <2>3. Inv(ui, V, toPage, active', log)
    BY <1>1, <2>1, <2>2, TInvFacts, TakeKeeps
  <2> QED
    BY <1>1, <2>1, <2>3 DEF TInvNext
<1>7. CASE UnknownStream(m)
  <2> DEFINE r == Message("error", m.id, 0)
  <2>1. /\ m.type # "run" /\ m.type # "load" /\ ~(m.id = active.id /\ active.id # 0)
        /\ toPage' = toPage \o <<r>> /\ active' = active /\ log' = log
    BY <1>7 DEF UnknownStream, Post, ForActive
  <2>2. r \in PageMessages /\ r.type = "error" /\ r.id = m.id
    BY <1>3, MessageType DEF PageTypes, Terminals
  <2> HIDE DEF r
  <2>3. toPage' = Append(toPage, r)
    BY <2>1, <2>2, TInvFacts, ConcatIsAppend
  <2>4. Inv(ui, V, Append(toPage, r), active, log)
    BY <1>1, <2>1, <2>2, TInvFacts, AnswerKeeps
  <2> QED
    BY <1>1, <2>1, <2>3, <2>4 DEF TInvNext
<1> QED
  BY <1>1, <1>4, <1>5, <1>6, <1>7

LEMMA WorkerWritesKeeps ==
    ASSUME TInv, WorkerWrites
    PROVE  TInvNext
<1> DEFINE r == Message("output", active.id, active.run)
           M == [log EXCEPT ![active.run].posted = @ + 1]
<1>1. /\ active.id # 0 /\ toPage' = toPage \o <<r>> /\ log' = M
      /\ ui' = ui /\ toWorker' = toWorker /\ active' = active
  BY DEF WorkerWrites, Post
<1>2. Inv(ui, toWorker, Append(toPage, r), active, M)
  BY <1>1, TInvFacts, WriteKeeps
<1>3. r \in PageMessages
  <2>1. active.id \in Nat /\ active.run \in Nat
    BY TInvFacts DEF Runs
  <2> QED
    BY <2>1, MessageType DEF PageTypes
<1> HIDE DEF r, M
<1>4. toPage' = Append(toPage, r)
  BY <1>1, <1>3, TInvFacts, ConcatIsAppend
<1> QED
  BY <1>1, <1>2, <1>4 DEF TInvNext

LEMMA WorkerEndsKeeps ==
    ASSUME TInv, NEW result \in Terminals, WorkerEnds(result)
    PROVE  TInvNext
<1> DEFINE c == Message("close", active.id, active.run)
           r == Message(result, active.id, active.run)
           M == [log EXCEPT ![active.run].worker = result]
<1>1. /\ active.id # 0 /\ toPage' = toPage \o <<c, c, r>> /\ log' = M
      /\ ui' = ui /\ toWorker' = toWorker /\ active' = NoRun
  BY DEF WorkerEnds, EndRun, Post
<1>2. Inv(ui, toWorker, Append(Append(Append(toPage, c), c), r), NoRun, M)
  BY <1>1, TInvFacts, EndRunKeeps
<1>3. c \in PageMessages /\ r \in PageMessages
  <2>1. active.id \in Nat /\ active.run \in Nat
    BY TInvFacts DEF Runs
  <2> QED
    BY <2>1, MessageType DEF PageTypes
<1> HIDE DEF c, r, M
<1>4. toPage' = Append(Append(Append(toPage, c), c), r)
  BY <1>1, <1>3, TInvFacts, ConcatIsAppend
<1> QED
  BY <1>1, <1>2, <1>4 DEF TInvNext

LEMMA TerminalStep == TInv /\ [TerminalNext]_allVars => TInv'
<1> SUFFICES ASSUME TInv, [TerminalNext]_allVars PROVE TInv'
  OBVIOUS
<1>1. TInvNext => TInv'
  BY DEF TInvNext, TInv, Inv, Types, IdsKnown, PageInv, Own, SessionInv, Starting, Going, Ending
<1>2. CASE WorkerReads \/ UNCHANGED allVars
  <2>1. ui' = ui /\ toWorker' = toWorker /\ toPage' = toPage /\ active' = active /\ log' = log
    BY <1>2 DEF WorkerReads, allVars, terminalVars
  <2>2. TInvNext
    BY <2>1 DEF TInvNext, TInv
  <2> QED
    BY <1>1, <2>2
<1>3. CASE ~(WorkerReads \/ UNCHANGED allVars)
  BY <1>1, <1>3, PageStepsKeep, PageHearsKeeps, WorkerHearsKeeps, WorkerWritesKeeps, WorkerEndsKeeps
     DEF TerminalNext, Worker
<1> QED
  BY <1>2, <1>3

LEMMA TerminalStarts == TerminalInit => TInv
<1> SUFFICES ASSUME TerminalInit PROVE TInv
  OBVIOUS
<1>1. ui \in Uis /\ ui.session = 0 /\ ui.phase # "running" /\ ~ui.destroyed
  BY Zenon DEF TerminalInit, Uis
<1>2. toWorker = <<>> /\ toPage = <<>> /\ active = NoRun /\ log = <<>>
  BY DEF TerminalInit
<1>3. Inv(ui, toWorker, toPage, active, log)
  <2>1. NoRun \in Runs /\ NoRun.id = 0
    BY DEF NoRun, Runs
  <2>2. Types(ui, toWorker, toPage, active, log)
    BY <1>1, <1>2, <2>1 DEF Types
  <2> QED
    BY <1>1, <1>2, <2>1, <2>2 DEF Inv, PageInv, IdsKnown, NoRunSent, Own
<1> QED
  BY <1>3 DEF TInv

\* A session ends with the end the worker gave its own run, after all its output: an
\* answer to input that came too late follows the end of its run on the port, ids are
\* not used twice on one port, and a reset replaces the port together with the counter.
THEOREM SessionsEndAsTheirRuns == TerminalSpec => []OwnOutcome
<1>1. TInv => OwnOutcome
  <2> SUFFICES ASSUME TInv PROVE OwnOutcome
    OBVIOUS
  <2>1. DOMAIN log = 1 .. Len(log) /\ Own(log)
    BY TInvFacts DEF Inv
  <2> QED
    BY <2>1 DEF Own, OwnOutcome
<1> QED
  BY <1>1, TerminalStarts, TerminalStep, PTL DEF TerminalSpec

-----------------------------------------------------------------------------
(* The stdin of the run *)

LEMMA DropStreamInv == DropStream => IInv'
<1>1. DropStream => Init'
  BY DEF DropStream, Init
<1> QED
  BY <1>1, InitInv, PTL

LEMMA StdinStep == IInv /\ [TerminalNext]_allVars => IInv'
<1> SUFFICES ASSUME IInv, [TerminalNext]_allVars PROVE IInv'
  OBVIOUS
<1>1. DropStream \/ Push \/ End \/ Fail \/ ReadChunk \/ UNCHANGED streamVars
  <2>1. CASE Run \/ writeStdin \/ closeStdin \/ resize \/ cancel \/ PageHears \/ WorkerWrites
             \/ UNCHANGED allVars
    BY <2>1 DEF Run, writeStdin, closeStdin, resize, cancel, AskOnce, postForActiveRun, PageHears,
                WorkerWrites, allVars
  <2>2. CASE configurePackage \/ destroy
    BY <2>2 DEF configurePackage, destroy
  <2>3. CASE WorkerReads
    BY <2>3 DEF WorkerReads
  <2>4. ASSUME NEW result \in Terminals, WorkerEnds(result) PROVE DropStream
    BY <2>4 DEF WorkerEnds, EndRun
  <2>5. CASE WorkerHears
    BY <2>5 DEF WorkerHears, load, runCommand, handleStdin, handleControl, UnknownStream, abortRun
  <2> QED
    BY <2>1, <2>2, <2>3, <2>4, <2>5 DEF TerminalNext, Worker
<1> QED
  BY <1>1, DropStreamInv, StepInv DEF Next

\* The promises of CommandInputStream hold in the terminal too, where the page's messages
\* and the abort of a run are what calls it, and each run has a stream of its own.
THEOREM StdinKeepsItsPromises == TerminalSpec => [](FifoDelivery /\ DrainedBeforeEnd /\ NoStrandedReader)
<1>1. TerminalInit => IInv
  BY InitInv DEF TerminalInit
<1> QED
  BY <1>1, StdinStep, FifoFromInv, DrainedFromInv, ReaderFromInv, PTL DEF TerminalSpec
=============================================================================
