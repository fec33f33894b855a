---------------------------- MODULE InputStream ----------------------------
(***************************************************************************)
(* CommandInputStream (apps/web/src/command-worker.js), the queue between  *)
(* a run's stdin messages and the executor that reads them.                *)
(* WorkerRequestBodyStream (apps/web/src/http-worker.js) is the same       *)
(* object with other error texts.                                          *)
(*                                                                         *)
(* Chunks are numbered in the order push accepts them, reads in the order  *)
(* readChunk is called.  A call that only throws, and the push of an empty *)
(* chunk, leave the stream as it is.                                       *)
(***************************************************************************)
EXTENDS Naturals, Sequences

CONSTANTS
    MaxChunks,  \* bound: chunks pushed
    MaxReads    \* bound: calls of readChunk

ASSUME StreamBounds == MaxChunks \in Nat /\ MaxReads \in Nat

VARIABLES
    chunks,   \* this.chunks: accepted and not yet read
    waiters,  \* this.waiters: the reads whose promise is pending
    closed,   \* this.closed
    failed,   \* this.error is set
    pushed,   \* the number of chunks accepted
    reads,    \* the number of calls of readChunk
    promise   \* what each read's promise has settled to

streamVars == <<chunks, waiters, closed, failed, pushed, reads, promise>>

ReadIds == 1 .. MaxReads

Pending  == [kind |-> "pending", chunk |-> 0]
Null     == [kind |-> "null", chunk |-> 0]
Rejected == [kind |-> "error", chunk |-> 0]
Bytes(n) == [kind |-> "bytes", chunk |-> n]
Outcomes == [kind : {"pending", "null", "error", "bytes"}, chunk : 0 .. MaxChunks]

TypeOK ==
    /\ chunks \in Seq(1 .. MaxChunks)
    /\ waiters \in Seq(ReadIds)
    /\ closed \in BOOLEAN
    /\ failed \in BOOLEAN
    /\ pushed \in 0 .. MaxChunks
    /\ reads \in 0 .. MaxReads
    /\ promise \in [ReadIds -> Outcomes]

Init ==
    /\ chunks = <<>>
    /\ waiters = <<>>
    /\ closed = FALSE
    /\ failed = FALSE
    /\ pushed = 0
    /\ reads = 0
    /\ promise = [i \in ReadIds |-> Pending]

\* Mutant: the newest waiter is served, as with pop() for shift().
PushServesNewest ==
    /\ ~closed /\ ~failed
    /\ pushed < MaxChunks
    /\ pushed' = pushed + 1
    /\ IF waiters # <<>>
       THEN /\ promise' = [promise EXCEPT ![waiters[Len(waiters)]] = Bytes(pushed')]
            /\ waiters' = SubSeq(waiters, 1, Len(waiters) - 1)
            /\ UNCHANGED chunks
       ELSE /\ chunks' = Append(chunks, pushed')
            /\ UNCHANGED <<waiters, promise>>
    /\ UNCHANGED <<closed, failed, reads>>

\* push of a non-empty chunk: handed to the oldest waiter, or queued.
Push ==
    /\ ~closed /\ ~failed
    /\ pushed < MaxChunks
    /\ pushed' = pushed + 1
    /\ IF waiters # <<>>
       THEN /\ promise' = [promise EXCEPT ![Head(waiters)] = Bytes(pushed')]
            /\ waiters' = Tail(waiters)
            /\ UNCHANGED chunks
       ELSE /\ chunks' = Append(chunks, pushed')
            /\ UNCHANGED <<waiters, promise>>
    /\ UNCHANGED <<closed, failed, reads>>

\* resolveWaiters and rejectWaiters: every pending read settles to value.
SettleWaiters(value) ==
    /\ promise' = [i \in ReadIds |->
                      IF \E k \in 1 .. Len(waiters) : waiters[k] = i
                      THEN value ELSE promise[i]]
    /\ waiters' = <<>>

\* Mutant: the stream is closed without waking its readers.
EndSleeping ==
    /\ ~closed
    /\ closed' = TRUE
    /\ UNCHANGED <<chunks, waiters, promise, failed, pushed, reads>>

End ==
    /\ ~closed
    /\ closed' = TRUE
    /\ SettleWaiters(Null)
    /\ UNCHANGED <<chunks, failed, pushed, reads>>

\* fail and cancel: the first error stays; queued chunks are kept.
Fail ==
    /\ ~failed
    /\ failed' = TRUE
    /\ SettleWaiters(Rejected)
    /\ UNCHANGED <<chunks, closed, pushed, reads>>

\* Mutant: the error is looked at before the queue.
ReadErrorFirst ==
    /\ reads < MaxReads
    /\ reads' = reads + 1
    /\ IF failed
       THEN /\ promise' = [promise EXCEPT ![reads'] = Rejected]
            /\ UNCHANGED <<chunks, waiters>>
       ELSE IF chunks # <<>>
       THEN /\ promise' = [promise EXCEPT ![reads'] = Bytes(Head(chunks))]
            /\ chunks' = Tail(chunks)
            /\ UNCHANGED waiters
       ELSE IF closed
       THEN /\ promise' = [promise EXCEPT ![reads'] = Null]
            /\ UNCHANGED <<chunks, waiters>>
       ELSE /\ waiters' = Append(waiters, reads')
            /\ UNCHANGED <<chunks, promise>>
    /\ UNCHANGED <<closed, failed, pushed>>

\* readChunk: a queued chunk first, then the error, then the end of the stream.
ReadChunk ==
    /\ reads < MaxReads
    /\ reads' = reads + 1
    /\ \/ /\ chunks # <<>>
          /\ promise' = [promise EXCEPT ![reads'] = Bytes(Head(chunks))]
          /\ chunks' = Tail(chunks)
          /\ UNCHANGED waiters
       \/ /\ chunks = <<>>
          /\ failed
          /\ promise' = [promise EXCEPT ![reads'] = Rejected]
          /\ UNCHANGED <<chunks, waiters>>
       \/ /\ chunks = <<>>
          /\ ~failed /\ closed
          /\ promise' = [promise EXCEPT ![reads'] = Null]
          /\ UNCHANGED <<chunks, waiters>>
       \/ /\ chunks = <<>>
          /\ ~failed /\ ~closed
          /\ waiters' = Append(waiters, reads')
          /\ UNCHANGED <<chunks, promise>>
    /\ UNCHANGED <<closed, failed, pushed>>

Next == Push \/ End \/ Fail \/ ReadChunk

Spec == Init /\ [][Next]_streamVars
-----------------------------------------------------------------------------

\* Every chunk is delivered once and in order: the i-th call of readChunk gets
\* the i-th accepted chunk, whether it was queued before the call or handed to
\* the waiting promise, and no chunk between is skipped.
FifoDelivery ==
    \A i \in ReadIds :
        promise[i].kind = "bytes" =>
            promise[i].chunk = i /\ \A j \in 1 .. i : promise[j].kind = "bytes"

\* A reader is told of the end or of a failure only after it has been given
\* every chunk that push accepted, even if fail() came while chunks were queued.
DrainedBeforeEnd ==
    \A i \in 1 .. reads : promise[i].kind \in {"null", "error"} => pushed < i

\* A pending read has nothing to wait for in vain: the stream is still open and
\* holds no chunk, and the read is among the waiters a later call will settle.
NoStrandedReader ==
    \A i \in 1 .. reads :
        promise[i].kind = "pending" =>
            /\ chunks = <<>> /\ ~closed /\ ~failed
            /\ \E k \in 1 .. Len(waiters) : waiters[k] = i
=============================================================================
