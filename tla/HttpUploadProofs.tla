-------------------------- MODULE HttpUploadProofs --------------------------
(***************************************************************************)
(* Proofs about HttpUpload for any sizes of the three channels, any        *)
(* response limit and any bounds.                                          *)
(***************************************************************************)
EXTENDS HttpUpload, TLAPS

-----------------------------------------------------------------------------
(* What a channel of body events holds *)

\* The chunks that follow number b, in order.
Chunks(q, b) == \A k \in 1 .. Len(q) : q[k] = Chunk(b + k)

\* The event that ends a body: a failure, or the end of a body of which all the
\* n accepted chunks come before it.
Last(e, b, n, ended) == e = Fail \/ (e = End /\ ended /\ n = b)

\* Such chunks, then the event that ends the body.
Closing(q, b, n, ended) ==
    /\ Len(q) > 0
    /\ \A k \in 1 .. Len(q) - 1 : q[k] = Chunk(b + k)
    /\ Last(q[Len(q)], b + Len(q) - 1, n, ended)

\* The chunks the body channel and what was read of it account for.
Passed == Len(delivered) + Len(body)

\* Those that left the upload channel while the closure still receives.
Taken == IF ppc = "chunk" THEN Passed + 1 ELSE Passed

\* The guest sends only while the upload is open, body_end closes it, and
\* nothing has happened before the upload.
GuestInv ==
    /\ gpc \in {"check", "try"} =>
           upload = "open" /\ op # "none" /\ (op = "chunk" => accepted < MaxChunks)
    /\ gpc # "idle" => upload # "absent"
    /\ endSent => upload # "open"
    /\ upload = "absent" <=> ppc = "absent"
    /\ upload = "absent" =>
           accepted = 0 /\ ~endSent /\ queue = <<>> /\ body = <<>> /\ delivered = <<>>

\* The upload channel holds the accepted chunks that the producer has not taken,
\* and behind them at most the one event that closed the upload.
QueueInv ==
    ppc \in {"recv", "chunk"} =>
        \/ Chunks(queue, Taken) /\ accepted = Taken + Len(queue)
        \/ /\ upload # "open"
           /\ Closing(queue, Taken, accepted, endSent)
           /\ accepted = Taken + Len(queue) - 1

\* What the producer is about to send.
HeldInv ==
    /\ ppc = "chunk" => held = Chunk(Passed + 1)
    /\ ppc = "last" => Last(held, Passed, accepted, endSent)

\* The body channel: the next chunks, and the end only from a producer that is done.
BodyInv ==
    \/ Chunks(body, Len(delivered))
    \/ ppc = "done" /\ Closing(body, Len(delivered), accepted, endSent)

\* What the adapter has read.
ReadInv ==
    /\ BodyIntegrity
    /\ bodyEnded => ppc = "done"

IInv == TypeOK /\ GuestInv /\ QueueInv /\ HeldInv /\ BodyInv /\ ReadInv

-----------------------------------------------------------------------------

LEMMA EventFacts ==
    /\ End \in BodyEvents /\ Fail \in BodyEvents
    /\ End.type = "end" /\ Fail.type = "fail"
    /\ \A n \in Nat : Chunk(n).type = "chunk" /\ Chunk(n).n = n /\ Chunk(n) # End /\ Chunk(n) # Fail
    /\ \A n \in 1 .. MaxChunks : Chunk(n) \in BodyEvents
    /\ \A e \in BodyEvents : e.type = "chunk" => e.n \in 1 .. MaxChunks
BY DEF BodyEvents, Chunk, End, Fail

LEMMA AppendFacts ==
    ASSUME NEW S, NEW q \in Seq(S), NEW e \in S
    PROVE  /\ Append(q, e) \in Seq(S) /\ Len(q) \in Nat
           /\ Len(Append(q, e)) = Len(q) + 1
           /\ Append(q, e)[Len(q) + 1] = e
           /\ \A k \in 1 .. Len(q) : Append(q, e)[k] = q[k]
OBVIOUS

LEMMA TailFacts ==
    ASSUME NEW S, NEW q \in Seq(S), q # <<>>
    PROVE  /\ Tail(q) \in Seq(S) /\ Len(q) \in Nat \ {0}
           /\ Head(q) = q[1] /\ Head(q) \in S
           /\ Len(Tail(q)) = Len(q) - 1
           /\ \A k \in 1 .. Len(q) - 1 : Tail(q)[k] = q[k + 1]
OBVIOUS

LEMMA EmptyTail == ASSUME NEW S, NEW q \in Seq(S), Len(q) = 0 PROVE q = <<>>
OBVIOUS

\* A channel of size n after a send and after a receive.
LEMMA SendFits ==
    ASSUME NEW S, NEW q \in Seq(S), NEW n \in Nat, Len(q) < n, NEW e \in S
    PROVE  Append(q, e) \in Seq(S) /\ Len(Append(q, e)) <= n
BY AppendFacts

LEMMA ReceiveFits ==
    ASSUME NEW S, NEW q \in Seq(S), q # <<>>, NEW n \in Nat, Len(q) <= n
    PROVE  Tail(q) \in Seq(S) /\ Len(Tail(q)) <= n /\ Head(q) \in S
BY TailFacts

LEMMA EmptyChunks == ASSUME NEW b \in Nat PROVE Chunks(<<>>, b)
BY DEF Chunks

LEMMA ChunksAppend ==
    ASSUME NEW q \in Seq(BodyEvents), NEW b \in Nat, Chunks(q, b),
           NEW e \in BodyEvents, e = Chunk(b + Len(q) + 1)
    PROVE  Chunks(Append(q, e), b)
BY AppendFacts DEF Chunks

LEMMA ClosingAppend ==
    ASSUME NEW q \in Seq(BodyEvents), NEW b \in Nat, Chunks(q, b), NEW n \in Nat,
           NEW ended \in BOOLEAN, NEW e \in BodyEvents, Last(e, b + Len(q), n, ended)
    PROVE  Closing(Append(q, e), b, n, ended)
<1> DEFINE s == Append(q, e)
<1>1. /\ Len(q) \in Nat /\ Len(s) = Len(q) + 1 /\ s[Len(q) + 1] = e
      /\ \A k \in 1 .. Len(q) : s[k] = q[k]
  BY AppendFacts
<1>2. b + Len(s) - 1 = b + Len(q) /\ Len(s) - 1 = Len(q) /\ Len(s) > 0
  BY <1>1
<1> HIDE DEF s
<1>3. \A k \in 1 .. Len(s) - 1 : s[k] = Chunk(b + k)
  BY <1>1, <1>2 DEF Chunks
<1> QED
  BY <1>1, <1>2, <1>3 DEF Closing, s

LEMMA ChunksTail ==
    ASSUME NEW q \in Seq(BodyEvents), q # <<>>, NEW b \in Nat, Chunks(q, b)
    PROVE  Head(q) = Chunk(b + 1) /\ Chunks(Tail(q), b + 1)
<1>1. /\ Len(q) \in Nat \ {0} /\ Head(q) = q[1] /\ Len(Tail(q)) = Len(q) - 1
      /\ \A k \in 1 .. Len(q) - 1 : Tail(q)[k] = q[k + 1]
  BY TailFacts
<1>2. ASSUME NEW k \in 1 .. Len(q) - 1 PROVE Tail(q)[k] = Chunk(b + 1 + k)
  <2>1. q[k + 1] = Chunk(b + (k + 1)) /\ b + (k + 1) = b + 1 + k
    BY <1>1 DEF Chunks
  <2> QED
    BY <1>1, <2>1
<1> QED
  BY <1>1, <1>2 DEF Chunks

LEMMA ClosingTail ==
    ASSUME NEW q \in Seq(BodyEvents), NEW b \in Nat, NEW n \in Nat, NEW ended \in BOOLEAN,
           Closing(q, b, n, ended)
    PROVE  /\ q # <<>>
           /\ \/ Head(q) = Chunk(b + 1) /\ Closing(Tail(q), b + 1, n, ended)
              \/ Len(q) = 1 /\ Tail(q) = <<>> /\ Last(Head(q), b, n, ended)
<1>1. q # <<>>
  BY DEF Closing
<1>2. /\ Len(q) \in Nat \ {0} /\ Head(q) = q[1] /\ Len(Tail(q)) = Len(q) - 1
      /\ \A k \in 1 .. Len(q) - 1 : Tail(q)[k] = q[k + 1]
      /\ Tail(q) \in Seq(BodyEvents)
  BY <1>1, TailFacts
<1>3. CASE Len(q) = 1
  <2>3. Len(Tail(q)) = 0
    BY <1>2, <1>3
  <2>1. Tail(q) = <<>>
    BY <1>2, <2>3, EmptyTail
  <2>2. b + Len(q) - 1 = b
    BY <1>3
  <2> QED
    BY <1>1, <1>2, <1>3, <2>1, <2>2 DEF Closing
<1>4. CASE Len(q) # 1
  <2> DEFINE t == Tail(q)
  <2>1. Len(t) > 0 /\ Len(t) + 1 = Len(q) /\ t[Len(t)] = q[Len(q)]
        /\ b + 1 + Len(t) - 1 = b + Len(q) - 1
    BY <1>2, <1>4
  <2>2. ASSUME NEW k \in 1 .. Len(t) - 1 PROVE t[k] = Chunk(b + 1 + k)
    <3>1. q[k + 1] = Chunk(b + (k + 1)) /\ b + (k + 1) = b + 1 + k
      BY <1>2, <2>1 DEF Closing
    <3> QED
      BY <1>2, <2>1, <3>1
  <2>3. Head(q) = Chunk(b + 1)
    BY <1>2, <1>4 DEF Closing
  <2> HIDE DEF t
  <2>4. Closing(t, b + 1, n, ended)
    BY <2>1, <2>2 DEF Closing
  <2> QED
    BY <1>1, <2>3, <2>4 DEF t
<1> QED
  BY <1>3, <1>4

-----------------------------------------------------------------------------
(* Types *)

LEMMA TypeKept == TypeOK /\ GuestInv /\ [Next]_vars => TypeOK'
<1> SUFFICES ASSUME TypeOK, GuestInv, [Next]_vars PROVE TypeOK'
  OBVIOUS
<1> USE QueueAssumption, LimitAssumption
<1> USE DEF guestVars, producerVars, bridgeVars, workerVars, clockVars
<1>0. /\ queue \in Seq(BodyEvents) /\ Len(queue) <= UploadQueue
      /\ body \in Seq(BodyEvents) /\ Len(body) <= BodyQueue
      /\ events \in Seq({"body", "ok", "error"}) /\ Len(events) <= ResponseQueue
      /\ delivered \in Seq(1 .. MaxChunks) /\ held \in BodyEvents
      /\ accepted \in 0 .. MaxChunks /\ endSent \in BOOLEAN
      /\ UploadQueue \in Nat /\ BodyQueue \in Nat /\ ResponseQueue \in Nat
  BY DEF TypeOK
<1>1. CASE Cancel
  BY <1>1 DEF Cancel, TypeOK
<1>2. CASE Expire
  BY <1>2 DEF Expire, TypeOK
<1>3. ASSUME NEW timed \in BOOLEAN, StartUpload(timed) PROVE TypeOK'
  BY <1>3 DEF StartUpload, TypeOK
<1>4. ASSUME NEW kind \in {"chunk", "end"}, WriteFrame(kind) PROVE TypeOK'
  BY <1>4 DEF WriteFrame, TypeOK
<1>5. CASE WriteBadFrame
  BY <1>5 DEF WriteBadFrame, TypeOK
<1>6. CASE Read
  BY <1>6 DEF Read, TypeOK
<1>7. CASE CheckToken
  BY <1>7 DEF CheckToken, SendReturns, TypeOK
<1>8. CASE TrySend
  <2>1. CASE ReceiverAlive /\ Len(queue) < UploadQueue
    <3>1. op = "chunk" => accepted + 1 \in 1 .. MaxChunks
      BY <1>8 DEF TrySend, GuestInv, TypeOK
    <3>2. (IF op = "chunk" THEN Chunk(accepted + 1) ELSE IF op = "end" THEN End ELSE Fail)
             \in BodyEvents
      BY <3>1, EventFacts
    <3>3. queue' \in Seq(BodyEvents) /\ Len(queue') <= UploadQueue
      BY <1>0, <1>8, <2>1, <3>2, SendFits DEF TrySend
    <3>4. accepted' \in 0 .. MaxChunks /\ endSent' \in BOOLEAN
      <4>1. endSent' = (endSent \/ op = "end")
            /\ accepted' = IF op = "chunk" THEN accepted + 1 ELSE accepted
        <5>1. Len(queue) # UploadQueue
          BY <1>0, <2>1
        <5> QED
          BY <1>8, <2>1, <5>1, Zenon DEF TrySend
      <4>2. endSent' \in BOOLEAN
        BY <4>1
      <4> QED
        BY <1>0, <3>1, <4>1, <4>2
    <3> QED
      BY <1>8, <2>1, <3>3, <3>4 DEF TrySend, SendReturns, TypeOK
  <2>2. CASE ~(ReceiverAlive /\ Len(queue) < UploadQueue)
    BY <1>8, <2>2 DEF TrySend, SendReturns, TypeOK
  <2> QED
    BY <2>1, <2>2
<1>9. CASE ReceiveResponse
  BY <1>9 DEF ReceiveResponse, TypeOK
<1>10. CASE DropUpload
  BY <1>10 DEF DropUpload, TypeOK
<1>11. CASE ProducerReceives
  <2>1. /\ held' \in BodyEvents /\ queue' \in Seq(BodyEvents) /\ Len(queue') <= UploadQueue
        /\ ppc' \in {"chunk", "last"}
    <3>1. CASE queue # <<>>
      BY <1>0, <1>11, <3>1, ReceiveFits DEF ProducerReceives
    <3>2. CASE queue = <<>>
      BY <1>11, <3>2, EventFacts DEF ProducerReceives, TypeOK
    <3> QED
      BY <3>1, <3>2
  <2> QED
    BY <1>11, <2>1 DEF ProducerReceives, TypeOK
<1>12. CASE ProducerWrites
  <2>1. body' \in Seq(BodyEvents) /\ Len(body') <= BodyQueue /\ held' \in BodyEvents
        /\ ppc' \in {"recv", "last"}
    <3>1. CASE body' = Append(body, held) /\ Len(body) < BodyQueue
      <4>1. body' \in Seq(BodyEvents) /\ Len(body') <= BodyQueue
        BY <1>0, <3>1, SendFits
      <4> QED
        BY <1>0, <1>12, <4>1, EventFacts DEF ProducerWrites
    <3>2. CASE body' = body
      BY <1>0, <1>12, <3>2, EventFacts DEF ProducerWrites
    <3> QED
      BY <1>12, <3>1, <3>2 DEF ProducerWrites
  <2> QED
    BY <1>12, <2>1 DEF ProducerWrites, TypeOK
<1>13. CASE ProducerEnds
  <2>1. body' \in Seq(BodyEvents) /\ Len(body') <= BodyQueue
    BY <1>0, <1>13, SendFits DEF ProducerEnds
  <2> QED
    BY <1>13, <2>1 DEF ProducerEnds, TypeOK
<1>14. CASE BridgeStops
  BY <1>14 DEF BridgeStops, InnerReturns, StopReason, TypeOK
<1>15. ASSUME NEW open \in BOOLEAN, BridgeEnqueues(open) PROVE TypeOK'
  <2>1. CASE open
    BY <1>15, <2>1 DEF BridgeEnqueues, TypeOK
  <2>2. CASE ~open
    BY <1>15, <2>2 DEF BridgeEnqueues, InnerReturns, TypeOK
  <2> QED
    BY <2>1, <2>2
<1>16. CASE BridgeReceives
  <2>1. events' \in Seq({"body", "ok", "error"}) /\ Len(events') <= ResponseQueue
    BY <1>0, <1>16, ReceiveFits DEF BridgeReceives
  <2>2. events # <<>> => Head(events) \in {"body", "ok", "error"}
    BY <1>0, ReceiveFits
  <2>3. /\ result' \in {"none", "ok", "cancelled", "timeout", "error"}
        /\ received' \in 0 .. ResponseLimit
        /\ bpc' \in {"absent", "enqueue", "await", "join", "done"}
        /\ producerCancelled' \in BOOLEAN /\ requestCancelled' \in BOOLEAN
    <3>1. CASE \E value \in {"ok", "error"} : InnerReturns(value) /\ received' = received
      BY <3>1 DEF InnerReturns, TypeOK
    <3>2. CASE received < ResponseLimit /\ received' = received + 1
               /\ UNCHANGED <<bpc, result, producerCancelled, requestCancelled>>
      BY <3>2 DEF TypeOK
    <3> QED
      BY <1>16, <2>2, <3>1, <3>2 DEF BridgeReceives
  <2> QED
    BY <1>16, <2>1, <2>3 DEF BridgeReceives, TypeOK
<1>17. CASE BridgeJoins
  BY <1>17 DEF BridgeJoins, TypeOK
<1>18. CASE WorkerTakes
  BY <1>18 DEF WorkerTakes, TypeOK
<1>19. CASE AdapterReads
  <2>1. body' \in Seq(BodyEvents) /\ Len(body') <= BodyQueue /\ delivered' \in Seq(1 .. MaxChunks)
    <3>1. CASE body' = Tail(body) /\ body # <<>>
               /\ delivered' = IF Head(body).type = "chunk"
                               THEN Append(delivered, Head(body).n) ELSE delivered
      <4>1. body \in Seq(BodyEvents) /\ Len(body) <= BodyQueue /\ delivered \in Seq(1 .. MaxChunks)
        BY DEF TypeOK
      <4>2. Head(body) \in BodyEvents /\ body' \in Seq(BodyEvents) /\ Len(body') <= BodyQueue
        BY <3>1, <4>1, TailFacts
      <4>3. CASE Head(body).type = "chunk"
        BY <3>1, <4>1, <4>2, <4>3, EventFacts, AppendFacts
      <4> QED
        BY <3>1, <4>1, <4>2, <4>3
    <3>2. CASE body' = body /\ delivered' = delivered
      BY <3>2 DEF TypeOK
    <3> QED
      BY <1>19, <3>1, <3>2 DEF AdapterReads
  <2>2. wpc' \in {"dispatch", "fail"} /\ bodyEnded' \in BOOLEAN
    BY <1>19 DEF AdapterReads, TypeOK
  <2> QED
    BY <1>19, <2>1, <2>2 DEF AdapterReads, TypeOK
<1>20. ASSUME NEW answer \in BOOLEAN, AdapterGivesUp(answer) PROVE TypeOK'
  BY <1>20 DEF AdapterGivesUp, TypeOK
<1>21. ASSUME NEW event \in {"body", "ok", "error"}, SendResponseEvent(event)
       PROVE  events' \in Seq({"body", "ok", "error"}) /\ Len(events') <= ResponseQueue
  BY <1>0, <1>21, SendFits DEF SendResponseEvent
<1>22. ASSUME NEW event \in {"body", "ok"}, AdapterAnswers(event) PROVE TypeOK'
  <2>1. events' \in Seq({"body", "ok", "error"}) /\ Len(events') <= ResponseQueue
    BY <1>21, <1>22 DEF AdapterAnswers
  <2> QED
    BY <1>22, <2>1 DEF AdapterAnswers, TypeOK
<1>23. CASE WorkerFails
  <2>1. events' \in Seq({"body", "ok", "error"}) /\ Len(events') <= ResponseQueue
    BY <1>21, <1>23 DEF WorkerFails
  <2> QED
    BY <1>23, <2>1 DEF WorkerFails, TypeOK
<1>24. CASE UNCHANGED vars
  BY <1>24 DEF vars, TypeOK
<1> QED
  BY <1>1, <1>2, <1>3, <1>4, <1>5, <1>6, <1>7, <1>8, <1>9, <1>10, <1>11, <1>12, <1>13,
     <1>14, <1>15, <1>16, <1>17, <1>18, <1>19, <1>20, <1>22, <1>23, <1>24
     DEF Next, GuestRuns, ProducerRuns, BridgeRuns, WorkerRuns

-----------------------------------------------------------------------------
(* The guest *)

\* A step of the guest that sends nothing: it may enter or leave the sending
\* loop, and close the upload.
LEMMA GuestMoves ==
    ASSUME IInv, UNCHANGED <<accepted, endSent, producerVars, workerVars, queue, body>>,
           upload' \in {upload, "closed", "dropped"},
           upload' = "absent" <=> upload = "absent",
           gpc' \in {"check", "try"} =>
               upload' = "open" /\ op' # "none" /\ (op' = "chunk" => accepted < MaxChunks),
           gpc' # "idle" => upload' # "absent"
    PROVE  GuestInv' /\ QueueInv' /\ HeldInv' /\ BodyInv' /\ ReadInv'
<1>1. UNCHANGED <<accepted, endSent, ppc, held, delivered, bodyEnded, queue, body>>
  BY DEF producerVars, workerVars
<1>2. Passed' = Passed /\ Taken' = Taken
  BY <1>1 DEF Passed, Taken
<1>3. GuestInv'
  BY <1>1 DEF IInv, GuestInv
<1>4. QueueInv'
  BY <1>1, <1>2 DEF IInv, QueueInv
<1>5. HeldInv' /\ BodyInv' /\ ReadInv'
  BY <1>1, <1>2 DEF IInv, HeldInv, BodyInv, ReadInv, BodyIntegrity
<1> QED
  BY <1>3, <1>4, <1>5

LEMMA SizeFacts ==
    ASSUME TypeOK
    PROVE  /\ Len(delivered) \in Nat /\ Len(body) \in Nat /\ Len(queue) \in Nat
           /\ Passed \in Nat /\ Taken \in Nat /\ accepted \in Nat /\ endSent \in BOOLEAN
           /\ body \in Seq(BodyEvents) /\ queue \in Seq(BodyEvents) /\ held \in BodyEvents
           /\ delivered \in Seq(1 .. MaxChunks)
<1>1. /\ body \in Seq(BodyEvents) /\ queue \in Seq(BodyEvents) /\ delivered \in Seq(1 .. MaxChunks)
      /\ accepted \in Nat /\ endSent \in BOOLEAN /\ held \in BodyEvents
  BY LimitAssumption DEF TypeOK
<1>2. Len(delivered) \in Nat /\ Len(body) \in Nat /\ Len(queue) \in Nat
  BY <1>1
<1> QED
  BY <1>1, <1>2 DEF Passed, Taken

\* send_event_blocking put an event into the upload channel.
LEMMA EventTaken ==
    ASSUME IInv, TrySend, ReceiverAlive, Len(queue) < UploadQueue
    PROVE  GuestInv' /\ QueueInv' /\ HeldInv' /\ BodyInv' /\ ReadInv'
<1> USE DEF guestVars, producerVars, bridgeVars, workerVars, clockVars
<1>1. gpc = "try" /\ ppc \in {"recv", "chunk"} /\ ppc' = ppc /\ held' = held /\ body' = body
      /\ delivered' = delivered /\ bodyEnded' = bodyEnded
  BY DEF TrySend, ReceiverAlive
<1>2. upload = "open" /\ ~endSent /\ op # "none" /\ (op = "chunk" => accepted < MaxChunks)
  BY <1>1 DEF IInv, GuestInv
<1>3. Chunks(queue, Taken) /\ accepted = Taken + Len(queue)
  BY <1>1, <1>2 DEF IInv, QueueInv
<1>4. Passed' = Passed /\ Taken' = Taken
  BY <1>1 DEF Passed, Taken
<1>5. ~bodyEnded /\ Chunks(body, Len(delivered)) /\ (ppc = "chunk" => held = Chunk(Passed + 1))
  BY <1>1 DEF IInv, ReadInv, BodyInv, HeldInv
<1>6. /\ upload' = IF op = "chunk" THEN "open" ELSE "closed"
      /\ gpc' \in {"idle", "recv"}
      /\ accepted' = IF op = "chunk" THEN accepted + 1 ELSE accepted
      /\ endSent' = (endSent \/ op = "end")
      /\ queue' = Append(queue, IF op = "chunk" THEN Chunk(accepted + 1)
                                ELSE IF op = "end" THEN End ELSE Fail)
  BY <1>2 DEF TrySend, SendReturns
<1>7. GuestInv'
  BY <1>1, <1>2, <1>6 DEF GuestInv
<1>8. QueueInv'
  <2>1. CASE op = "chunk"
    <3>1. accepted + 1 \in 1 .. MaxChunks /\ Taken + Len(queue) + 1 = accepted + 1
      BY <1>2, <1>3, <2>1, SizeFacts, LimitAssumption DEF IInv
    <3>2. Chunk(accepted + 1) \in BodyEvents
      BY <3>1, EventFacts
    <3>3. queue' = Append(queue, Chunk(accepted + 1)) /\ accepted' = accepted + 1
      BY <1>6, <2>1
    <3>4. Chunks(queue', Taken)
      BY <1>3, <3>1, <3>2, <3>3, ChunksAppend, SizeFacts DEF IInv
    <3>5. Len(queue') = Len(queue) + 1
      BY <3>2, <3>3, SizeFacts, AppendFacts DEF IInv
    <3>6. accepted' = Taken + Len(queue')
      BY <1>3, <3>3, <3>5, SizeFacts DEF IInv
    <3> QED
      BY <1>4, <3>4, <3>6 DEF QueueInv
  <2>2. CASE op # "chunk"
    <3> DEFINE e == IF op = "end" THEN End ELSE Fail
    <3>1. e \in BodyEvents
      BY EventFacts
    <3>2. Last(e, Taken + Len(queue), accepted, endSent')
      BY <1>3, <1>6 DEF Last
    <3>3. queue' = Append(queue, e) /\ accepted' = accepted /\ endSent' \in BOOLEAN
      BY <1>6, <2>2
    <3> HIDE DEF e
    <3>4. Closing(queue', Taken, accepted', endSent')
      BY <1>3, <3>1, <3>2, <3>3, ClosingAppend, SizeFacts DEF IInv
    <3>5. Len(queue') = Len(queue) + 1
      BY <3>1, <3>3, SizeFacts, AppendFacts DEF IInv
    <3>6. accepted' = Taken + Len(queue') - 1
      BY <1>3, <3>3, <3>5, SizeFacts DEF IInv
    <3> QED
      BY <1>4, <1>6, <2>2, <3>4, <3>6 DEF QueueInv
  <2> QED
    BY <2>1, <2>2
<1>9. HeldInv' /\ BodyInv'
  BY <1>1, <1>4, <1>5 DEF HeldInv, BodyInv
<1>10. ReadInv'
  BY <1>1, <1>5 DEF IInv, ReadInv, BodyIntegrity
<1> QED
  BY <1>7, <1>8, <1>9, <1>10

-----------------------------------------------------------------------------
(* The producer *)

LEMMA ProducerReceivesKeeps ==
    ASSUME IInv, ProducerReceives
    PROVE  GuestInv' /\ QueueInv' /\ HeldInv' /\ BodyInv' /\ ReadInv'
<1> USE DEF guestVars, producerVars, bridgeVars, workerVars, clockVars
<1>1. /\ ppc = "recv" /\ ppc' \in {"chunk", "last"}
      /\ UNCHANGED <<upload, gpc, op, accepted, endSent, body, delivered, bodyEnded>>
  BY DEF ProducerReceives
<1>2. Passed' = Passed /\ Taken = Passed
  BY <1>1 DEF Passed, Taken
<1>3. ~bodyEnded /\ Chunks(body, Len(delivered))
  BY <1>1 DEF IInv, ReadInv, BodyInv
<1>4. BodyInv' /\ ReadInv'
  BY <1>1, <1>3 DEF IInv, BodyInv, ReadInv, BodyIntegrity
<1>5. GuestInv'
  BY <1>1 DEF IInv, GuestInv
<1>6. CASE queue = <<>>
  BY <1>1, <1>2, <1>4, <1>5, <1>6 DEF ProducerReceives, QueueInv, HeldInv, Last
<1>7. CASE queue # <<>>
  <2>1. queue' = Tail(queue) /\ held' = Head(queue)
        /\ ppc' = IF Head(queue).type = "chunk" THEN "chunk" ELSE "last"
    BY <1>7 DEF ProducerReceives
  <2>2. Len(queue') = Len(queue) - 1
    BY <1>7, <2>1, SizeFacts, TailFacts DEF IInv
  <2>3. CASE Chunks(queue, Passed) /\ accepted = Passed + Len(queue)
    <3>1. Head(queue) = Chunk(Passed + 1) /\ Chunks(queue', Passed + 1)
      BY <1>7, <2>1, <2>3, ChunksTail, SizeFacts DEF IInv
    <3>2. ppc' = "chunk"
      BY <2>1, <3>1, EventFacts, SizeFacts DEF IInv
    <3>3. Taken' = Passed + 1 /\ accepted' = Taken' + Len(queue')
      BY <1>1, <1>2, <2>2, <2>3, <3>2, SizeFacts DEF IInv, Taken
    <3> QED
      BY <1>2, <1>4, <1>5, <2>1, <3>1, <3>2, <3>3 DEF QueueInv, HeldInv
  <2>4. CASE /\ upload # "open" /\ Closing(queue, Passed, accepted, endSent)
             /\ accepted = Passed + Len(queue) - 1
    <3>1. \/ Head(queue) = Chunk(Passed + 1) /\ Closing(queue', Passed + 1, accepted, endSent)
          \/ Last(Head(queue), Passed, accepted, endSent)
      BY <2>1, <2>4, ClosingTail, SizeFacts DEF IInv
    <3>2. CASE Head(queue) = Chunk(Passed + 1) /\ Closing(queue', Passed + 1, accepted, endSent)
      <4>1. ppc' = "chunk"
        BY <2>1, <3>2, EventFacts, SizeFacts DEF IInv
      <4>2. Taken' = Passed + 1 /\ accepted' = Taken' + Len(queue') - 1
        BY <1>1, <1>2, <2>2, <2>4, <4>1, SizeFacts DEF IInv, Taken
      <4> QED
        BY <1>1, <1>2, <1>4, <1>5, <2>1, <2>4, <3>2, <4>1, <4>2 DEF QueueInv, HeldInv
    <3>3. CASE Last(Head(queue), Passed, accepted, endSent)
      <4>1. ppc' = "last"
        BY <2>1, <3>3, EventFacts DEF Last
      <4> QED
        BY <1>1, <1>2, <1>4, <1>5, <2>1, <3>3, <4>1 DEF QueueInv, HeldInv
    <3> QED
      BY <3>1, <3>2, <3>3
  <2> QED
    BY <1>1, <1>2, <2>3, <2>4 DEF IInv, QueueInv
<1> QED
  BY <1>6, <1>7

\* An event in the body channel, with the number the adapter will find it at.
LEMMA BodySent ==
    ASSUME IInv, body' = Append(body, held), delivered' = delivered
    PROVE  Passed' = Passed + 1 /\ Len(delivered') = Len(delivered)
<1>1. Len(body') = Len(body) + 1
  BY AppendFacts, SizeFacts DEF IInv
<1> QED
  BY <1>1, SizeFacts DEF IInv, Passed

LEMMA ProducerWritesKeeps ==
    ASSUME IInv, ProducerWrites
    PROVE  GuestInv' /\ QueueInv' /\ HeldInv' /\ BodyInv' /\ ReadInv'
<1> USE DEF guestVars, producerVars, bridgeVars, workerVars, clockVars
<1>1. /\ ppc = "chunk" /\ ppc' \in {"recv", "last"}
      /\ UNCHANGED <<upload, gpc, op, accepted, endSent, queue, delivered, bodyEnded>>
  BY DEF ProducerWrites
<1>2. ~bodyEnded /\ Chunks(body, Len(delivered)) /\ held = Chunk(Passed + 1) /\ Taken = Passed + 1
  BY <1>1 DEF IInv, ReadInv, BodyInv, HeldInv, Taken
<1>3. ReadInv'
  BY <1>1, <1>2 DEF IInv, ReadInv, BodyIntegrity
<1>4. GuestInv'
  BY <1>1 DEF IInv, GuestInv
<1>5. CASE body' = Append(body, held) /\ ppc' = "recv"
  <2>1. Passed' = Passed + 1
    BY <1>1, <1>5, BodySent
  <2>2. Taken' = Taken
    BY <1>2, <1>5, <2>1 DEF Taken
  <2>3. QueueInv'
    BY <1>1, <1>5, <2>2 DEF IInv, QueueInv
  <2>4. Chunks(body', Len(delivered))
    BY <1>2, <1>5, ChunksAppend, SizeFacts DEF IInv, Passed
  <2>5. HeldInv' /\ BodyInv'
    BY <1>1, <1>5, <2>4 DEF HeldInv, BodyInv
  <2> QED
    BY <1>3, <1>4, <2>3, <2>5
<1>6. CASE body' = body /\ ppc' = "last" /\ held' = Fail
  BY <1>1, <1>2, <1>3, <1>4, <1>6 DEF QueueInv, HeldInv, BodyInv, Last
<1> QED
  BY <1>5, <1>6 DEF ProducerWrites

LEMMA ProducerEndsKeeps ==
    ASSUME IInv, ProducerEnds
    PROVE  GuestInv' /\ QueueInv' /\ HeldInv' /\ BodyInv' /\ ReadInv'
<1> USE DEF guestVars, producerVars, bridgeVars, workerVars, clockVars
<1>1. /\ ppc = "last" /\ ppc' = "done"
      /\ UNCHANGED <<upload, gpc, op, accepted, endSent, queue, delivered, bodyEnded>>
  BY DEF ProducerEnds
<1>2. ~bodyEnded /\ Chunks(body, Len(delivered)) /\ Last(held, Passed, accepted, endSent)
  BY <1>1 DEF IInv, ReadInv, BodyInv, HeldInv
<1>3. ReadInv' /\ GuestInv'
  BY <1>1, <1>2 DEF IInv, ReadInv, BodyIntegrity, GuestInv
<1>4. BodyInv'
  <2>1. CASE body' = body
    BY <1>1, <1>2, <2>1 DEF BodyInv
  <2>2. CASE body' = Append(body, held)
    <3>1. Closing(body', Len(delivered), accepted, endSent)
      BY <1>2, <2>2, ClosingAppend, SizeFacts DEF IInv, Passed
    <3> QED
      BY <1>1, <3>1 DEF BodyInv
  <2> QED
    BY <2>1, <2>2 DEF ProducerEnds
<1> QED
  BY <1>1, <1>3, <1>4 DEF QueueInv, HeldInv

-----------------------------------------------------------------------------
(* The adapter *)

LEMMA AdapterReadsKeeps ==
    ASSUME IInv, AdapterReads
    PROVE  GuestInv' /\ QueueInv' /\ HeldInv' /\ BodyInv' /\ ReadInv'
<1> USE DEF guestVars, producerVars, bridgeVars, workerVars, clockVars
<1>1. UNCHANGED <<upload, gpc, op, accepted, endSent, queue, ppc, held>> /\ ~bodyEnded
  BY DEF AdapterReads
<1>2. CASE UNCHANGED <<delivered, bodyEnded, body>>
  <2>1. Passed' = Passed /\ Taken' = Taken
    BY <1>1, <1>2 DEF Passed, Taken
  <2>2. QueueInv' /\ HeldInv'
    BY <1>1, <2>1 DEF IInv, QueueInv, HeldInv
  <2>3. GuestInv' /\ BodyInv' /\ ReadInv'
    BY <1>1, <1>2 DEF IInv, GuestInv, BodyInv, ReadInv, BodyIntegrity
  <2> QED
    BY <2>2, <2>3
<1>3. CASE /\ body # <<>> /\ body' = Tail(body)
           /\ delivered' = IF Head(body).type = "chunk"
                           THEN Append(delivered, Head(body).n) ELSE delivered
           /\ bodyEnded' = (Head(body).type = "end")
  <2> DEFINE d == Len(delivered)
  <2>1. d \in Nat /\ Len(body') = Len(body) - 1 /\ Head(body) \in BodyEvents
    BY <1>3, SizeFacts, TailFacts DEF IInv
  <2>2. GuestInv'
    BY <1>1, <1>3 DEF IInv, GuestInv
  <2>3. ASSUME Head(body) = Chunk(d + 1),
               Chunks(body', d + 1) \/ (ppc = "done" /\ Closing(body', d + 1, accepted, endSent))
        PROVE  QueueInv' /\ HeldInv' /\ BodyInv' /\ ReadInv'
    <3>1. Head(body).type = "chunk" /\ Head(body).n = d + 1
      BY <2>1, <2>3, EventFacts
    <3>2. delivered' = Append(delivered, d + 1) /\ ~bodyEnded'
      BY <1>3, <3>1
    <3>3. d + 1 \in 1 .. MaxChunks
      BY <2>1, <3>1, EventFacts
    <3>4. /\ Len(delivered') = d + 1 /\ delivered'[d + 1] = d + 1
          /\ \A k \in 1 .. d : delivered'[k] = delivered[k]
      BY <3>2, <3>3, SizeFacts, AppendFacts DEF IInv
    <3>5. Passed' = Passed
      BY <2>1, <3>4, SizeFacts DEF IInv, Passed
    <3>6. Taken' = Taken
      BY <1>1, <3>5 DEF Taken
    <3>7. QueueInv' /\ HeldInv'
      BY <1>1, <3>5, <3>6 DEF IInv, QueueInv, HeldInv
    <3>8. BodyInv'
      BY <1>1, <2>3, <3>4 DEF BodyInv
    <3>9. \A k \in 1 .. d + 1 : delivered'[k] = k
      BY <2>1, <3>4 DEF IInv, ReadInv, BodyIntegrity
    <3> QED
      BY <3>2, <3>4, <3>7, <3>8, <3>9 DEF ReadInv, BodyIntegrity
  <2>4. ASSUME ppc = "done", Tail(body) = <<>>, Last(Head(body), d, accepted, endSent)
        PROVE  QueueInv' /\ HeldInv' /\ BodyInv' /\ ReadInv'
    <3>1. Head(body).type # "chunk"
          /\ (Head(body).type = "end" => endSent /\ accepted = d)
      BY <2>4, EventFacts DEF Last
    <3>2. delivered' = delivered /\ (bodyEnded' => endSent /\ accepted = d)
      BY <1>3, <3>1
    <3>3. BodyInv'
      BY <1>3, <2>1, <2>4, <3>2, EmptyChunks DEF BodyInv
    <3>4. ReadInv'
      BY <1>1, <2>4, <3>2 DEF IInv, ReadInv, BodyIntegrity
    <3> QED
      BY <1>1, <2>4, <3>3, <3>4 DEF QueueInv, HeldInv
  <2>5. CASE Chunks(body, d)
    <3>1. Head(body) = Chunk(d + 1) /\ Chunks(body', d + 1)
      BY <1>3, <2>1, <2>5, ChunksTail, SizeFacts DEF IInv
    <3> QED
      BY <2>2, <2>3, <3>1
  <2>6. CASE ppc = "done" /\ Closing(body, d, accepted, endSent)
    <3>1. \/ Head(body) = Chunk(d + 1) /\ Closing(Tail(body), d + 1, accepted, endSent)
          \/ Tail(body) = <<>> /\ Last(Head(body), d, accepted, endSent)
      BY <2>1, <2>6, ClosingTail, SizeFacts DEF IInv
    <3> QED
      BY <1>3, <2>2, <2>3, <2>4, <2>6, <3>1
  <2> QED
    BY <2>5, <2>6 DEF IInv, BodyInv
<1> QED
  BY <1>2, <1>3 DEF AdapterReads

-----------------------------------------------------------------------------
(* The theorems *)

LEMMA InitInv == Init => IInv
<1> SUFFICES ASSUME Init PROVE IInv
  OBVIOUS
<1>0. \A S : <<>> \in Seq(S) /\ Len(<<>>) = 0
  OBVIOUS
<1>1. TypeOK
  <2>1. /\ accepted \in 0 .. MaxChunks /\ received \in 0 .. ResponseLimit /\ sent \in 0 .. MaxResponse
        /\ 0 <= UploadQueue /\ 0 <= BodyQueue /\ 0 <= ResponseQueue /\ held \in BodyEvents
    BY QueueAssumption, LimitAssumption, EventFacts DEF Init
  <2> QED
    BY <1>0, <2>1, Zenon DEF Init, TypeOK
<1>2. GuestInv
  BY DEF Init, GuestInv
<1>3. QueueInv /\ HeldInv /\ ReadInv
  BY DEF Init, QueueInv, HeldInv, ReadInv, BodyIntegrity
<1>4. BodyInv
  BY EmptyChunks DEF Init, BodyInv
<1> QED
  BY <1>1, <1>2, <1>3, <1>4 DEF IInv

LEMMA NextKeeps == IInv /\ [Next]_vars => IInv'
<1> SUFFICES ASSUME IInv, [Next]_vars
             PROVE  GuestInv' /\ QueueInv' /\ HeldInv' /\ BodyInv' /\ ReadInv'
  BY TypeKept DEF IInv
<1> DEFINE Kept == GuestInv' /\ QueueInv' /\ HeldInv' /\ BodyInv' /\ ReadInv'
<1> SUFFICES Kept
  OBVIOUS
<1> USE DEF guestVars, producerVars, bridgeVars, workerVars, clockVars
<1>1. ASSUME UNCHANGED <<guestVars, producerVars, queue, body, delivered, bodyEnded>>
      PROVE  Kept
  <2>1. Passed' = Passed /\ Taken' = Taken
    BY <1>1 DEF Passed, Taken
  <2>2. QueueInv' /\ HeldInv'
    BY <1>1, <2>1 DEF IInv, QueueInv, HeldInv
  <2>3. GuestInv' /\ BodyInv' /\ ReadInv'
    BY <1>1 DEF IInv, GuestInv, BodyInv, ReadInv, BodyIntegrity
  <2> QED
    BY <2>2, <2>3
<1>2. ASSUME NEW timed \in BOOLEAN, StartUpload(timed) PROVE Kept
  <2>1. /\ upload = "absent" /\ gpc = "idle" /\ upload' = "open" /\ ppc' = "recv"
        /\ UNCHANGED <<gpc, op, accepted, endSent, held, queue, body, delivered, bodyEnded>>
    BY <1>2 DEF StartUpload
  <2>2. accepted = 0 /\ ~endSent /\ queue = <<>> /\ body = <<>> /\ delivered = <<>>
    BY <2>1 DEF IInv, GuestInv
  <2>3. GuestInv'
    BY <2>1, <2>2 DEF GuestInv
  <2>4. Taken' = 0
    BY <2>1, <2>2 DEF Taken, Passed
  <2>5. Chunks(queue', 0) /\ Chunks(body', Len(delivered'))
    BY <2>1, <2>2, EmptyChunks
  <2>6. QueueInv' /\ HeldInv' /\ BodyInv'
    BY <2>1, <2>2, <2>4, <2>5 DEF QueueInv, HeldInv, BodyInv
  <2>7. ReadInv'
    BY <2>1, <2>2 DEF IInv, GuestInv, ReadInv, BodyIntegrity
  <2> QED
    BY <2>3, <2>6, <2>7
<1>3. ASSUME NEW kind \in {"chunk", "end"}, WriteFrame(kind) PROVE Kept
  BY <1>3, GuestMoves DEF WriteFrame, Writable, SenderAlive, IInv, TypeOK
<1>4. CASE WriteBadFrame
  BY <1>4, GuestMoves DEF WriteBadFrame, Writable
<1>5. CASE Read
  BY <1>5, GuestMoves DEF Read, SenderAlive, IInv, TypeOK
<1>6. CASE CheckToken
  <2>1. upload = "open" /\ op # "none" /\ (op = "chunk" => accepted < MaxChunks)
    BY <1>6 DEF CheckToken, IInv, GuestInv
  <2> QED
    BY <1>6, <2>1, GuestMoves DEF CheckToken, SendReturns
<1>7. CASE TrySend
  <2>1. CASE ReceiverAlive /\ Len(queue) < UploadQueue
    BY <1>7, <2>1, EventTaken
  <2>2. CASE ~(ReceiverAlive /\ Len(queue) < UploadQueue)
    <3>1. upload = "open" /\ op # "none" /\ (op = "chunk" => accepted < MaxChunks)
      BY <1>7 DEF TrySend, IInv, GuestInv
    <3> QED
      BY <1>7, <2>2, <3>1, GuestMoves DEF TrySend, SendReturns
  <2> QED
    BY <2>1, <2>2
<1>8. CASE ReceiveResponse
  <2>1. upload # "absent"
    BY <1>8 DEF ReceiveResponse, IInv, GuestInv
  <2> QED
    BY <1>8, <2>1, GuestMoves DEF ReceiveResponse
<1>9. CASE DropUpload
  BY <1>9, GuestMoves DEF DropUpload, SenderAlive
<1>10. CASE ProducerRuns
  BY <1>10, ProducerReceivesKeeps, ProducerWritesKeeps, ProducerEndsKeeps DEF ProducerRuns
<1>11. CASE AdapterReads
  BY <1>11, AdapterReadsKeeps
<1>12. CASE BridgeRuns
  BY <1>1, <1>12 DEF BridgeRuns, BridgeStops, BridgeEnqueues, BridgeReceives, BridgeJoins
<1>13. CASE WorkerTakes \/ WorkerFails
  BY <1>1, <1>13 DEF WorkerTakes, WorkerFails
<1>14. ASSUME NEW answer \in BOOLEAN, AdapterGivesUp(answer) PROVE Kept
  BY <1>1, <1>14 DEF AdapterGivesUp
<1>15. ASSUME NEW event \in {"body", "ok"}, AdapterAnswers(event) PROVE Kept
  BY <1>1, <1>15 DEF AdapterAnswers
<1>16. CASE Cancel \/ Expire \/ UNCHANGED vars
  BY <1>1, <1>16 DEF Cancel, Expire, vars
<1> HIDE DEF Kept
<1> QED
  BY <1>2, <1>3, <1>4, <1>5, <1>6, <1>7, <1>8, <1>9, <1>10, <1>11, <1>12, <1>13, <1>14,
     <1>15, <1>16 DEF Next, GuestRuns, WorkerRuns

LEMMA SpecInv == Spec => []IInv
BY InitInv, NextKeeps, PTL DEF Spec

\* The variables keep their types; in particular no channel exceeds its size and
\* the bridge never appends more than the response limit.
THEOREM TypeCorrect == Spec => []TypeOK
BY SpecInv, PTL DEF IInv

\* The adapter reads the chunks the device accepted, in order and without a gap,
\* and is told that the body is complete only after body_end and all of them,
\* for any sizes of the channels and any interleaving of the four threads with
\* cancellation and expiry (HttpBridgeUpload, spawn_http_request_body_producer,
\* read_chunk_blocking).
THEOREM BodyKept == Spec => []BodyIntegrity
BY SpecInv, PTL DEF IInv, ReadInv
=============================================================================
