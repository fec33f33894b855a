----------------------------- MODULE HttpUpload -----------------------------
(***************************************************************************)
(* A streaming upload through the guest device /dev/wasm-host-http: the    *)
(* guest thread in the device file and the bridge thread it spawns         *)
(* (crates/wasm-host-core/src/lib.rs), the producer thread that carries    *)
(* body events to the adapter, and the adapter's worker                    *)
(* (crates/wasm-host-core/src/http.rs).                                    *)
(*                                                                         *)
(* Granularity.  Each thread's step is one pass of its polling loop: the   *)
(* flags it looks at and the one channel operation it tries.  The guest's  *)
(* pass is two steps, because cancellation may arrive between its look at  *)
(* the token and its try_send, and then the event is queued all the same.  *)
(* The other loops only look at tokens a thread raises once it has stopped *)
(* using their result.  A pass that finds a channel full, or empty with    *)
(* its sender alive, sleeps and changes nothing.                           *)
(*                                                                         *)
(* One upload per device; chunks are numbered in the order the device      *)
(* accepts them, and none is empty (an empty one is skipped on the way).   *)
(***************************************************************************)
EXTENDS Naturals, Sequences

CONSTANTS
    UploadQueue,    \* HTTP_BRIDGE_DEVICE_UPLOAD_QUEUE_SIZE
    BodyQueue,      \* HTTP_REQUEST_BODY_EVENT_QUEUE_SIZE
    ResponseQueue,  \* HTTP_RESPONSE_EVENT_QUEUE_SIZE
    ResponseLimit,  \* limits.response_body_bytes, in response chunks
    MaxChunks,      \* bound: chunks the guest writes
    MaxResponse     \* bound: response chunks an adapter sends

ASSUME QueueAssumption ==
    /\ UploadQueue \in Nat \ {0}
    /\ BodyQueue \in Nat \ {0}
    /\ ResponseQueue \in Nat \ {0}
ASSUME LimitAssumption ==
    ResponseLimit \in Nat /\ MaxChunks \in Nat /\ MaxResponse \in Nat

VARIABLES
    cancelled,          \* the sandbox's cancellation token
    deadline,           \* the request's wall time: "none", "armed", "expired"
    upload,             \* self.upload: its sender is alive while open or closed
    response,           \* self.response: "none", "write" (set by a failed write), "read"
    gpc,                \* where the guest thread stands
    op,                 \* the device operation it is in
    accepted,           \* chunks the upload channel took
    endSent,            \* whether the upload channel took the End event
    queue,              \* the upload channel
    ppc,                \* where the producer thread stands
    held,               \* the event it is about to send
    producerCancelled,  \* producer.cancellation
    body,               \* the request body channel
    bpc,                \* where the bridge thread stands
    result,             \* what request_blocking_inner returned
    received,           \* response chunks it has appended
    requestCancelled,   \* request_cancellation
    wpc,                \* where the adapter's worker stands with the request
    delivered,          \* the body chunks the adapter has read
    bodyEnded,          \* whether it has read the end of the body
    sent,               \* response chunks it has sent
    events              \* the response channel

guestVars    == <<upload, response, gpc, op, accepted, endSent>>
producerVars == <<ppc, held>>
bridgeVars   == <<bpc, result, received, producerCancelled, requestCancelled>>
workerVars   == <<wpc, delivered, bodyEnded, sent>>
clockVars    == <<cancelled, deadline>>
vars == <<guestVars, producerVars, bridgeVars, workerVars, clockVars,
          queue, body, events>>

Chunk(n) == [type |-> "chunk", n |-> n]
End      == [type |-> "end", n |-> 0]
Fail     == [type |-> "fail", n |-> 0]
BodyEvents == {Chunk(n) : n \in 1 .. MaxChunks} \cup {End, Fail}

TypeOK ==
    /\ cancelled \in BOOLEAN
    /\ deadline \in {"none", "armed", "expired"}
    /\ upload \in {"absent", "open", "closed", "dropped"}
    /\ response \in {"none", "write", "read"}
    /\ gpc \in {"idle", "check", "try", "recv"}
    /\ op \in {"none", "chunk", "end", "bad", "read"}
    /\ accepted \in 0 .. MaxChunks
    /\ endSent \in BOOLEAN
    /\ queue \in Seq(BodyEvents) /\ Len(queue) <= UploadQueue
    /\ ppc \in {"absent", "recv", "chunk", "last", "done"}
    /\ held \in BodyEvents
    /\ producerCancelled \in BOOLEAN
    /\ body \in Seq(BodyEvents) /\ Len(body) <= BodyQueue
    /\ bpc \in {"absent", "enqueue", "await", "join", "done"}
    /\ result \in {"none", "ok", "cancelled", "timeout", "error"}
    /\ received \in 0 .. ResponseLimit
    /\ requestCancelled \in BOOLEAN
    /\ wpc \in {"absent", "queued", "dispatch", "answer", "fail", "done"}
    /\ delivered \in Seq(1 .. MaxChunks)
    /\ bodyEnded \in BOOLEAN
    /\ sent \in 0 .. MaxResponse
    /\ events \in Seq({"body", "ok", "error"}) /\ Len(events) <= ResponseQueue

Init ==
    /\ cancelled = FALSE
    /\ deadline = "none"
    /\ upload = "absent" /\ response = "none"
    /\ gpc = "idle" /\ op = "none"
    /\ accepted = 0 /\ endSent = FALSE
    /\ queue = <<>>
    /\ ppc = "absent" /\ held = End
    /\ producerCancelled = FALSE
    /\ body = <<>>
    /\ bpc = "absent" /\ result = "none" /\ received = 0
    /\ requestCancelled = FALSE
    /\ wpc = "absent" /\ delivered = <<>> /\ bodyEnded = FALSE /\ sent = 0
    /\ events = <<>>

SenderAlive       == upload \in {"open", "closed"}
ReceiverAlive     == ppc \in {"recv", "chunk"}
BodyReceiverAlive == wpc # "done"
BridgeAwaits      == bpc = "await"

-----------------------------------------------------------------------------
(* The environment *)

Cancel ==
    /\ ~cancelled
    /\ cancelled' = TRUE
    /\ UNCHANGED <<guestVars, producerVars, bridgeVars, workerVars, deadline,
                   queue, body, events>>

Expire ==
    /\ deadline = "armed"
    /\ deadline' = "expired"
    /\ UNCHANGED <<guestVars, producerVars, bridgeVars, workerVars, cancelled,
                   queue, body, events>>

-----------------------------------------------------------------------------
(* The guest thread: write_device_data, poll_read and their helpers *)

\* A request frame: start_http_bridge_device_upload spawns the bridge thread,
\* and request_streaming_blocking the producer thread.
StartUpload(timed) ==
    /\ upload = "absent" /\ gpc = "idle"
    /\ upload' = "open"
    /\ deadline' = IF timed THEN "armed" ELSE "none"
    /\ ppc' = "recv"
    /\ bpc' = "enqueue"
    /\ UNCHANGED <<cancelled, response, gpc, op, accepted, endSent, held, result,
                   received, producerCancelled, requestCancelled, workerVars,
                   queue, body, events>>

\* The device accepts a frame only while it holds no response of a write.
Writable == gpc = "idle" /\ response = "none" /\ SenderAlive

\* A body_chunk or body_end frame: send_upload_event, refused once closed.
WriteFrame(kind) ==
    /\ Writable
    /\ kind = "chunk" => accepted < MaxChunks
    /\ IF upload = "closed"
       THEN response' = "write" /\ UNCHANGED <<gpc, op>>
       ELSE gpc' = "check" /\ op' = kind /\ UNCHANGED response
    /\ UNCHANGED <<upload, accepted, endSent, producerVars, bridgeVars, workerVars,
                   clockVars, queue, body, events>>

\* A malformed frame, or a second request frame: fail_upload.
WriteBadFrame ==
    /\ Writable /\ upload = "open"
    /\ gpc' = "check" /\ op' = "bad"
    /\ UNCHANGED <<upload, response, accepted, endSent, producerVars, bridgeVars,
                   workerVars, clockVars, queue, body, events>>

\* Mutant: an upload without body_end is read as if it had one.
ReadUnended ==
    /\ gpc = "idle" /\ upload # "absent"
    /\ response = "none" /\ SenderAlive
    /\ gpc' = "recv"
    /\ op' = "read"
    /\ UNCHANGED <<upload, response, accepted, endSent, producerVars, bridgeVars,
                   workerVars, clockVars, queue, body, events>>

\* poll_read: read_upload_response fails an upload that has no body_end, then
\* waits for the bridge thread.  A response already there is returned.
Read ==
    /\ gpc = "idle" /\ upload # "absent"
    /\ \/ /\ response = "write"
          /\ response' = "read"
          /\ UNCHANGED <<gpc, op>>
       \/ /\ response = "none" /\ SenderAlive
          /\ gpc' = IF upload = "open" THEN "check" ELSE "recv"
          /\ op' = "read"
          /\ UNCHANGED response
    /\ UNCHANGED <<upload, accepted, endSent, producerVars, bridgeVars, workerVars,
                   clockVars, queue, body, events>>

\* How the operation goes on once send_event_blocking has returned: body_end and
\* fail_blocking close the upload whether or not the event was taken, a failed
\* write leaves its error as the response, and a read goes on to wait.
SendReturns(ok) ==
    /\ gpc' = IF op = "read" THEN "recv" ELSE "idle"
    /\ op' = IF op = "read" THEN "read" ELSE "none"
    /\ upload' = IF op = "chunk" THEN upload ELSE "closed"
    /\ response' = IF ~ok /\ op \in {"chunk", "end"} THEN "write" ELSE response

\* send_event_blocking looks at the token...
CheckToken ==
    /\ gpc = "check"
    /\ IF cancelled
       THEN SendReturns(FALSE)
       ELSE gpc' = "try" /\ UNCHANGED <<upload, response, op>>
    /\ UNCHANGED <<accepted, endSent, producerVars, bridgeVars, workerVars,
                   clockVars, queue, body, events>>

\* ... and tries to send: taken, full (back to the token), or disconnected.
TrySend ==
    /\ gpc = "try"
    /\ \/ /\ ReceiverAlive /\ Len(queue) < UploadQueue
          /\ SendReturns(TRUE)
          /\ accepted' = IF op = "chunk" THEN accepted + 1 ELSE accepted
          /\ endSent' = (endSent \/ op = "end")
          /\ queue' = Append(queue, IF op = "chunk" THEN Chunk(accepted + 1)
                                    ELSE IF op = "end" THEN End ELSE Fail)
       \/ /\ ReceiverAlive /\ Len(queue) = UploadQueue
          /\ gpc' = "check"
          /\ UNCHANGED <<upload, response, op, accepted, endSent, queue>>
       \/ /\ ~ReceiverAlive
          /\ SendReturns(FALSE)
          /\ UNCHANGED <<accepted, endSent, queue>>
    /\ UNCHANGED <<producerVars, bridgeVars, workerVars, clockVars, body, events>>

\* response_receiver.recv(): the bridge thread has sent its result.  The upload
\* was taken out of the device, and its sender goes with it.
ReceiveResponse ==
    /\ gpc = "recv"
    /\ bpc = "done"
    /\ gpc' = "idle" /\ op' = "none"
    /\ response' = "read"
    /\ upload' = "dropped"
    /\ UNCHANGED <<accepted, endSent, producerVars, bridgeVars, workerVars,
                   clockVars, queue, body, events>>

\* The device file is closed, or written to after a response was read, which
\* drops the upload to begin another request.
DropUpload ==
    /\ gpc = "idle" /\ SenderAlive
    /\ upload' = "dropped"
    /\ UNCHANGED <<response, gpc, op, accepted, endSent, producerVars, bridgeVars,
                   workerVars, clockVars, queue, body, events>>

-----------------------------------------------------------------------------
(* The producer thread *)

\* Mutant: the closure waits on although the sender is gone.
ProducerIgnoresHangup ==
    /\ ppc = "recv"
    /\ queue # <<>>
    /\ queue' = Tail(queue)
    /\ held' = Head(queue)
    /\ ppc' = IF Head(queue).type = "chunk" THEN "chunk" ELSE "last"
    /\ UNCHANGED <<guestVars, bridgeVars, workerVars, clockVars, body, events>>

\* The closure's receiver.recv(): a chunk is to be written, an end or failure,
\* or the loss of the sender, ends the closure and drops the receiver.
ProducerReceives ==
    /\ ppc = "recv"
    /\ \/ /\ queue # <<>>
          /\ queue' = Tail(queue)
          /\ held' = Head(queue)
          /\ ppc' = IF Head(queue).type = "chunk" THEN "chunk" ELSE "last"
       \/ /\ queue = <<>> /\ ~SenderAlive
          /\ held' = Fail
          /\ ppc' = "last"
          /\ UNCHANGED queue
    /\ UNCHANGED <<guestVars, bridgeVars, workerVars, clockVars, body, events>>

\* write_chunk_blocking: an error ends the closure.
ProducerWrites ==
    /\ ppc = "chunk"
    /\ \/ /\ ~producerCancelled /\ BodyReceiverAlive /\ Len(body) < BodyQueue
          /\ body' = Append(body, held)
          /\ ppc' = "recv"
          /\ UNCHANGED held
       \/ /\ producerCancelled \/ ~BodyReceiverAlive
          /\ held' = Fail
          /\ ppc' = "last"
          /\ UNCHANGED body
    /\ UNCHANGED <<guestVars, bridgeVars, workerVars, clockVars, queue, events>>

\* Mutant: the producer completes the body whatever ended it.
ProducerCompletes ==
    /\ ppc = "last"
    /\ \/ /\ ~producerCancelled /\ BodyReceiverAlive /\ Len(body) < BodyQueue
          /\ body' = Append(body, End)
       \/ /\ producerCancelled \/ ~BodyReceiverAlive
          /\ UNCHANGED body
    /\ ppc' = "done"
    /\ UNCHANGED <<held, guestVars, bridgeVars, workerVars, clockVars, queue, events>>

\* writer.finish or writer.fail, whose own failure is ignored.
ProducerEnds ==
    /\ ppc = "last"
    /\ \/ /\ ~producerCancelled /\ BodyReceiverAlive /\ Len(body) < BodyQueue
          /\ body' = Append(body, held)
       \/ /\ producerCancelled \/ ~BodyReceiverAlive
          /\ UNCHANGED body
    /\ ppc' = "done"
    /\ UNCHANGED <<held, guestVars, bridgeVars, workerVars, clockVars, queue, events>>

-----------------------------------------------------------------------------
(* The bridge thread *)

\* Mutant: the producer is joined without having been cancelled.
InnerReturnsQuietly(value) ==
    /\ bpc' = "join"
    /\ result' = value
    /\ requestCancelled' = TRUE
    /\ UNCHANGED producerCancelled

\* request_blocking_inner returns; its caller cancels the producer and joins it.
InnerReturns(value) ==
    /\ bpc' = "join"
    /\ result' = value
    /\ requestCancelled' = TRUE
    /\ producerCancelled' = TRUE

\* The two checks at the top of both loops.
StopReason == IF cancelled THEN "cancelled" ELSE "timeout"
MustStop   == cancelled \/ deadline = "expired"

\* Mutant: the loops do not look at the deadline.
BridgeStopsOnCancel ==
    /\ bpc \in {"enqueue", "await"}
    /\ cancelled
    /\ InnerReturns(StopReason)
    /\ wpc' = IF bpc = "enqueue" THEN "done" ELSE wpc
    /\ UNCHANGED <<received, delivered, bodyEnded, sent, guestVars, producerVars,
                   clockVars, queue, body, events>>

\* Cancelled or out of time; a request that was not queued yet is dropped.
BridgeStops ==
    /\ bpc \in {"enqueue", "await"}
    /\ MustStop
    /\ InnerReturns(StopReason)
    /\ wpc' = IF bpc = "enqueue" THEN "done" ELSE wpc
    /\ UNCHANGED <<received, delivered, bodyEnded, sent, guestVars, producerVars,
                   clockVars, queue, body, events>>

\* inner.sender.try_send: queued, or the dispatcher is closed.
BridgeEnqueues(open) ==
    /\ bpc = "enqueue" /\ ~MustStop
    /\ IF open
       THEN /\ bpc' = "await" /\ wpc' = "queued"
            /\ UNCHANGED <<result, producerCancelled, requestCancelled>>
       ELSE InnerReturns("error") /\ wpc' = "done"
    /\ UNCHANGED <<received, delivered, bodyEnded, sent, guestVars, producerVars,
                   clockVars, queue, body, events>>

\* response_receiver.try_recv: a body chunk within the limit or beyond it, the
\* complete response (whose own body counts as a chunk before it), an error, or a
\* request dropped without an answer.
BridgeReceives ==
    /\ BridgeAwaits /\ ~MustStop
    /\ \/ /\ events # <<>> /\ Head(events) = "body" /\ received < ResponseLimit
          /\ received' = received + 1
          /\ events' = Tail(events)
          /\ UNCHANGED <<bpc, result, producerCancelled, requestCancelled>>
       \/ /\ events # <<>> /\ Head(events) = "body" /\ received = ResponseLimit
          /\ events' = Tail(events)
          /\ InnerReturns("error")
          /\ UNCHANGED received
       \/ /\ events # <<>> /\ Head(events) # "body"
          /\ events' = Tail(events)
          /\ InnerReturns(Head(events))
          /\ UNCHANGED received
       \/ /\ events = <<>> /\ wpc = "done"
          /\ InnerReturns("error")
          /\ UNCHANGED <<received, events>>
    /\ UNCHANGED <<guestVars, producerVars, workerVars, clockVars, queue, body>>

\* producer.handle.join(), then the result goes to the device.
BridgeJoins ==
    /\ bpc = "join" /\ ppc = "done"
    /\ bpc' = "done"
    /\ UNCHANGED <<result, received, producerCancelled, requestCancelled, guestVars,
                   producerVars, workerVars, clockVars, queue, body, events>>

-----------------------------------------------------------------------------
(* The adapter's worker and its transport *)

\* The worker's loop skips a request that is already cancelled.
WorkerTakes ==
    /\ wpc = "queued"
    /\ wpc' = IF requestCancelled THEN "done" ELSE "dispatch"
    /\ UNCHANGED <<delivered, bodyEnded, sent, guestVars, producerVars, bridgeVars,
                   clockVars, queue, body, events>>

\* read_chunk_blocking: cancelled, a chunk, the end, a failure, or a body channel
\* whose sender is gone.
AdapterReads ==
    /\ wpc = "dispatch" /\ ~bodyEnded
    /\ \/ /\ requestCancelled
          /\ wpc' = "fail"
          /\ UNCHANGED <<delivered, bodyEnded, body>>
       \/ /\ ~requestCancelled /\ body # <<>>
          /\ body' = Tail(body)
          /\ delivered' = IF Head(body).type = "chunk"
                          THEN Append(delivered, Head(body).n) ELSE delivered
          /\ bodyEnded' = (Head(body).type = "end")
          /\ wpc' = IF Head(body).type = "fail" THEN "fail" ELSE wpc
       \/ /\ ~requestCancelled /\ body = <<>> /\ ppc = "done"
          /\ wpc' = "fail"
          /\ UNCHANGED <<delivered, bodyEnded, body>>
    /\ UNCHANGED <<sent, guestVars, producerVars, bridgeVars, clockVars, queue, events>>

\* The transport fails of itself, or returns without an answer.
AdapterGivesUp(answer) ==
    /\ wpc \in {"dispatch", "answer"}
    /\ wpc' = IF answer THEN "fail" ELSE "done"
    /\ UNCHANGED <<delivered, bodyEnded, sent, guestVars, producerVars, bridgeVars,
                   clockVars, queue, body, events>>

\* A response event the adapter sends: refused when the request is cancelled or
\* the bridge thread has gone, which are one condition here.
SendResponseEvent(event) ==
    IF requestCancelled
    THEN UNCHANGED events
    ELSE Len(events) < ResponseQueue /\ events' = Append(events, event)

\* The transport may answer before it has read the whole body.
AdapterAnswers(event) ==
    /\ wpc \in {"dispatch", "answer"}
    /\ event = "body" => sent < MaxResponse
    /\ SendResponseEvent(event)
    /\ sent' = IF event = "body" THEN sent + 1 ELSE sent
    /\ wpc' = IF requestCancelled THEN "fail" ELSE IF event = "ok" THEN "done" ELSE "answer"
    /\ UNCHANGED <<delivered, bodyEnded, guestVars, producerVars, bridgeVars,
                   clockVars, queue, body>>

\* request.fail(error), whose own failure is ignored.
WorkerFails ==
    /\ wpc = "fail"
    /\ SendResponseEvent("error")
    /\ wpc' = "done"
    /\ UNCHANGED <<delivered, bodyEnded, sent, guestVars, producerVars, bridgeVars,
                   clockVars, queue, body>>

-----------------------------------------------------------------------------

GuestRuns == CheckToken \/ TrySend \/ ReceiveResponse

ProducerRuns == ProducerReceives \/ ProducerWrites \/ ProducerEnds

BridgeRuns ==
    \/ BridgeStops
    \/ \E open \in BOOLEAN : BridgeEnqueues(open)
    \/ BridgeReceives
    \/ BridgeJoins

WorkerRuns ==
    \/ WorkerTakes
    \/ AdapterReads
    \/ \E answer \in BOOLEAN : AdapterGivesUp(answer)
    \/ \E event \in {"body", "ok"} : AdapterAnswers(event)
    \/ WorkerFails

Next ==
    \/ Cancel
    \/ Expire
    \/ \E timed \in BOOLEAN : StartUpload(timed)
    \/ \E kind \in {"chunk", "end"} : WriteFrame(kind)
    \/ WriteBadFrame
    \/ Read
    \/ GuestRuns
    \/ DropUpload
    \/ ProducerRuns
    \/ BridgeRuns
    \/ WorkerRuns

\* Threads that can run do, and time passes.  The guest is free to stop calling;
\* nothing is assumed of the dispatcher's queue, which may stay full, nor of the
\* adapter, whose peer may never answer.
Fairness ==
    /\ WF_vars(GuestRuns)
    /\ WF_vars(ProducerRuns)
    /\ WF_vars(BridgeStops \/ BridgeReceives \/ BridgeJoins)
    /\ WF_vars(Expire)

Spec == Init /\ [][Next]_vars /\ Fairness
-----------------------------------------------------------------------------
(* Properties *)

\* The adapter reads the body in order and without a gap, and it is told that
\* the body is complete only if the guest sent body_end and every chunk the
\* device accepted before it has been read: a body cut short by a bad frame, an
\* early read, a closed device, a cancellation or a timeout is never taken for
\* a whole one.
BodyIntegrity ==
    /\ \A i \in 1 .. Len(delivered) : delivered[i] = i
    /\ bodyEnded => endSent /\ Len(delivered) = accepted

\* A write returns once the run is cancelled or its wall time is over, even when
\* the queue it waits for is full and the adapter reads nothing.
WritesReturn ==
    gpc \in {"check", "try"} /\ (cancelled \/ deadline # "none") /\ op # "read"
        ~> gpc = "idle"

\* After body_end was taken, a read returns once the run is cancelled or the wall
\* time is over, whatever the adapter does.
EndedReadsReturn ==
    gpc = "recv" /\ endSent /\ (cancelled \/ deadline # "none") ~> gpc = "idle"

\* A wall time bounds every read of a run that is not cancelled.
DeadlineBoundsReads ==
    op = "read" /\ deadline # "none" ~> gpc = "idle" \/ cancelled

\* A dropped upload leaves no thread behind when its request has a wall time or
\* the run is cancelled.
NoThreadLeft ==
    upload = "dropped" /\ (cancelled \/ deadline # "none")
        ~> bpc = "done" /\ ppc = "done"

\* What docs/host-profile.md says of a producer that is generating chunks: it
\* observes a cancellation, so that a read of a cancelled run returns.
CancelledReadsReturn == op = "read" /\ cancelled ~> gpc = "idle"
=============================================================================
