----------------------------- MODULE HttpBridge -----------------------------
(***************************************************************************)
(* HttpBridgeWorkerRuntime (apps/web/src/http-worker.js) over its two      *)
(* transports (apps/web/src/http.js): direct fetch, and a gateway that     *)
(* answers with one JSON envelope or with a stream of NDJSON frames.       *)
(*                                                                         *)
(* A step is one macrotask with all its microtasks: a message of the page, *)
(* a timer, or news from the network.  fetch and the network are external: *)
(* an abort rejects what fetch has pending, in the step that aborts.       *)
(* The text of a frame arrives in halves, so that a chunk of the network   *)
(* may end within a line; a chunk of a body has size 1.                    *)
(***************************************************************************)
EXTENDS Naturals, Sequences, FiniteSets, SequencesExt

CONSTANTS
    Dispatches,   \* the http.dispatch messages
    Id,           \* the request id each carries
    Requests,     \* the requests each may hold
    Responses,    \* what the network may answer
    BodyLimit,    \* responseBodyLimit
    FrameLimit,   \* gatewayResponseLimit
    NoDispatch,   \* an id with no entry in inFlight
    WaitsForEnd,  \* whether the page reuses an id only after a terminal event
    MaxBody       \* bound: chunks the page sends for one request

ASSUME LimitsAssumption == BodyLimit \in Nat /\ FrameLimit \in Nat /\ MaxBody \in Nat
\* A body is made of chunks, and comes whole or fails; an envelope may report an error.
ASSUME ResponsesAssumption ==
    /\ Responses \subseteq [form : {"plain", "json", "ndjson", "badStatus"},
                            lines : Seq(STRING), whole : BOOLEAN]
    /\ \A response \in Responses :
         /\ response.form = "plain" => response.whole /\ response.lines \in Seq({"chunk"})
         /\ response.form = "json" => response.lines \in Seq({"chunk", "error"})
ASSUME NoDispatchAssumption == NoDispatch \notin Dispatches

VARIABLES
    listening,  \* the runtime is started
    inFlight,   \* this.inFlight, the dispatch whose record is under each id
    run,        \* each dispatch: its record, its body stream, its transport's locals
    strays      \* ids answered with "unknown streaming HTTP request body"

bridgeVars == <<listening, inFlight, run, strays>>

Ids == {Id[d] : d \in Dispatches}

NewRun == [pc |-> "new", request |-> [transport |-> "direct", body |-> "none",
                                      streamUploads |-> TRUE, timed |-> FALSE],
           queued |-> 0, sent |-> 0, closed |-> FALSE, page |-> "sending",
           uploaded |-> FALSE, reason |-> "none", reported |-> FALSE, terminals |-> <<>>,
           response |-> [form |-> "none", lines |-> <<>>, whole |-> TRUE],
           rest |-> <<>>, buffer |-> <<>>, head |-> FALSE, completed |-> FALSE,
           total |-> 0, written |-> 0]

BridgeInit ==
    /\ listening = TRUE
    /\ inFlight = [i \in Ids |-> NoDispatch]
    /\ run = [d \in Dispatches |-> NewRun]
    /\ strays = {}

Running(d) == run[d].pc \in {"buffering", "fetching", "reading"}

-----------------------------------------------------------------------------
(* One dispatch, as a function of its record *)

\* The locals of the transport are gone.
Dropped(r) == [r EXCEPT !.pc = "ended", !.rest = <<>>, !.buffer = <<>>, !.head = FALSE,
                        !.completed = FALSE, !.total = 0, !.reason = "none"]

\* Mutant: the catch block does not look at reportedError.
EndedAgain(r, event) == [Dropped(r) EXCEPT !.terminals = Append(@, event)]

\* The end of dispatch: a terminal event, unless failBodyMessage has posted one.
\* inFlight.delete(id) is left to the caller.
Ended(r, event) ==
    [Dropped(r) EXCEPT !.terminals = IF r.reported THEN @ ELSE Append(@, event)]

\* mapFetchError and mapGatewayFetchError of a failed fetch that was not aborted.
NetworkError(r) == IF r.request.transport = "direct" THEN "cors" ELSE "gateway_unavailable"

\* fetchImpl: an aborted signal rejects at once with the reason of the abort.
CallFetch(r) == IF r.reason = "none" THEN [r EXCEPT !.pc = "fetching"] ELSE Ended(r, r.reason)

\* requestFromDispatchMessage, resolveTransport, then dispatchFetchRequest or
\* dispatchGatewayRequest to their first await: a streaming body is either handed to
\* fetch as a ReadableStream or read to its end first.
Begin(r) ==
    LET q == r.request
    IN  IF q.transport = "unknown" \/ q.body = "both" THEN Ended(r, "invalid_request")
        ELSE IF q.body # "stream" THEN CallFetch([r EXCEPT !.uploaded = TRUE, !.closed = TRUE])
        ELSE IF q.streamUploads THEN CallFetch(r)
        ELSE [r EXCEPT !.pc = "buffering"]

\* createAbortController's abort, by a timer or a cancellation: the first reason stays.
\* While the body is buffered nothing listens to the signal; a cancellation also fails
\* the body stream, which rejects the read that waits there.
Aborted(r, reason) ==
    LET a == [r EXCEPT !.reason = IF @ = "none" THEN reason ELSE @]
    IN  IF r.pc = "buffering" /\ reason = "timeout" THEN a
        ELSE Ended(a, IF r.pc = "buffering" THEN "cancelled" ELSE a.reason)

\* Mutant: the request is reported as failed and not aborted.
failWithoutAbort(r, kind) ==
    LET f == [r EXCEPT !.reported = TRUE, !.terminals = Append(@, kind), !.page = "failed"]
    IN  IF r.pc = "buffering" THEN Aborted(f, "cancelled") ELSE f

\* failBodyMessage: reportedError is set before the abort ends the dispatch.
failBodyMessage(r, kind) ==
    Aborted([r EXCEPT !.reported = TRUE, !.terminals = Append(@, kind), !.page = "failed"],
            "cancelled")

\* bodyStream.push of a non-empty chunk: a reader that waits gets it at once.
pushBody(r) ==
    IF r.closed THEN failBodyMessage(r, "invalid_request")
    ELSE IF r.pc = "buffering" THEN [r EXCEPT !.sent = @ + 1]
    ELSE [r EXCEPT !.queued = @ + 1]

endBody(r) ==
    IF r.closed THEN failBodyMessage(r, "invalid_request")
    ELSE LET c == [r EXCEPT !.closed = TRUE, !.page = "ended"]
         IN  IF r.pc = "buffering" THEN CallFetch([c EXCEPT !.uploaded = c.reason = "none"]) ELSE c

\* Mutant: a producer's error ends the body instead of failing it.
errorEndsBody(r) == [endBody(r) EXCEPT !.page = "failed"]

errorBody(r) == failBodyMessage(r, "producer")

-----------------------------------------------------------------------------
(* Reading a response *)

NewLine == [frame |-> "newline", half |-> 0]
Half(f, h) == [frame |-> f, half |-> h]

isGatewayStreamResponse(response) == response.form = "ndjson"

\* The bytes of a response.  A line of a stream is two halves, of a frame or of white
\* space, and a newline; a stream that is not whole lacks its last newline.
Encode(response) ==
    LET lines == response.lines
        text == [i \in 1 .. 3 * Len(lines) |->
                     IF i % 3 = 0 THEN NewLine ELSE Half(lines[(i + 2) \div 3], i % 3)]
    IN  IF ~isGatewayStreamResponse(response) THEN [i \in DOMAIN lines |-> Half(lines[i], 0)]
        ELSE IF response.whole THEN text ELSE Front(text)

\* enforceResponseBodyLimit and writeResponseChunk.
writeChunk(r) ==
    IF r.total + 1 > BodyLimit THEN Ended(r, "response_too_large")
    ELSE [r EXCEPT !.total = @ + 1, !.written = @ + 1]

\* applyFrame of readGatewayStreamResponse.
applyFrame(r, f) ==
    IF r.completed THEN Ended(r, "invalid_response")
    ELSE CASE f = "response" /\ ~r.head -> [r EXCEPT !.head = TRUE]
           [] f = "chunk" /\ r.head -> writeChunk(r)
           [] f = "end" /\ r.head -> [r EXCEPT !.completed = TRUE]
           [] f = "error" -> Ended(r, "gateway")
           [] OTHER -> Ended(r, "invalid_response")

isAsciiWhitespace(bytes) == \A i \in DOMAIN bytes : bytes[i].frame = "blank"

\* A complete line: blank, a frame (parseGatewayStreamFrame), or not JSON.
applyLine(r, line) ==
    IF isAsciiWhitespace(line) THEN r
    ELSE IF \E f \in {line[1].frame} : line = <<Half(f, 1), Half(f, 2)>>
         THEN applyFrame(r, line[1].frame)
         ELSE Ended(r, "invalid_response")

\* A newline completes a line; any other text is kept.
decodeByte(r, b) ==
    IF r.pc # "reading" THEN r
    ELSE IF b = NewLine THEN applyLine([r EXCEPT !.buffer = <<>>], r.buffer)
    ELSE [r EXCEPT !.buffer = Append(@, b)]

\* The loop over the buffer: every complete line is applied, the rest is kept.
decode(r, bytes) ==
    LET after[n \in 0 .. Len(bytes)] ==
            IF n = 0 THEN r ELSE decodeByte(after[n - 1], bytes[n])
    IN  after[Len(bytes)]

\* One chunk of the network, by readGatewayStreamResponse or readResponseBodyChunks.
readBytes(r, bytes) ==
    LET limit == IF r.response.form = "plain" THEN BodyLimit ELSE FrameLimit
    IN  IF Len(r.buffer) + Len(bytes) > limit THEN Ended(r, "response_too_large")
        ELSE IF isGatewayStreamResponse(r.response) THEN decode(r, bytes)
        ELSE [r EXCEPT !.buffer = @ \o bytes]

\* Chunks of a buffered response are written, then the completion; the limit of a JSON
\* envelope is enforced chunk by chunk.
writeAll(r) ==
    LET after[n \in 0 .. Len(r.buffer)] ==
            IF n = 0 THEN r
            ELSE IF after[n - 1].pc = "reading" THEN writeChunk(after[n - 1]) ELSE after[n - 1]
        w == after[Len(r.buffer)]
    IN  IF w.pc = "reading" THEN Ended(w, "complete") ELSE w

\* The end of the response body.
finishResponse(r) ==
    CASE r.response.form = "plain" -> writeAll(r)
      [] r.response.form = "json" ->
            (IF ~r.response.whole THEN Ended(r, "invalid_response")
             ELSE IF \E i \in DOMAIN r.buffer : r.buffer[i].frame = "error" THEN Ended(r, "gateway")
             ELSE writeAll(r))
      [] OTHER -> IF ~isAsciiWhitespace(r.buffer) \/ ~r.completed THEN Ended(r, "invalid_response")
                  ELSE Ended(r, "complete")

-----------------------------------------------------------------------------
(* Steps *)

\* Dispatch d goes on as r; its finally block deletes the id, whoever's record is there.
Becomes(d, r) ==
    /\ run' = [run EXCEPT ![d] = r]
    /\ inFlight' = IF r.pc = "ended" THEN [inFlight EXCEPT ![Id[d]] = NoDispatch] ELSE inFlight
    /\ UNCHANGED <<listening, strays>>

Told(d) == run[d].terminals # <<>>

\* http.dispatch.
Dispatch(d, request) ==
    LET r == Begin([NewRun EXCEPT !.request = request])
    IN  /\ listening /\ run[d].pc = "new"
        /\ WaitsForEnd => \A e \in Dispatches : Id[e] = Id[d] /\ run[e].pc # "new" => Told(e)
        /\ run' = [run EXCEPT ![d] = r]
        /\ inFlight' = [inFlight EXCEPT ![Id[d]] = IF r.pc = "ended" THEN NoDispatch ELSE d]
        /\ UNCHANGED <<listening, strays>>

\* http.cancel.
cancel(i) ==
    /\ listening /\ inFlight[i] # NoDispatch
    /\ Becomes(inFlight[i], Aborted(run[inFlight[i]], "cancelled"))

\* recordForBodyMessage: the record under the id, if it has a body stream.
BodyMessage(i, Effect(_)) ==
    /\ listening /\ inFlight[i] # NoDispatch
    /\ run[inFlight[i]].request.body = "stream"
    /\ Becomes(inFlight[i], Effect(run[inFlight[i]]))

handleBodyChunk(i) ==
    /\ inFlight[i] # NoDispatch /\ run[inFlight[i]].sent + run[inFlight[i]].queued < MaxBody
    /\ BodyMessage(i, pushBody)

\* bodyChunkFromMessage refuses a message without exactly one chunk.
handleMalformedChunk(i) == BodyMessage(i, LAMBDA r : failBodyMessage(r, "invalid_request"))

handleBodyEnd(i) == BodyMessage(i, endBody)

handleBodyError(i) == BodyMessage(i, errorBody)

\* A body message for a request that is over or has no body stream.
unknownBody(i) ==
    /\ listening
    /\ \E d \in Dispatches : Id[d] = i /\ run[d].pc # "new"
    /\ ~(inFlight[i] # NoDispatch /\ run[inFlight[i]].request.body = "stream")
    /\ strays' = strays \cup {i}
    /\ UNCHANGED <<listening, inFlight, run>>

stop ==
    /\ listening
    /\ listening' = FALSE
    /\ run' = [d \in Dispatches |-> IF inFlight[Id[d]] = d THEN Aborted(run[d], "cancelled")
                                    ELSE run[d]]
    /\ inFlight' = [i \in Ids |-> NoDispatch]
    /\ UNCHANGED strays

start ==
    /\ ~listening
    /\ listening' = TRUE
    /\ UNCHANGED <<inFlight, run, strays>>

TimesOut(d) ==
    /\ Running(d) /\ run[d].request.timed /\ run[d].reason = "none"
    /\ Becomes(d, Aborted(run[d], "timeout"))

\* fetch pulls the ReadableStream of the body: the next chunk, which a gateway gets as
\* a frame, or its end.
Pulling(r) == r.pc \in {"fetching", "reading"} /\ ~r.uploaded

PullChunk(d) ==
    /\ Pulling(run[d]) /\ run[d].queued > 0
    /\ Becomes(d, [run[d] EXCEPT !.queued = @ - 1, !.sent = @ + 1])

PullEnd(d) ==
    /\ Pulling(run[d]) /\ run[d].queued = 0 /\ run[d].closed
    /\ Becomes(d, [run[d] EXCEPT !.uploaded = TRUE])

\* validateGatewayEndpointStatus
validGatewayStatus(response) == response.form # "badStatus"

\* The head of a response; a gateway's own status is checked first.
Responds(d, response) ==
    /\ run[d].pc = "fetching"
    /\ (run[d].request.transport = "direct") <=> (response.form = "plain")
    /\ Becomes(d, IF ~validGatewayStatus(response) THEN Ended(run[d], "gateway")
                  ELSE [run[d] EXCEPT !.pc = "reading", !.response = response,
                                      !.rest = Encode(response)])

Arrives(d, n) ==
    /\ run[d].pc = "reading"
    /\ n \in 1 .. Len(run[d].rest)
    /\ Becomes(d, readBytes([run[d] EXCEPT !.rest = SubSeq(@, n + 1, Len(@))],
                            SubSeq(run[d].rest, 1, n)))

BodyDone(d) ==
    /\ run[d].pc = "reading" /\ run[d].rest = <<>>
    /\ Becomes(d, finishResponse(run[d]))

NetworkFails(d) ==
    /\ run[d].pc \in {"fetching", "reading"}
    /\ Becomes(d, Ended(run[d], NetworkError(run[d])))

Network(d) ==
    \/ PullChunk(d) \/ PullEnd(d) \/ BodyDone(d) \/ NetworkFails(d) \/ TimesOut(d)
    \/ \E response \in Responses : Responds(d, response)
    \/ \E n \in 1 .. Len(run[d].rest) : Arrives(d, n)

Page ==
    \/ \E d \in Dispatches : \E request \in Requests[d] : Dispatch(d, request)
    \/ \E i \in Ids : \/ cancel(i) \/ handleBodyChunk(i) \/ handleMalformedChunk(i)
                      \/ handleBodyEnd(i) \/ handleBodyError(i) \/ unknownBody(i)
    \/ stop \/ start

BridgeNext == Page \/ \E d \in Dispatches : Network(d)

BridgeSpec == BridgeInit /\ [][BridgeNext]_bridgeVars

-----------------------------------------------------------------------------

\* A page that reuses an id once it has been told of the end of a request can always
\* cancel and feed what runs: each running dispatch is the one inFlight has under its
\* id, although a failed body reports the end from another handler than the dispatch.
CancelReaches == \A d \in Dispatches : Running(d) => inFlight[Id[d]] = d

\* Every dispatch reports exactly one end, whichever of timer, cancellation, body
\* error, network and decoder came first.
OneTerminalEvent ==
    \A d \in Dispatches :
        Len(run[d].terminals) = IF run[d].pc = "ended" THEN 1 ELSE 0

Chunks(lines) == Cardinality({i \in DOMAIN lines : lines[i] = "chunk"})

\* What a gateway's lines say, read as a whole.
ValidStream(lines) ==
    /\ Chunks(lines) <= BodyLimit
    /\ \E h, e \in DOMAIN lines :
         /\ h < e /\ lines[h] = "response" /\ lines[e] = "end"
         /\ \A i \in DOMAIN lines \ {h, e} :
              lines[i] = "blank" \/ (lines[i] = "chunk" /\ h < i /\ i < e)

\* A stream may lack the newline of a last line of white space.
ValidAnswer(response) ==
    LET lines == response.lines
    IN  IF isGatewayStreamResponse(response)
        THEN ValidStream(lines) /\ (response.whole \/ lines[Len(lines)] = "blank")
        ELSE response.whole

\* A response is complete only with all chunks of a valid answer, however the network
\* cut its frames, and a valid answer is never called invalid.
ResponseWhole(r) ==
    /\ r.terminals = <<"complete">> => ValidAnswer(r.response) /\ r.written = Chunks(r.response.lines)
    /\ r.terminals = <<"invalid_response">> => ~ValidAnswer(r.response)

\* The server sees the end of an upload only after the page has ended it and every
\* chunk was sent, and an upload that the page has failed is over.
UploadWhole(r) ==
    /\ r.uploaded /\ r.request.body = "stream" => r.page # "sending" /\ r.queued = 0
    /\ r.uploaded /\ r.page = "failed" => r.pc = "ended"

\* A truncated body is never taken for a whole one, in either direction.
BodiesWhole == \A d \in Dispatches : ResponseWhole(run[d]) /\ UploadWhole(run[d])
=============================================================================
