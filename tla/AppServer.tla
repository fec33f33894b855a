----------------------------- MODULE AppServer -----------------------------
(***************************************************************************)
(* The browser app server and its client: BrowserCodexAppServerRuntime     *)
(* (app-server.js), the loopback socket and the JSON-RPC client            *)
(* (app-server-transport.js) and BrowserCodexAppServerSession              *)
(* (app-server-session.js), composed as the page composes them.            *)
(*                                                                         *)
(* Granularity.  Everything runs on one thread as microtasks.  A step is a *)
(* call of the page up to its first await, one half of the socket's        *)
(* _dispatch (up to and after its await), the continuation of one call     *)
(* whose awaited promise has settled, a timer, or a close.  The            *)
(* continuations of a batch of frames run before the next message is       *)
(* dispatched: _dispatchQueue needs more microtask turns than they do.     *)
(***************************************************************************)
EXTENDS Naturals, Sequences, FiniteSets, SequencesExt, FiniteSetsExt

CONSTANTS
    Calls,      \* the calls the page makes on the session
    Script,     \* the session methods each call may be
    Configs,    \* the options of the runtime and of connect to check
    NoId,       \* null for a thread, turn or login id
    MaxFaults   \* bound: messages for which the runtime throws

ASSUME MaxFaultsAssumption == MaxFaults \in Nat
ASSUME NoIdAssumption == NoId \notin Nat

VARIABLES
    config,      \* autoComplete, whether maxNotificationsPerTurn is too small, optOut
    server,      \* threads, turns, logins and notificationOptOut of the runtime
    readyState,  \* of the loopback socket
    queue,       \* _dispatchQueue: the messages not dispatched yet
    dispatch,    \* the frames of the message _dispatch awaits, or Idle
    client,      \* closed, _pending and _notificationWaiters of the client
    session,     \* the fields of the session
    calls,       \* where each call stands
    faults       \* runtime faults so far

serverVars == <<config, server>>
appVars == <<serverVars, readyState, queue, dispatch, client, session, calls, faults>>

Started   == "turn/started"
Item      == "item/completed"
Completed == "turn/completed"
Awaited   == {Started, Item, Completed}

Idle == [busy |-> FALSE, frames |-> <<>>]

NewCall == [op |-> "none", pc |-> "new", answer |-> [ok |-> FALSE, id |-> NoId, set |-> FALSE],
            thread |-> NoId, turn |-> NoId, heard |-> [m \in Awaited |-> NoId],
            lost |-> FALSE, overlaps |-> {}]

\* The notifications a call awaits at its end.
Needs(op) == CASE op = "startPromptTurn"  -> Awaited
               [] op = "startPendingTurn" -> {Started}
               [] op = "interruptTurn"    -> {Completed}
               [] OTHER                   -> {}

\* The constructors: the loopback socket is open at once.
AppInit ==
    /\ config \in Configs
    /\ server = [threads |-> 0, turns |-> <<>>, logins |-> <<>>, optOut |-> {}]
    /\ readyState = "open"
    /\ queue = <<>>
    /\ dispatch = Idle
    /\ client = [closed |-> FALSE, pending |-> {}, waiters |-> {}]
    /\ session = [closed |-> FALSE, connected |-> FALSE, threadId |-> NoId,
                  activeTurnId |-> NoId, activeLoginId |-> NoId, completedTurnIds |-> {}]
    /\ calls = [c \in Calls |-> NewCall]
    /\ faults = 0

-----------------------------------------------------------------------------
(* The runtime: what handleMessage does to its state and the frames it answers. *)

Reply(ok, id) == [ok |-> ok, id |-> id, set |-> TRUE]
Note(method, thread, id) == [method |-> method, thread |-> thread, id |-> id]

Answered(state, id, notes) == [state |-> state, reply |-> Reply(TRUE, id), notes |-> notes]
InvalidParams(state) == [state |-> state, reply |-> Reply(FALSE, NoId), notes |-> <<>>]

initialize == Answered([server EXCEPT !.optOut = config.optOut], NoId, <<>>)

startLogin ==
    Answered([server EXCEPT !.logins = Append(@, "pending")], Len(server.logins) + 1, <<>>)

cancelLogin(login) ==
    IF login \in DOMAIN server.logins
    THEN Answered([server EXCEPT !.logins[login] = "canceled"], login,
                  <<Note("account/login/completed", NoId, login)>>)
    ELSE Answered(server, NoId, <<>>)

startThread ==
    LET thread == server.threads + 1
    IN  Answered([server EXCEPT !.threads = thread], thread,
                 <<Note("thread/started", thread, thread)>>)

\* startTurn stores the turn first; completedTurnNotifications throws above the
\* notification limit, which leaves that turn in progress.
startTurn(thread) ==
    LET turn  == Len(server.turns) + 1
        With(status) == [server EXCEPT !.turns = Append(@, [thread |-> thread, status |-> status])]
        begun == <<Note(Started, thread, turn)>>
    IN  IF thread \notin 1 .. server.threads THEN InvalidParams(server)
        ELSE IF ~config.autoComplete THEN Answered(With("inProgress"), turn, begun)
        ELSE IF config.limited THEN InvalidParams(With("inProgress"))
        ELSE Answered(With("completed"), turn,
                      begun \o <<Note(Item, thread, turn), Note(Completed, thread, turn)>>)

interruptTurn(thread, turn) ==
    IF /\ turn \in DOMAIN server.turns
       /\ server.turns[turn] = [thread |-> thread, status |-> "inProgress"]
    THEN Answered([server EXCEPT !.turns[turn].status = "interrupted"], NoId,
                  <<Note(Completed, thread, turn)>>)
    ELSE InvalidParams(server)

handleRequest(m) ==
    CASE m.method = "initialize"           -> initialize
      [] m.method = "account/read"         -> Answered(server, NoId, <<>>)
      [] m.method = "account/login/start"  -> startLogin
      [] m.method = "account/login/cancel" -> cancelLogin(m.id)
      [] m.method = "thread/start"         -> startThread
      [] m.method = "turn/start"           -> startTurn(m.thread)
      [] m.method = "turn/interrupt"       -> interruptTurn(m.thread, m.id)
      [] OTHER                             -> InvalidParams(server)

\* The notifications the client has not opted out of, in their order.
filterNotifications(notes, optOut) ==
    LET kept[n \in 0 .. Len(notes)] ==
            IF n = 0 THEN <<>>
            ELSE IF notes[n].method \in optOut THEN kept[n - 1] ELSE Append(kept[n - 1], notes[n])
    IN  kept[Len(notes)]

\* The response frame, then the notifications, by the opt-out set in force once
\* the request is handled.
Frames(m, handled) ==
    <<[call |-> m.call, reply |-> handled.reply]>>
        \o filterNotifications(handled.notes, handled.state.optOut)

-----------------------------------------------------------------------------
(* The client *)

Message(c, method, thread, id) == [call |-> c, method |-> method, thread |-> thread, id |-> id]

ClientOpen == ~client.closed /\ readyState = "open"

\* _rejectPending: every request and every waiter fails; a waiter whose call has not
\* got to awaiting it yet is a promise already rejected then.
Rejected(cs, cl) ==
    [c \in Calls |->
        [cs[c] EXCEPT !.answer = IF c \in cl.pending THEN Reply(FALSE, NoId) ELSE @,
                      !.lost = @ \/ \E w \in cl.waiters : w.call = c]]

\* Mutant: closing forgets the requests that wait for an answer.
rejectWaitersOnly(cs, cl) == Rejected(cs, [cl EXCEPT !.pending = {}])

rejectPending(cs, cl) == Rejected(cs, cl)

\* applyNotificationState
applyNotification(s, n) ==
    CASE n.method = "account/login/completed" /\ n.id = s.activeLoginId ->
            [s EXCEPT !.activeLoginId = NoId]
      [] n.method = "thread/started" -> [s EXCEPT !.threadId = n.id]
      [] n.method = Started ->
            [s EXCEPT !.activeTurnId = n.id, !.completedTurnIds = @ \ {n.id}]
      [] n.method = Completed ->
            [s EXCEPT !.completedTurnIds = @ \cup {n.id},
                      !.activeTurnId = IF @ = n.id THEN NoId ELSE @]
      [] OTHER -> s

\* _handleSocketMessage: an answer settles its pending request (one without is
\* only reported); a notification goes to the session and then to the waiters.
Receive(v, frame) ==
    IF "call" \in DOMAIN frame
    THEN IF frame.call \in v.client.pending
         THEN [v EXCEPT !.client.pending = @ \ {frame.call},
                        !.calls[frame.call].answer = frame.reply]
         ELSE v
    ELSE LET matched == {w \in v.client.waiters :
                            w.method = frame.method /\ (w.thread = frame.thread \/ w.turn = frame.id)}
             hears(c) == \E w \in matched : w.call = c
         IN  [client  |-> [v.client EXCEPT !.waiters = @ \ matched],
              session |-> applyNotification(v.session, frame),
              calls   |-> [c \in Calls |->
                              IF hears(c) /\ frame.method \in Awaited
                              THEN [v.calls[c] EXCEPT !.heard[frame.method] = frame.id]
                              ELSE v.calls[c]]]

View == [client |-> client, session |-> session, calls |-> calls]
Received(n) ==
    LET view[i \in 0 .. n] ==
            IF i = 0 THEN View ELSE Receive(view[i - 1], dispatch.frames[i])
    IN  view[n]

\* session.close, from the state a listener sees: client.close and socket.close with it.
CloseSession(v) ==
    /\ session' = [v.session EXCEPT !.closed = TRUE, !.connected = FALSE,
                                    !.activeTurnId = NoId, !.activeLoginId = NoId]
    /\ calls' = IF v.client.closed THEN v.calls ELSE rejectPending(v.calls, v.client)
    /\ client' = IF v.client.closed THEN v.client
                 ELSE [closed |-> TRUE, pending |-> {}, waiters |-> {}]
    /\ readyState' = IF v.client.closed \/ readyState # "open" THEN readyState ELSE "closing"

-----------------------------------------------------------------------------
(* The socket *)

Resumable(c) ==
    LET k == calls[c]
    IN  \/ k.pc = "ready"
        \/ k.pc = "request" /\ k.answer.set
        \/ k.pc = "drain" /\ ~dispatch.busy /\ ~\E i \in DOMAIN queue : queue[i].call = c
        \/ k.pc = "notified" /\ (k.lost \/ \A m \in Needs(k.op) : k.heard[m] # NoId)

\* _dispatch up to its await: a socket that is not open any more drops the message.
DispatchMessage ==
    /\ ~dispatch.busy /\ queue # <<>> /\ ~\E c \in Calls : Resumable(c)
    /\ queue' = Tail(queue)
    /\ LET m == Head(queue)
           dropped == readyState # "open"
           handled == handleRequest(m)
       IN  /\ dispatch' = [busy |-> ~dropped,
                           frames |-> IF dropped \/ m.method = "initialized" THEN <<>>
                                      ELSE Frames(m, handled)]
           /\ server' = IF dropped \/ m.method = "initialized" THEN server ELSE handled.state
    /\ UNCHANGED <<config, readyState, client, session, calls, faults>>

\* The frames go out in one loop; none do when the socket was closed meanwhile.
EmitFrames ==
    /\ dispatch.busy
    /\ LET v == Received(IF readyState = "open" THEN Len(dispatch.frames) ELSE 0)
       IN  client' = v.client /\ session' = v.session /\ calls' = v.calls
    /\ dispatch' = Idle
    /\ UNCHANGED <<serverVars, readyState, queue, faults>>

\* A listener of the page closes the session when it sees the k-th frame, a
\* notification: the session has noted it, the waiters it matches have not been
\* told, and the loop then stops.
EmitUntilClosed(k) ==
    /\ dispatch.busy /\ readyState = "open" /\ ~session.closed
    /\ k \in 2 .. Len(dispatch.frames)
    /\ CloseSession([Received(k - 1) EXCEPT !.session = applyNotification(@, dispatch.frames[k])])
    /\ dispatch' = Idle
    /\ UNCHANGED <<serverVars, queue, faults>>

\* handleMessage throws or answers no array: the error event fails every request
\* and waiter, also those of messages still queued.
DispatchFails ==
    /\ faults < MaxFaults /\ readyState = "open"
    /\ ~dispatch.busy /\ queue # <<>> /\ ~\E c \in Calls : Resumable(c)
    /\ queue' = Tail(queue)
    /\ calls' = rejectPending(calls, client)
    /\ client' = [client EXCEPT !.pending = {}, !.waiters = {}]
    /\ faults' = faults + 1
    /\ UNCHANGED <<serverVars, readyState, dispatch, session>>

SessionCloses ==
    /\ ~session.closed
    /\ CloseSession(View)
    /\ UNCHANGED <<serverVars, queue, dispatch, faults>>

\* The page closes the socket itself.
SocketCloses ==
    /\ readyState = "open"
    /\ readyState' = "closing"
    /\ UNCHANGED <<serverVars, queue, dispatch, client, session, calls, faults>>

\* The microtask that close() queues: the close event reaches client and session.
SocketClosed ==
    /\ readyState = "closing"
    /\ readyState' = "closed"
    /\ calls' = rejectPending(calls, client)
    /\ client' = [closed |-> TRUE, pending |-> {}, waiters |-> {}]
    /\ session' = [session EXCEPT !.closed = TRUE, !.connected = FALSE]
    /\ UNCHANGED <<serverVars, queue, dispatch, faults>>

-----------------------------------------------------------------------------
(* The calls of a session *)

Settled(c) == calls[c].pc \in {"done", "failed"}
TurnOps == {"startPromptTurn", "startPendingTurn"}

\* The calls whose turn is under way, or still on its way to the runtime.
TurnsUnderWay ==
    {d \in Calls : /\ calls[d].op \in TurnOps
                   /\ \/ ~Settled(d)
                      \/ \E i \in DOMAIN queue : queue[i].call = d
                      \/ dispatch.busy}

\* A settled call keeps only what it returns.
End(c, k, pc) ==
    calls' = [calls EXCEPT ![c] = [k EXCEPT !.pc = pc, !.answer = NewCall.answer]]

Waiter(c, method, thread, turn) ==
    [call |-> c, method |-> method, thread |-> thread, turn |-> turn]

\* The call registers its waiters and sends its request; the waiters stay when the
\* client is closed and request() throws.
Ask(c, k, waiters, method, thread, id) ==
    /\ client' = [client EXCEPT !.waiters = @ \cup waiters,
                                !.pending = IF ClientOpen THEN @ \cup {c} ELSE @]
    /\ queue' = IF ClientOpen THEN Append(queue, Message(c, method, thread, id)) ELSE queue
    /\ End(c, k, IF ClientOpen THEN "request" ELSE "failed")

\* Mutant: the waiters are satisfied by notifications of earlier turns.
AskTurnReplaying(c, k, thread) ==
    LET old == session.completedTurnIds
    IN  Ask(c, [k EXCEPT !.thread = thread,
                         !.heard = IF old = {} THEN @ ELSE [m \in Awaited |-> Min(old)]],
            IF old = {} THEN {Waiter(c, m, thread, NoId) : m \in Needs(k.op)} ELSE {},
            "turn/start", thread, NoId)

\* startPromptTurn and startPendingTurn once they have a thread; replay is off.
AskTurn(c, k, thread) ==
    Ask(c, [k EXCEPT !.thread = thread],
        {Waiter(c, m, thread, NoId) : m \in Needs(k.op)}, "turn/start", thread, NoId)

\* assertConnected, then the method up to its first await.  A turn awaits
\* ensureThread also when the thread is there already.
Invoke(c, op) ==
    LET k == [NewCall EXCEPT !.op = op, !.overlaps = IF op \in TurnOps THEN TurnsUnderWay ELSE {},
                            !.thread = session.threadId]
    IN  IF session.closed \/ (op # "connect" /\ ~session.connected)
        THEN End(c, k, "failed") /\ UNCHANGED <<queue, client>>
        ELSE
        CASE op = "connect" ->
                End(c, k, IF session.connected THEN "done" ELSE "ready") /\ UNCHANGED <<queue, client>>
          [] op = "readAccount" -> Ask(c, k, {}, "account/read", NoId, NoId)
          [] op = "request" -> Ask(c, k, {}, "unsupported", NoId, NoId)
          [] op = "startDeviceLogin" -> Ask(c, k, {}, "account/login/start", NoId, NoId)
          [] op = "cancelDeviceLogin" ->
                IF session.activeLoginId = NoId
                THEN End(c, k, "failed") /\ UNCHANGED <<queue, client>>
                ELSE Ask(c, k, {}, "account/login/cancel", NoId, session.activeLoginId)
          [] op = "ensureThread" /\ k.thread # NoId -> End(c, k, "done") /\ UNCHANGED <<queue, client>>
          [] op \in TurnOps /\ k.thread # NoId -> End(c, k, "ready") /\ UNCHANGED <<queue, client>>
          [] op = "interruptTurn" ->
                IF k.thread = NoId \/ session.activeTurnId = NoId
                THEN End(c, k, "failed") /\ UNCHANGED <<queue, client>>
                ELSE Ask(c, [k EXCEPT !.turn = session.activeTurnId],
                         {Waiter(c, Completed, NoId, session.activeTurnId)},
                         "turn/interrupt", k.thread, session.activeTurnId)
          [] OTHER -> Ask(c, k, {}, "thread/start", NoId, NoId)

\* The page calls a method of the session.
SessionCall(c, op) ==
    /\ calls[c].pc = "new" /\ op \in Script[c]
    /\ Invoke(c, op)
    /\ UNCHANGED <<serverVars, readyState, dispatch, session, faults>>

\* After await client.ready, or after ensureThread found a thread.
ResumeReady(c) ==
    /\ calls[c].pc = "ready"
    /\ IF calls[c].op = "connect" THEN Ask(c, calls[c], {}, "initialize", NoId, NoId)
                                  ELSE AskTurn(c, calls[c], calls[c].thread)
    /\ UNCHANGED <<serverVars, readyState, dispatch, session, faults>>

\* The request was answered with an error, or rejected.
ResumeFailed(c) ==
    /\ calls[c].pc = "request" /\ calls[c].answer.set /\ ~calls[c].answer.ok
    /\ End(c, calls[c], "failed")
    /\ UNCHANGED <<serverVars, readyState, queue, dispatch, client, session, faults>>

AnsweredOk(c, ops) ==
    /\ calls[c].pc = "request" /\ calls[c].answer.set /\ calls[c].answer.ok
    /\ calls[c].op \in ops

\* connect sends initialized and drains the socket.
ResumeInitialized(c) ==
    /\ AnsweredOk(c, {"connect"})
    /\ End(c, calls[c], IF ClientOpen THEN "drain" ELSE "failed")
    /\ queue' = IF ClientOpen THEN Append(queue, Message(c, "initialized", NoId, NoId)) ELSE queue
    /\ UNCHANGED <<serverVars, readyState, dispatch, client, session, faults>>

\* The end of connect; it does not look whether the session was closed meanwhile.
ResumeDrained(c) ==
    /\ calls[c].pc = "drain" /\ Resumable(c)
    /\ End(c, calls[c], "done")
    /\ session' = [session EXCEPT !.connected = TRUE]
    /\ UNCHANGED <<serverVars, readyState, queue, dispatch, client, faults>>

ResumeSimple(c) ==
    /\ AnsweredOk(c, {"readAccount", "request", "startDeviceLogin", "cancelDeviceLogin"})
    /\ End(c, calls[c], "done")
    /\ session' = [session EXCEPT !.activeLoginId =
            CASE calls[c].op = "startDeviceLogin" -> calls[c].answer.id
              [] calls[c].op = "cancelDeviceLogin" /\ calls[c].answer.id # NoId -> NoId
              [] OTHER -> @]
    /\ UNCHANGED <<serverVars, readyState, queue, dispatch, client, faults>>

\* ensureThread has started a thread; a turn goes on with it.
ResumeThread(c) ==
    LET thread == calls[c].answer.id
    IN  /\ AnsweredOk(c, {"ensureThread"} \cup TurnOps) /\ calls[c].thread = NoId
        /\ session' = [session EXCEPT !.threadId = thread]
        /\ IF calls[c].op \in TurnOps THEN AskTurn(c, calls[c], thread)
           ELSE End(c, calls[c], "done") /\ UNCHANGED <<queue, client>>
        /\ UNCHANGED <<serverVars, readyState, dispatch, faults>>

\* Mutant: the answer to turn/start makes its turn the active one, also when its
\* completion was heard first.
ActivateAlways(s, op, turn) ==
    IF op = "startPendingTurn" THEN [s EXCEPT !.activeTurnId = turn] ELSE s

\* startPendingTurn's own note of the active turn.
Activate(s, op, turn) ==
    IF op = "startPendingTurn" /\ turn \notin s.completedTurnIds
    THEN [s EXCEPT !.activeTurnId = turn] ELSE s

\* turn/start or turn/interrupt was answered: the call awaits its notifications.
ResumeTurn(c) ==
    /\ AnsweredOk(c, TurnOps \cup {"interruptTurn"}) /\ calls[c].thread # NoId
    /\ LET k == calls[c]
           turn == IF k.op = "interruptTurn" THEN k.turn ELSE k.answer.id
       IN  /\ End(c, [k EXCEPT !.turn = turn], "notified")
           /\ session' = Activate(session, k.op, turn)
    /\ UNCHANGED <<serverVars, readyState, queue, dispatch, client, faults>>

ResumeNotified(c) ==
    /\ calls[c].pc = "notified" /\ Resumable(c)
    /\ End(c, calls[c], IF calls[c].lost THEN "failed" ELSE "done")
    /\ session' = IF ~calls[c].lost /\ calls[c].op = "interruptTurn"
                     /\ session.activeTurnId = calls[c].turn
                  THEN [session EXCEPT !.activeTurnId = NoId] ELSE session
    /\ UNCHANGED <<serverVars, readyState, queue, dispatch, client, faults>>

\* The timer of a waiter: a macrotask, so it comes when no microtask is left to run.
WaiterTimesOut(w) ==
    /\ w \in client.waiters
    /\ ~dispatch.busy /\ queue = <<>> /\ readyState # "closing"
    /\ ~\E c \in Calls : Resumable(c)
    /\ client' = [client EXCEPT !.waiters = @ \ {w}]
    /\ calls' = [calls EXCEPT ![w.call].lost = TRUE]
    /\ UNCHANGED <<serverVars, readyState, queue, dispatch, session, faults>>

-----------------------------------------------------------------------------

SessionResume(c) ==
    \/ ResumeReady(c) \/ ResumeFailed(c) \/ ResumeInitialized(c) \/ ResumeDrained(c)
    \/ ResumeSimple(c) \/ ResumeThread(c) \/ ResumeTurn(c) \/ ResumeNotified(c)

Microtask ==
    \/ DispatchMessage \/ EmitFrames \/ SocketClosed
    \/ \E c \in Calls : SessionResume(c)

Timer == \E w \in client.waiters : WaiterTimesOut(w)

\* What the page, its listeners and a faulty runtime may do.
Environment ==
    \/ DispatchFails \/ SessionCloses \/ SocketCloses
    \/ \E k \in 2 .. Len(dispatch.frames) : EmitUntilClosed(k)
    \/ \E c \in Calls, op \in UNION {Script[d] : d \in Calls} : SessionCall(c, op)

AppNext == Microtask \/ Timer \/ Environment

\* Microtasks and timers run; nothing obliges the page to call or to close.
AppFairness == WF_appVars(Microtask) /\ WF_appVars(Timer)

AppSpec == AppInit /\ [][AppNext]_appVars /\ AppFairness

-----------------------------------------------------------------------------

\* The turn an open session believes is active is one the runtime still runs, or
\* whose completion is among the frames being sent (interruptTurn without argument
\* acts on it), unless the client opted out of hearing completions.
ActiveTurnRuns ==
    readyState = "open" /\ session.activeTurnId # NoId /\ Completed \notin config.optOut =>
        \/ server.turns[session.activeTurnId].status = "inProgress"
        \/ \E i \in DOMAIN dispatch.frames :
              dispatch.frames[i] = Note(Completed, server.turns[session.activeTurnId].thread,
                                        session.activeTurnId)

\* A prompt that no other turn overlapped returns the item of its own turn,
\* whatever earlier turns, failures and late notifications left behind.
PromptReturnsOwnItem ==
    \A c \in Calls :
        LET k == calls[c]
            alone == k.overlaps = {} /\ \A d \in Calls : c \notin calls[d].overlaps
        IN  k.op = "startPromptTurn" /\ k.pc = "done" /\ alone =>
                k.heard[Item] = k.turn /\ k.heard[Completed] = k.turn

NothingOutstanding ==
    \A c \in Calls :
        \/ calls[c].pc = "new"
        \/ Settled(c) /\ ~\E w \in client.waiters : w.call = c

\* Every call settles and leaves no waiter behind, although requests have no timeout
\* of their own and the session may be closed between any two steps.
CallsSettle == []<>NothingOutstanding
=============================================================================
