-------------------------- MODULE AppServerProofs --------------------------
(***************************************************************************)
(* Proofs about AppServer for any calls, scripts and options: the turn a   *)
(* session believes active, and the turn a prompt returns.                 *)
(***************************************************************************)
EXTENDS AppServer, SequenceTheorems, NaturalsInduction, WellFoundedInduction, TLAPS

IsSeq(s) == \E S : s \in Seq(S)

LEMMA SeqFacts ==
    ASSUME NEW s, IsSeq(s)
    PROVE  Len(s) \in Nat /\ DOMAIN s = 1 .. Len(s) /\ (s = <<>> <=> Len(s) = 0)
<1>1. PICK S : s \in Seq(S)
  BY DEF IsSeq
<1> QED
  BY <1>1

LEMMA AppendFacts ==
    ASSUME NEW s, IsSeq(s), NEW x
    PROVE  /\ IsSeq(Append(s, x)) /\ Len(Append(s, x)) = Len(s) + 1
           /\ \A i \in 1 .. Len(s) : Append(s, x)[i] = s[i]
           /\ Append(s, x)[Len(s) + 1] = x
<1>1. PICK S : s \in Seq(S)
  BY DEF IsSeq
<1> DEFINE U == S \cup {x}
<1>2. s \in Seq(U) /\ x \in U
  BY <1>1
<1> HIDE DEF U
<1>3. /\ Append(s, x) \in Seq(U) /\ Len(Append(s, x)) = Len(s) + 1
      /\ \A i \in 1 .. Len(s) : Append(s, x)[i] = s[i]
      /\ Append(s, x)[Len(s) + 1] = x
  BY <1>2
<1> QED
  BY <1>3 DEF IsSeq

LEMMA TailFacts ==
    ASSUME NEW s, IsSeq(s), s # <<>>
    PROVE  /\ Len(s) \in Nat \ {0} /\ Head(s) = s[1]
           /\ IsSeq(Tail(s)) /\ Len(Tail(s)) = Len(s) - 1
           /\ \A i \in 1 .. Len(s) - 1 : Tail(s)[i] = s[i + 1]
<1>1. PICK S : s \in Seq(S)
  BY DEF IsSeq
<1>2. /\ Len(s) \in Nat \ {0} /\ Head(s) = s[1]
      /\ Tail(s) \in Seq(S) /\ Len(Tail(s)) = Len(s) - 1
      /\ \A i \in 1 .. Len(s) - 1 : Tail(s)[i] = s[i + 1]
  BY <1>1
<1> QED
  BY <1>2 DEF IsSeq

LEMMA EmptyIsSeq == IsSeq(<<>>)
<1>1. <<>> \in Seq({})
  OBVIOUS
<1> QED
  BY <1>1 DEF IsSeq

\* An element in front.
LEMMA ConsFacts ==
    ASSUME NEW s, IsSeq(s), NEW x
    PROVE  /\ IsSeq(<<x>> \o s) /\ Len(<<x>> \o s) = Len(s) + 1
           /\ (<<x>> \o s)[1] = x /\ \A i \in 1 .. Len(s) : (<<x>> \o s)[i + 1] = s[i]
<1>1. PICK S : s \in Seq(S)
  BY DEF IsSeq
<1> DEFINE U == S \cup {x}
<1>2. s \in Seq(U) /\ <<x>> \in Seq(U) /\ Len(<<x>>) = 1 /\ Len(s) \in Nat
  BY <1>1
<1> HIDE DEF U
<1>3. /\ <<x>> \o s \in Seq(U) /\ Len(<<x>> \o s) = 1 + Len(s)
      /\ \A i \in 1 .. 1 + Len(s) : (<<x>> \o s)[i] = IF i <= 1 THEN <<x>>[i] ELSE s[i - 1]
  BY <1>2
<1>4. ASSUME NEW i \in 1 .. Len(s) PROVE (<<x>> \o s)[i + 1] = s[i]
  <2>1. i + 1 \in 1 .. 1 + Len(s) /\ ~(i + 1 <= 1) /\ (i + 1) - 1 = i
    BY <1>2
  <2> QED
    BY <1>3, <2>1
<1>5. (<<x>> \o s)[1] = x
  <2>1. 1 \in 1 .. 1 + Len(s)
    BY <1>2
  <2> QED
    BY <1>3, <2>1
<1> QED
  BY <1>2, <1>3, <1>4, <1>5 DEF IsSeq

\* The smallest number for which a statement fails: what induction is used for here.
LEMMA SmallestFailure ==
    ASSUME NEW S, S \subseteq Nat, S # {}
    PROVE  \E m \in S : \A k \in Nat : k < m => k \notin S
<1>1. IsWellFoundedOn(OpToRel(<, Nat), Nat)
  BY NatLessThanWellFounded
<1>2. PICK m \in S : \A y \in S : ~(<<y, m>> \in OpToRel(<, Nat))
  BY <1>1, WFMin
<1> QED
  BY <1>2 DEF OpToRel

-----------------------------------------------------------------------------
(* The notifications that are kept *)

Keeping(f, notes, optOut, m) ==
    f = [n \in 0 .. m |-> IF n = 0 THEN <<>>
                          ELSE IF notes[n].method \in optOut THEN f[n - 1]
                          ELSE Append(f[n - 1], notes[n])]

LEMMA KeepingExists ==
    ASSUME NEW notes, NEW optOut, NEW m \in Nat
    PROVE  \E f : Keeping(f, notes, optOut, m)
<1> DEFINE S == {k \in Nat : ~\E f : Keeping(f, notes, optOut, k)}
<1> SUFFICES ASSUME S # {} PROVE FALSE
  OBVIOUS
<1>1. PICK k \in S : \A j \in Nat : j < k => j \notin S
  BY SmallestFailure
<1>2. CASE k = 0
  <2> DEFINE f == [n \in 0 .. 0 |-> <<>>]
  <2>1. Keeping(f, notes, optOut, 0)
    BY DEF Keeping
  <2> QED
    BY <1>2, <2>1
<1>3. CASE k # 0
  <2>1. k - 1 \in Nat /\ k - 1 < k
    BY <1>3
  <2>2. PICK f : Keeping(f, notes, optOut, k - 1)
    BY <1>1, <2>1
  <2> DEFINE Step(s, n) == IF notes[n].method \in optOut THEN s ELSE Append(s, notes[n])
             g == [n \in 0 .. k |-> IF n = k THEN Step(f[k - 1], k) ELSE f[n]]
  <2>3. \A n \in 0 .. k : g[n] = IF n = 0 THEN <<>> ELSE Step(g[n - 1], n)
    <3> TAKE n \in 0 .. k
    <3>1. CASE n = k
      <4>1. g[n] = Step(f[k - 1], k) /\ g[n - 1] = f[k - 1]
        BY <2>1, <3>1
      <4> QED
        BY <1>3, <3>1, <4>1
    <3>2. CASE n # k
      <4>1. n \in 0 .. k - 1 /\ g[n] = f[n]
        BY <2>1, <3>2
      <4>2. n # 0 => g[n - 1] = f[n - 1]
        BY <2>1, <4>1
      <4>3. f[n] = IF n = 0 THEN <<>> ELSE Step(f[n - 1], n)
        BY <2>2, <4>1 DEF Keeping
      <4> HIDE DEF g, Step
      <4> QED
        BY <4>1, <4>2, <4>3
    <3> QED
      BY <3>1, <3>2
  <2>4. Keeping(g, notes, optOut, k)
    <3>1. g = [n \in 0 .. k |-> g[n]]
      OBVIOUS
    <3> HIDE DEF g
    <3> QED
      BY <2>3, <3>1 DEF Keeping
  <2> HIDE DEF g
  <2> QED
    BY <2>4
<1> QED
  BY <1>2, <1>3

\* What is kept of the first n notifications are some of them.
KeptOf(s, notes, n) ==
    IsSeq(s) /\ \A i \in DOMAIN s : \E j \in 1 .. n : s[i] = notes[j]

LEMMA KeepingFacts ==
    ASSUME NEW notes, NEW optOut, NEW m \in Nat, NEW f, Keeping(f, notes, optOut, m)
    PROVE  \A n \in 0 .. m : KeptOf(f[n], notes, n)
<1> DEFINE S == {k \in Nat : k <= m /\ ~KeptOf(f[k], notes, k)}
<1> SUFFICES ASSUME S # {} PROVE FALSE
  OBVIOUS
<1>1. PICK k \in S : \A j \in Nat : j < k => j \notin S
  BY SmallestFailure
<1>2. CASE k = 0
  <2>1. f[0] = <<>>
    BY DEF Keeping
  <2> QED
    BY <1>2, <2>1, EmptyIsSeq DEF KeptOf
<1>3. CASE k # 0
  <2>1. k - 1 \in Nat /\ k - 1 < k /\ k - 1 <= m /\ k \in 0 .. m
    BY <1>3
  <2> DEFINE s == f[k - 1]
  <2>2. KeptOf(s, notes, k - 1)
    BY <1>1, <2>1
  <2>3. f[k] = IF notes[k].method \in optOut THEN s ELSE Append(s, notes[k])
    BY <1>3, <2>1 DEF Keeping
  <2> HIDE DEF s
  <2>4. KeptOf(s, notes, k)
    BY <2>1, <2>2 DEF KeptOf
  <2>5. KeptOf(Append(s, notes[k]), notes, k)
    <3>1. IsSeq(s) /\ Len(s) \in Nat /\ DOMAIN s = 1 .. Len(s)
      BY <2>2, SeqFacts DEF KeptOf
    <3>2. /\ IsSeq(Append(s, notes[k])) /\ DOMAIN Append(s, notes[k]) = 1 .. Len(s) + 1
          /\ \A i \in 1 .. Len(s) : Append(s, notes[k])[i] = s[i]
          /\ Append(s, notes[k])[Len(s) + 1] = notes[k]
      BY <3>1, AppendFacts, SeqFacts
    <3>3. ASSUME NEW i \in 1 .. Len(s) + 1 PROVE \E j \in 1 .. k : Append(s, notes[k])[i] = notes[j]
      <4>1. CASE i = Len(s) + 1
        BY <2>1, <3>2, <4>1, <1>3
      <4>2. CASE i # Len(s) + 1
        <5>1. i \in DOMAIN s
          BY <3>1, <4>2
        <5> QED
          BY <2>1, <2>4, <3>1, <3>2, <5>1 DEF KeptOf
      <4> QED
        BY <4>1, <4>2
    <3> QED
      BY <3>2, <3>3 DEF KeptOf
  <2> QED
    BY <2>3, <2>4, <2>5
<1> QED
  BY <1>2, <1>3

\* The last notification is kept last, behind some of those before it.
LEMMA KeptFacts ==
    ASSUME NEW notes, NEW optOut, Len(notes) \in Nat
    PROVE  /\ KeptOf(filterNotifications(notes, optOut), notes, Len(notes))
           /\ Len(notes) > 0 /\ notes[Len(notes)].method \notin optOut =>
                \E s : KeptOf(s, notes, Len(notes) - 1) /\ filterNotifications(notes, optOut) = Append(s, notes[Len(notes)])
<1> DEFINE m == Len(notes)
           f == CHOOSE f : Keeping(f, notes, optOut, m)
<1>1. filterNotifications(notes, optOut) = f[m]
  BY DEF filterNotifications, Keeping
<1>2. Keeping(f, notes, optOut, m)
  BY KeepingExists
<1>3. m \in Nat /\ m \in 0 .. m /\ (m > 0 => m # 0 /\ m - 1 \in 0 .. m)
  OBVIOUS
<1> HIDE DEF f, m
<1>4. \A n \in 0 .. m : KeptOf(f[n], notes, n)
  BY <1>2, <1>3, KeepingFacts
<1>5. f[m] = IF m = 0 THEN <<>>
             ELSE IF notes[m].method \in optOut THEN f[m - 1] ELSE Append(f[m - 1], notes[m])
  BY <1>2, <1>3 DEF Keeping
<1> QED
  BY <1>1, <1>3, <1>4, <1>5 DEF m

-----------------------------------------------------------------------------
(* The inductive invariant.  What the frames of a batch do is stated of a  *)
(* view v of client, session and calls after the first n of them.          *)

CallFields    == {"op", "pc", "answer", "thread", "turn", "heard", "lost", "overlaps"}
AnswerFields  == {"ok", "id", "set"}
SessionFields == {"closed", "connected", "threadId", "activeTurnId", "activeLoginId", "completedTurnIds"}

frames == dispatch.frames

Replying(c) == frames # <<>> /\ frames[1].call = c
Queued(c)   == \E i \in DOMAIN queue : queue[i].call = c
InFlight(c) == Queued(c) \/ Replying(c)

Runs(t)      == t \in DOMAIN server.turns /\ server.turns[t].status = "inProgress"
Ends(i, t)   == frames[i] = Note(Completed, server.turns[t].thread, t)
EndsAfter(n, t) == \E i \in DOMAIN frames : i > n /\ Ends(i, t)

\* What the two properties are about.
Heeded == readyState = "open" /\ Completed \notin config.optOut
Prompt == config.autoComplete /\ ~config.limited

Alone(cs, c) == cs[c].overlaps = {} /\ \A d \in Calls : c \notin cs[d].overlaps

IsCall(k) ==
    /\ DOMAIN k = CallFields /\ DOMAIN k.heard = Awaited
    /\ DOMAIN k.answer = AnswerFields /\ k.answer.ok \in BOOLEAN /\ k.answer.set \in BOOLEAN

IsView(v) ==
    /\ DOMAIN v = {"client", "session", "calls"}
    /\ DOMAIN v.client = {"closed", "pending", "waiters"} /\ v.client.pending \subseteq Calls
    /\ \A w \in v.client.waiters : w.call \in Calls /\ w.method \in Awaited
    /\ DOMAIN v.session = SessionFields
    /\ DOMAIN v.calls = Calls /\ \A c \in Calls : IsCall(v.calls[c])

StateInv ==
    /\ DOMAIN server = {"threads", "turns", "logins", "optOut"}
    /\ server.threads \in Nat /\ IsSeq(server.turns) /\ IsSeq(server.logins)
    /\ server.optOut \in {{}, config.optOut}
    /\ \A t \in DOMAIN server.turns : DOMAIN server.turns[t] = {"thread", "status"}
    /\ Prompt => \A t \in DOMAIN server.turns : server.turns[t].status = "completed"
    /\ IsSeq(queue) /\ \A i \in DOMAIN queue : queue[i].call \in Calls
    /\ DOMAIN dispatch = {"busy", "frames"} /\ IsSeq(frames) /\ (frames # <<>> => dispatch.busy)
    /\ client.closed => readyState # "open"

\* A request is in the queue or being answered at most once.
FlightInv ==
    /\ \A i, j \in DOMAIN queue : queue[i].call = queue[j].call => i = j
    /\ \A c \in Calls : Replying(c) => ~Queued(c)
    /\ \A c \in Calls : calls[c].pc \in {"new", "ready"} => ~InFlight(c)

\* What a message asks for is what its call waits for.
Asks(m, k) ==
    k.op \in TurnOps => m.method = IF k.thread = NoId THEN "thread/start" ELSE "turn/start"

MessageInv ==
    \A i \in DOMAIN queue :
        LET c == queue[i].call
        IN  /\ c \in client.pending => Asks(queue[i], calls[c])
            /\ queue[i].method = "turn/start" => calls[c].op \in TurnOps

\* The frames being sent: an answer, then notifications.
FrameInv ==
    /\ frames # <<>> =>
         /\ DOMAIN frames[1] = {"call", "reply"} /\ frames[1].call \in Calls
         /\ DOMAIN frames[1].reply = AnswerFields
         /\ frames[1].reply.ok \in BOOLEAN /\ frames[1].reply.set = TRUE
    /\ \A i \in DOMAIN frames : i > 1 =>
         LET f == frames[i]
             r == frames[1]
         IN  /\ DOMAIN f = {"method", "thread", "id"}
             /\ f.method = Item => Prompt
             /\ Prompt /\ f.method \in {Item, Completed} =>
                    r.reply.ok /\ f.id = r.reply.id /\ calls[r.call].op \in TurnOps
             /\ Heeded /\ f.method = Started => Runs(f.id) \/ EndsAfter(i, f.id)

\* The answer being sent is one its call can use.
ReplyInv ==
    frames # <<>> =>
        LET r == frames[1].reply
            c == frames[1].call
            k == calls[c]
        IN  c \in client.pending /\ k.op \in TurnOps /\ r.ok =>
               IF k.thread = NoId THEN r.id # NoId
               ELSE Heeded => Runs(r.id) \/ EndsAfter(1, r.id)

\* A turn that is under way, or whose message is.
Live(c) == calls[c].op \in TurnOps /\ (~Settled(c) \/ InFlight(c))

OverlapInv ==
    \A c, d \in Calls :
        c # d /\ Live(c) /\ Live(d) => d \in calls[c].overlaps \/ c \in calls[d].overlaps

GotAnswer(k) == k.pc = "request" /\ k.answer.set /\ k.answer.ok

\* Of the call c, which is k and waits for an answer or not.
AnswerOK(c, k, waits, n) ==
    /\ k.pc = "new" => k.op = "none" /\ k.overlaps = {}
    /\ k.pc = "drain" => k.op = "connect"
    /\ k.pc = "ready" => k.op = "connect" \/ (k.op \in TurnOps /\ k.thread # NoId)
    /\ waits => k.pc = "request" /\ ~k.answer.set
    /\ GotAnswer(k) \/ k.pc = "notified" => ~Queued(c) /\ (n = 0 => ~Replying(c))
    /\ GotAnswer(k) /\ k.op \in TurnOps /\ k.thread = NoId => k.answer.id # NoId

AnswerInv(v, n) == \A c \in Calls : AnswerOK(c, v.calls[c], c \in v.client.pending, n)

\* Of a waiter of the call k.
WaiterOK(w, k, waits, n) ==
    /\ k.heard[w.method] = NoId /\ k.pc \notin {"new", "ready"}
    /\ k.pc = "request" => waits \/ k.answer.set
    /\ k.pc = "request" /\ k.op \in TurnOps => k.thread # NoId
    /\ k.pc = "request" /\ n > 0 /\ Replying(w.call) =>
           k.answer = frames[1].reply \/ (k.answer.set /\ ~k.answer.ok)

WaiterInv(v, n) ==
    /\ \A w \in v.client.waiters : WaiterOK(w, v.calls[w.call], w.call \in v.client.pending, n)
    /\ \A w, x \in v.client.waiters : w.call = x.call /\ w.method = x.method => w = x

\* Of what the call k has heard, and no other turn overlaps it or one does.
HeardOK(k, alone) ==
    /\ \/ k.pc \in {"new", "ready"}
       \/ k.op \in TurnOps /\ k.pc = "request" /\ k.thread = NoId
       => \A m \in Awaited : k.heard[m] = NoId
    /\ k.heard[Item] # NoId => Prompt
    /\ k.op = "startPromptTurn" /\ k.pc = "done" => \A m \in Awaited : k.heard[m] # NoId
    /\ Prompt /\ k.op = "startPromptTurn" /\ alone =>
         \A m \in {Item, Completed} : k.heard[m] # NoId =>
            /\ k.pc = "request" => k.answer.set /\ (k.answer.ok => k.heard[m] = k.answer.id)
            /\ k.pc \in {"notified", "done"} => k.heard[m] = k.turn

HeardInv(v) == \A c \in Calls : HeardOK(v.calls[c], Alone(v.calls, c))

\* The turn of the call k, once it is answered, is not over unheard.
PendingOK(k, n, completed) ==
    k.op = "startPendingTurn" /\ GotAnswer(k) /\ k.thread # NoId =>
        Runs(k.answer.id) \/ EndsAfter(n, k.answer.id) \/ k.answer.id \in completed

ActiveInv(v, n) ==
    Heeded =>
        /\ v.session.activeTurnId # NoId =>
             Runs(v.session.activeTurnId) \/ EndsAfter(n, v.session.activeTurnId)
        /\ \A c \in Calls : PendingOK(v.calls[c], n, v.session.completedTurnIds)

ViewInv(v, n) ==
    IsView(v) /\ AnswerInv(v, n) /\ WaiterInv(v, n) /\ HeardInv(v) /\ ActiveInv(v, n)

AppInv ==
    /\ StateInv /\ FlightInv /\ MessageInv /\ FrameInv /\ ReplyInv /\ OverlapInv
    /\ ViewInv(View, 0)

\* A view differs from the state only in what frames change.
SameCall(k, l) ==
    /\ l.op = k.op /\ l.pc = k.pc /\ l.thread = k.thread
    /\ l.turn = k.turn /\ l.lost = k.lost /\ l.overlaps = k.overlaps

Follows(v) ==
    /\ v.client.closed = client.closed /\ v.client.pending \subseteq client.pending
    /\ \A c \in Calls : SameCall(calls[c], v.calls[c])

-----------------------------------------------------------------------------
(* One frame *)

LEMMA ViewFacts ==
    View.client = client /\ View.session = session /\ View.calls = calls
BY DEF View

LEMMA FrameFacts ==
    ASSUME StateInv, FrameInv, frames # <<>>
    PROVE  /\ Len(frames) \in Nat \ {0} /\ DOMAIN frames = 1 .. Len(frames)
           /\ "call" \in DOMAIN frames[1] /\ \A t : ~Ends(1, t)
           /\ \A i \in DOMAIN frames : i > 1 => "call" \notin DOMAIN frames[i]
           /\ \A n, t : n = 0 /\ EndsAfter(0, t) => EndsAfter(1, t)
<1>1. Len(frames) \in Nat \ {0} /\ DOMAIN frames = 1 .. Len(frames)
  BY SeqFacts DEF StateInv
<1>2. "call" \in DOMAIN frames[1]
  BY DEF FrameInv
<1>3. \A t : "call" \notin DOMAIN Note(Completed, server.turns[t].thread, t)
  BY DEF Note
<1>4. \A t : ~Ends(1, t)
  BY <1>2, <1>3 DEF Ends
<1>5. \A t : EndsAfter(0, t) => EndsAfter(1, t)
  BY <1>1, <1>4 DEF EndsAfter
<1>6. \A i \in DOMAIN frames : i > 1 => "call" \notin DOMAIN frames[i]
  BY DEF FrameInv
<1> QED
  BY <1>1, <1>2, <1>4, <1>5, <1>6

LEMMA StrayAnswer ==
    ASSUME AppInv, frames # <<>>, frames[1].call \notin client.pending
    PROVE  ViewInv(View, 1)
<1> USE ViewFacts
<1>1. IsView(View) /\ HeardInv(View) /\ AnswerInv(View, 1)
  BY DEF AppInv, ViewInv, AnswerInv, AnswerOK
<1>2. WaiterInv(View, 1)
  <2>1. ASSUME NEW w \in client.waiters, calls[w.call].pc = "request", Replying(w.call)
        PROVE  calls[w.call].answer.set /\ ~calls[w.call].answer.ok
    BY <2>1 DEF AppInv, ViewInv, WaiterInv, WaiterOK, AnswerInv, AnswerOK, GotAnswer, IsView, Replying
  <2> QED
    BY <2>1 DEF AppInv, ViewInv, WaiterInv, WaiterOK
<1>3. ActiveInv(View, 1)
  BY FrameFacts DEF AppInv, ViewInv, ActiveInv, PendingOK
<1> QED
  BY <1>1, <1>2, <1>3 DEF ViewInv

\* The call that waits for the answer gets it.
LEMMA AnswerSettles ==
    ASSUME AppInv, frames # <<>>, frames[1].call \in client.pending, NEW u,
           DOMAIN u = {"client", "session", "calls"}, u.session = session,
           DOMAIN u.client = {"closed", "pending", "waiters"},
           u.client.closed = client.closed, u.client.waiters = client.waiters,
           u.client.pending = client.pending \ {frames[1].call},
           DOMAIN u.calls = Calls, \A d \in Calls \ {frames[1].call} : u.calls[d] = calls[d],
           DOMAIN u.calls[frames[1].call] = CallFields, u.calls[frames[1].call].answer = frames[1].reply,
           u.calls[frames[1].call].heard = calls[frames[1].call].heard,
           SameCall(calls[frames[1].call], u.calls[frames[1].call])
    PROVE  ViewInv(u, 1) /\ Follows(u)
<1> DEFINE c == frames[1].call
           r == frames[1].reply
<1>1. /\ c \in Calls /\ DOMAIN r = AnswerFields /\ r.ok \in BOOLEAN /\ r.set = TRUE
      /\ Replying(c) /\ ~Queued(c) /\ calls[c].pc = "request" /\ ~calls[c].answer.set
  BY ViewFacts DEF AppInv, StateInv, FrameInv, FlightInv, Replying, ViewInv, AnswerInv, AnswerOK
<1>2. IsView(View) /\ \A d \in Calls : IsCall(calls[d])
  BY ViewFacts DEF AppInv, ViewInv, IsView
<1>3. \A d \in Calls : u.calls[d].heard = calls[d].heard /\ SameCall(calls[d], u.calls[d])
  BY DEF SameCall
<1>4. u.calls[c].answer = r
  OBVIOUS
<1>5. ASSUME NEW d \in Calls, d # c
      PROVE  u.calls[d] = calls[d] /\ (d \in u.client.pending <=> d \in client.pending) /\ ~Replying(d)
  BY <1>5 DEF Replying
<1>6. c \notin u.client.pending
  OBVIOUS
<1>7. IsView(u)
  <2>1. IsCall(u.calls[c])
    BY <1>1, <1>2, <1>4 DEF IsCall
  <2>2. \A d \in Calls : IsCall(u.calls[d])
    BY <2>1, <1>2, <1>5
  <2> QED
    BY <2>2, <1>2, ViewFacts DEF IsView
<1>8. Follows(u)
  BY <1>3 DEF Follows
<1>9. AnswerInv(u, 1)
  <2>1. AnswerInv(View, 0)
    BY DEF AppInv, ViewInv
  <2>2. calls[c].op \in TurnOps /\ calls[c].thread = NoId /\ r.ok => r.id # NoId
    BY <1>1 DEF AppInv, ReplyInv
  <2> HIDE DEF c, r
  <2> SUFFICES ASSUME NEW d \in Calls PROVE AnswerOK(d, u.calls[d], d \in u.client.pending, 1)
    BY DEF AnswerInv
  <2>3. CASE d = c
    BY <2>2, <2>3, <1>1, <1>3, <1>4, <1>6 DEF SameCall, AnswerOK, GotAnswer
  <2>4. CASE d # c
    BY <2>1, <2>4, <1>5, ViewFacts DEF AnswerInv, AnswerOK
  <2> QED
    BY <2>3, <2>4
<1>10. WaiterInv(u, 1)
  <2>1. WaiterInv(View, 0)
    BY DEF AppInv, ViewInv
  <2>2. \A w \in client.waiters : w.call \in Calls
    BY <1>2, ViewFacts DEF IsView
  <2>3. u.client.waiters = client.waiters /\ frames[1].reply = r
    OBVIOUS
  <2> HIDE DEF c, r
  <2>4. ASSUME NEW w \in u.client.waiters
        PROVE  WaiterOK(w, u.calls[w.call], w.call \in u.client.pending, 1)
    <3>1. CASE w.call = c
      BY <2>1, <2>2, <2>3, <3>1, <1>1, <1>3, <1>4, ViewFacts DEF WaiterInv, WaiterOK, SameCall
    <3>2. CASE w.call # c
      BY <2>1, <2>2, <2>3, <3>2, <1>5, ViewFacts DEF WaiterInv, WaiterOK
    <3> QED
      BY <3>1, <3>2
  <2> QED
    BY <2>1, <2>3, <2>4, ViewFacts DEF WaiterInv
<1>11. HeardInv(u)
  <2>1. HeardInv(View)
    BY DEF AppInv, ViewInv
  <2>2. \A d \in Calls : Alone(u.calls, d) => Alone(calls, d)
    BY <1>3 DEF Alone, SameCall
  <2> HIDE DEF c, r
  <2> SUFFICES ASSUME NEW d \in Calls PROVE HeardOK(u.calls[d], Alone(u.calls, d))
    BY DEF HeardInv
  <2>3. HeardOK(calls[d], Alone(calls, d))
    BY <2>1, ViewFacts DEF HeardInv
  <2>4. CASE d = c
    <3>1. calls[d].pc = "request" /\ ~calls[d].answer.set
      BY <2>4, <1>1
    <3> QED
      BY <2>2, <2>3, <1>3, <3>1 DEF HeardOK, SameCall
  <2>5. CASE d # c
    BY <2>2, <2>3, <2>5, <1>5 DEF HeardOK
  <2> QED
    BY <2>4, <2>5
<1>12. ActiveInv(u, 1)
  <2>1. ActiveInv(View, 0) /\ \A t : EndsAfter(0, t) => EndsAfter(1, t)
    BY FrameFacts DEF AppInv, ViewInv
  <2>2. Heeded /\ calls[c].op = "startPendingTurn" /\ calls[c].thread # NoId /\ r.ok =>
           Runs(r.id) \/ EndsAfter(1, r.id)
    BY <1>1 DEF AppInv, ReplyInv, TurnOps
  <2>3. u.session = session
    OBVIOUS
  <2> HIDE DEF c, r
  <2>4. ASSUME Heeded, NEW d \in Calls PROVE PendingOK(u.calls[d], 1, u.session.completedTurnIds)
    <3>1. CASE d = c
      BY <2>2, <2>4, <3>1, <1>3, <1>4 DEF SameCall, PendingOK, GotAnswer
    <3>2. CASE d # c
      BY <2>1, <2>3, <2>4, <3>2, <1>5, ViewFacts DEF ActiveInv, PendingOK
    <3> QED
      BY <3>1, <3>2
  <2> QED
    BY <2>1, <2>3, <2>4, ViewFacts DEF ActiveInv
<1> QED
  BY <1>7, <1>8, <1>9, <1>10, <1>11, <1>12 DEF ViewInv

LEMMA AnswerReceived ==
    ASSUME AppInv, frames # <<>>
    PROVE  ViewInv(Receive(View, frames[1]), 1) /\ Follows(Receive(View, frames[1]))
<1> USE ViewFacts
<1>1. "call" \in DOMAIN frames[1]
  BY FrameFacts DEF AppInv
<1>2. CASE frames[1].call \in client.pending
  <2> DEFINE c == frames[1].call
             u == [View EXCEPT !.client.pending = @ \ {c}, !.calls[c].answer = frames[1].reply]
  <2>1. IsView(View) /\ c \in Calls /\ IsCall(calls[c])
    BY <1>2 DEF AppInv, ViewInv, IsView
  <2>2. /\ DOMAIN u = {"client", "session", "calls"} /\ u.session = session
        /\ DOMAIN u.client = {"closed", "pending", "waiters"}
        /\ u.client.closed = client.closed /\ u.client.waiters = client.waiters
        /\ u.client.pending = client.pending \ {c}
    BY <2>1 DEF IsView, View
  <2>3. /\ DOMAIN u.calls = Calls /\ \A d \in Calls \ {c} : u.calls[d] = calls[d]
        /\ DOMAIN u.calls[c] = CallFields /\ u.calls[c].answer = frames[1].reply
        /\ u.calls[c].heard = calls[c].heard /\ SameCall(calls[c], u.calls[c])
    BY <2>1 DEF IsView, View, IsCall, CallFields, SameCall
  <2>4. Receive(View, frames[1]) = u
    BY <1>1, <1>2 DEF Receive
  <2> HIDE DEF u
  <2> QED
    BY <1>2, <2>2, <2>3, <2>4, AnswerSettles
<1>3. CASE frames[1].call \notin client.pending
  BY <1>1, <1>3, StrayAnswer DEF Receive, Follows, SameCall
<1> QED
  BY <1>2, <1>3

LEMMA ApplyFacts ==
    ASSUME NEW s, DOMAIN s = SessionFields, NEW f
    PROVE  LET a == applyNotification(s, f)
           IN  /\ DOMAIN a = SessionFields
               /\ f.method = Started => a.activeTurnId = f.id /\ a.completedTurnIds = s.completedTurnIds \ {f.id}
               /\ f.method = Completed => /\ a.activeTurnId = IF s.activeTurnId = f.id THEN NoId ELSE s.activeTurnId
                                          /\ a.completedTurnIds = s.completedTurnIds \cup {f.id}
               /\ f.method \notin {Started, Completed} =>
                    a.activeTurnId = s.activeTurnId /\ a.completedTurnIds = s.completedTurnIds
<1>1. CASE f.method = Started
  BY <1>1 DEF applyNotification, SessionFields, Started, Completed
<1>2. CASE f.method = Completed
  BY <1>2 DEF applyNotification, SessionFields, Started, Completed
<1>3. CASE f.method \notin {Started, Completed}
  <2>1. \/ applyNotification(s, f) = [s EXCEPT !.activeLoginId = NoId]
        \/ applyNotification(s, f) = [s EXCEPT !.threadId = f.id]
        \/ applyNotification(s, f) = s
    <3>1. CASE f.method = "thread/started"
      BY <3>1, <1>3 DEF applyNotification, Started, Completed
    <3>2. CASE f.method # "thread/started"
      BY <3>2, <1>3 DEF applyNotification
    <3> QED
      BY <3>1, <3>2
  <2> QED
    BY <1>3, <2>1 DEF SessionFields
<1> QED
  BY <1>1, <1>2, <1>3

\* A notification: the session notes it, and the waiters it matches are told.
LEMMA NoteReceived ==
    ASSUME AppInv, NEW n \in DOMAIN frames, n > 1, NEW v, ViewInv(v, n - 1), Follows(v)
    PROVE  ViewInv(Receive(v, frames[n]), n) /\ Follows(Receive(v, frames[n]))
<1> DEFINE f == frames[n]
           matched == {w \in v.client.waiters :
                          w.method = f.method /\ (w.thread = f.thread \/ w.turn = f.id)}
           Hears(c) == f.method \in Awaited /\ \E w \in matched : w.call = c
           u == Receive(v, f)
           d == frames[1].call
           r == frames[1].reply
<1>1. /\ Len(frames) \in Nat /\ DOMAIN frames = 1 .. Len(frames) /\ frames # <<>> /\ n - 1 > 0 /\ n \in Nat
      /\ d \in Calls /\ "call" \notin DOMAIN f
  BY SeqFacts DEF AppInv, StateInv, FrameInv
<1>2. u = [client  |-> [v.client EXCEPT !.waiters = @ \ matched],
           session |-> applyNotification(v.session, f),
           calls   |-> [c \in Calls |-> IF Hears(c) THEN [v.calls[c] EXCEPT !.heard[f.method] = f.id]
                                        ELSE v.calls[c]]]
  BY <1>1 DEF Receive
<1>3. IsView(v) /\ \A c \in Calls : IsCall(v.calls[c])
  BY DEF ViewInv, IsView
<1>4. /\ DOMAIN u = {"client", "session", "calls"} /\ DOMAIN u.client = {"closed", "pending", "waiters"}
      /\ u.client.closed = v.client.closed /\ u.client.pending = v.client.pending
      /\ u.client.waiters = v.client.waiters \ matched
      /\ u.session = applyNotification(v.session, f) /\ DOMAIN u.calls = Calls
  BY <1>2, <1>3 DEF IsView
<1>5. ASSUME NEW c \in Calls, ~Hears(c) PROVE u.calls[c] = v.calls[c]
  BY <1>2, <1>5
<1>6. ASSUME NEW c \in Calls, Hears(c)
      PROVE  /\ IsCall(u.calls[c]) /\ SameCall(v.calls[c], u.calls[c]) /\ u.calls[c].answer = v.calls[c].answer
             /\ u.calls[c].heard = [v.calls[c].heard EXCEPT ![f.method] = f.id]
  <2>1. u.calls[c] = [v.calls[c] EXCEPT !.heard[f.method] = f.id]
    BY <1>2, <1>6
  <2> QED
    BY <2>1, <1>3 DEF IsCall, CallFields, SameCall
<1>7. \A c \in Calls : SameCall(v.calls[c], u.calls[c]) /\ u.calls[c].answer = v.calls[c].answer
  BY <1>5, <1>6 DEF SameCall
<1>8. ASSUME NEW c \in Calls, Hears(c)
      PROVE  /\ v.calls[c].heard[f.method] = NoId /\ v.calls[c].pc \notin {"new", "ready"}
             /\ v.calls[c].pc = "request" /\ v.calls[c].op \in TurnOps => v.calls[c].thread # NoId
             /\ v.calls[c].pc = "request" /\ c = d =>
                    v.calls[c].answer = r \/ (v.calls[c].answer.set /\ ~v.calls[c].answer.ok)
  <2>1. PICK w \in v.client.waiters : w.call = c /\ w.method = f.method
    BY <1>8
  <2>2. WaiterOK(w, v.calls[c], c \in v.client.pending, n - 1)
    BY <2>1 DEF ViewInv, WaiterInv
  <2>3. c = d => Replying(c)
    BY <1>1 DEF Replying
  <2> QED
    BY <2>1, <2>2, <2>3, <1>1 DEF WaiterOK
<1>9. /\ f.method = Item => Prompt
      /\ Prompt /\ f.method \in {Item, Completed} =>
             r.ok /\ f.id = r.id /\ calls[d].op \in TurnOps
      /\ Heeded /\ f.method = Started => Runs(f.id) \/ EndsAfter(n, f.id)
  BY <1>1 DEF AppInv, FrameInv
<1> HIDE DEF matched, u, f
<1>10. IsView(u)
  <2>1. \A c \in Calls : IsCall(u.calls[c])
    BY <1>3, <1>5, <1>6
  <2>2. DOMAIN u.session = SessionFields
    BY <1>3, <1>4, ApplyFacts DEF IsView
  <2> QED
    BY <2>1, <2>2, <1>3, <1>4 DEF IsView
<1>11. Follows(u)
  BY <1>4, <1>7 DEF Follows, SameCall
<1>12. AnswerInv(u, n)
  BY <1>1, <1>4, <1>7 DEF ViewInv, AnswerInv, AnswerOK, GotAnswer, SameCall
<1>13. WaiterInv(u, n)
  <2>1. ASSUME NEW w \in u.client.waiters
        PROVE  WaiterOK(w, u.calls[w.call], w.call \in u.client.pending, n)
    <3>1. w \in v.client.waiters /\ w.call \in Calls /\ w \notin matched
      BY <1>3, <1>4 DEF IsView
    <3>2. WaiterOK(w, v.calls[w.call], w.call \in v.client.pending, n - 1)
      BY <3>1 DEF ViewInv, WaiterInv
    <3>3. u.calls[w.call].heard[w.method] = NoId
      <4>1. CASE ~Hears(w.call)
        BY <3>1, <3>2, <4>1, <1>5 DEF WaiterOK
      <4>2. CASE Hears(w.call)
        <5>1. w.method # f.method
          <6>1. PICK x \in matched : x.call = w.call
            BY <4>2
          <6>2. x \in v.client.waiters /\ x.method = f.method
            BY <6>1 DEF matched
          <6>3. w.method = x.method => w = x
            BY <3>1, <6>1, <6>2 DEF ViewInv, WaiterInv
          <6> QED
            BY <3>1, <6>1, <6>2, <6>3
        <5>2. w.method \in DOMAIN v.calls[w.call].heard
          BY <1>3, <3>1 DEF IsView, IsCall
        <5>3. u.calls[w.call].heard = [v.calls[w.call].heard EXCEPT ![f.method] = f.id]
          BY <3>1, <4>2, <1>6
        <5>4. v.calls[w.call].heard[w.method] = NoId
          BY <3>2 DEF WaiterOK
        <5> QED
          BY <5>1, <5>2, <5>3, <5>4
      <4> QED
        BY <4>1, <4>2
    <3> QED
      BY <3>1, <3>2, <3>3, <1>1, <1>4, <1>7 DEF WaiterOK, SameCall
  <2> QED
    BY <2>1, <1>4 DEF ViewInv, WaiterInv
<1>14. HeardInv(u)
  <2> SUFFICES ASSUME NEW c \in Calls PROVE HeardOK(u.calls[c], Alone(u.calls, c))
    BY DEF HeardInv
  <2> DEFINE k == v.calls[c]
             l == u.calls[c]
  <2>1. HeardOK(k, Alone(v.calls, c)) /\ SameCall(k, l) /\ l.answer = k.answer
    BY <1>7 DEF ViewInv, HeardInv
  <2>2. Alone(u.calls, c) => Alone(v.calls, c) /\ Alone(calls, c)
    BY <1>7 DEF Alone, SameCall, Follows
  <2>3. CASE ~Hears(c)
    BY <2>1, <2>2, <2>3, <1>5 DEF HeardOK
  <2>4. CASE Hears(c)
    <3>1. /\ k.heard[f.method] = NoId /\ k.pc \notin {"new", "ready"}
          /\ k.pc = "request" /\ k.op \in TurnOps => k.thread # NoId
          /\ f.method \in Awaited /\ DOMAIN k.heard = Awaited
          /\ l.heard = [k.heard EXCEPT ![f.method] = f.id]
      BY <2>4, <1>3, <1>6, <1>8 DEF IsCall
    <3>2. ~(k.op = "startPromptTurn" /\ k.pc = "done")
      BY <2>1, <3>1 DEF HeardOK
    <3>3. ASSUME Prompt, k.op = "startPromptTurn", Alone(u.calls, c), f.method \in {Item, Completed}
          PROVE  /\ k.pc = "request" => k.answer.set /\ (k.answer.ok => f.id = k.answer.id)
                 /\ k.pc # "notified"
      <4>1. SameCall(calls[c], k)
        BY DEF Follows
      <4>2. CASE c = d
        <5>1. k.pc # "notified"
          <6>1. Replying(c)
            BY <1>1, <4>2 DEF Replying
          <6> QED
            BY <6>1, <4>1, ViewFacts DEF AppInv, ViewInv, AnswerInv, AnswerOK, SameCall
        <5>2. k.pc = "request" => k.answer = r \/ (k.answer.set /\ ~k.answer.ok)
          BY <2>4, <4>2, <1>8
        <5>3. r.set = TRUE
          BY <1>1 DEF AppInv, FrameInv
        <5> QED
          BY <5>1, <5>2, <5>3, <3>3, <1>9
      <4>3. CASE c # d
        <5>1. calls[d].op \in TurnOps /\ InFlight(d)
          BY <1>1, <1>9, <3>3 DEF InFlight, Replying
        <5>2. k.pc \in {"request", "notified"} => calls[c].op \in TurnOps /\ ~Settled(c)
          BY <3>3, <4>1 DEF TurnOps, Settled, SameCall
        <5>3. d \notin calls[c].overlaps /\ c \notin calls[d].overlaps
          BY <2>2, <3>3, <1>1 DEF Alone
        <5>4. k.pc \notin {"request", "notified"}
          BY <5>1, <5>2, <5>3, <4>3, <1>1 DEF AppInv, OverlapInv, Live
        <5> QED
          BY <5>4
      <4> QED
        BY <4>2, <4>3
    <3>4. l.heard[Item] # NoId => Prompt
      BY <2>1, <3>1, <1>9 DEF HeardOK, Awaited
    <3>5. ASSUME Prompt, l.op = "startPromptTurn", Alone(u.calls, c),
                 NEW m \in {Item, Completed}, l.heard[m] # NoId
          PROVE  /\ l.pc = "request" => l.answer.set /\ (l.answer.ok => l.heard[m] = l.answer.id)
                 /\ l.pc \in {"notified", "done"} => l.heard[m] = l.turn
      <4>1. CASE m = f.method
        <5>1. l.heard[m] = f.id
          BY <3>1, <4>1
        <5> QED
          BY <5>1, <4>1, <2>1, <3>2, <3>3, <3>5 DEF SameCall
      <4>2. CASE m # f.method
        <5>1. l.heard[m] = k.heard[m]
          BY <3>1, <4>2 DEF Awaited
        <5> QED
          BY <5>1, <2>1, <2>2, <3>5 DEF SameCall, HeardOK
      <4> QED
        BY <4>1, <4>2
    <3> HIDE DEF k, l
    <3>6. l.op = k.op /\ l.pc = k.pc /\ l.thread = k.thread
      BY <2>1 DEF SameCall
    <3> QED
      BY <3>1, <3>2, <3>4, <3>5, <3>6 DEF HeardOK, k, l
  <2> QED
    BY <2>3, <2>4
<1>15. ActiveInv(u, n)
  <2> SUFFICES ASSUME Heeded
               PROVE  /\ u.session.activeTurnId # NoId =>
                           Runs(u.session.activeTurnId) \/ EndsAfter(n, u.session.activeTurnId)
                      /\ \A c \in Calls : PendingOK(u.calls[c], n, u.session.completedTurnIds)
    BY DEF ActiveInv
  <2> DEFINE s == v.session
             t == u.session
  <2>1. /\ f.method = Started => t.activeTurnId = f.id /\ t.completedTurnIds = s.completedTurnIds \ {f.id}
        /\ f.method = Completed => /\ t.activeTurnId = IF s.activeTurnId = f.id THEN NoId ELSE s.activeTurnId
                                   /\ t.completedTurnIds = s.completedTurnIds \cup {f.id}
        /\ f.method \notin {Started, Completed} =>
             t.activeTurnId = s.activeTurnId /\ t.completedTurnIds = s.completedTurnIds
    <3>1. DOMAIN s = SessionFields /\ t = applyNotification(s, f)
      BY <1>3, <1>4 DEF IsView
    <3> HIDE DEF s, t
    <3> QED
      BY <3>1, ApplyFacts
  <2>2. \A x : EndsAfter(n - 1, x) => EndsAfter(n, x) \/ (f.method = Completed /\ f.id = x)
    <3>1. ASSUME NEW x, EndsAfter(n - 1, x) PROVE EndsAfter(n, x) \/ (f.method = Completed /\ f.id = x)
      <4>1. PICK i \in DOMAIN frames : i > n - 1 /\ Ends(i, x)
        BY <3>1 DEF EndsAfter
      <4>2. CASE i = n
        BY <4>1, <4>2 DEF Ends, Note, f
      <4>3. CASE i # n
        BY <4>1, <4>3, <1>1 DEF EndsAfter
      <4> QED
        BY <4>2, <4>3
    <3> QED
      BY <3>1
  <2>3. /\ s.activeTurnId # NoId => Runs(s.activeTurnId) \/ EndsAfter(n - 1, s.activeTurnId)
        /\ \A c \in Calls : PendingOK(v.calls[c], n - 1, s.completedTurnIds)
    BY DEF ViewInv, ActiveInv
  <2> HIDE DEF s, t
  <2>4. Started # Completed
    BY DEF Started, Completed
  <2>5. t.activeTurnId # NoId => Runs(t.activeTurnId) \/ EndsAfter(n, t.activeTurnId)
    <3>1. CASE f.method = Started
      BY <3>1, <2>1, <1>9
    <3>2. CASE f.method # Started /\ t.activeTurnId # NoId
      <4>1. t.activeTurnId = s.activeTurnId /\ ~(f.method = Completed /\ f.id = s.activeTurnId)
        BY <3>2, <2>1
      <4> QED
        BY <4>1, <3>2, <2>2, <2>3
    <3> QED
      BY <3>1, <3>2
  <2>6. ASSUME NEW c \in Calls PROVE PendingOK(u.calls[c], n, t.completedTurnIds)
    <3>1. PendingOK(v.calls[c], n - 1, s.completedTurnIds)
      BY <2>3
    <3>2. \A x : Runs(x) \/ EndsAfter(n - 1, x) \/ x \in s.completedTurnIds =>
              Runs(x) \/ EndsAfter(n, x) \/ x \in t.completedTurnIds
      BY <2>1, <2>2, <2>4, <1>9
    <3> QED
      BY <3>1, <3>2, <1>7 DEF PendingOK, GotAnswer, SameCall
  <2> QED
    BY <2>5, <2>6 DEF t
<1> QED
  BY <1>10, <1>11, <1>12, <1>13, <1>14, <1>15 DEF ViewInv, u, f

-----------------------------------------------------------------------------
(* A batch of frames *)

Receiving(g, n) ==
    g = [i \in 0 .. n |-> IF i = 0 THEN View ELSE Receive(g[i - 1], frames[i])]

LEMMA ReceivingExists == \A n \in Nat : \E g : Receiving(g, n)
<1> DEFINE S == {k \in Nat : ~\E g : Receiving(g, k)}
<1> SUFFICES ASSUME S # {} PROVE FALSE
  OBVIOUS
<1>1. PICK k \in S : \A j \in Nat : j < k => j \notin S
  BY SmallestFailure
<1>2. CASE k = 0
  <2> DEFINE g == [i \in 0 .. 0 |-> View]
  <2>1. Receiving(g, 0)
    BY DEF Receiving
  <2> QED
    BY <1>2, <2>1
<1>3. CASE k # 0
  <2>1. k - 1 \in Nat /\ k - 1 < k
    BY <1>3
  <2>2. PICK f : Receiving(f, k - 1)
    BY <1>1, <2>1
  <2> DEFINE g == [i \in 0 .. k |-> IF i = k THEN Receive(f[k - 1], frames[k]) ELSE f[i]]
  <2>3. \A i \in 0 .. k : g[i] = IF i = 0 THEN View ELSE Receive(g[i - 1], frames[i])
    <3> TAKE i \in 0 .. k
    <3>1. CASE i = k
      <4>1. g[i] = Receive(f[k - 1], frames[k]) /\ g[i - 1] = f[k - 1]
        BY <2>1, <3>1
      <4> QED
        BY <1>3, <3>1, <4>1
    <3>2. CASE i # k
      <4>1. i \in 0 .. k - 1 /\ g[i] = f[i]
        BY <2>1, <3>2
      <4>2. i # 0 => g[i - 1] = f[i - 1]
        BY <2>1, <4>1
      <4>3. f[i] = IF i = 0 THEN View ELSE Receive(f[i - 1], frames[i])
        BY <2>2, <4>1 DEF Receiving
      <4> HIDE DEF g
      <4> QED
        BY <4>1, <4>2, <4>3
    <3> QED
      BY <3>1, <3>2
  <2>4. Receiving(g, k)
    <3>1. g = [i \in 0 .. k |-> g[i]]
      OBVIOUS
    <3> HIDE DEF g
    <3> QED
      BY <2>3, <3>1 DEF Receiving
  <2> HIDE DEF g
  <2> QED
    BY <2>4
<1> QED
  BY <1>2, <1>3

LEMMA ReceivedInv ==
    ASSUME AppInv, NEW n \in 0 .. Len(frames)
    PROVE  ViewInv(Received(n), n) /\ Follows(Received(n))
<1> DEFINE g == CHOOSE g : Receiving(g, n)
           S == {k \in Nat : k <= n /\ ~(ViewInv(g[k], k) /\ Follows(g[k]))}
<1>1. Received(n) = g[n]
  BY DEF Received, Receiving, frames
<1>2. Len(frames) \in Nat /\ DOMAIN frames = 1 .. Len(frames) /\ n \in Nat /\ n <= Len(frames)
  BY SeqFacts DEF AppInv, StateInv
<1>3. Receiving(g, n)
  BY <1>2, ReceivingExists
<1> HIDE DEF g
<1> SUFFICES ASSUME S # {} PROVE FALSE
  BY <1>1, <1>2
<1>4. PICK k \in S : \A j \in Nat : j < k => j \notin S
  BY SmallestFailure
<1>5. CASE k = 0
  <2>1. g[0] = View
    BY <1>2, <1>3 DEF Receiving
  <2> QED
    BY <1>5, <2>1, ViewFacts DEF AppInv, Follows, SameCall
<1>6. CASE k # 0
  <2>1. k - 1 \in Nat /\ k - 1 < k /\ k - 1 <= n /\ k \in 0 .. n /\ k \in DOMAIN frames /\ frames # <<>>
    BY <1>2, <1>6
  <2>2. ViewInv(g[k - 1], k - 1) /\ Follows(g[k - 1])
    BY <1>4, <2>1
  <2>3. g[k] = Receive(g[k - 1], frames[k])
    BY <1>3, <1>6, <2>1 DEF Receiving
  <2>4. CASE k = 1
    <3>1. g[0] = View
      BY <1>2, <1>3 DEF Receiving
    <3> QED
      BY <2>1, <2>3, <2>4, <3>1, AnswerReceived
  <2>5. CASE k > 1
    BY <2>1, <2>2, <2>3, <2>5, NoteReceived
  <2> QED
    BY <1>6, <2>4, <2>5
<1> QED
  BY <1>5, <1>6

-----------------------------------------------------------------------------
(* The start *)

LEMMA NewCallFacts ==
    /\ IsCall(NewCall) /\ NewCall.op = "none" /\ NewCall.pc = "new" /\ NewCall.overlaps = {}
    /\ NewCall.thread = NoId /\ NewCall.turn = NoId /\ NewCall.lost = FALSE
    /\ NewCall.answer.set = FALSE /\ NewCall.answer.ok = FALSE
    /\ DOMAIN NewCall.answer = AnswerFields /\ \A m \in Awaited : NewCall.heard[m] = NoId
BY DEF NewCall, IsCall, CallFields, AnswerFields

LEMMA NamesFacts ==
    /\ Awaited = {Started, Item, Completed} /\ Item \in Awaited /\ Completed \in Awaited /\ Started \in Awaited
    /\ Started # Item /\ Item # Completed /\ Started # Completed
    /\ "none" \notin TurnOps /\ "startPromptTurn" \in TurnOps /\ "startPendingTurn" \in TurnOps
    /\ "connect" \notin TurnOps /\ "interruptTurn" \notin TurnOps
BY DEF Awaited, Started, Item, Completed, TurnOps

LEMMA InitApp == AppInit => AppInv
<1> SUFFICES ASSUME AppInit PROVE AppInv
  OBVIOUS
<1> USE NewCallFacts, NamesFacts
<1>1. frames = <<>> /\ DOMAIN frames = {} /\ DOMAIN queue = {} /\ \A c \in Calls : calls[c] = NewCall
  BY DEF AppInit, Idle, frames
<1>2. StateInv
  <2>1. /\ DOMAIN server = {"threads", "turns", "logins", "optOut"} /\ server.threads = 0
        /\ server.turns = <<>> /\ server.logins = <<>> /\ server.optOut = {} /\ DOMAIN server.turns = {}
        /\ queue = <<>> /\ DOMAIN dispatch = {"busy", "frames"} /\ client.closed = FALSE
    BY DEF AppInit, Idle
  <2> QED
    BY <1>1, <2>1, EmptyIsSeq DEF StateInv
<1>3. FlightInv /\ MessageInv /\ FrameInv /\ ReplyInv
  BY <1>1 DEF FlightInv, MessageInv, FrameInv, ReplyInv, InFlight, Queued, Replying
<1>4. OverlapInv
  BY <1>1 DEF OverlapInv, Live
<1>5. ViewInv(View, 0)
  <2>1. /\ DOMAIN client = {"closed", "pending", "waiters"} /\ client.pending = {} /\ client.waiters = {}
        /\ DOMAIN session = SessionFields /\ session.activeTurnId = NoId /\ DOMAIN calls = Calls
    BY DEF AppInit, SessionFields
  <2>2. IsView(View)
    BY <1>1, <2>1, ViewFacts DEF IsView, View
  <2>3. AnswerInv(View, 0) /\ WaiterInv(View, 0)
    BY <1>1, <2>1, ViewFacts DEF AnswerInv, AnswerOK, GotAnswer, WaiterInv
  <2>4. HeardInv(View)
    BY <1>1, ViewFacts DEF HeardInv, HeardOK
  <2>5. ActiveInv(View, 0)
    BY <1>1, <2>1, ViewFacts DEF ActiveInv, PendingOK, GotAnswer
  <2> QED
    BY <2>2, <2>3, <2>4, <2>5 DEF ViewInv
<1> QED
  BY <1>2, <1>3, <1>4, <1>5 DEF AppInv

-----------------------------------------------------------------------------
(* A call takes a step *)

OnlyCall(c, k) ==
    DOMAIN calls' = Calls /\ calls'[c] = k /\ \A d \in Calls \ {c} : calls'[d] = calls[d]

\* The call c becomes k: it may register waiters and send the message m.
LEMMA CallMoves ==
    ASSUME AppInv, NEW c \in Calls, NEW k, NEW m, IsCall(k), OnlyCall(c, k), c \notin client.pending,
           UNCHANGED <<config, server, readyState, dispatch>>,
           DOMAIN session' = SessionFields, session'.completedTurnIds = session.completedTurnIds,
           Heeded /\ session'.activeTurnId # NoId =>
               Runs(session'.activeTurnId) \/ EndsAfter(0, session'.activeTurnId),
           DOMAIN client' = {"closed", "pending", "waiters"}, client'.closed = client.closed,
           \A w \in client.waiters : w \in client'.waiters,
           \A w \in client'.waiters : w \in client.waiters \/ (w.call = c /\ w.method \in Awaited),
           \A w, x \in client'.waiters : w.call = c /\ x.call = c /\ w.method = x.method => w = x,
           \A w \in client'.waiters : w.call = c =>
               /\ k.heard[w.method] = NoId /\ k.pc \notin {"new", "ready"}
               /\ k.pc = "request" => c \in client'.pending
               /\ k.pc = "request" /\ k.op \in TurnOps => k.thread # NoId,
           \/ queue' = queue /\ client'.pending = client.pending
           \/ /\ queue' = Append(queue, m) /\ m.call = c /\ ~InFlight(c) /\ k.pc \notin {"new", "ready", "notified"}
              /\ m.method = "turn/start" => k.op \in TurnOps
              /\ \/ client'.pending = client.pending
                 \/ client'.pending = client.pending \cup {c} /\ k.pc = "request" /\ Asks(m, k),
           k.pc # "new" /\ ~k.answer.set, k.pc = "drain" => k.op = "connect",
           k.pc = "ready" => k.op = "connect" \/ (k.op \in TurnOps /\ k.thread # NoId),
           k.pc \in {"ready", "notified"} => ~InFlight(c),
           HeardOK(k, Alone(calls, c)),
           \/ ~Settled(c) /\ k.op = calls[c].op /\ k.overlaps = calls[c].overlaps
           \/ calls[c].pc = "new" /\ (k.op \in TurnOps => TurnsUnderWay \subseteq k.overlaps)
    PROVE  AppInv'
<1>1. /\ frames' = frames /\ (Heeded' <=> Heeded) /\ (Prompt' <=> Prompt)
      /\ \A d : Replying(d)' <=> Replying(d)
      /\ \A t : Runs(t)' <=> Runs(t)
      /\ \A n, t : EndsAfter(n, t)' <=> EndsAfter(n, t)
  BY DEF frames, Heeded, Prompt, Replying, Runs, EndsAfter, Ends
<1>2. IsView(View) /\ DOMAIN calls = Calls /\ \A d \in Calls : IsCall(calls[d])
  BY ViewFacts DEF AppInv, ViewInv, IsView
<1>3. calls'[c] = k /\ \A d \in Calls : d # c => calls'[d] = calls[d]
  BY DEF OnlyCall
<1>4. IsSeq(queue) /\ Len(queue) \in Nat /\ DOMAIN queue = 1 .. Len(queue)
  BY SeqFacts DEF AppInv, StateInv
<1>5. \/ queue' = queue
      \/ /\ IsSeq(queue') /\ DOMAIN queue' = 1 .. Len(queue) + 1 /\ ~InFlight(c)
         /\ \A i \in DOMAIN queue : queue'[i] = queue[i]
         /\ queue'[Len(queue) + 1] = m /\ m.call = c
  <2>1. CASE queue' = Append(queue, m) /\ m.call = c /\ ~InFlight(c)
    <3>1. /\ IsSeq(Append(queue, m)) /\ Len(Append(queue, m)) = Len(queue) + 1
          /\ \A i \in 1 .. Len(queue) : Append(queue, m)[i] = queue[i]
          /\ Append(queue, m)[Len(queue) + 1] = m
      BY <1>4, AppendFacts
    <3>2. DOMAIN Append(queue, m) = 1 .. Len(queue) + 1
      BY <3>1, SeqFacts
    <3> QED
      BY <1>4, <2>1, <3>1, <3>2
  <2> QED
    BY <2>1
<1>6. /\ \A d : d # c => (Queued(d)' <=> Queued(d))
      /\ Queued(c) => Queued(c)'
      /\ queue' = queue => (Queued(c)' <=> Queued(c))
  <2>1. ASSUME queue' = queue PROVE \A d : Queued(d)' <=> Queued(d)
    BY <2>1 DEF Queued
  <2>2. ASSUME queue' # queue, NEW d PROVE (d # c => (Queued(d)' <=> Queued(d))) /\ (Queued(d) => Queued(d)')
    BY <2>2, <1>4, <1>5 DEF Queued
  <2> QED
    BY <2>1, <2>2
<1>7. StateInv'
  <2>1. IsSeq(queue') /\ \A i \in DOMAIN queue' : queue'[i].call \in Calls
    BY <1>4, <1>5 DEF AppInv, StateInv
  <2> QED
    BY <1>1, <2>1 DEF AppInv, StateInv
<1>8. FlightInv'
  <2>1. \A i, j \in DOMAIN queue' : queue'[i].call = queue'[j].call => i = j
    <3>1. CASE queue' = queue
      BY <3>1 DEF AppInv, FlightInv
    <3>2. CASE queue' # queue
      <4>1. \A i \in DOMAIN queue : queue[i].call # c
        BY <1>5, <3>2 DEF InFlight, Queued
      <4> QED
        BY <1>4, <1>5, <3>2, <4>1 DEF AppInv, FlightInv
    <3> QED
      BY <3>1, <3>2
  <2>2. ASSUME NEW d \in Calls, Replying(d) PROVE ~Queued(d)'
    <3>1. ~Queued(d)
      BY <2>2 DEF AppInv, FlightInv
    <3> QED
      BY <3>1, <2>2, <1>5, <1>6 DEF InFlight
  <2>3. ASSUME NEW d \in Calls, calls'[d].pc \in {"new", "ready"} PROVE ~InFlight(d)'
    <3>1. CASE d = c
      BY <2>3, <3>1, <1>1, <1>3, <1>6 DEF InFlight
    <3>2. CASE d # c
      BY <2>3, <3>2, <1>1, <1>3, <1>6 DEF InFlight, AppInv, FlightInv
    <3> QED
      BY <3>1, <3>2
  <2> QED
    BY <1>1, <2>1, <2>2, <2>3 DEF FlightInv
<1>9. \A d \in Calls : d # c => (d \in client'.pending <=> d \in client.pending)
  OBVIOUS
<1>10. ~InFlight(c) \/ (k.op = calls[c].op /\ queue' = queue)
  <2>1. calls[c].pc = "new" => ~InFlight(c)
    BY DEF AppInv, FlightInv
  <2> QED
    BY <2>1
<1>11. MessageInv'
  <2> SUFFICES ASSUME NEW i \in DOMAIN queue'
               PROVE  LET d == queue'[i].call
                      IN  /\ d \in client'.pending => Asks(queue'[i], calls'[d])
                          /\ queue'[i].method = "turn/start" => calls'[d].op \in TurnOps
    BY DEF MessageInv, Asks
  <2>1. CASE queue'[i].call = c /\ queue' = queue
    <3>1. Queued(c)
      BY <2>1 DEF Queued
    <3> QED
      BY <2>1, <3>1, <1>3, <1>10 DEF AppInv, MessageInv, InFlight
  <2>2. CASE queue'[i].call = c /\ queue' # queue
    <3>1. queue'[i] = m
      <4>1. i \in DOMAIN queue => queue[i].call # c
        BY <1>5, <2>2 DEF InFlight, Queued
      <4> QED
        BY <1>4, <1>5, <2>2, <4>1
    <3> QED
      BY <2>2, <3>1, <1>3
  <2>3. CASE queue'[i].call # c
    <3>1. i \in DOMAIN queue /\ queue'[i] = queue[i] /\ queue[i].call \in Calls
      BY <2>3, <1>4, <1>5 DEF AppInv, StateInv
    <3> QED
      BY <2>3, <3>1, <1>3, <1>9 DEF AppInv, MessageInv
  <2> QED
    BY <2>1, <2>2, <2>3
<1>12. FrameInv'
  <2>1. frames # <<>> => calls'[frames[1].call].op = calls[frames[1].call].op
    <3>1. frames # <<>> /\ frames[1].call = c => k.op = calls[c].op
      BY <1>10 DEF InFlight, Replying
    <3>2. frames # <<>> => frames[1].call \in Calls
      BY DEF AppInv, FrameInv
    <3> QED
      BY <3>1, <3>2, <1>3
  <2>2. \A i \in DOMAIN frames : frames # <<>>
    BY SeqFacts DEF AppInv, StateInv
  <2> QED
    BY <1>1, <2>1, <2>2 DEF AppInv, FrameInv
<1>13. ReplyInv'
  <2>1. frames # <<>> /\ frames[1].call = c => c \notin client'.pending
    BY DEF InFlight, Replying
  <2>2. frames # <<>> => frames[1].call \in Calls
    BY DEF AppInv, FrameInv
  <2> QED
    BY <1>1, <1>3, <1>9, <2>1, <2>2 DEF AppInv, ReplyInv
<1>14. ASSUME NEW d \in Calls, d # c PROVE (Live(d)' <=> Live(d))
  BY <1>1, <1>3, <1>6, <1>14 DEF Live, Settled, InFlight
<1>15. OverlapInv'
  <2>1. ASSUME NEW d \in Calls, d # c, Live(d), Live(c)' PROVE d \in k.overlaps \/ c \in calls[d].overlaps
    <3>1. CASE ~Settled(c) /\ k.op = calls[c].op /\ k.overlaps = calls[c].overlaps
      <4>1. Live(c)
        BY <2>1, <3>1, <1>3 DEF Live
      <4> QED
        BY <2>1, <3>1, <4>1 DEF AppInv, OverlapInv
    <3>2. CASE calls[c].pc = "new" /\ (k.op \in TurnOps => TurnsUnderWay \subseteq k.overlaps)
      <4>1. k.op \in TurnOps
        BY <2>1, <1>3 DEF Live
      <4>2. d \in TurnsUnderWay
        BY <2>1 DEF Live, TurnsUnderWay, InFlight, Queued, Replying, AppInv, StateInv
      <4> QED
        BY <3>2, <4>1, <4>2
    <3> QED
      BY <3>1, <3>2
  <2>2. ASSUME NEW d \in Calls, NEW e \in Calls, d # e, Live(d)', Live(e)'
        PROVE  e \in calls'[d].overlaps \/ d \in calls'[e].overlaps
    <3>1. CASE d = c
      BY <2>1, <2>2, <3>1, <1>3, <1>14
    <3>2. CASE e = c
      BY <2>1, <2>2, <3>2, <1>3, <1>14
    <3>3. CASE d # c /\ e # c
      BY <2>2, <3>3, <1>3, <1>14 DEF AppInv, OverlapInv
    <3> QED
      BY <3>1, <3>2, <3>3
  <2> QED
    BY <2>2 DEF OverlapInv
<1>16. \A d \in Calls : Alone(calls', d) => Alone(calls, d)
  <2>1. calls[c].overlaps \subseteq k.overlaps
    BY ViewFacts DEF AppInv, ViewInv, AnswerInv, AnswerOK
  <2>2. \A d \in Calls : calls[d].overlaps \subseteq calls'[d].overlaps
    BY <2>1, <1>3
  <2> QED
    BY <2>2 DEF Alone
<1>17. View'.client = client' /\ View'.session = session' /\ View'.calls = calls'
  BY DEF View
<1>18. IsView(View)'
  <2>1. \A d \in Calls : IsCall(calls'[d])
    BY <1>2, <1>3
  <2>2. \A w \in client.waiters : w.call \in Calls /\ w.method \in Awaited
    BY <1>2, ViewFacts DEF IsView
  <2>3. client.pending \subseteq Calls
    BY <1>2, ViewFacts DEF IsView
  <2>4. DOMAIN View' = {"client", "session", "calls"} /\ DOMAIN calls' = Calls
    BY DEF View, OnlyCall
  <2> QED
    BY <1>17, <2>1, <2>2, <2>3, <2>4 DEF IsView, IsCall
<1>19. AnswerInv(View, 0)'
  <2> SUFFICES ASSUME NEW d \in Calls PROVE AnswerOK(d, calls[d], d \in client.pending, 0)'
    BY <1>17 DEF AnswerInv
  <2>1. CASE d = c
    <3>1. c \in client'.pending => k.pc = "request"
      OBVIOUS
    <3>2. k.pc = "notified" => ~Queued(c)' /\ ~Replying(c)'
      BY <1>1, <1>6 DEF InFlight
    <3> QED
      BY <2>1, <3>1, <3>2, <1>3 DEF AnswerOK, GotAnswer
  <2>2. CASE d # c
    <3>1. AnswerOK(d, calls[d], d \in client.pending, 0)
      BY ViewFacts DEF AppInv, ViewInv, AnswerInv
    <3>2. calls'[d] = calls[d] /\ (d \in client'.pending <=> d \in client.pending)
          /\ (Queued(d)' <=> Queued(d)) /\ (Replying(d)' <=> Replying(d))
      BY <2>2, <1>1, <1>3, <1>6, <1>9
    <3> QED
      BY <3>1, <3>2 DEF AnswerOK, GotAnswer
  <2> QED
    BY <2>1, <2>2
<1>20. WaiterInv(View, 0)'
  <2>1. WaiterInv(View, 0) /\ \A w \in client.waiters : w.call \in Calls
    BY <1>2, ViewFacts DEF AppInv, ViewInv, IsView
  <2>2. ASSUME NEW w, w \in client'.waiters
        PROVE  WaiterOK(w, calls[w.call], w.call \in client.pending, 0)'
    <3>1. CASE w.call = c
      BY <2>2, <3>1, <1>3 DEF WaiterOK
    <3>2. CASE w.call # c
      <4>1. w \in client.waiters /\ w.call \in Calls
        BY <2>2, <3>2, <2>1
      <4>2. WaiterOK(w, calls[w.call], w.call \in client.pending, 0)
        BY <4>1, <2>1, ViewFacts DEF WaiterInv
      <4>3. calls'[w.call] = calls[w.call] /\ (w.call \in client'.pending <=> w.call \in client.pending)
        BY <3>2, <4>1, <1>3, <1>9
      <4> QED
        BY <4>2, <4>3 DEF WaiterOK
    <3> QED
      BY <3>1, <3>2
  <2>3. ASSUME NEW w, NEW x, w \in client'.waiters, x \in client'.waiters, w.call = x.call, w.method = x.method
        PROVE  w = x
    BY <2>1, <2>3, ViewFacts DEF WaiterInv
  <2> QED
    BY <1>17, <2>2, <2>3 DEF WaiterInv
<1>21. HeardInv(View)'
  <2> SUFFICES ASSUME NEW d \in Calls PROVE HeardOK(calls[d], Alone(calls, d))'
    BY <1>17 DEF HeardInv
  <2>0. Alone(calls, d)' => Alone(calls, d)
    BY <1>16 DEF Alone
  <2>1. CASE d = c
    BY <2>0, <2>1, <1>1, <1>3 DEF HeardOK
  <2>2. CASE d # c
    <3>1. HeardOK(calls[d], Alone(calls, d))
      BY ViewFacts DEF AppInv, ViewInv, HeardInv
    <3>2. calls'[d] = calls[d]
      BY <2>2, <1>3
    <3> QED
      BY <2>0, <3>1, <3>2, <1>1 DEF HeardOK
  <2> QED
    BY <2>1, <2>2
<1>22. ActiveInv(View, 0)'
  <2>1. ASSUME Heeded, NEW d \in Calls PROVE PendingOK(calls[d], 0, session.completedTurnIds)'
    <3>1. CASE d = c
      BY <3>1, <1>3 DEF PendingOK, GotAnswer
    <3>2. CASE d # c
      <4>1. PendingOK(calls[d], 0, session.completedTurnIds)
        BY <2>1, ViewFacts DEF AppInv, ViewInv, ActiveInv
      <4> QED
        BY <4>1, <3>2, <1>1, <1>3 DEF PendingOK, GotAnswer
    <3> QED
      BY <3>1, <3>2
  <2> QED
    BY <1>1, <1>17, <2>1 DEF ActiveInv
<1> QED
  BY <1>7, <1>8, <1>11, <1>12, <1>13, <1>15, <1>18, <1>19, <1>20, <1>21, <1>22 DEF AppInv, ViewInv

LEMMA EndFacts ==
    ASSUME AppInv, NEW c \in Calls, NEW k, IsCall(k), NEW pc, End(c, k, pc)
    PROVE  \E l : /\ IsCall(l) /\ OnlyCall(c, l) /\ l.pc = pc /\ ~l.answer.set
                  /\ l.op = k.op /\ l.thread = k.thread /\ l.turn = k.turn
                  /\ l.heard = k.heard /\ l.lost = k.lost /\ l.overlaps = k.overlaps
<1>1. DOMAIN calls = Calls
  BY ViewFacts DEF AppInv, ViewInv, IsView
<1> DEFINE l == [k EXCEPT !.pc = pc, !.answer = NewCall.answer]
<1>2. /\ l.pc = pc /\ l.answer = NewCall.answer /\ DOMAIN l = CallFields
      /\ l.op = k.op /\ l.thread = k.thread /\ l.turn = k.turn
      /\ l.heard = k.heard /\ l.lost = k.lost /\ l.overlaps = k.overlaps
  BY DEF IsCall, CallFields
<1>3. OnlyCall(c, l)
  BY <1>1 DEF End, OnlyCall
<1> HIDE DEF l
<1>4. IsCall(l)
  BY <1>2, NewCallFacts DEF IsCall
<1> QED
  BY <1>2, <1>3, <1>4, NewCallFacts

\* What is known of a call that does not wait for an answer.
LEMMA CallFacts ==
    ASSUME AppInv, NEW c \in Calls
    PROVE  /\ IsCall(calls[c]) /\ AnswerOK(c, calls[c], c \in client.pending, 0)
           /\ HeardOK(calls[c], Alone(calls, c))
           /\ \A w \in client.waiters : w.call = c => WaiterOK(w, calls[c], c \in client.pending, 0)
           /\ DOMAIN client = {"closed", "pending", "waiters"} /\ DOMAIN session = SessionFields
           /\ calls[c].pc \in {"new", "ready"} => ~InFlight(c)
           /\ Heeded /\ session.activeTurnId # NoId =>
                Runs(session.activeTurnId) \/ EndsAfter(0, session.activeTurnId)
           /\ Heeded => PendingOK(calls[c], 0, session.completedTurnIds)
BY ViewFacts DEF AppInv, ViewInv, IsView, AnswerInv, HeardInv, WaiterInv, FlightInv, ActiveInv

\* The call c becomes k and sends its request.
LEMMA AskMoves ==
    ASSUME AppInv, NEW c \in Calls, NEW k, IsCall(k), NEW waiters, NEW method, NEW thread, NEW id,
           Ask(c, k, waiters, method, thread, id), c \notin client.pending, ~InFlight(c),
           UNCHANGED <<config, server, readyState, dispatch>>,
           DOMAIN session' = SessionFields, session'.completedTurnIds = session.completedTurnIds,
           session'.activeTurnId = session.activeTurnId,
           \A w \in client.waiters : w.call # c,
           \A w \in waiters : w.call = c /\ w.method \in Awaited,
           \A w, x \in waiters : w.method = x.method => w = x,
           method = "turn/start" => k.op \in TurnOps,
           k.op \in TurnOps => method = IF k.thread = NoId THEN "thread/start" ELSE "turn/start",
           k.op \in TurnOps /\ waiters # {} => k.thread # NoId,
           \A m \in Awaited : k.heard[m] = NoId,
           \/ ~Settled(c) /\ k.op = calls[c].op /\ k.overlaps = calls[c].overlaps
           \/ calls[c].pc = "new" /\ (k.op \in TurnOps => TurnsUnderWay \subseteq k.overlaps)
    PROVE  AppInv'
<1> DEFINE pc == IF ClientOpen THEN "request" ELSE "failed"
           m == Message(c, method, thread, id)
<1>1. End(c, k, pc)
  BY DEF Ask
<1>2. pc \in {"request", "failed"} /\ (pc = "request" <=> ClientOpen)
  OBVIOUS
<1>3. m.call = c /\ m.method = method
  BY DEF Message
<1>4. /\ DOMAIN client' = {"closed", "pending", "waiters"} /\ client'.closed = client.closed
      /\ client'.waiters = client.waiters \cup waiters
      /\ client'.pending = IF ClientOpen THEN client.pending \cup {c} ELSE client.pending
      /\ queue' = IF ClientOpen THEN Append(queue, m) ELSE queue
  BY CallFacts DEF Ask
<1> HIDE DEF pc, m
<1>5. PICK l : /\ IsCall(l) /\ OnlyCall(c, l) /\ l.pc = pc /\ ~l.answer.set
               /\ l.op = k.op /\ l.thread = k.thread /\ l.turn = k.turn
               /\ l.heard = k.heard /\ l.lost = k.lost /\ l.overlaps = k.overlaps
  BY <1>1, EndFacts
<1>6. HeardOK(l, Alone(calls, c))
  BY <1>2, <1>5, NamesFacts DEF HeardOK
<1>7. Asks(m, l)
  BY <1>3, <1>5 DEF Asks
<1>8. Heeded /\ session'.activeTurnId # NoId =>
         Runs(session'.activeTurnId) \/ EndsAfter(0, session'.activeTurnId)
  BY CallFacts
<1>9. \A w \in client'.waiters : w \in client.waiters \/ (w.call = c /\ w.method \in Awaited)
  BY <1>4
<1>10. \A w, x \in client'.waiters : w.call = c /\ x.call = c /\ w.method = x.method => w = x
  BY <1>4
<1>11. \A w \in client'.waiters : w.call = c =>
         /\ l.heard[w.method] = NoId /\ l.pc \notin {"new", "ready"}
         /\ l.pc = "request" => c \in client'.pending
         /\ l.pc = "request" /\ l.op \in TurnOps => l.thread # NoId
  BY <1>2, <1>4, <1>5
<1>12. \/ queue' = queue /\ client'.pending = client.pending
       \/ /\ queue' = Append(queue, m) /\ m.call = c /\ ~InFlight(c) /\ l.pc \notin {"new", "ready", "notified"}
          /\ m.method = "turn/start" => l.op \in TurnOps
          /\ \/ client'.pending = client.pending
             \/ client'.pending = client.pending \cup {c} /\ l.pc = "request" /\ Asks(m, l)
  BY <1>2, <1>3, <1>4, <1>5, <1>7
<1>13. /\ \A w \in client.waiters : w \in client'.waiters
       /\ l.pc # "new" /\ ~l.answer.set /\ (l.pc = "drain" => l.op = "connect") /\ l.pc # "ready"
       /\ l.pc \in {"ready", "notified"} => ~InFlight(c)
  BY <1>2, <1>4, <1>5
<1>14. \/ ~Settled(c) /\ l.op = calls[c].op /\ l.overlaps = calls[c].overlaps
       \/ calls[c].pc = "new" /\ (l.op \in TurnOps => TurnsUnderWay \subseteq l.overlaps)
  BY <1>5
<1> QED
  BY <1>4, <1>5, <1>6, <1>8, <1>9, <1>10, <1>11, <1>12, <1>13, <1>14, CallMoves

\* The call c becomes k and sends nothing.
LEMMA EndMoves ==
    ASSUME AppInv, NEW c \in Calls, NEW k, IsCall(k), NEW pc, End(c, k, pc), c \notin client.pending,
           UNCHANGED <<config, server, readyState, dispatch, queue, client>>,
           DOMAIN session' = SessionFields, session'.completedTurnIds = session.completedTurnIds,
           Heeded /\ session'.activeTurnId # NoId =>
               Runs(session'.activeTurnId) \/ EndsAfter(0, session'.activeTurnId),
           pc \in {"ready", "notified", "done", "failed"},
           pc = "ready" => k.op = "connect" \/ (k.op \in TurnOps /\ k.thread # NoId),
           pc \in {"ready", "notified"} => ~InFlight(c),
           \A w \in client.waiters : w.call = c => pc # "ready" /\ k.heard[w.method] = NoId,
           \A l : /\ IsCall(l) /\ l.pc = pc /\ ~l.answer.set /\ l.op = k.op /\ l.thread = k.thread
                  /\ l.turn = k.turn /\ l.heard = k.heard /\ l.overlaps = k.overlaps
                  => HeardOK(l, Alone(calls, c)),
           \/ ~Settled(c) /\ k.op = calls[c].op /\ k.overlaps = calls[c].overlaps
           \/ calls[c].pc = "new" /\ (k.op \in TurnOps => TurnsUnderWay \subseteq k.overlaps)
    PROVE  AppInv'
<1>1. PICK l : /\ IsCall(l) /\ OnlyCall(c, l) /\ l.pc = pc /\ ~l.answer.set
               /\ l.op = k.op /\ l.thread = k.thread /\ l.turn = k.turn
               /\ l.heard = k.heard /\ l.lost = k.lost /\ l.overlaps = k.overlaps
  BY EndFacts
<1>2. HeardOK(l, Alone(calls, c))
  BY <1>1
<1>3. DOMAIN client' = {"closed", "pending", "waiters"} /\ client' = client
  BY CallFacts
<1>4. \A w, x \in client'.waiters : w.call = c /\ x.call = c /\ w.method = x.method => w = x
  BY <1>3, ViewFacts DEF AppInv, ViewInv, WaiterInv
<1>5. \A w \in client'.waiters : w.call = c =>
         /\ l.heard[w.method] = NoId /\ l.pc \notin {"new", "ready"}
         /\ l.pc = "request" => c \in client'.pending
         /\ l.pc = "request" /\ l.op \in TurnOps => l.thread # NoId
  BY <1>1, <1>3
<1>6. /\ l.pc # "new" /\ ~l.answer.set /\ (l.pc = "drain" => l.op = "connect")
      /\ l.pc = "ready" => l.op = "connect" \/ (l.op \in TurnOps /\ l.thread # NoId)
      /\ l.pc \in {"ready", "notified"} => ~InFlight(c)
  BY <1>1
<1>7. \/ ~Settled(c) /\ l.op = calls[c].op /\ l.overlaps = calls[c].overlaps
      \/ calls[c].pc = "new" /\ (l.op \in TurnOps => TurnsUnderWay \subseteq l.overlaps)
  BY <1>1
<1> QED
  BY <1>1, <1>2, <1>3, <1>4, <1>5, <1>6, <1>7, CallMoves

LEMMA ResumeFailedStep ==
    ASSUME AppInv, NEW c \in Calls, ResumeFailed(c)
    PROVE  AppInv'
<1>1. /\ calls[c].pc = "request" /\ calls[c].answer.set /\ End(c, calls[c], "failed")
      /\ UNCHANGED <<config, server, readyState, dispatch, queue, client, session>>
  BY DEF ResumeFailed, serverVars
<1>2. c \notin client.pending /\ ~Settled(c)
  BY <1>1, CallFacts DEF AnswerOK, Settled
<1>3. \A w \in client.waiters : w.call = c => calls[c].heard[w.method] = NoId
  BY CallFacts DEF WaiterOK
<1>4. ASSUME NEW l, l.pc = "failed", l.heard = calls[c].heard PROVE HeardOK(l, Alone(calls, c))
  BY <1>4, CallFacts DEF HeardOK
<1> QED
  BY <1>1, <1>2, <1>3, <1>4, CallFacts, EndMoves

LEMMA ResumeInitializedStep ==
    ASSUME AppInv, NEW c \in Calls, ResumeInitialized(c)
    PROVE  AppInv'
<1> DEFINE pc == IF ClientOpen THEN "drain" ELSE "failed"
           m == Message(c, "initialized", NoId, NoId)
<1>1. /\ calls[c].pc = "request" /\ calls[c].answer.set /\ calls[c].answer.ok /\ calls[c].op = "connect"
      /\ End(c, calls[c], pc) /\ queue' = IF ClientOpen THEN Append(queue, m) ELSE queue
      /\ UNCHANGED <<config, server, readyState, dispatch, client, session>>
  BY DEF ResumeInitialized, AnsweredOk, serverVars
<1>2. c \notin client.pending /\ ~Settled(c) /\ ~InFlight(c)
  BY <1>1, CallFacts DEF AnswerOK, Settled, GotAnswer, InFlight
<1>3. pc \in {"drain", "failed"} /\ (ClientOpen <=> pc = "drain") /\ m.call = c /\ m.method = "initialized"
  BY DEF Message
<1> HIDE DEF pc, m
<1>4. PICK l : /\ IsCall(l) /\ OnlyCall(c, l) /\ l.pc = pc /\ ~l.answer.set
               /\ l.op = calls[c].op /\ l.thread = calls[c].thread /\ l.turn = calls[c].turn
               /\ l.heard = calls[c].heard /\ l.lost = calls[c].lost /\ l.overlaps = calls[c].overlaps
  BY <1>1, CallFacts, EndFacts
<1>5. HeardOK(l, Alone(calls, c))
  BY <1>1, <1>3, <1>4, CallFacts, NamesFacts DEF HeardOK
<1>6. \A w \in client'.waiters : w.call = c =>
         /\ l.heard[w.method] = NoId /\ l.pc \notin {"new", "ready"}
         /\ l.pc = "request" => c \in client'.pending
         /\ l.pc = "request" /\ l.op \in TurnOps => l.thread # NoId
  BY <1>1, <1>3, <1>4, CallFacts DEF WaiterOK
<1>7. \A w, x \in client'.waiters : w.call = c /\ x.call = c /\ w.method = x.method => w = x
  BY <1>1, ViewFacts DEF AppInv, ViewInv, WaiterInv
<1>8. \/ queue' = queue /\ client'.pending = client.pending
      \/ /\ queue' = Append(queue, m) /\ m.call = c /\ ~InFlight(c) /\ l.pc \notin {"new", "ready", "notified"}
         /\ m.method = "turn/start" => l.op \in TurnOps
         /\ client'.pending = client.pending
  BY <1>1, <1>2, <1>3, <1>4
<1>9. /\ l.pc # "new" /\ ~l.answer.set /\ (l.pc = "drain" => l.op = "connect") /\ l.pc # "ready"
      /\ l.pc \in {"ready", "notified"} => ~InFlight(c)
  BY <1>1, <1>2, <1>3, <1>4
<1>10. /\ DOMAIN session' = SessionFields /\ DOMAIN client' = {"closed", "pending", "waiters"}
       /\ session' = session /\ client' = client
  BY <1>1, CallFacts
<1>11. Heeded /\ session'.activeTurnId # NoId =>
         Runs(session'.activeTurnId) \/ EndsAfter(0, session'.activeTurnId)
  BY <1>10, CallFacts
<1> QED
  BY <1>1, <1>2, <1>4, <1>5, <1>6, <1>7, <1>8, <1>9, <1>10, <1>11, CallMoves

LEMMA ResumeDrainedStep ==
    ASSUME AppInv, NEW c \in Calls, ResumeDrained(c)
    PROVE  AppInv'
<1>1. /\ calls[c].pc = "drain" /\ End(c, calls[c], "done") /\ session' = [session EXCEPT !.connected = TRUE]
      /\ UNCHANGED <<config, server, readyState, dispatch, queue, client>>
  BY DEF ResumeDrained, serverVars
<1>2. c \notin client.pending /\ ~Settled(c) /\ calls[c].op = "connect"
  BY <1>1, CallFacts DEF AnswerOK, Settled
<1>3. \A w \in client.waiters : w.call = c => calls[c].heard[w.method] = NoId
  BY CallFacts DEF WaiterOK
<1>4. ASSUME NEW l, l.pc = "done", l.op = calls[c].op, l.heard = calls[c].heard PROVE HeardOK(l, Alone(calls, c))
  BY <1>2, <1>4, CallFacts, NamesFacts DEF HeardOK
<1>5. /\ DOMAIN session' = SessionFields /\ session'.completedTurnIds = session.completedTurnIds
      /\ session'.activeTurnId = session.activeTurnId
  BY <1>1, CallFacts DEF SessionFields
<1> QED
  BY <1>1, <1>2, <1>3, <1>4, <1>5, CallFacts, EndMoves

LEMMA ResumeSimpleStep ==
    ASSUME AppInv, NEW c \in Calls, ResumeSimple(c)
    PROVE  AppInv'
<1>1. /\ calls[c].pc = "request" /\ calls[c].answer.set /\ End(c, calls[c], "done")
      /\ calls[c].op \in {"readAccount", "request", "startDeviceLogin", "cancelDeviceLogin"}
      /\ \E id : session' = [session EXCEPT !.activeLoginId = id]
      /\ UNCHANGED <<config, server, readyState, dispatch, queue, client>>
  BY DEF ResumeSimple, AnsweredOk, serverVars
<1>2. c \notin client.pending /\ ~Settled(c) /\ calls[c].op # "startPromptTurn"
  BY <1>1, CallFacts DEF AnswerOK, Settled
<1>3. \A w \in client.waiters : w.call = c => calls[c].heard[w.method] = NoId
  BY CallFacts DEF WaiterOK
<1>4. ASSUME NEW l, l.pc = "done", l.op = calls[c].op, l.heard = calls[c].heard PROVE HeardOK(l, Alone(calls, c))
  BY <1>2, <1>4, CallFacts DEF HeardOK
<1>5. /\ DOMAIN session' = SessionFields /\ session'.completedTurnIds = session.completedTurnIds
      /\ session'.activeTurnId = session.activeTurnId
  BY <1>1, CallFacts DEF SessionFields
<1> QED
  BY <1>1, <1>2, <1>3, <1>4, <1>5, CallFacts, EndMoves

LEMMA ResumeTurnStep ==
    ASSUME AppInv, NEW c \in Calls, ResumeTurn(c)
    PROVE  AppInv'
<1>1. PICK turn : turn = IF calls[c].op = "interruptTurn" THEN calls[c].turn ELSE calls[c].answer.id
  OBVIOUS
<1>2. PICK k : k = [calls[c] EXCEPT !.turn = turn]
  OBVIOUS
<1>3. /\ calls[c].pc = "request" /\ calls[c].answer.set /\ calls[c].answer.ok /\ calls[c].thread # NoId
      /\ End(c, k, "notified") /\ session' = Activate(session, calls[c].op, turn)
      /\ UNCHANGED <<config, server, readyState, dispatch, queue, client>>
  BY <1>1, <1>2 DEF ResumeTurn, AnsweredOk, serverVars
<1>4. c \notin client.pending /\ ~Settled(c) /\ ~InFlight(c)
  BY <1>3, CallFacts DEF AnswerOK, Settled, GotAnswer, InFlight
<1>5. /\ IsCall(k) /\ k.op = calls[c].op /\ k.turn = turn /\ k.heard = calls[c].heard
      /\ k.overlaps = calls[c].overlaps
  BY <1>2, CallFacts DEF IsCall, CallFields
<1>6. \A w \in client.waiters : w.call = c => k.heard[w.method] = NoId
  BY <1>5, CallFacts DEF WaiterOK
<1>7. ASSUME NEW l, l.pc = "notified", l.op = k.op, l.turn = k.turn, l.heard = k.heard
      PROVE  HeardOK(l, Alone(calls, c))
  BY <1>1, <1>3, <1>5, <1>7, CallFacts DEF HeardOK
<1>8. /\ DOMAIN session' = SessionFields /\ session'.completedTurnIds = session.completedTurnIds
      /\ \/ session'.activeTurnId = session.activeTurnId
         \/ /\ session'.activeTurnId = turn /\ calls[c].op = "startPendingTurn"
            /\ turn \notin session.completedTurnIds
  BY <1>3, CallFacts DEF SessionFields, Activate
<1>9. Heeded /\ session'.activeTurnId # NoId =>
         Runs(session'.activeTurnId) \/ EndsAfter(0, session'.activeTurnId)
  BY <1>1, <1>3, <1>8, CallFacts DEF PendingOK, GotAnswer
<1> QED
  BY <1>3, <1>4, <1>5, <1>6, <1>7, <1>8, <1>9, EndMoves

LEMMA ResumeNotifiedStep ==
    ASSUME AppInv, NEW c \in Calls, ResumeNotified(c)
    PROVE  AppInv'
<1>1. PICK pc : pc = IF calls[c].lost THEN "failed" ELSE "done"
  OBVIOUS
<1>2. /\ calls[c].pc = "notified" /\ End(c, calls[c], pc)
      /\ calls[c].lost \/ \A m \in Needs(calls[c].op) : calls[c].heard[m] # NoId
      /\ session' = [session EXCEPT !.activeTurnId = NoId] \/ session' = session
      /\ UNCHANGED <<config, server, readyState, dispatch, queue, client>>
  BY <1>1 DEF ResumeNotified, Resumable, serverVars
<1>3. c \notin client.pending /\ ~Settled(c)
  BY <1>2, CallFacts DEF AnswerOK, Settled
<1>4. \A w \in client.waiters : w.call = c => calls[c].heard[w.method] = NoId
  BY CallFacts DEF WaiterOK
<1>5. calls[c].op = "startPromptTurn" => Needs(calls[c].op) = Awaited
  BY DEF Needs
<1>6. ASSUME NEW l, l.pc = pc, l.op = calls[c].op, l.turn = calls[c].turn, l.heard = calls[c].heard
      PROVE  HeardOK(l, Alone(calls, c))
  BY <1>1, <1>2, <1>5, <1>6, CallFacts DEF HeardOK
<1>7. /\ DOMAIN session' = SessionFields /\ session'.completedTurnIds = session.completedTurnIds
      /\ session'.activeTurnId \in {NoId, session.activeTurnId}
  BY <1>2, CallFacts DEF SessionFields
<1>8. pc \in {"done", "failed"}
  BY <1>1
<1> QED
  BY <1>2, <1>3, <1>4, <1>6, <1>7, <1>8, CallFacts, EndMoves

LEMMA NeedsFacts == \A op : Needs(op) \subseteq Awaited
BY DEF Needs, Awaited

\* A turn with a thread sends its request.
LEMMA AskTurnMoves ==
    ASSUME AppInv, NEW c \in Calls, NEW thread, AskTurn(c, calls[c], thread), thread # NoId,
           calls[c].op \in TurnOps, c \notin client.pending, ~InFlight(c), ~Settled(c),
           UNCHANGED <<config, server, readyState, dispatch>>,
           DOMAIN session' = SessionFields, session'.completedTurnIds = session.completedTurnIds,
           session'.activeTurnId = session.activeTurnId,
           \A w \in client.waiters : w.call # c,
           \A m \in Awaited : calls[c].heard[m] = NoId
    PROVE  AppInv'
<1>1. PICK k : k = [calls[c] EXCEPT !.thread = thread]
  OBVIOUS
<1>2. /\ IsCall(k) /\ k.op = calls[c].op /\ k.thread = thread /\ k.heard = calls[c].heard
      /\ k.overlaps = calls[c].overlaps
  BY <1>1, CallFacts DEF IsCall, CallFields
<1>0. PICK op : op = calls[c].op
  OBVIOUS
<1>3. PICK waiters : waiters = {Waiter(c, m, thread, NoId) : m \in Needs(op)}
  OBVIOUS
<1>4. Ask(c, k, waiters, "turn/start", thread, NoId)
  BY <1>0, <1>1, <1>3 DEF AskTurn
<1>5. /\ \A w \in waiters : w.call = c /\ w.method \in Awaited
      /\ \A w, x \in waiters : w.method = x.method => w = x
  BY <1>3, NeedsFacts DEF Waiter
<1> QED
  BY <1>2, <1>4, <1>5, AskMoves

LEMMA ResumeReadyStep ==
    ASSUME AppInv, NEW c \in Calls, ResumeReady(c)
    PROVE  AppInv'
<1>1. calls[c].pc = "ready" /\ UNCHANGED <<config, server, readyState, dispatch, session>>
  BY DEF ResumeReady, serverVars
<1>2. /\ c \notin client.pending /\ ~Settled(c) /\ ~InFlight(c)
      /\ calls[c].op = "connect" \/ (calls[c].op \in TurnOps /\ calls[c].thread # NoId)
      /\ \A m \in Awaited : calls[c].heard[m] = NoId
      /\ \A w \in client.waiters : w.call # c
  BY <1>1, CallFacts DEF AnswerOK, Settled, HeardOK, WaiterOK
<1>3. /\ DOMAIN session' = SessionFields /\ session'.completedTurnIds = session.completedTurnIds
      /\ session'.activeTurnId = session.activeTurnId
  BY <1>1, CallFacts
<1>4. CASE calls[c].op = "connect"
  <2>1. Ask(c, calls[c], {}, "initialize", NoId, NoId)
    BY <1>4 DEF ResumeReady
  <2> QED
    BY <2>1, <1>1, <1>2, <1>3, <1>4, CallFacts, NamesFacts, AskMoves
<1>5. CASE calls[c].op # "connect"
  <2>1. AskTurn(c, calls[c], calls[c].thread)
    BY <1>5 DEF ResumeReady
  <2> QED
    BY <2>1, <1>1, <1>2, <1>3, <1>5, AskTurnMoves
<1> QED
  BY <1>4, <1>5

LEMMA ResumeThreadStep ==
    ASSUME AppInv, NEW c \in Calls, ResumeThread(c)
    PROVE  AppInv'
<1>1. PICK thread : thread = calls[c].answer.id
  OBVIOUS
<1>2. /\ calls[c].pc = "request" /\ calls[c].answer.set /\ calls[c].answer.ok
      /\ calls[c].op \in {"ensureThread"} \cup TurnOps /\ calls[c].thread = NoId
      /\ session' = [session EXCEPT !.threadId = thread]
      /\ UNCHANGED <<config, server, readyState, dispatch>>
      /\ IF calls[c].op \in TurnOps THEN AskTurn(c, calls[c], thread)
         ELSE End(c, calls[c], "done") /\ UNCHANGED <<queue, client>>
  BY <1>1 DEF ResumeThread, AnsweredOk, serverVars
<1>3. /\ c \notin client.pending /\ ~Settled(c) /\ ~InFlight(c)
      /\ calls[c].op \in TurnOps => thread # NoId
  BY <1>1, <1>2, CallFacts DEF AnswerOK, Settled, GotAnswer, InFlight
<1>4. /\ DOMAIN session' = SessionFields /\ session'.completedTurnIds = session.completedTurnIds
      /\ session'.activeTurnId = session.activeTurnId
  BY <1>2, CallFacts DEF SessionFields
<1>5. CASE calls[c].op \in TurnOps
  <2>1. /\ \A m \in Awaited : calls[c].heard[m] = NoId
        /\ \A w \in client.waiters : w.call # c
    BY <1>2, <1>5, CallFacts DEF HeardOK, WaiterOK
  <2> QED
    BY <1>2, <1>3, <1>4, <1>5, <2>1, AskTurnMoves
<1>6. CASE calls[c].op \notin TurnOps
  <2>1. \A w \in client.waiters : w.call = c => calls[c].heard[w.method] = NoId
    BY CallFacts DEF WaiterOK
  <2>2. ASSUME NEW l, l.pc = "done", l.op = calls[c].op, l.heard = calls[c].heard
        PROVE  HeardOK(l, Alone(calls, c))
    BY <1>6, <2>2, CallFacts, NamesFacts DEF HeardOK
  <2> QED
    BY <1>2, <1>3, <1>4, <1>6, <2>1, <2>2, CallFacts, EndMoves
<1> QED
  BY <1>5, <1>6

\* A call of the page: it ends at once, or sends a request.
IsNew(c, k) ==
    /\ calls[c].pc = "new" /\ IsCall(k) /\ \A m \in Awaited : k.heard[m] = NoId
    /\ k.op \in TurnOps => TurnsUnderWay \subseteq k.overlaps
    /\ UNCHANGED <<config, server, readyState, dispatch, session>>

LEMMA NewFacts ==
    ASSUME AppInv, NEW c \in Calls, NEW k, IsNew(c, k)
    PROVE  /\ c \notin client.pending /\ ~InFlight(c) /\ \A w \in client.waiters : w.call # c
           /\ DOMAIN session' = SessionFields /\ session'.completedTurnIds = session.completedTurnIds
           /\ session'.activeTurnId = session.activeTurnId
BY CallFacts DEF IsNew, AnswerOK, WaiterOK

LEMMA NewEnds ==
    ASSUME AppInv, NEW c \in Calls, NEW k, IsNew(c, k), NEW pc, End(c, k, pc), queue' = queue, client' = client,
           \/ pc = "failed"
           \/ pc = "done" /\ k.op # "startPromptTurn"
           \/ pc = "ready" /\ (k.op = "connect" \/ (k.op \in TurnOps /\ k.thread # NoId))
    PROVE  AppInv'
<1>1. ASSUME NEW x, x.pc = pc, x.op = k.op, x.heard = k.heard PROVE HeardOK(x, Alone(calls, c))
  BY <1>1, NamesFacts DEF HeardOK, IsNew
<1>2. /\ pc \in {"ready", "notified", "done", "failed"}
      /\ pc = "ready" => k.op = "connect" \/ (k.op \in TurnOps /\ k.thread # NoId)
  OBVIOUS
<1> QED
  BY <1>1, <1>2, NewFacts, CallFacts, EndMoves DEF IsNew

LEMMA NewAsks ==
    ASSUME AppInv, NEW c \in Calls, NEW k, IsNew(c, k), NEW method, NEW thread, NEW id,
           Ask(c, k, {}, method, thread, id), method # "turn/start",
           k.op \in TurnOps => method = "thread/start" /\ k.thread = NoId
    PROVE  AppInv'
BY NewFacts, AskMoves DEF IsNew

LEMMA SessionCallStep ==
    ASSUME AppInv, NEW c \in Calls, NEW op, SessionCall(c, op)
    PROVE  AppInv'
<1>1. PICK k : k = [NewCall EXCEPT !.op = op, !.overlaps = IF op \in TurnOps THEN TurnsUnderWay ELSE {},
                                  !.thread = session.threadId]
  OBVIOUS
<1>2. PICK t : t = session.activeTurnId
  OBVIOUS
<1>3. PICK l : l = [k EXCEPT !.turn = t]
  OBVIOUS
<1>4. /\ calls[c].pc = "new" /\ Invoke(c, op)
      /\ UNCHANGED <<config, server, readyState, dispatch, session>>
  BY DEF SessionCall, serverVars
<1>5. /\ IsCall(k) /\ k.op = op /\ k.thread = session.threadId /\ \A m \in Awaited : k.heard[m] = NoId
      /\ op \in TurnOps => TurnsUnderWay \subseteq k.overlaps
  BY <1>1 DEF IsCall, CallFields, AnswerFields, NewCall
<1>6. /\ IsCall(l) /\ l.op = op /\ l.thread = session.threadId /\ l.heard = k.heard /\ l.overlaps = k.overlaps
  BY <1>3, <1>5 DEF IsCall, CallFields
<1>7. IsNew(c, k) /\ IsNew(c, l)
  BY <1>4, <1>5, <1>6 DEF IsNew
<1>8. k.op = op /\ l.op = op
  BY <1>5, <1>6
<1>11. CASE session.closed \/ (op # "connect" /\ ~session.connected)
  <2>1. End(c, k, "failed") /\ UNCHANGED <<queue, client>>
    BY <1>1, <1>4, <1>11 DEF Invoke
  <2> QED
    BY <2>1, <1>7, <1>8, NewEnds
<1>12. CASE ~(session.closed \/ (op # "connect" /\ ~session.connected))
  <2>1. CASE op = "connect"
    <3>1. PICK pc : pc = IF session.connected THEN "done" ELSE "ready"
      OBVIOUS
    <3>2. End(c, k, pc) /\ UNCHANGED <<queue, client>>
      BY <1>1, <1>4, <1>12, <2>1, <3>1 DEF Invoke, TurnOps
    <3>3. pc \in {"done", "ready"}
      BY <3>1
    <3> QED
      BY <2>1, <3>2, <3>3, <1>7, <1>8, NewEnds
  <2>2. CASE op = "readAccount"
    <3>1. Ask(c, k, {}, "account/read", NoId, NoId)
      BY <1>1, <1>4, <1>12, <2>2 DEF Invoke, TurnOps
    <3> QED
      BY <2>2, <3>1, <1>7, <1>8, NewAsks DEF TurnOps
  <2>3. CASE op = "request"
    <3>1. Ask(c, k, {}, "unsupported", NoId, NoId)
      BY <1>1, <1>4, <1>12, <2>3 DEF Invoke, TurnOps
    <3> QED
      BY <2>3, <3>1, <1>7, <1>8, NewAsks DEF TurnOps
  <2>4. CASE op = "startDeviceLogin"
    <3>1. Ask(c, k, {}, "account/login/start", NoId, NoId)
      BY <1>1, <1>4, <1>12, <2>4 DEF Invoke, TurnOps
    <3> QED
      BY <2>4, <3>1, <1>7, <1>8, NewAsks DEF TurnOps
  <2>5. CASE op = "cancelDeviceLogin"
    <3>1. IF session.activeLoginId = NoId
          THEN End(c, k, "failed") /\ UNCHANGED <<queue, client>>
          ELSE Ask(c, k, {}, "account/login/cancel", NoId, session.activeLoginId)
      BY <1>1, <1>4, <1>12, <2>5 DEF Invoke, TurnOps
    <3>2. CASE session.activeLoginId = NoId
      BY <3>1, <3>2, <1>7, <1>8, NewEnds
    <3>3. CASE session.activeLoginId # NoId
      BY <2>5, <3>1, <3>3, <1>7, <1>8, NewAsks DEF TurnOps
    <3> QED
      BY <3>2, <3>3
  <2>6. CASE op = "ensureThread" /\ k.thread # NoId
    <3>1. End(c, k, "done") /\ UNCHANGED <<queue, client>>
      BY <1>1, <1>4, <1>12, <2>6 DEF Invoke, TurnOps
    <3> QED
      BY <2>6, <3>1, <1>7, <1>8, NewEnds
  <2>7. CASE op \in TurnOps /\ k.thread # NoId
    <3>1. End(c, k, "ready") /\ UNCHANGED <<queue, client>>
      <4>1. op \notin {"connect", "readAccount", "request", "startDeviceLogin", "cancelDeviceLogin", "ensureThread", "interruptTurn"}
        BY <2>7 DEF TurnOps
      <4> QED
        BY <1>1, <1>4, <1>12, <2>7, <4>1 DEF Invoke
    <3> QED
      BY <2>7, <3>1, <1>7, <1>8, NewEnds
  <2>8. CASE op = "interruptTurn"
    <3>1. PICK waiters : waiters = {Waiter(c, Completed, NoId, t)}
      OBVIOUS
    <3>2. IF k.thread = NoId \/ t = NoId
          THEN End(c, k, "failed") /\ UNCHANGED <<queue, client>>
          ELSE Ask(c, l, waiters, "turn/interrupt", k.thread, t)
      BY <1>1, <1>2, <1>3, <1>4, <1>12, <2>8, <3>1 DEF Invoke, TurnOps
    <3>3. CASE k.thread = NoId \/ t = NoId
      BY <3>2, <3>3, <1>7, <1>8, NewEnds
    <3>4. CASE ~(k.thread = NoId \/ t = NoId)
      <4>1. /\ \A w \in waiters : w.call = c /\ w.method \in Awaited
            /\ \A w, x \in waiters : w.method = x.method => w = x
        BY <3>1, NamesFacts DEF Waiter
      <4>2. l.op \notin TurnOps /\ \A m \in Awaited : l.heard[m] = NoId
        BY <1>5, <1>6, <2>8, NamesFacts
      <4>3. Ask(c, l, waiters, "turn/interrupt", k.thread, t)
        BY <3>2, <3>4
      <4> QED
        BY <4>1, <4>2, <4>3, <1>6, <1>7, NewFacts, AskMoves DEF IsNew
    <3> QED
      BY <3>3, <3>4
  <2>9. CASE /\ op \notin {"connect", "readAccount", "request", "startDeviceLogin", "cancelDeviceLogin", "interruptTurn"}
             /\ ~(op = "ensureThread" /\ k.thread # NoId) /\ ~(op \in TurnOps /\ k.thread # NoId)
    <3>1. Ask(c, k, {}, "thread/start", NoId, NoId)
      BY <1>1, <1>4, <1>12, <2>9 DEF Invoke, TurnOps
    <3> QED
      BY <2>9, <3>1, <1>7, <1>8, NewAsks
  <2> QED
    BY <2>1, <2>2, <2>3, <2>4, <2>5, <2>6, <2>7, <2>8, <2>9
<1> QED
  BY <1>11, <1>12

-----------------------------------------------------------------------------
(* The view after some frames becomes the state *)

\* The call k has become l: only its answer may differ, and an answer given up is an error.
Keeps(k, l) ==
    /\ IsCall(l) /\ l.op = k.op /\ l.pc = k.pc /\ l.thread = k.thread /\ l.turn = k.turn
    /\ l.heard = k.heard /\ l.overlaps = k.overlaps

LEMMA AddCancels == \A i, h, j \in Nat : i + j = h + j => i = h
OBVIOUS

\* Requests and waiters may fail, the head of the queue may go.
LEMMA ViewBecomes ==
    ASSUME AppInv, NEW v, NEW n \in Nat, ViewInv(v, n), Follows(v),
           dispatch' = Idle \/ (dispatch' = dispatch /\ n = 0),
           Heeded' => /\ Heeded /\ session'.activeTurnId = v.session.activeTurnId
                      /\ session'.completedTurnIds = v.session.completedTurnIds
                      /\ dispatch' = dispatch \/ n = Len(frames),
           UNCHANGED <<config, server>>, DOMAIN session' = SessionFields,
           IsSeq(queue'), NEW j \in {0, 1},
           \A i \in DOMAIN queue' : i + j \in DOMAIN queue /\ queue'[i] = queue[i + j],
           DOMAIN client' = {"closed", "pending", "waiters"}, client'.closed => readyState' # "open",
           client'.pending \subseteq v.client.pending, client'.waiters \subseteq v.client.waiters,
           \A w \in client'.waiters : w.call \in v.client.pending => w.call \in client'.pending,
           DOMAIN calls' = Calls, \A c \in Calls : Keeps(v.calls[c], calls'[c]),
           \A c \in Calls : \/ calls'[c].answer = v.calls[c].answer
                            \/ c \notin client'.pending /\ calls'[c].answer.set /\ ~calls'[c].answer.ok
    PROVE  AppInv'
<1>1. /\ (Prompt' <=> Prompt) /\ \A t : Runs(t)' <=> Runs(t)
  BY DEF Prompt, Runs
<1>2. frames' = <<>> \/ (frames' = frames /\ n = 0 /\ dispatch' = dispatch)
  BY DEF frames, Idle
<1>3. IsView(v) /\ \A c \in Calls : IsCall(v.calls[c]) /\ SameCall(calls[c], v.calls[c])
  BY DEF ViewInv, IsView, Follows
<1>4. \A c \in Calls : /\ calls'[c].op = calls[c].op /\ calls'[c].pc = calls[c].pc
                       /\ calls'[c].thread = calls[c].thread /\ calls'[c].overlaps = calls[c].overlaps
  BY <1>3 DEF SameCall, Keeps
<1>5. /\ IsSeq(frames) /\ Len(frames) \in Nat /\ DOMAIN frames = 1 .. Len(frames)
      /\ DOMAIN <<>> = {} /\ DOMAIN queue' \subseteq Nat /\ DOMAIN queue \subseteq Nat
  <2>1. IsSeq(frames) /\ IsSeq(queue)
    BY DEF AppInv, StateInv
  <2>2. Len(frames) \in Nat /\ DOMAIN frames = 1 .. Len(frames)
    BY <2>1, SeqFacts
  <2>3. DOMAIN queue = 1 .. Len(queue) /\ DOMAIN queue' = 1 .. Len(queue')
        /\ Len(queue) \in Nat /\ Len(queue') \in Nat
    BY <2>1, SeqFacts
  <2>4. DOMAIN <<>> = {}
    OBVIOUS
  <2>5. DOMAIN queue \subseteq Nat /\ DOMAIN queue' \subseteq Nat
    BY <2>3
  <2> QED
    BY <2>1, <2>2, <2>4, <2>5
<1>6. \A c : (Queued(c)' => Queued(c)) /\ (Replying(c)' => Replying(c) /\ n = 0 /\ frames' = frames)
  BY <1>2 DEF Queued, Replying
<1>7. StateInv'
  <2>1. DOMAIN dispatch' = {"busy", "frames"} /\ IsSeq(frames') /\ (frames' # <<>> => dispatch'.busy)
    BY <1>2, <1>5, EmptyIsSeq DEF AppInv, StateInv, Idle
  <2>2. \A i \in DOMAIN queue' : queue'[i].call \in Calls
    BY DEF AppInv, StateInv
  <2> QED
    BY <1>1, <2>1, <2>2 DEF AppInv, StateInv
<1>8. FlightInv'
  <2>1. \A i, h \in DOMAIN queue' : queue'[i].call = queue'[h].call => i = h
    <3> SUFFICES ASSUME NEW i \in DOMAIN queue', NEW h \in DOMAIN queue', queue'[i].call = queue'[h].call
                 PROVE  i = h
      OBVIOUS
    <3>1. i + j = h + j
      BY DEF AppInv, FlightInv
    <3>2. i \in Nat /\ h \in Nat
      BY <1>5, Zenon
    <3>3. j \in Nat
      OBVIOUS
    <3> QED
      BY <3>1, <3>2, <3>3, AddCancels
  <2> QED
    BY <1>4, <1>6, <2>1 DEF AppInv, FlightInv, InFlight
<1>9. MessageInv'
  <2> SUFFICES ASSUME NEW i \in DOMAIN queue'
               PROVE  LET c == queue'[i].call
                      IN  /\ c \in client'.pending => Asks(queue'[i], calls'[c])
                          /\ queue'[i].method = "turn/start" => calls'[c].op \in TurnOps
    BY DEF MessageInv, Asks
  <2>1. queue'[i].call \in Calls
    BY DEF AppInv, StateInv
  <2>2. v.client.pending \subseteq client.pending
    BY DEF Follows
  <2> QED
    BY <1>4, <2>1, <2>2 DEF AppInv, MessageInv, Asks
<1>10. FrameInv'
  <2>1. CASE frames' = <<>>
    BY <2>1, <1>5 DEF FrameInv
  <2>2. CASE frames' = frames /\ frames # <<>>
    <3>1. \A i, t : EndsAfter(i, t)' <=> EndsAfter(i, t)
      BY <2>2 DEF EndsAfter, Ends
    <3>2. frames[1].call \in Calls
      BY <2>2 DEF AppInv, FrameInv
    <3> QED
      BY <2>2, <3>1, <3>2, <1>1, <1>4 DEF AppInv, FrameInv
  <2> QED
    BY <2>1, <2>2, <1>2
<1>11. ReplyInv'
  <2>1. CASE frames' = <<>>
    BY <2>1 DEF ReplyInv
  <2>2. CASE frames' = frames /\ frames # <<>>
    <3>1. \A i, t : EndsAfter(i, t)' <=> EndsAfter(i, t)
      BY <2>2 DEF EndsAfter, Ends
    <3>2. frames[1].call \in Calls /\ v.client.pending \subseteq client.pending
      BY <2>2 DEF AppInv, FrameInv, Follows
    <3> QED
      BY <2>2, <3>1, <3>2, <1>1, <1>4 DEF AppInv, ReplyInv
  <2> QED
    BY <2>1, <2>2, <1>2
<1>12. OverlapInv'
  <2>1. \A c \in Calls : Live(c)' => Live(c)
    BY <1>4, <1>6 DEF Live, Settled, InFlight
  <2> QED
    BY <2>1, <1>4 DEF AppInv, OverlapInv
<1>13. View'.client = client' /\ View'.session = session' /\ View'.calls = calls'
  BY DEF View
<1>14. IsView(View)'
  <2>1. \A c \in Calls : IsCall(calls'[c])
    BY DEF Keeps
  <2>2. DOMAIN View' = {"client", "session", "calls"}
    BY DEF View
  <2> QED
    BY <1>3, <1>13, <2>1, <2>2 DEF IsView, IsCall
<1>15. AnswerInv(View, 0)'
  <2> SUFFICES ASSUME NEW c \in Calls PROVE AnswerOK(c, calls[c], c \in client.pending, 0)'
    BY <1>13 DEF AnswerInv
  <2>1. AnswerOK(c, v.calls[c], c \in v.client.pending, n) /\ Keeps(v.calls[c], calls'[c])
    BY DEF ViewInv, AnswerInv
  <2> QED
    BY <2>1, <1>6 DEF AnswerOK, GotAnswer, Keeps
<1>16. WaiterInv(View, 0)'
  <2>1. ASSUME NEW w, w \in client'.waiters
        PROVE  WaiterOK(w, calls[w.call], w.call \in client.pending, 0)'
    <3>1. w \in v.client.waiters /\ w.call \in Calls
      BY <2>1, <1>3 DEF IsView
    <3>2. WaiterOK(w, v.calls[w.call], w.call \in v.client.pending, n) /\ Keeps(v.calls[w.call], calls'[w.call])
      BY <3>1 DEF ViewInv, WaiterInv
    <3>3. /\ w.call \in v.client.pending => w.call \in client'.pending
          /\ calls'[w.call].answer = v.calls[w.call].answer \/ calls'[w.call].answer.set
      BY <2>1, <3>1
    <3> QED
      BY <3>2, <3>3 DEF WaiterOK, Keeps
  <2>2. ASSUME NEW w, NEW x, w \in client'.waiters, x \in client'.waiters, w.call = x.call, w.method = x.method
        PROVE  w = x
    BY <2>2 DEF ViewInv, WaiterInv
  <2> QED
    BY <1>13, <2>1, <2>2 DEF WaiterInv
<1>17. HeardInv(View)'
  <2> SUFFICES ASSUME NEW c \in Calls PROVE HeardOK(calls[c], Alone(calls, c))'
    BY <1>13 DEF HeardInv
  <2>1. HeardOK(v.calls[c], Alone(v.calls, c)) /\ Keeps(v.calls[c], calls'[c])
    BY DEF ViewInv, HeardInv
  <2>2. Alone(calls, c)' => Alone(v.calls, c)
    BY DEF Alone, Keeps
  <2>3. calls'[c].answer = v.calls[c].answer \/ (calls'[c].answer.set /\ ~calls'[c].answer.ok)
    OBVIOUS
  <2> QED
    BY <1>1, <2>1, <2>2, <2>3 DEF HeardOK, Keeps
<1>18. ActiveInv(View, 0)'
  <2> SUFFICES ASSUME Heeded'
               PROVE  /\ session'.activeTurnId # NoId =>
                            Runs(session.activeTurnId)' \/ EndsAfter(0, session.activeTurnId)'
                      /\ \A c \in Calls : PendingOK(calls[c], 0, session.completedTurnIds)'
    BY <1>13 DEF ActiveInv
  <2>1. \A t : EndsAfter(n, t) => EndsAfter(0, t)'
    <3>1. CASE dispatch' = dispatch /\ frames' = frames /\ n = 0
      BY <3>1 DEF EndsAfter, Ends
    <3>2. CASE n = Len(frames)
      BY <3>2, <1>5 DEF EndsAfter
    <3>3. dispatch' = dispatch \/ n = Len(frames)
      OBVIOUS
    <3>4. dispatch' = dispatch => frames' = frames
      BY DEF frames
    <3>5. dispatch' = dispatch => n = 0 \/ dispatch = Idle
      OBVIOUS
    <3>6. dispatch = Idle => Len(frames) = 0
      BY DEF frames, Idle
    <3>7. CASE dispatch = Idle
      BY <3>6, <3>7, <1>5 DEF EndsAfter
    <3> QED
      BY <3>1, <3>2, <3>3, <3>4, <3>5, <3>7
  <2>2. ActiveInv(v, n) /\ Heeded
    BY DEF ViewInv
  <2>3. ASSUME NEW c \in Calls PROVE PendingOK(calls[c], 0, session.completedTurnIds)'
    <3>1. PendingOK(v.calls[c], n, v.session.completedTurnIds) /\ Keeps(v.calls[c], calls'[c])
      BY <2>2 DEF ActiveInv
    <3> QED
      BY <3>1, <1>1, <2>1 DEF PendingOK, GotAnswer, Keeps
  <2> QED
    BY <1>1, <2>1, <2>2, <2>3 DEF ActiveInv
<1> QED
  BY <1>7, <1>8, <1>9, <1>10, <1>11, <1>12, <1>14, <1>15, <1>16, <1>17, <1>18 DEF AppInv, ViewInv

LEMMA RejectFacts ==
    ASSUME NEW v, IsView(v), NEW cs, cs = rejectPending(v.calls, v.client)
    PROVE  /\ DOMAIN cs = Calls /\ \A c \in Calls : Keeps(v.calls[c], cs[c])
           /\ \A c \in Calls : \/ cs[c].answer = v.calls[c].answer
                               \/ cs[c].answer.set /\ ~cs[c].answer.ok
<1>1. DOMAIN cs = Calls
  BY DEF rejectPending, Rejected
<1>2. ASSUME NEW c \in Calls
      PROVE  /\ Keeps(v.calls[c], cs[c])
             /\ cs[c].answer = v.calls[c].answer \/ (cs[c].answer.set /\ ~cs[c].answer.ok)
  <2>1. PICK k : k = v.calls[c]
    OBVIOUS
  <2>2. IsCall(k)
    BY <2>1 DEF IsView
  <2>3. PICK a, lost : /\ cs[c] = [k EXCEPT !.answer = a, !.lost = lost]
                       /\ a = k.answer \/ a = Reply(FALSE, NoId)
    BY <2>1 DEF rejectPending, Rejected
  <2>4. /\ Reply(FALSE, NoId).set = TRUE /\ Reply(FALSE, NoId).ok = FALSE
        /\ DOMAIN Reply(FALSE, NoId) = AnswerFields
    BY DEF Reply, AnswerFields
  <2>5. /\ cs[c].answer = a /\ DOMAIN cs[c] = CallFields /\ cs[c].op = k.op /\ cs[c].pc = k.pc
        /\ cs[c].thread = k.thread /\ cs[c].turn = k.turn /\ cs[c].heard = k.heard
        /\ cs[c].overlaps = k.overlaps
    BY <2>2, <2>3 DEF IsCall, CallFields
  <2>6. DOMAIN a = AnswerFields /\ a.ok \in BOOLEAN /\ a.set \in BOOLEAN
    BY <2>2, <2>3, <2>4 DEF IsCall
  <2>7. IsCall(cs[c])
    BY <2>2, <2>5, <2>6 DEF IsCall
  <2> QED
    BY <2>1, <2>3, <2>4, <2>5, <2>7 DEF Keeps
<1> QED
  BY <1>1, <1>2

LEMMA SameKeeps ==
    ASSUME NEW v, IsView(v)
    PROVE  \A c \in Calls : Keeps(v.calls[c], v.calls[c])
BY DEF IsView, Keeps

LEMMA QueueFacts ==
    ASSUME AppInv
    PROVE  IsSeq(queue) /\ \A i \in DOMAIN queue : i + 0 \in DOMAIN queue /\ queue[i] = queue[i + 0]
<1>1. IsSeq(queue)
  BY DEF AppInv, StateInv
<1>2. DOMAIN queue = 1 .. Len(queue) /\ Len(queue) \in Nat
  BY <1>1, SeqFacts
<1> QED
  BY <1>1, <1>2

LEMMA QueueTail ==
    ASSUME AppInv, queue # <<>>
    PROVE  /\ IsSeq(Tail(queue)) /\ Head(queue) = queue[1] /\ 1 \in DOMAIN queue
           /\ DOMAIN Tail(queue) = 1 .. Len(queue) - 1 /\ DOMAIN queue = 1 .. Len(queue) /\ Len(queue) \in Nat
           /\ \A i \in DOMAIN Tail(queue) : i + 1 \in DOMAIN queue /\ Tail(queue)[i] = queue[i + 1]
<1>1. IsSeq(queue)
  BY DEF AppInv, StateInv
<1>2. DOMAIN queue = 1 .. Len(queue) /\ Len(queue) \in Nat
  BY <1>1, SeqFacts
<1>3. /\ Len(queue) \in Nat \ {0} /\ IsSeq(Tail(queue)) /\ Len(Tail(queue)) = Len(queue) - 1
      /\ \A i \in 1 .. Len(queue) - 1 : Tail(queue)[i] = queue[i + 1] /\ Head(queue) = queue[1]
      /\ Head(queue) = queue[1]
  BY <1>1, TailFacts
<1>4. DOMAIN Tail(queue) = 1 .. Len(queue) - 1
  BY <1>3, SeqFacts
<1> QED
  BY <1>2, <1>3, <1>4

LEMMA ViewHolds ==
    ASSUME AppInv
    PROVE  /\ ViewInv(View, 0) /\ Follows(View) /\ IsView(View)
           /\ View.client = client /\ View.session = session /\ View.calls = calls
           /\ DOMAIN calls = Calls /\ DOMAIN session = SessionFields
           /\ DOMAIN client = {"closed", "pending", "waiters"}
BY ViewFacts DEF AppInv, ViewInv, IsView, Follows, SameCall

LEMMA EmitFramesStep ==
    ASSUME AppInv, EmitFrames
    PROVE  AppInv'
<1>1. PICK n : n = IF readyState = "open" THEN Len(frames) ELSE 0
  OBVIOUS
<1>2. Len(frames) \in Nat
  BY SeqFacts DEF AppInv, StateInv
<1>3. n \in Nat /\ n \in 0 .. Len(frames)
  BY <1>1, <1>2
<1>4. PICK v : v = Received(n)
  OBVIOUS
<1>5. ViewInv(v, n) /\ Follows(v) /\ IsView(v)
  BY <1>3, <1>4, ReceivedInv DEF ViewInv
<1>6. /\ client' = v.client /\ session' = v.session /\ calls' = v.calls /\ dispatch' = Idle
      /\ UNCHANGED <<config, server, readyState, queue>>
  BY <1>1, <1>4 DEF EmitFrames, serverVars, frames
<1>7. Heeded' => Heeded /\ n = Len(frames)
  BY <1>1, <1>6 DEF Heeded
<1>8. client'.closed => readyState' # "open"
  BY <1>5, <1>6 DEF AppInv, StateInv, Follows
<1>9. DOMAIN session' = SessionFields /\ DOMAIN client' = {"closed", "pending", "waiters"} /\ DOMAIN calls' = Calls
  BY <1>5, <1>6 DEF IsView
<1>10. \A c \in Calls : Keeps(v.calls[c], calls'[c])
  BY <1>5, <1>6, SameKeeps
<1>11. \A i \in DOMAIN queue' : i + 0 \in DOMAIN queue /\ queue'[i] = queue[i + 0]
  BY <1>6, QueueFacts
<1>12. IsSeq(queue') /\ 0 \in {0, 1}
  BY <1>6, QueueFacts
<1> QED
  BY <1>3, <1>5, <1>6, <1>7, <1>8, <1>9, <1>10, <1>11, <1>12, ViewBecomes

\* What closing does to the view h it starts from: a view v of the frames received,
\* but for what the session has noted since.
LEMMA CloseBecomes ==
    ASSUME AppInv, NEW v, NEW n \in Nat, ViewInv(v, n), Follows(v),
           NEW h, h.client = v.client, h.calls = v.calls, DOMAIN h.session = SessionFields, CloseSession(h),
           dispatch' = Idle \/ (dispatch' = dispatch /\ n = 0),
           UNCHANGED <<config, server, queue>>
    PROVE  AppInv'
<1>1. IsView(v) /\ v.client.closed = client.closed
  BY DEF ViewInv, Follows
<1>2. /\ DOMAIN session' = SessionFields /\ DOMAIN client' = {"closed", "pending", "waiters"}
      /\ client'.pending \subseteq v.client.pending /\ client'.waiters \subseteq v.client.waiters
      /\ \A w \in client'.waiters : w.call \in v.client.pending => w.call \in client'.pending
  BY <1>1 DEF CloseSession, IsView, SessionFields
<1>3. readyState' # "open"
  BY <1>1 DEF CloseSession, AppInv, StateInv
<1>4. ~Heeded'
  BY <1>3 DEF Heeded
<1>5. /\ DOMAIN calls' = Calls /\ \A c \in Calls : Keeps(v.calls[c], calls'[c])
      /\ \A c \in Calls : \/ calls'[c].answer = v.calls[c].answer
                          \/ c \notin client'.pending /\ calls'[c].answer.set /\ ~calls'[c].answer.ok
  <2>1. CASE v.client.closed
    <3>1. calls' = v.calls
      BY <2>1 DEF CloseSession
    <3> QED
      BY <3>1, <1>1, SameKeeps DEF IsView
  <2>2. CASE ~v.client.closed
    <3>1. calls' = rejectPending(v.calls, v.client) /\ client'.pending = {}
      BY <2>2 DEF CloseSession
    <3> QED
      BY <3>1, <1>1, RejectFacts
  <2> QED
    BY <2>1, <2>2
<1>6. \A i \in DOMAIN queue' : i + 0 \in DOMAIN queue /\ queue'[i] = queue[i + 0]
  BY QueueFacts
<1>7. IsSeq(queue') /\ 0 \in {0, 1}
  BY QueueFacts
<1> QED
  BY <1>2, <1>3, <1>4, <1>5, <1>6, <1>7, ViewBecomes

LEMMA EmitUntilClosedStep ==
    ASSUME AppInv, NEW k \in 2 .. Len(dispatch.frames), EmitUntilClosed(k)
    PROVE  AppInv'
<1>1. Len(frames) \in Nat
  BY SeqFacts DEF AppInv, StateInv
<1>2. k - 1 \in Nat /\ k - 1 \in 0 .. Len(frames)
  BY <1>1 DEF frames
<1>3. PICK v : v = Received(k - 1)
  OBVIOUS
<1>4. ViewInv(v, k - 1) /\ Follows(v) /\ IsView(v)
  BY <1>2, <1>3, ReceivedInv DEF ViewInv
<1>5. PICK h : h = [v EXCEPT !.session = applyNotification(@, frames[k])]
  OBVIOUS
<1>6. h.client = v.client /\ h.calls = v.calls /\ h.session = applyNotification(v.session, frames[k])
  BY <1>4, <1>5 DEF IsView
<1>7. DOMAIN h.session = SessionFields
  BY <1>4, <1>6, ApplyFacts DEF IsView
<1>8. CloseSession(h) /\ dispatch' = Idle /\ UNCHANGED <<config, server, queue>>
  BY <1>3, <1>5 DEF EmitUntilClosed, serverVars, frames
<1> QED
  BY <1>2, <1>4, <1>6, <1>7, <1>8, CloseBecomes

LEMMA SessionClosesStep ==
    ASSUME AppInv, SessionCloses
    PROVE  AppInv'
<1>1. PICK v : v = View
  OBVIOUS
<1>2. ViewInv(v, 0) /\ Follows(v) /\ DOMAIN v.session = SessionFields
  BY <1>1, ViewHolds
<1>3. CloseSession(v) /\ dispatch' = dispatch /\ UNCHANGED <<config, server, queue>>
  BY <1>1 DEF SessionCloses, serverVars
<1> QED
  BY <1>2, <1>3, CloseBecomes

LEMMA DispatchFailsStep ==
    ASSUME AppInv, DispatchFails
    PROVE  AppInv'
<1>1. PICK v : v = View
  OBVIOUS
<1>2. /\ ViewInv(v, 0) /\ Follows(v) /\ IsView(v) /\ v.client = client /\ v.session = session
      /\ v.calls = calls /\ DOMAIN session = SessionFields
      /\ DOMAIN client = {"closed", "pending", "waiters"}
  BY <1>1, ViewHolds
<1>3. /\ queue # <<>> /\ queue' = Tail(queue) /\ calls' = rejectPending(v.calls, v.client)
      /\ client' = [client EXCEPT !.pending = {}, !.waiters = {}]
      /\ UNCHANGED <<config, server, readyState, dispatch, session>>
  BY <1>2 DEF DispatchFails, serverVars
<1>4. /\ DOMAIN client' = {"closed", "pending", "waiters"} /\ client'.pending = {} /\ client'.waiters = {}
      /\ client'.closed => readyState' # "open"
  BY <1>2, <1>3 DEF AppInv, StateInv
<1>5. Heeded' => Heeded
  BY <1>3 DEF Heeded
<1>6. /\ DOMAIN calls' = Calls /\ \A c \in Calls : Keeps(v.calls[c], calls'[c])
      /\ \A c \in Calls : \/ calls'[c].answer = v.calls[c].answer
                          \/ calls'[c].answer.set /\ ~calls'[c].answer.ok
  BY <1>2, <1>3, RejectFacts
<1>7. \A i \in DOMAIN queue' : i + 1 \in DOMAIN queue /\ queue'[i] = queue[i + 1]
  BY <1>3, QueueTail
<1>8. IsSeq(queue') /\ 1 \in {0, 1}
  BY <1>3, QueueTail
<1> QED
  BY <1>2, <1>3, <1>4, <1>5, <1>6, <1>7, <1>8, ViewBecomes

LEMMA SocketClosesStep ==
    ASSUME AppInv, SocketCloses
    PROVE  AppInv'
<1>1. PICK v : v = View
  OBVIOUS
<1>2. /\ ViewInv(v, 0) /\ Follows(v) /\ IsView(v) /\ v.client = client /\ v.session = session
      /\ v.calls = calls /\ DOMAIN session = SessionFields /\ DOMAIN calls = Calls
      /\ DOMAIN client = {"closed", "pending", "waiters"}
  BY <1>1, ViewHolds
<1>3. /\ readyState' = "closing"
      /\ UNCHANGED <<config, server, queue, client, calls, dispatch, session>>
  BY DEF SocketCloses, serverVars
<1>4. ~Heeded'
  BY <1>3 DEF Heeded
<1>5. \A c \in Calls : Keeps(v.calls[c], calls'[c])
  BY <1>2, <1>3, SameKeeps
<1>6. \A i \in DOMAIN queue' : i + 0 \in DOMAIN queue /\ queue'[i] = queue[i + 0]
  BY <1>3, QueueFacts
<1>7. IsSeq(queue') /\ 0 \in {0, 1}
  BY <1>3, QueueFacts
<1> QED
  BY <1>2, <1>3, <1>4, <1>5, <1>6, <1>7, ViewBecomes

LEMMA SocketClosedStep ==
    ASSUME AppInv, SocketClosed
    PROVE  AppInv'
<1>1. PICK v : v = View
  OBVIOUS
<1>2. /\ ViewInv(v, 0) /\ Follows(v) /\ IsView(v) /\ v.client = client /\ v.session = session
      /\ v.calls = calls /\ DOMAIN session = SessionFields
  BY <1>1, ViewHolds
<1>3. /\ readyState' = "closed" /\ calls' = rejectPending(v.calls, v.client)
      /\ client' = [closed |-> TRUE, pending |-> {}, waiters |-> {}]
      /\ DOMAIN session' = SessionFields
      /\ UNCHANGED <<config, server, queue, dispatch>>
  BY <1>2 DEF SocketClosed, serverVars, SessionFields
<1>4. ~Heeded' /\ DOMAIN client' = {"closed", "pending", "waiters"} /\ client'.pending = {} /\ client'.waiters = {}
  BY <1>3 DEF Heeded
<1>5. /\ DOMAIN calls' = Calls /\ \A c \in Calls : Keeps(v.calls[c], calls'[c])
      /\ \A c \in Calls : \/ calls'[c].answer = v.calls[c].answer
                          \/ calls'[c].answer.set /\ ~calls'[c].answer.ok
  BY <1>2, <1>3, RejectFacts
<1>6. \A i \in DOMAIN queue' : i + 0 \in DOMAIN queue /\ queue'[i] = queue[i + 0]
  BY <1>3, QueueFacts
<1>7. IsSeq(queue') /\ 0 \in {0, 1}
  BY <1>3, QueueFacts
<1> QED
  BY <1>2, <1>3, <1>4, <1>5, <1>6, <1>7, ViewBecomes

LEMMA WaiterTimesOutStep ==
    ASSUME AppInv, NEW w, WaiterTimesOut(w)
    PROVE  AppInv'
<1>1. PICK v : v = View
  OBVIOUS
<1>2. /\ ViewInv(v, 0) /\ Follows(v) /\ IsView(v) /\ v.client = client /\ v.session = session
      /\ v.calls = calls /\ DOMAIN session = SessionFields /\ DOMAIN calls = Calls
      /\ DOMAIN client = {"closed", "pending", "waiters"}
  BY <1>1, ViewHolds
<1>3. /\ w \in client.waiters /\ client' = [client EXCEPT !.waiters = @ \ {w}]
      /\ calls' = [calls EXCEPT ![w.call].lost = TRUE]
      /\ UNCHANGED <<config, server, readyState, queue, dispatch, session>>
  BY DEF WaiterTimesOut, serverVars
<1>4. /\ DOMAIN client' = {"closed", "pending", "waiters"} /\ client'.pending = client.pending
      /\ client'.waiters \subseteq client.waiters /\ client'.closed = client.closed
  BY <1>2, <1>3
<1>5. Heeded' => Heeded
  BY <1>3 DEF Heeded
<1>6. DOMAIN calls' = Calls
  BY <1>2, <1>3
<1>7. ASSUME NEW c \in Calls PROVE Keeps(v.calls[c], calls'[c]) /\ calls'[c].answer = v.calls[c].answer
  <2>1. IsCall(calls[c]) /\ (calls'[c] = calls[c] \/ calls'[c] = [calls[c] EXCEPT !.lost = TRUE])
    BY <1>2, <1>3 DEF IsView
  <2> QED
    BY <1>2, <2>1 DEF Keeps, IsCall, CallFields
<1>8. \A i \in DOMAIN queue' : i + 0 \in DOMAIN queue /\ queue'[i] = queue[i + 0]
  BY <1>3, QueueFacts
<1>9. IsSeq(queue') /\ 0 \in {0, 1} /\ (client'.closed => readyState' # "open")
  BY <1>3, <1>4, QueueFacts DEF AppInv, StateInv
<1> QED
  BY <1>2, <1>3, <1>4, <1>5, <1>6, <1>7, <1>8, <1>9, ViewBecomes

-----------------------------------------------------------------------------
(* The runtime handles a message *)

LEMMA ExceptFacts ==
    ASSUME NEW s, IsSeq(s), NEW i \in DOMAIN s, NEW x
    PROVE  /\ IsSeq([s EXCEPT ![i] = x]) /\ DOMAIN [s EXCEPT ![i] = x] = DOMAIN s
           /\ \A j \in DOMAIN s : [s EXCEPT ![i] = x][j] = IF j = i THEN x ELSE s[j]
<1>1. PICK S : s \in Seq(S)
  BY DEF IsSeq
<1> DEFINE U == S \cup {x}
<1>2. s \in Seq(U) /\ x \in U /\ i \in 1 .. Len(s)
  BY <1>1
<1> HIDE DEF U
<1>3. [s EXCEPT ![i] = x] \in Seq(U)
  BY <1>2, ExceptSeq
<1> QED
  BY <1>3 DEF IsSeq

GoodServer(s) ==
    /\ DOMAIN s = {"threads", "turns", "logins", "optOut"}
    /\ s.threads \in Nat /\ IsSeq(s.turns) /\ IsSeq(s.logins) /\ s.optOut \in {{}, config.optOut}
    /\ \A t \in DOMAIN s.turns : DOMAIN s.turns[t] = {"thread", "status"}
    /\ Prompt => \A t \in DOMAIN s.turns : s.turns[t].status = "completed"

RunsIn(s, t) == t \in DOMAIN s.turns /\ s.turns[t].status = "inProgress"

\* The last notification says that t is over.
LastEnds(h, t) ==
    h.notes # <<>> /\ h.notes[Len(h.notes)] = Note(Completed, h.state.turns[t].thread, t)

\* What h, the outcome of handling m, is.
HandledOK(m, h) ==
    /\ DOMAIN h = {"state", "reply", "notes"} /\ GoodServer(h.state)
    /\ DOMAIN h.reply = AnswerFields /\ h.reply.ok \in BOOLEAN /\ h.reply.set = TRUE
    /\ IsSeq(h.notes)
    /\ \A i \in DOMAIN h.notes :
         LET f == h.notes[i]
         IN  /\ DOMAIN f = {"method", "thread", "id"}
             /\ f.method = Item => Prompt
             /\ Prompt /\ f.method \in {Item, Completed} =>
                    h.reply.ok /\ f.id = h.reply.id /\ m.method = "turn/start"
             /\ f.method = Started => RunsIn(h.state, f.id) \/ (i < Len(h.notes) /\ LastEnds(h, f.id))
    /\ \A t : Runs(t) => RunsIn(h.state, t) \/ LastEnds(h, t)
    /\ m.method = "thread/start" => h.reply.id # NoId
    /\ m.method = "turn/start" /\ h.reply.ok => RunsIn(h.state, h.reply.id) \/ LastEnds(h, h.reply.id)

LEMMA NoteFacts ==
    \A method, thread, id : LET f == Note(method, thread, id)
                            IN  /\ DOMAIN f = {"method", "thread", "id"} /\ f.method = method
                                /\ f.thread = thread /\ f.id = id
BY DEF Note

LEMMA ReplyFacts ==
    \A ok, id : LET r == Reply(ok, id)
                IN  DOMAIN r = AnswerFields /\ r.ok = ok /\ r.id = id /\ r.set = TRUE
BY DEF Reply, AnswerFields

LEMMA OneIsSeq == \A x : IsSeq(<<x>>) /\ Len(<<x>>) = 1 /\ DOMAIN <<x>> = {1} /\ <<x>>[1] = x /\ <<x>> # <<>>
<1> TAKE x
<1>1. <<x>> \in Seq({x})
  OBVIOUS
<1>2. Len(<<x>>) = 1 /\ DOMAIN <<x>> = {1} /\ <<x>>[1] = x
  OBVIOUS
<1> QED
  BY <1>1, <1>2 DEF IsSeq

\* The turns stay as they are, and no notification of one is sent.
LEMMA OtherHandled ==
    ASSUME NEW m, NEW h, NEW s, NEW ok \in BOOLEAN, NEW id, NEW notes, GoodServer(s), s.turns = server.turns,
           h = [state |-> s, reply |-> Reply(ok, id), notes |-> notes],
           \/ notes = <<>>
           \/ \E method, thread, x : notes = <<Note(method, thread, x)>> /\ method \notin Awaited,
           m.method = "turn/start" => ~ok, m.method = "thread/start" => id # NoId
    PROVE  HandledOK(m, h)
<1>1. h.state = s /\ h.reply = Reply(ok, id) /\ h.notes = notes /\ DOMAIN h = {"state", "reply", "notes"}
  OBVIOUS
<1>2. DOMAIN h.reply = AnswerFields /\ h.reply.ok = ok /\ h.reply.id = id /\ h.reply.set = TRUE
  BY <1>1, ReplyFacts
<1>3. IsSeq(notes) /\ \A i \in DOMAIN notes : DOMAIN notes[i] = {"method", "thread", "id"} /\ notes[i].method \notin Awaited
  <2>1. CASE notes = <<>>
    BY <2>1, EmptyIsSeq
  <2>2. CASE \E method, thread, x : notes = <<Note(method, thread, x)>> /\ method \notin Awaited
    <3>1. PICK method, thread, x : notes = <<Note(method, thread, x)>> /\ method \notin Awaited
      BY <2>2
    <3>2. PICK f : f = Note(method, thread, x)
      OBVIOUS
    <3>3. notes = <<f>> /\ DOMAIN f = {"method", "thread", "id"} /\ f.method = method
      BY <3>1, <3>2, NoteFacts
    <3> QED
      BY <3>1, <3>3, OneIsSeq
  <2> QED
    BY <2>1, <2>2
<1>4. \A t : Runs(t) => RunsIn(s, t)
  BY DEF Runs, RunsIn
<1> QED
  BY <1>1, <1>2, <1>3, <1>4, NamesFacts DEF HandledOK

LEMMA ServerIsGood == ASSUME StateInv PROVE GoodServer(server)
BY DEF StateInv, GoodServer

LEMMA InvalidHandled ==
    ASSUME NEW m, NEW s, GoodServer(s), s.turns = server.turns, m.method # "thread/start"
    PROVE  HandledOK(m, InvalidParams(s))
<1>1. InvalidParams(s) = [state |-> s, reply |-> Reply(FALSE, NoId), notes |-> <<>>]
  BY DEF InvalidParams
<1> QED
  BY <1>1, OtherHandled

LEMMA AnsweredHandled ==
    ASSUME NEW m, NEW s, NEW id, NEW notes, GoodServer(s), s.turns = server.turns,
           \/ notes = <<>>
           \/ \E method, thread, x : notes = <<Note(method, thread, x)>> /\ method \notin Awaited,
           m.method # "turn/start", m.method = "thread/start" => id # NoId
    PROVE  HandledOK(m, Answered(s, id, notes))
<1>1. Answered(s, id, notes) = [state |-> s, reply |-> Reply(TRUE, id), notes |-> notes]
  BY DEF Answered
<1> QED
  BY <1>1, OtherHandled

\* The turns with one more at the end.
LEMMA TurnAdded ==
    ASSUME GoodServer(server), NEW thread, NEW status, Prompt => status = "completed", NEW s, NEW turn,
           turn = Len(server.turns) + 1,
           s = [server EXCEPT !.turns = Append(@, [thread |-> thread, status |-> status])]
    PROVE  /\ GoodServer(s) /\ turn \in DOMAIN s.turns /\ s.turns[turn] = [thread |-> thread, status |-> status]
           /\ \A t : Runs(t) => RunsIn(s, t)
<1>1. PICK x : x = [thread |-> thread, status |-> status]
  OBVIOUS
<1>2. DOMAIN x = {"thread", "status"} /\ x.status = status
  BY <1>1
<1>3. /\ s.turns = Append(server.turns, x) /\ s.threads = server.threads /\ s.logins = server.logins
      /\ s.optOut = server.optOut /\ DOMAIN s = {"threads", "turns", "logins", "optOut"}
  BY <1>1 DEF GoodServer
<1>4. IsSeq(server.turns) /\ Len(server.turns) \in Nat /\ DOMAIN server.turns = 1 .. Len(server.turns)
  BY SeqFacts DEF GoodServer
<1>5. /\ IsSeq(s.turns) /\ Len(s.turns) = turn /\ s.turns[turn] = x
      /\ \A t \in DOMAIN server.turns : s.turns[t] = server.turns[t]
  BY <1>3, <1>4, AppendFacts
<1>6. DOMAIN s.turns = 1 .. Len(s.turns)
  BY <1>5, SeqFacts
<1>7. turn \in DOMAIN s.turns /\ \A t \in DOMAIN s.turns : t = turn \/ t \in DOMAIN server.turns
  BY <1>4, <1>5, <1>6
<1>8. \A t \in DOMAIN server.turns : t \in DOMAIN s.turns
  BY <1>4, <1>5, <1>6
<1>9. GoodServer(s)
  BY <1>2, <1>3, <1>5, <1>7 DEF GoodServer
<1>10. \A t : Runs(t) => RunsIn(s, t)
  BY <1>5, <1>8 DEF Runs, RunsIn
<1> QED
  BY <1>1, <1>5, <1>7, <1>9, <1>10

LEMMA StartTurnHandled ==
    ASSUME GoodServer(server), NEW m, m.method = "turn/start", NEW thread
    PROVE  HandledOK(m, startTurn(thread))
<1>1. PICK turn : turn = Len(server.turns) + 1
  OBVIOUS
<1>2. PICK s : s = [server EXCEPT !.turns = Append(@, [thread |-> thread, status |-> "inProgress"])]
  OBVIOUS
<1>3. PICK e : e = [server EXCEPT !.turns = Append(@, [thread |-> thread, status |-> "completed"])]
  OBVIOUS
<1>4. CASE thread \notin 1 .. server.threads
  <2>1. startTurn(thread) = InvalidParams(server)
    BY <1>4 DEF startTurn
  <2> QED
    BY <2>1, InvalidHandled
<1>5. CASE thread \in 1 .. server.threads /\ ~Prompt
  <2>1. /\ GoodServer(s) /\ turn \in DOMAIN s.turns /\ s.turns[turn].status = "inProgress"
        /\ \A t : Runs(t) => RunsIn(s, t)
    <3>1. /\ GoodServer(s) /\ turn \in DOMAIN s.turns
          /\ s.turns[turn] = [thread |-> thread, status |-> "inProgress"]
          /\ \A t : Runs(t) => RunsIn(s, t)
      BY <1>1, <1>2, <1>5, TurnAdded
    <3> QED
      BY <3>1
  <2>2. CASE config.autoComplete
    <3>1. startTurn(thread) = [state |-> s, reply |-> Reply(FALSE, NoId), notes |-> <<>>]
      BY <1>2, <1>5, <2>2 DEF startTurn, InvalidParams, Prompt
    <3>2. PICK h : h = startTurn(thread)
      OBVIOUS
    <3>3. /\ h.state = s /\ h.reply = Reply(FALSE, NoId) /\ h.notes = <<>> /\ DOMAIN h = {"state", "reply", "notes"}
          /\ DOMAIN h.notes = {}
      BY <3>1, <3>2
    <3>4. DOMAIN h.reply = AnswerFields /\ h.reply.ok = FALSE /\ h.reply.set = TRUE
      BY <3>3 DEF Reply, AnswerFields
    <3> QED
      BY <2>1, <3>2, <3>3, <3>4, EmptyIsSeq DEF HandledOK
  <2>3. CASE ~config.autoComplete
    <3>1. PICK f : f = Note(Started, thread, turn)
      OBVIOUS
    <3>2. startTurn(thread) = [state |-> s, reply |-> Reply(TRUE, turn), notes |-> <<f>>]
      BY <1>1, <1>2, <1>5, <2>3, <3>1 DEF startTurn, Answered
    <3>3. PICK h : h = startTurn(thread)
      OBVIOUS
    <3>4. /\ h.state = s /\ h.reply = Reply(TRUE, turn) /\ h.notes = <<f>> /\ DOMAIN h = {"state", "reply", "notes"}
      BY <3>2, <3>3
    <3>5. DOMAIN h.reply = AnswerFields /\ h.reply.ok = TRUE /\ h.reply.set = TRUE /\ h.reply.id = turn
      BY <3>4 DEF Reply, AnswerFields
    <3>6. IsSeq(h.notes) /\ DOMAIN h.notes = {1} /\ h.notes[1] = f
      BY <3>4, OneIsSeq
    <3>7. DOMAIN f = {"method", "thread", "id"} /\ f.method = Started /\ f.id = turn
      BY <3>1, NoteFacts
    <3>8. RunsIn(h.state, turn)
      BY <2>1, <3>4 DEF RunsIn
    <3>9. ASSUME NEW i \in DOMAIN h.notes
          PROVE  /\ DOMAIN h.notes[i] = {"method", "thread", "id"} /\ h.notes[i].id = turn
                 /\ h.notes[i].method \notin {Item, Completed}
      BY <3>6, <3>7, NamesFacts
    <3> QED
      BY <2>1, <3>3, <3>4, <3>5, <3>6, <3>8, <3>9 DEF HandledOK
  <2> QED
    BY <2>2, <2>3
<1>6. CASE thread \in 1 .. server.threads /\ Prompt
  <2>1. /\ GoodServer(e) /\ turn \in DOMAIN e.turns /\ e.turns[turn].thread = thread
        /\ \A t : Runs(t) => RunsIn(e, t)
    <3>1. /\ GoodServer(e) /\ turn \in DOMAIN e.turns
          /\ e.turns[turn] = [thread |-> thread, status |-> "completed"]
          /\ \A t : Runs(t) => RunsIn(e, t)
      BY <1>1, <1>3, <1>6, TurnAdded
    <3> QED
      BY <3>1
  <2>2. PICK f, g, l : /\ f = Note(Started, thread, turn) /\ g = Note(Item, thread, turn)
                       /\ l = Note(Completed, thread, turn)
    OBVIOUS
  <2>0. PICK rest : rest = <<g, l>>
    OBVIOUS
  <2>3. PICK notes : notes = <<f>> \o rest
    OBVIOUS
  <2>4. startTurn(thread) = [state |-> e, reply |-> Reply(TRUE, turn), notes |-> notes]
    BY <1>1, <1>3, <1>6, <2>0, <2>2, <2>3 DEF startTurn, Answered, Prompt
  <2>5. PICK h : h = startTurn(thread)
    OBVIOUS
  <2>6. /\ h.state = e /\ h.reply = Reply(TRUE, turn) /\ h.notes = notes /\ DOMAIN h = {"state", "reply", "notes"}
    BY <2>4, <2>5
  <2>7. DOMAIN h.reply = AnswerFields /\ h.reply.ok = TRUE /\ h.reply.set = TRUE /\ h.reply.id = turn
    BY <2>6 DEF Reply, AnswerFields
  <2>8. /\ IsSeq(notes) /\ Len(notes) = 3 /\ DOMAIN notes = {1, 2, 3}
        /\ notes[1] = f /\ notes[2] = g /\ notes[3] = l /\ notes # <<>>
    <3>1. rest \in Seq({g, l}) /\ Len(rest) = 2 /\ rest[1] = g /\ rest[2] = l
      BY <2>0
    <3>2. IsSeq(rest)
      BY <3>1 DEF IsSeq
    <3>3. /\ IsSeq(notes) /\ Len(notes) = Len(rest) + 1 /\ notes[1] = f
          /\ \A i \in 1 .. Len(rest) : notes[i + 1] = rest[i]
      BY <2>3, <3>2, ConsFacts
    <3>4. 1 \in 1 .. 2 /\ 2 \in 1 .. 2 /\ 1 + 1 = 2 /\ 2 + 1 = 3 /\ 1 .. 3 = {1, 2, 3}
      OBVIOUS
    <3>5. Len(notes) = 3 /\ notes[1 + 1] = g /\ notes[2 + 1] = l
      BY <3>1, <3>3, <3>4
    <3>6. DOMAIN notes = 1 .. Len(notes) /\ notes # <<>>
      BY <3>3, <3>5, SeqFacts
    <3> QED
      BY <3>3, <3>4, <3>5, <3>6
  <2>9. /\ DOMAIN f = {"method", "thread", "id"} /\ f.method = Started /\ f.id = turn
        /\ DOMAIN g = {"method", "thread", "id"} /\ g.method = Item /\ g.id = turn
        /\ DOMAIN l = {"method", "thread", "id"} /\ l.method = Completed /\ l.id = turn
    BY <2>2, NoteFacts
  <2>10. LastEnds(h, turn)
    BY <2>1, <2>2, <2>6, <2>8 DEF LastEnds
  <2>11. ASSUME NEW i \in DOMAIN h.notes
         PROVE  /\ DOMAIN h.notes[i] = {"method", "thread", "id"} /\ h.notes[i].id = turn
                /\ h.notes[i].method = Started => i < Len(h.notes)
    BY <2>6, <2>8, <2>9, NamesFacts
  <2> QED
    BY <1>6, <2>1, <2>5, <2>6, <2>7, <2>8, <2>10, <2>11 DEF HandledOK
<1> QED
  BY <1>4, <1>5, <1>6

LEMMA InterruptTurnHandled ==
    ASSUME GoodServer(server), NEW m, m.method = "turn/interrupt", NEW thread, NEW turn
    PROVE  HandledOK(m, interruptTurn(thread, turn))
<1> DEFINE found == turn \in DOMAIN server.turns
                    /\ server.turns[turn] = [thread |-> thread, status |-> "inProgress"]
<1>1. CASE ~found
  <2>1. interruptTurn(thread, turn) = InvalidParams(server)
    BY <1>1 DEF interruptTurn
  <2> QED
    BY <2>1, InvalidHandled
<1>2. CASE found
  <2>1. PICK x : x = [server.turns[turn] EXCEPT !.status = "interrupted"]
    OBVIOUS
  <2>2. x.thread = thread /\ DOMAIN x = {"thread", "status"} /\ server.turns[turn].status = "inProgress"
    BY <1>2, <2>1
  <2>3. ~Prompt
    BY <1>2, <2>2 DEF GoodServer
  <2>4. PICK s : s = [server EXCEPT !.turns[turn].status = "interrupted"]
    OBVIOUS
  <2>5. /\ s.turns = [server.turns EXCEPT ![turn] = x] /\ s.threads = server.threads /\ s.logins = server.logins
        /\ s.optOut = server.optOut /\ DOMAIN s = {"threads", "turns", "logins", "optOut"}
    BY <1>2, <2>1, <2>4 DEF GoodServer
  <2>6. /\ IsSeq(s.turns) /\ DOMAIN s.turns = DOMAIN server.turns
        /\ \A t \in DOMAIN server.turns : s.turns[t] = IF t = turn THEN x ELSE server.turns[t]
    BY <1>2, <2>5, ExceptFacts DEF GoodServer
  <2>7. GoodServer(s) /\ s.turns[turn].thread = thread
    BY <1>2, <2>2, <2>3, <2>5, <2>6 DEF GoodServer
  <2>8. \A t : Runs(t) => RunsIn(s, t) \/ t = turn
    BY <2>6 DEF Runs, RunsIn
  <2>9. PICK f : f = Note(Completed, thread, turn)
    OBVIOUS
  <2>10. interruptTurn(thread, turn) = [state |-> s, reply |-> Reply(TRUE, NoId), notes |-> <<f>>]
    BY <1>2, <2>4, <2>9 DEF interruptTurn, Answered
  <2>11. PICK h : h = interruptTurn(thread, turn)
    OBVIOUS
  <2>12. h.state = s /\ h.reply = Reply(TRUE, NoId) /\ h.notes = <<f>> /\ DOMAIN h = {"state", "reply", "notes"}
    BY <2>10, <2>11
  <2>13. DOMAIN h.reply = AnswerFields /\ h.reply.ok = TRUE /\ h.reply.set = TRUE
    BY <2>12 DEF Reply, AnswerFields
  <2>14. IsSeq(h.notes) /\ Len(h.notes) = 1 /\ DOMAIN h.notes = {1} /\ h.notes[1] = f /\ h.notes # <<>>
    BY <2>12, OneIsSeq
  <2>15. DOMAIN f = {"method", "thread", "id"} /\ f.method = Completed
    BY <2>9, NoteFacts
  <2>16. LastEnds(h, turn)
    BY <2>7, <2>9, <2>12, <2>14 DEF LastEnds
  <2> QED
    BY <2>3, <2>7, <2>8, <2>11, <2>12, <2>13, <2>14, <2>15, <2>16, NamesFacts DEF HandledOK
<1> QED
  BY <1>1, <1>2

LEMMA RequestHandled ==
    ASSUME GoodServer(server), NEW m
    PROVE  HandledOK(m, handleRequest(m))
<1>1. CASE m.method = "initialize"
  <2>1. PICK s : s = [server EXCEPT !.optOut = config.optOut]
    OBVIOUS
  <2>2. handleRequest(m) = Answered(s, NoId, <<>>)
    BY <1>1, <2>1 DEF handleRequest, initialize
  <2>3. GoodServer(s) /\ s.turns = server.turns
    BY <2>1 DEF GoodServer
  <2> QED
    BY <1>1, <2>2, <2>3, AnsweredHandled
<1>2. CASE m.method = "account/read"
  <2>1. handleRequest(m) = Answered(server, NoId, <<>>)
    BY <1>2 DEF handleRequest
  <2> QED
    BY <1>2, <2>1, AnsweredHandled
<1>3. CASE m.method = "account/login/start"
  <2>1. PICK s : s = [server EXCEPT !.logins = Append(@, "pending")]
    OBVIOUS
  <2>2. PICK id : id = Len(server.logins) + 1
    OBVIOUS
  <2>3. handleRequest(m) = Answered(s, id, <<>>)
    BY <1>3, <2>1, <2>2 DEF handleRequest, startLogin
  <2>4. IsSeq(Append(server.logins, "pending"))
    BY AppendFacts DEF GoodServer
  <2>5. GoodServer(s) /\ s.turns = server.turns
    BY <2>1, <2>4 DEF GoodServer
  <2> QED
    BY <1>3, <2>3, <2>5, AnsweredHandled
<1>4. CASE m.method = "account/login/cancel"
  <2>1. PICK login : login = m.id
    OBVIOUS
  <2>2. handleRequest(m) = cancelLogin(login)
    BY <1>4, <2>1 DEF handleRequest
  <2>3. CASE login \in DOMAIN server.logins
    <3>1. PICK s : s = [server EXCEPT !.logins[login] = "canceled"]
      OBVIOUS
    <3>2. PICK notes : notes = <<Note("account/login/completed", NoId, login)>>
      OBVIOUS
    <3>3. handleRequest(m) = Answered(s, login, notes)
      BY <2>2, <2>3, <3>1, <3>2 DEF cancelLogin
    <3>4. IsSeq([server.logins EXCEPT ![login] = "canceled"])
      BY <2>3, ExceptFacts DEF GoodServer
    <3>5. GoodServer(s) /\ s.turns = server.turns
      BY <3>1, <3>4 DEF GoodServer
    <3>6. "account/login/completed" \notin Awaited
      BY DEF Awaited, Started, Item, Completed
    <3> QED
      BY <1>4, <3>2, <3>3, <3>5, <3>6, AnsweredHandled
  <2>4. CASE login \notin DOMAIN server.logins
    <3>1. handleRequest(m) = Answered(server, NoId, <<>>)
      BY <2>2, <2>4 DEF cancelLogin
    <3> QED
      BY <1>4, <3>1, AnsweredHandled
  <2> QED
    BY <2>3, <2>4
<1>5. CASE m.method = "thread/start"
  <2>1. PICK thread : thread = server.threads + 1
    OBVIOUS
  <2>2. PICK s : s = [server EXCEPT !.threads = thread]
    OBVIOUS
  <2>3. PICK notes : notes = <<Note("thread/started", thread, thread)>>
    OBVIOUS
  <2>4. handleRequest(m) = Answered(s, thread, notes)
    BY <1>5, <2>1, <2>2, <2>3 DEF handleRequest, startThread
  <2>5. thread \in Nat /\ thread # NoId
    BY <2>1, NoIdAssumption DEF GoodServer
  <2>6. GoodServer(s) /\ s.turns = server.turns
    BY <2>2, <2>5 DEF GoodServer
  <2>7. "thread/started" \notin Awaited
    BY DEF Awaited, Started, Item, Completed
  <2> QED
    BY <1>5, <2>3, <2>4, <2>5, <2>6, <2>7, AnsweredHandled
<1>6. CASE m.method = "turn/start"
  <2>1. handleRequest(m) = startTurn(m.thread)
    BY <1>6 DEF handleRequest
  <2> QED
    BY <1>6, <2>1, StartTurnHandled
<1>7. CASE m.method = "turn/interrupt"
  <2>1. handleRequest(m) = interruptTurn(m.thread, m.id)
    BY <1>7 DEF handleRequest
  <2> QED
    BY <1>7, <2>1, InterruptTurnHandled
<1>8. CASE m.method \notin {"initialize", "account/read", "account/login/start", "account/login/cancel",
                            "thread/start", "turn/start", "turn/interrupt"}
  <2>1. handleRequest(m) = InvalidParams(server)
    BY <1>8 DEF handleRequest
  <2> QED
    BY <1>8, <2>1, InvalidHandled
<1> QED
  BY <1>1, <1>2, <1>3, <1>4, <1>5, <1>6, <1>7, <1>8

\* The frames of an answer h to m: some of its notifications, and the last of them is
\* kept when completions are.
LEMMA FramesOf ==
    ASSUME NEW m, NEW h, HandledOK(m, h), NEW s, s = Frames(m, h)
    PROVE  /\ IsSeq(s) /\ Len(s) \in Nat \ {0} /\ s[1] = [call |-> m.call, reply |-> h.reply]
           /\ \A i \in DOMAIN s : i > 1 => \E j \in DOMAIN h.notes : s[i] = h.notes[j]
           /\ Completed \notin config.optOut => \A t : LastEnds(h, t) =>
                  Len(s) > 1 /\ s[Len(s)] = Note(Completed, h.state.turns[t].thread, t)
<1>1. PICK kept : kept = filterNotifications(h.notes, h.state.optOut)
  OBVIOUS
<1>2. PICK x : x = [call |-> m.call, reply |-> h.reply]
  OBVIOUS
<1>3. s = <<x>> \o kept
  BY <1>1, <1>2 DEF Frames
<1>4. IsSeq(h.notes) /\ Len(h.notes) \in Nat /\ DOMAIN h.notes = 1 .. Len(h.notes)
  BY SeqFacts DEF HandledOK
<1>5. KeptOf(kept, h.notes, Len(h.notes)) /\ IsSeq(kept)
  BY <1>1, <1>4, KeptFacts DEF KeptOf
<1>6. Len(kept) \in Nat /\ DOMAIN kept = 1 .. Len(kept)
  BY <1>5, SeqFacts
<1>7. /\ IsSeq(s) /\ Len(s) = Len(kept) + 1 /\ s[1] = x
      /\ \A i \in 1 .. Len(kept) : s[i + 1] = kept[i]
  BY <1>3, <1>5, ConsFacts
<1>8. DOMAIN s = 1 .. Len(s)
  BY <1>7, SeqFacts
<1>9. ASSUME NEW i \in DOMAIN s, i > 1 PROVE i - 1 \in DOMAIN kept /\ s[i] = kept[i - 1]
  <2>1. i - 1 \in 1 .. Len(kept) /\ (i - 1) + 1 = i
    BY <1>6, <1>7, <1>8, <1>9
  <2> QED
    BY <1>6, <1>7, <2>1
<1>10. \A i \in DOMAIN s : i > 1 => \E j \in DOMAIN h.notes : s[i] = h.notes[j]
  BY <1>4, <1>5, <1>9 DEF KeptOf
<1>11. ASSUME Completed \notin config.optOut, NEW t, LastEnds(h, t)
       PROVE  Len(s) > 1 /\ s[Len(s)] = Note(Completed, h.state.turns[t].thread, t)
  <2>1. Completed \notin h.state.optOut
    BY <1>11 DEF HandledOK, GoodServer
  <2>2. PICK last : last = h.notes[Len(h.notes)]
    OBVIOUS
  <2>3. last = Note(Completed, h.state.turns[t].thread, t) /\ last.method = Completed /\ h.notes # <<>>
    BY <1>11, <2>2, NoteFacts DEF LastEnds
  <2>4. Len(h.notes) > 0
    BY <1>4, <2>3, SeqFacts
  <2>5. PICK front : KeptOf(front, h.notes, Len(h.notes) - 1) /\ kept = Append(front, last)
    BY <1>1, <1>4, <2>1, <2>2, <2>3, <2>4, KeptFacts
  <2>6. IsSeq(front) /\ Len(front) \in Nat /\ DOMAIN front = 1 .. Len(front)
    BY <2>5, SeqFacts DEF KeptOf
  <2>7. /\ Len(kept) = Len(front) + 1 /\ kept[Len(front) + 1] = last
        /\ \A i \in 1 .. Len(front) : kept[i] = front[i]
    BY <2>5, <2>6, AppendFacts
  <2>8. Len(s) > 1 /\ s[Len(s)] = last
    <3>1. Len(s) \in DOMAIN s /\ Len(s) > 1 /\ Len(s) - 1 = Len(front) + 1
      BY <1>6, <1>7, <1>8, <2>6, <2>7
    <3> QED
      BY <1>9, <2>7, <3>1
  <2> QED
    BY <2>3, <2>8
<1>12. Len(s) \in Nat \ {0}
  BY <1>6, <1>7
<1> QED
  BY <1>2, <1>7, <1>10, <1>11, <1>12

\* The head of the queue is handled, and its frames wait to be sent.
LEMMA DispatchMoves ==
    ASSUME AppInv, readyState = "open", frames = <<>>, queue # <<>>, queue' = Tail(queue),
           UNCHANGED <<config, readyState, client, session, calls>>,
           DOMAIN dispatch' = {"busy", "frames"}, dispatch'.busy, IsSeq(frames'),
           frames' = <<>> \/ frames'[1].call = queue[1].call,
           GoodServer(server'), FrameInv', ReplyInv',
           \A t : Heeded /\ Runs(t) => Runs(t)' \/ EndsAfter(0, t)'
    PROVE  AppInv'
<1>1. (Heeded' <=> Heeded) /\ (Prompt' <=> Prompt) /\ \A n, t : ~EndsAfter(n, t)
  <2>1. DOMAIN <<>> = {}
    OBVIOUS
  <2> QED
    BY <2>1 DEF Heeded, Prompt, EndsAfter
<1>2. /\ IsSeq(queue') /\ 1 \in DOMAIN queue
      /\ DOMAIN queue' = 1 .. Len(queue) - 1 /\ DOMAIN queue = 1 .. Len(queue) /\ Len(queue) \in Nat
      /\ \A i \in DOMAIN queue' : i + 1 \in DOMAIN queue /\ queue'[i] = queue[i + 1]
  BY QueueTail
<1>3. \A i \in DOMAIN queue' : i \in Nat /\ i + 1 # 1
  BY <1>2
<1>4. \A c : Queued(c)' => Queued(c)
  BY <1>2 DEF Queued
<1>5. \A c : Replying(c)' => Queued(c) /\ c = queue[1].call
  BY <1>2 DEF Queued, Replying
<1>6. StateInv'
  <2>1. \A i \in DOMAIN queue' : queue'[i].call \in Calls
    BY <1>2 DEF AppInv, StateInv
  <2> QED
    BY <1>1, <1>2, <2>1 DEF AppInv, StateInv, GoodServer
<1>7. FlightInv'
  <2>1. \A i, j \in DOMAIN queue' : queue'[i].call = queue'[j].call => i = j
    <3> SUFFICES ASSUME NEW i \in DOMAIN queue', NEW j \in DOMAIN queue', queue'[i].call = queue'[j].call
                 PROVE  i = j
      OBVIOUS
    <3>1. i + 1 = j + 1
      BY <1>2 DEF AppInv, FlightInv
    <3>2. i \in Nat /\ j \in Nat /\ 1 \in Nat
      BY <1>3
    <3> QED
      BY <3>1, <3>2, AddCancels
  <2>2. ASSUME NEW c \in Calls, Replying(c)' PROVE ~Queued(c)'
    <3>1. ASSUME NEW i \in DOMAIN queue', queue'[i].call = c PROVE FALSE
      <4>1. queue[i + 1].call = queue[1].call /\ i + 1 \in DOMAIN queue
        BY <1>2, <1>5, <2>2, <3>1
      <4>2. i + 1 = 1
        BY <1>2, <4>1 DEF AppInv, FlightInv
      <4> QED
        BY <1>3, <4>2
    <3> QED
      BY <3>1 DEF Queued
  <2>3. ASSUME NEW c \in Calls, calls'[c].pc \in {"new", "ready"} PROVE ~InFlight(c)'
    BY <2>3, <1>4, <1>5 DEF AppInv, FlightInv, InFlight
  <2> QED
    BY <2>1, <2>2, <2>3 DEF FlightInv
<1>8. MessageInv'
  <2> SUFFICES ASSUME NEW i \in DOMAIN queue'
               PROVE  LET c == queue'[i].call
                      IN  /\ c \in client'.pending => Asks(queue'[i], calls'[c])
                          /\ queue'[i].method = "turn/start" => calls'[c].op \in TurnOps
    BY DEF MessageInv, Asks
  <2> QED
    BY <1>2 DEF AppInv, MessageInv
<1>9. OverlapInv'
  <2>1. \A c \in Calls : Live(c)' => Live(c)
    BY <1>4, <1>5 DEF Live, Settled, InFlight
  <2> QED
    BY <2>1 DEF AppInv, OverlapInv
<1>10. View' = View /\ View.calls = calls /\ View.client = client /\ View.session = session
  BY DEF View
<1>11. IsView(View)'
  BY <1>10 DEF AppInv, ViewInv, IsView, IsCall
<1>12. AnswerInv(View, 0)'
  <2> SUFFICES ASSUME NEW c \in Calls PROVE AnswerOK(c, calls[c], c \in client.pending, 0)'
    BY <1>10 DEF AnswerInv
  <2>1. AnswerOK(c, calls[c], c \in client.pending, 0)
    BY CallFacts
  <2> QED
    BY <2>1, <1>4, <1>5 DEF AnswerOK, GotAnswer
<1>13. WaiterInv(View, 0)'
  <2>1. ASSUME NEW w, w \in client'.waiters PROVE WaiterOK(w, calls[w.call], w.call \in client.pending, 0)'
    <3>1. WaiterOK(w, calls[w.call], w.call \in client.pending, 0)
      BY <2>1, <1>10 DEF AppInv, ViewInv, WaiterInv
    <3> QED
      BY <3>1 DEF WaiterOK
  <2>2. ASSUME NEW w, NEW x, w \in client'.waiters, x \in client'.waiters, w.call = x.call, w.method = x.method
        PROVE  w = x
    BY <2>2, <1>10 DEF AppInv, ViewInv, WaiterInv
  <2> QED
    BY <1>10, <2>1, <2>2 DEF WaiterInv
<1>14. HeardInv(View)'
  <2> SUFFICES ASSUME NEW c \in Calls PROVE HeardOK(calls[c], Alone(calls, c))'
    BY <1>10 DEF HeardInv
  <2>1. HeardOK(calls[c], Alone(calls, c)) /\ (Alone(calls, c)' => Alone(calls, c))
    BY CallFacts DEF Alone
  <2> QED
    BY <1>1, <2>1 DEF HeardOK
<1>15. ActiveInv(View, 0)'
  <2> SUFFICES ASSUME Heeded
               PROVE  /\ session'.activeTurnId # NoId =>
                            Runs(session.activeTurnId)' \/ EndsAfter(0, session.activeTurnId)'
                      /\ \A c \in Calls : PendingOK(calls[c], 0, session.completedTurnIds)'
    BY <1>1, <1>10 DEF ActiveInv
  <2>1. ActiveInv(View, 0)
    BY DEF AppInv, ViewInv
  <2>2. ASSUME NEW c \in Calls PROVE PendingOK(calls[c], 0, session.completedTurnIds)'
    <3>1. PendingOK(calls[c], 0, session.completedTurnIds)
      BY <2>1, <1>10 DEF ActiveInv
    <3> QED
      BY <3>1, <1>1 DEF PendingOK, GotAnswer
  <2> QED
    BY <1>1, <1>10, <2>1, <2>2 DEF ActiveInv
<1> QED
  BY <1>6, <1>7, <1>8, <1>9, <1>11, <1>12, <1>13, <1>14, <1>15 DEF AppInv, ViewInv

LEMMA DispatchMessageStep ==
    ASSUME AppInv, DispatchMessage
    PROVE  AppInv'
<1>1. PICK m : m = Head(queue)
  OBVIOUS
<1>2. /\ ~dispatch.busy /\ queue # <<>> /\ queue' = Tail(queue)
      /\ UNCHANGED <<config, readyState, client, session, calls>>
      /\ readyState # "open" => dispatch' = Idle /\ server' = server
      /\ readyState = "open" /\ m.method = "initialized" =>
            dispatch' = [busy |-> TRUE, frames |-> <<>>] /\ server' = server
      /\ readyState = "open" /\ m.method # "initialized" =>
            /\ dispatch' = [busy |-> TRUE, frames |-> Frames(m, handleRequest(m))]
            /\ server' = handleRequest(m).state
  BY <1>1 DEF DispatchMessage, Idle
<1>3. frames = <<>> /\ GoodServer(server)
  BY <1>2, ServerIsGood DEF AppInv, StateInv
<1>4. m = queue[1] /\ m.call \in Calls /\ 1 \in DOMAIN queue
  BY <1>1, <1>2, QueueTail DEF AppInv, StateInv
<1>5. CASE readyState # "open"
  <2>1. PICK v : v = View
    OBVIOUS
  <2>2. /\ ViewInv(v, 0) /\ Follows(v) /\ IsView(v) /\ v.client = client /\ v.session = session
        /\ v.calls = calls /\ DOMAIN session = SessionFields /\ DOMAIN calls = Calls
        /\ DOMAIN client = {"closed", "pending", "waiters"}
    BY <2>1, ViewHolds
  <2>3. ~Heeded'
    BY <1>2, <1>5 DEF Heeded
  <2>4. \A c \in Calls : Keeps(v.calls[c], calls'[c])
    BY <1>2, <2>2, SameKeeps
  <2>5. \A i \in DOMAIN queue' : i + 1 \in DOMAIN queue /\ queue'[i] = queue[i + 1]
    BY <1>2, QueueTail
  <2>6. IsSeq(queue') /\ 1 \in {0, 1}
    BY <1>2, QueueTail
  <2> QED
    BY <1>2, <1>5, <2>2, <2>3, <2>4, <2>5, <2>6, ViewBecomes
<1>6. CASE readyState = "open" /\ m.method = "initialized"
  <2>1. /\ frames' = <<>> /\ DOMAIN dispatch' = {"busy", "frames"} /\ dispatch'.busy /\ server' = server
        /\ DOMAIN frames' = {}
    BY <1>2, <1>6 DEF frames
  <2>2. IsSeq(frames')
    BY <2>1, EmptyIsSeq
  <2>3. FrameInv' /\ ReplyInv'
    BY <2>1 DEF FrameInv, ReplyInv
  <2>4. \A t : Runs(t) => Runs(t)'
    BY <2>1 DEF Runs
  <2> QED
    BY <1>2, <1>3, <1>6, <2>1, <2>2, <2>3, <2>4, DispatchMoves
<1>7. CASE readyState = "open" /\ m.method # "initialized"
  <2>1. PICK h : h = handleRequest(m)
    OBVIOUS
  <2>2. HandledOK(m, h)
    BY <1>3, <2>1, RequestHandled
  <2>3. PICK s : s = Frames(m, h)
    OBVIOUS
  <2>4. /\ IsSeq(s) /\ Len(s) \in Nat \ {0} /\ s[1] = [call |-> m.call, reply |-> h.reply]
        /\ \A i \in DOMAIN s : i > 1 => \E j \in DOMAIN h.notes : s[i] = h.notes[j]
        /\ Completed \notin config.optOut => \A t : LastEnds(h, t) =>
               Len(s) > 1 /\ s[Len(s)] = Note(Completed, h.state.turns[t].thread, t)
    BY <2>2, <2>3, FramesOf
  <2>5. DOMAIN s = 1 .. Len(s) /\ s # <<>>
    BY <2>4, SeqFacts
  <2>6. /\ frames' = s /\ DOMAIN dispatch' = {"busy", "frames"} /\ dispatch'.busy /\ server' = h.state
    BY <1>2, <1>7, <2>1, <2>3 DEF frames
  <2>7. /\ s[1].call = m.call /\ s[1].reply = h.reply /\ DOMAIN s[1] = {"call", "reply"}
    BY <2>4
  <2>8. \A t : RunsIn(h.state, t) => Runs(t)'
    BY <2>6 DEF RunsIn, Runs
  <2>9. ASSUME Heeded, NEW t, LastEnds(h, t) PROVE Len(s) \in DOMAIN s /\ Len(s) > 1 /\ Ends(Len(s), t)'
    <3>1. Len(s) > 1 /\ s[Len(s)] = Note(Completed, h.state.turns[t].thread, t)
      BY <2>4, <2>9 DEF Heeded
    <3>2. Len(s) \in DOMAIN s
      BY <2>4, <2>5
    <3> QED
      BY <2>6, <3>1, <3>2 DEF Ends
  <2>10. ASSUME Heeded, NEW t, LastEnds(h, t) PROVE EndsAfter(0, t)' /\ EndsAfter(1, t)'
    <3>1. Len(s) \in DOMAIN frames' /\ Len(s) > 1 /\ Len(s) > 0 /\ Ends(Len(s), t)'
      BY <2>4, <2>6, <2>9, <2>10
    <3> QED
      BY <3>1 DEF EndsAfter
  <2>11. (Heeded' <=> Heeded) /\ (Prompt' <=> Prompt)
    BY <1>2 DEF Heeded, Prompt
  <2>12. m.method = "turn/start" => calls[m.call].op \in TurnOps
    BY <1>4 DEF AppInv, MessageInv
  <2>13. FrameInv'
    <3>1. ASSUME NEW i \in DOMAIN s, i > 1
          PROVE  /\ DOMAIN s[i] = {"method", "thread", "id"}
                 /\ s[i].method = Item => Prompt
                 /\ Prompt /\ s[i].method \in {Item, Completed} =>
                        h.reply.ok /\ s[i].id = h.reply.id /\ calls[m.call].op \in TurnOps
                 /\ Heeded /\ s[i].method = Started => Runs(s[i].id)' \/ EndsAfter(i, s[i].id)'
      <4>1. PICK j \in DOMAIN h.notes : s[i] = h.notes[j]
        BY <2>4, <3>1
      <4>2. PICK f : f = h.notes[j]
        OBVIOUS
      <4>3. /\ DOMAIN f = {"method", "thread", "id"}
            /\ f.method = Item => Prompt
            /\ Prompt /\ f.method \in {Item, Completed} =>
                   h.reply.ok /\ f.id = h.reply.id /\ m.method = "turn/start"
            /\ f.method = Started => RunsIn(h.state, f.id) \/ LastEnds(h, f.id)
        BY <2>2, <4>2 DEF HandledOK
      <4>4. ASSUME Heeded, f.method = Started, LastEnds(h, f.id) PROVE EndsAfter(i, f.id)'
        <5>1. Len(s) \in DOMAIN s /\ Ends(Len(s), f.id)'
          BY <2>9, <4>4
        <5>2. s[Len(s)].method = Completed
          BY <2>6, <5>1, NoteFacts DEF Ends
        <5>3. Len(s) # i
          BY <4>1, <4>2, <4>4, <5>2, NamesFacts
        <5>4. Len(s) > i /\ Len(s) \in DOMAIN frames'
          BY <2>4, <2>5, <2>6, <5>3
        <5> QED
          BY <5>1, <5>4 DEF EndsAfter
      <4> QED
        BY <2>8, <2>12, <4>1, <4>2, <4>3, <4>4
    <3>2. DOMAIN h.reply = AnswerFields /\ h.reply.ok \in BOOLEAN /\ h.reply.set = TRUE
      BY <2>2 DEF HandledOK
    <3>3. calls' = calls
      BY <1>2
    <3> QED
      BY <1>4, <2>6, <2>7, <2>11, <3>1, <3>2, <3>3 DEF FrameInv
  <2>14. ReplyInv'
    <3>1. ASSUME m.call \in client.pending, calls[m.call].op \in TurnOps, h.reply.ok
          PROVE  IF calls[m.call].thread = NoId THEN h.reply.id # NoId
                 ELSE Heeded => Runs(h.reply.id)' \/ EndsAfter(1, h.reply.id)'
      <4>1. m.method = IF calls[m.call].thread = NoId THEN "thread/start" ELSE "turn/start"
        BY <1>4, <3>1 DEF AppInv, MessageInv, Asks
      <4>2. /\ m.method = "thread/start" => h.reply.id # NoId
            /\ m.method = "turn/start" => RunsIn(h.state, h.reply.id) \/ LastEnds(h, h.reply.id)
        BY <2>2, <3>1 DEF HandledOK
      <4> QED
        BY <2>8, <2>10, <4>1, <4>2
    <3>2. calls' = calls /\ client' = client
      BY <1>2
    <3> QED
      BY <2>6, <2>7, <2>11, <3>1, <3>2 DEF ReplyInv
  <2>15. \A t : Heeded /\ Runs(t) => Runs(t)' \/ EndsAfter(0, t)'
    BY <2>2, <2>8, <2>10 DEF HandledOK
  <2>16. IsSeq(frames') /\ frames'[1].call = queue[1].call /\ GoodServer(server')
    BY <1>4, <2>2, <2>4, <2>6, <2>7 DEF HandledOK
  <2> QED
    BY <1>2, <1>3, <1>7, <2>6, <2>13, <2>14, <2>15, <2>16, DispatchMoves
<1> QED
  BY <1>5, <1>6, <1>7

-----------------------------------------------------------------------------

LEMMA StutterApp ==
    ASSUME AppInv, UNCHANGED appVars
    PROVE  AppInv'
<1>1. UNCHANGED <<config, server, readyState, queue, dispatch, client, session, calls>>
  BY DEF appVars, serverVars
<1>2. PICK v : v = View
  OBVIOUS
<1>3. /\ ViewInv(v, 0) /\ Follows(v) /\ IsView(v) /\ v.client = client /\ v.session = session
      /\ v.calls = calls /\ DOMAIN session = SessionFields /\ DOMAIN calls = Calls
      /\ DOMAIN client = {"closed", "pending", "waiters"}
  BY <1>2, ViewHolds
<1>4. Heeded' => Heeded
  BY <1>1 DEF Heeded
<1>5. \A c \in Calls : Keeps(v.calls[c], calls'[c])
  BY <1>1, <1>3, SameKeeps
<1>6. \A i \in DOMAIN queue' : i + 0 \in DOMAIN queue /\ queue'[i] = queue[i + 0]
  BY <1>1, QueueFacts
<1>7. IsSeq(queue') /\ 0 \in {0, 1} /\ (client'.closed => readyState' # "open")
  BY <1>1, QueueFacts DEF AppInv, StateInv
<1> QED
  BY <1>1, <1>3, <1>4, <1>5, <1>6, <1>7, ViewBecomes

LEMMA StepApp == AppInv /\ [AppNext]_appVars => AppInv'
<1> SUFFICES ASSUME AppInv, [AppNext]_appVars PROVE AppInv'
  OBVIOUS
<1>1. CASE Microtask
  <2>1. CASE DispatchMessage
    BY <2>1, DispatchMessageStep
  <2>2. CASE EmitFrames
    BY <2>2, EmitFramesStep
  <2>3. CASE SocketClosed
    BY <2>3, SocketClosedStep
  <2>4. ASSUME NEW c \in Calls, SessionResume(c) PROVE AppInv'
    BY <2>4, ResumeReadyStep, ResumeFailedStep, ResumeInitializedStep, ResumeDrainedStep, ResumeSimpleStep,
       ResumeThreadStep, ResumeTurnStep, ResumeNotifiedStep DEF SessionResume
  <2> QED
    BY <1>1, <2>1, <2>2, <2>3, <2>4 DEF Microtask
<1>2. CASE Timer
  BY <1>2, WaiterTimesOutStep DEF Timer
<1>3. CASE Environment
  <2>1. ASSUME NEW k \in 2 .. Len(dispatch.frames), EmitUntilClosed(k) PROVE AppInv'
    BY <2>1, EmitUntilClosedStep
  <2>2. ASSUME NEW c \in Calls, NEW op, SessionCall(c, op) PROVE AppInv'
    BY <2>2, SessionCallStep
  <2> QED
    BY <1>3, <2>1, <2>2, DispatchFailsStep, SessionClosesStep, SocketClosesStep DEF Environment
<1>4. CASE UNCHANGED appVars
  BY <1>4, StutterApp
<1> QED
  BY <1>1, <1>2, <1>3, <1>4 DEF AppNext

\* What every step keeps: one answer per request, and answers, waiters and turns that agree.
THEOREM AppInvariant == AppSpec => []AppInv
<1>1. AppInit => AppInv
  BY InitApp
<1>2. AppInv /\ [AppNext]_appVars => AppInv'
  BY StepApp
<1> QED
  BY <1>1, <1>2, PTL DEF AppSpec

\* The turn an open session believes is active (app-server-session.js,
\* applyNotificationState and startPendingTurn) is one the runtime still runs, or one
\* whose completion is among the frames being sent.
THEOREM ActiveTurnRunsHolds == AppSpec => []ActiveTurnRuns
<1>1. AppInv => ActiveTurnRuns
  <2> SUFFICES ASSUME AppInv, Heeded, session.activeTurnId # NoId
               PROVE  \/ server.turns[session.activeTurnId].status = "inProgress"
                      \/ \E i \in DOMAIN dispatch.frames :
                            dispatch.frames[i] = Note(Completed, server.turns[session.activeTurnId].thread,
                                                      session.activeTurnId)
    BY DEF ActiveTurnRuns, Heeded
  <2> QED
    BY ViewFacts DEF AppInv, ViewInv, ActiveInv, Runs, EndsAfter, Ends, frames
<1> QED
  BY <1>1, AppInvariant, PTL

\* startPromptTurn returns the item and the completion of the turn its own turn/start
\* created, when no other turn overlapped it (app-server-session.js, startPromptTurn).
THEOREM PromptReturnsOwnItemHolds == AppSpec => []PromptReturnsOwnItem
<1>1. AppInv => PromptReturnsOwnItem
  <2> SUFFICES ASSUME AppInv, NEW c \in Calls, calls[c].op = "startPromptTurn", calls[c].pc = "done", Alone(calls, c)
               PROVE  calls[c].heard[Item] = calls[c].turn /\ calls[c].heard[Completed] = calls[c].turn
    BY DEF PromptReturnsOwnItem, Alone
  <2>1. HeardOK(calls[c], Alone(calls, c))
    BY CallFacts
  <2>2. calls[c].heard[Item] # NoId /\ calls[c].heard[Completed] # NoId
    BY <2>1, NamesFacts DEF HeardOK
  <2>3. Prompt
    BY <2>1, <2>2 DEF HeardOK
  <2> QED
    BY <2>1, <2>2, <2>3, NamesFacts DEF HeardOK
<1> QED
  BY <1>1, AppInvariant, PTL

=============================================================================
