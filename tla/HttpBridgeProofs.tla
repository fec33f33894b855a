------------------------- MODULE HttpBridgeProofs -------------------------
(***************************************************************************)
(* Proofs about HttpBridge for any dispatches, ids, requests and limits,   *)
(* and any responses of the forms that ResponsesAssumption names.          *)
(***************************************************************************)
EXTENDS HttpBridge, FiniteSetTheorems, NaturalsInduction, WellFoundedInduction, TLAPS

Fields == {"pc", "request", "queued", "sent", "closed", "page", "uploaded", "reason", "reported",
           "terminals", "response", "rest", "buffer", "head", "completed", "total", "written"}

Active == {"buffering", "fetching", "reading"}

IsSeq(s) == \E S : s \in Seq(S)

\* Before its end a dispatch has reported nothing; at its end, one thing.
Quiet(r) == DOMAIN r = Fields /\ r.terminals = <<>> /\ r.reported = FALSE /\ IsSeq(r.buffer)
Over(r)  == DOMAIN r = Fields /\ r.pc = "ended" /\ Len(r.terminals) = 1
Good(r)  == (Quiet(r) /\ r.pc \in Active) \/ Over(r)

\* The upload of s is that of r, and its reason; s may have ended.
SameUpload(r, s) ==
    /\ s.request = r.request /\ s.uploaded = r.uploaded /\ s.closed = r.closed
    /\ s.queued = r.queued /\ s.page = r.page
    /\ (s.pc = r.pc /\ s.reason = r.reason) \/ s.pc = "ended"

LEMMA DroppedFacts ==
    ASSUME NEW r, DOMAIN r = Fields
    PROVE  /\ DOMAIN Dropped(r) = Fields /\ Dropped(r).pc = "ended"
           /\ Dropped(r).terminals = r.terminals
           /\ Dropped(r).request = r.request /\ Dropped(r).uploaded = r.uploaded
           /\ Dropped(r).closed = r.closed /\ Dropped(r).queued = r.queued
           /\ Dropped(r).page = r.page
BY DEF Dropped, Fields

LEMMA EndedOnce ==
    ASSUME NEW r, NEW event, DOMAIN r = Fields,
           \/ r.reported = FALSE /\ r.terminals = <<>>
           \/ r.reported = TRUE /\ Len(r.terminals) = 1
    PROVE  Over(Ended(r, event)) /\ SameUpload(r, Ended(r, event))
<1> DEFINE t == IF r.reported THEN Dropped(r).terminals ELSE Append(Dropped(r).terminals, event)
<1>1. Ended(r, event) = [Dropped(r) EXCEPT !.terminals = t]
  BY DEF Ended
<1>2. Len(t) = 1
  BY DroppedFacts
<1> HIDE DEF t
<1>3. DOMAIN Ended(r, event) = Fields /\ Ended(r, event).pc = "ended" /\ Ended(r, event).terminals = t
  BY <1>1, DroppedFacts DEF Fields
<1>4. SameUpload(r, Ended(r, event))
  BY <1>1, DroppedFacts DEF Fields, SameUpload
<1> QED
  BY <1>2, <1>3, <1>4 DEF Over

LEMMA QuietEnds ==
    ASSUME NEW r, Quiet(r), NEW event
    PROVE  Over(Ended(r, event)) /\ Good(Ended(r, event)) /\ SameUpload(r, Ended(r, event))
BY EndedOnce DEF Quiet, Good

-----------------------------------------------------------------------------
(* Reading a response *)

Reading(r) == Quiet(r) /\ r.pc = "reading"
Reads(r, s) == Good(s) /\ SameUpload(r, s) /\ s.pc \in {"reading", "ended"}

LEMMA ReadsEnd == ASSUME NEW r, Reading(r), NEW event PROVE Reads(r, Ended(r, event))
BY QuietEnds DEF Reading, Reads, Over

\* Only locals of the transport are set.
LEMMA ReadsLocal ==
    ASSUME NEW r, Reading(r), NEW s, DOMAIN s = Fields, IsSeq(s.buffer),
           \A f \in Fields \ {"head", "completed", "total", "written", "buffer", "rest", "response"} :
               s[f] = r[f]
    PROVE  Reads(r, s) /\ Reading(s)
BY DEF Reading, Reads, Good, Quiet, SameUpload, Fields, Active

LEMMA WriteChunkReads == ASSUME NEW r, Reading(r) PROVE Reads(r, writeChunk(r))
<1>1. DOMAIN r = Fields
  BY DEF Reading, Quiet
<1>2. CASE r.total + 1 > BodyLimit
  BY <1>2, ReadsEnd DEF writeChunk
<1>3. CASE ~(r.total + 1 > BodyLimit)
  <2> DEFINE s == [r EXCEPT !.total = @ + 1, !.written = @ + 1]
  <2>1. DOMAIN s = Fields /\ IsSeq(s.buffer)
        /\ \A f \in Fields \ {"head", "completed", "total", "written", "buffer", "rest", "response"} :
               s[f] = r[f]
    BY <1>1 DEF Fields, Reading, Quiet
  <2>2. writeChunk(r) = s
    BY <1>3 DEF writeChunk
  <2> HIDE DEF s
  <2> QED
    BY <2>1, <2>2, ReadsLocal
<1> QED
  BY <1>2, <1>3

LEMMA ApplyFrameReads == ASSUME NEW r, Reading(r), NEW f PROVE Reads(r, applyFrame(r, f))
<1>1. DOMAIN r = Fields
  BY DEF Reading, Quiet
<1>2. Reads(r, [r EXCEPT !.head = TRUE]) /\ Reads(r, [r EXCEPT !.completed = TRUE])
  <2>1. ASSUME NEW v PROVE Reads(r, [r EXCEPT !.head = v]) /\ Reads(r, [r EXCEPT !.completed = v])
    <3>1. DOMAIN [r EXCEPT !.head = v] = Fields /\ IsSeq([r EXCEPT !.head = v].buffer)
          /\ \A g \in Fields \ {"head", "completed", "total", "written", "buffer", "rest", "response"} :
                 [r EXCEPT !.head = v][g] = r[g]
      BY <1>1 DEF Fields, Reading, Quiet
    <3>2. DOMAIN [r EXCEPT !.completed = v] = Fields /\ IsSeq([r EXCEPT !.completed = v].buffer)
          /\ \A g \in Fields \ {"head", "completed", "total", "written", "buffer", "rest", "response"} :
                 [r EXCEPT !.completed = v][g] = r[g]
      BY <1>1 DEF Fields, Reading, Quiet
    <3> QED
      BY <3>1, <3>2, ReadsLocal
  <2> QED
    BY <2>1
<1>3. \A e : Reads(r, Ended(r, e))
  BY ReadsEnd
<1>4. Reads(r, writeChunk(r))
  BY WriteChunkReads
<1>5. \/ \E e : applyFrame(r, f) = Ended(r, e)
      \/ applyFrame(r, f) = writeChunk(r)
      \/ applyFrame(r, f) = [r EXCEPT !.head = TRUE]
      \/ applyFrame(r, f) = [r EXCEPT !.completed = TRUE]
  <2>1. CASE r.completed \/ f \notin {"response", "chunk", "end"} \/ (f = "response" /\ r.head)
             \/ (f \in {"chunk", "end"} /\ ~r.head)
    BY <2>1 DEF applyFrame
  <2>2. CASE ~r.completed /\ f = "response" /\ ~r.head
    BY <2>2 DEF applyFrame
  <2>3. CASE ~r.completed /\ f = "chunk" /\ r.head
    BY <2>3 DEF applyFrame
  <2>4. CASE ~r.completed /\ f = "end" /\ r.head
    BY <2>4 DEF applyFrame
  <2> QED
    BY <2>1, <2>2, <2>3, <2>4
<1> QED
  BY <1>2, <1>3, <1>4, <1>5

LEMMA SeqFacts ==
    /\ \A s, n, k : n \in 1 .. k =>
           SubSeq(s, 1, n) \in Seq({s[i] : i \in 1 .. n}) /\ Len(SubSeq(s, 1, n)) \in Nat
    /\ \A s, x : IsSeq(s) => IsSeq(Append(s, x))
    /\ \A s, t : IsSeq(s) /\ IsSeq(t) => IsSeq(s \o t)
    /\ \A s : IsSeq(s) => Len(s) \in Nat
    /\ IsSeq(<<>>)
<1>1. ASSUME NEW s, NEW n, NEW k, n \in 1 .. k
      PROVE  SubSeq(s, 1, n) \in Seq({s[i] : i \in 1 .. n}) /\ Len(SubSeq(s, 1, n)) \in Nat
  <2>1. n \in Int /\ n >= 1
    BY <1>1
  <2> QED
    BY <2>1
<1>2. ASSUME NEW s, NEW x, IsSeq(s) PROVE IsSeq(Append(s, x))
  <2>1. PICK S : s \in Seq(S)
    BY <1>2 DEF IsSeq
  <2>2. Append(s, x) \in Seq(S \cup {x})
    <3>1. s \in Seq(S \cup {x})
      BY <2>1
    <3> QED
      BY <3>1
  <2> QED
    BY <2>2 DEF IsSeq
<1>3. ASSUME NEW s, NEW t, IsSeq(s), IsSeq(t) PROVE IsSeq(s \o t)
  <2>1. PICK S : s \in Seq(S)
    BY <1>3 DEF IsSeq
  <2>2. PICK T : t \in Seq(T)
    BY <1>3 DEF IsSeq
  <2>3. s \in Seq(S \cup T) /\ t \in Seq(S \cup T)
    BY <2>1, <2>2
  <2>4. s \o t \in Seq(S \cup T)
    BY <2>3
  <2> QED
    BY <2>4 DEF IsSeq
<1>4. ASSUME NEW s, IsSeq(s) PROVE Len(s) \in Nat
  BY <1>4 DEF IsSeq
<1>5. IsSeq(<<>>)
  <2>1. <<>> \in Seq({})
    OBVIOUS
  <2> QED
    BY <2>1 DEF IsSeq
<1> QED
  BY <1>1, <1>2, <1>3, <1>4, <1>5

LEMMA ApplyLineReads == ASSUME NEW r, Reading(r), NEW line PROVE Reads(r, applyLine(r, line))
<1>1. Reads(r, r)
  BY ReadsLocal DEF Reading, Quiet
<1>2. \A e : Reads(r, Ended(r, e))
  BY ReadsEnd
<1>3. \A f : Reads(r, applyFrame(r, f))
  BY ApplyFrameReads
<1> QED
  BY <1>1, <1>2, <1>3 DEF applyLine

LEMMA DecodeByteReads == ASSUME NEW r, Reading(r), NEW b PROVE Reads(r, decodeByte(r, b))
<1>1. DOMAIN r = Fields /\ r.pc = "reading" /\ IsSeq(r.buffer)
  BY DEF Reading, Quiet
<1>2. ASSUME NEW v, IsSeq(v) PROVE Reads(r, [r EXCEPT !.buffer = v]) /\ Reading([r EXCEPT !.buffer = v])
  <2> DEFINE s == [r EXCEPT !.buffer = v]
  <2>1. DOMAIN s = Fields /\ s.buffer = v
        /\ \A f \in Fields \ {"head", "completed", "total", "written", "buffer", "rest", "response"} :
               s[f] = r[f]
    BY <1>1 DEF Fields
  <2>2. Reads(r, s) /\ Reading(s)
    <3> HIDE DEF s
    <3> QED
      BY <1>2, <2>1, ReadsLocal
  <2> QED
    BY <2>2
<1>3. CASE b = NewLine
  <2> DEFINE s == [r EXCEPT !.buffer = <<>>]
  <2>1. Reads(r, s) /\ Reading(s)
    BY <1>2, SeqFacts
  <2>2. decodeByte(r, b) = applyLine(s, r.buffer)
    BY <1>1, <1>3 DEF decodeByte
  <2> HIDE DEF s
  <2>3. Reads(s, applyLine(s, r.buffer))
    BY <2>1, ApplyLineReads
  <2> QED
    BY <2>1, <2>2, <2>3 DEF Reads, SameUpload
<1>4. CASE b # NewLine
  <2>1. decodeByte(r, b) = [r EXCEPT !.buffer = Append(r.buffer, b)]
    BY <1>1, <1>4 DEF decodeByte
  <2>2. IsSeq(Append(r.buffer, b))
    BY <1>1, SeqFacts
  <2> QED
    BY <1>2, <2>1, <2>2
<1> QED
  BY <1>3, <1>4

\* The smallest number for which a statement fails: what induction is used for here.
LEMMA SmallestFailure ==
    ASSUME NEW S, S \subseteq Nat, S # {}
    PROVE  \E m \in S : \A k \in Nat : k < m => k \notin S
<1>1. IsWellFoundedOn(OpToRel(<, Nat), Nat)
  BY NatLessThanWellFounded
<1>2. PICK m \in S : \A y \in S : ~(<<y, m>> \in OpToRel(<, Nat))
  BY <1>1, WFMin
<1> QED
  BY <1>2 DEF OpToRel

Decodes(f, r, bytes, m) ==
    f = [n \in 0 .. m |-> IF n = 0 THEN r ELSE decodeByte(f[n - 1], bytes[n])]

LEMMA DecodesExists ==
    ASSUME NEW r, NEW bytes, NEW m \in Nat
    PROVE  \E f : Decodes(f, r, bytes, m)
<1> DEFINE S == {k \in Nat : ~\E f : Decodes(f, r, bytes, k)}
<1> SUFFICES ASSUME S # {} PROVE FALSE
  OBVIOUS
<1>1. PICK k \in S : \A j \in Nat : j < k => j \notin S
  BY SmallestFailure
<1>2. CASE k = 0
  <2> DEFINE f == [n \in 0 .. 0 |-> r]
  <2>1. Decodes(f, r, bytes, 0)
    BY DEF Decodes
  <2> QED
    BY <1>2, <2>1
<1>3. CASE k # 0
  <2>1. k - 1 \in Nat /\ k - 1 < k
    BY <1>3
  <2>2. PICK f : Decodes(f, r, bytes, k - 1)
    BY <1>1, <2>1
  <2> DEFINE g == [n \in 0 .. k |-> IF n = k THEN decodeByte(f[k - 1], bytes[k]) ELSE f[n]]
  <2>3. \A n \in 0 .. k : g[n] = IF n = 0 THEN r ELSE decodeByte(g[n - 1], bytes[n])
    <3> TAKE n \in 0 .. k
    <3>1. CASE n = k
      <4>1. g[n] = decodeByte(f[k - 1], bytes[k]) /\ g[n - 1] = f[k - 1]
        BY <2>1, <3>1
      <4> QED
        BY <1>3, <3>1, <4>1
    <3>2. CASE n # k
      <4>1. n \in 0 .. k - 1 /\ g[n] = f[n]
        BY <2>1, <3>2
      <4>2. n # 0 => g[n - 1] = f[n - 1]
        BY <2>1, <4>1
      <4>3. f[n] = IF n = 0 THEN r ELSE decodeByte(f[n - 1], bytes[n])
        BY <2>2, <4>1 DEF Decodes
      <4> HIDE DEF g
      <4> QED
        BY <4>1, <4>2, <4>3
    <3> QED
      BY <3>1, <3>2
  <2>4. Decodes(g, r, bytes, k)
    <3>1. g = [n \in 0 .. k |-> g[n]]
      OBVIOUS
    <3> HIDE DEF g
    <3> QED
      BY <2>3, <3>1 DEF Decodes
  <2> HIDE DEF g
  <2> QED
    BY <2>4
<1> QED
  BY <1>2, <1>3

LEMMA DecodesReads ==
    ASSUME NEW r, Reading(r), NEW bytes, NEW m \in Nat, NEW f, Decodes(f, r, bytes, m)
    PROVE  Reads(r, f[m])
<1> DEFINE S == {k \in Nat : k <= m /\ ~Reads(r, f[k])}
<1> SUFFICES ASSUME S # {} PROVE FALSE
  OBVIOUS
<1>1. PICK k \in S : \A j \in Nat : j < k => j \notin S
  BY SmallestFailure
<1>2. CASE k = 0
  <2>1. f[0] = r
    BY DEF Decodes
  <2>2. Reads(r, r)
    BY ReadsLocal DEF Reading, Quiet
  <2> QED
    BY <1>2, <2>1, <2>2
<1>3. CASE k # 0
  <2>1. k - 1 \in Nat /\ k - 1 < k /\ k - 1 <= m /\ k \in 0 .. m
    BY <1>3
  <2> DEFINE s == f[k - 1]
  <2>2. Reads(r, s)
    BY <1>1, <2>1
  <2>3. f[k] = decodeByte(s, bytes[k])
    BY <1>3, <2>1 DEF Decodes
  <2> HIDE DEF s
  <2>4. CASE s.pc = "reading"
    <3>1. Reading(s)
      BY <2>2, <2>4 DEF Reads, Good, Reading, Over
    <3>2. Reads(s, decodeByte(s, bytes[k]))
      BY <3>1, DecodeByteReads
    <3>3. Reads(r, decodeByte(s, bytes[k]))
      BY <2>2, <3>2 DEF Reads, SameUpload
    <3> QED
      BY <2>3, <3>3
  <2>5. CASE s.pc # "reading"
    BY <2>2, <2>3, <2>5 DEF decodeByte
  <2> QED
    BY <2>4, <2>5
<1> QED
  BY <1>2, <1>3

LEMMA DecodeReads ==
    ASSUME NEW r, Reading(r), NEW bytes, Len(bytes) \in Nat
    PROVE  Reads(r, decode(r, bytes))
<1> DEFINE f == CHOOSE f : Decodes(f, r, bytes, Len(bytes))
<1>1. decode(r, bytes) = f[Len(bytes)]
  BY DEF decode, Decodes
<1>2. Decodes(f, r, bytes, Len(bytes))
  BY DecodesExists
<1> HIDE DEF f
<1> QED
  BY <1>1, <1>2, DecodesReads

\* The loop of writeAll, chunk by chunk.
Writes(f, r, m) ==
    f = [n \in 0 .. m |-> IF n = 0 THEN r
                          ELSE IF f[n - 1].pc = "reading" THEN writeChunk(f[n - 1]) ELSE f[n - 1]]

LEMMA WritesExists ==
    ASSUME NEW r, NEW m \in Nat
    PROVE  \E f : Writes(f, r, m)
<1> DEFINE S == {k \in Nat : ~\E f : Writes(f, r, k)}
<1> SUFFICES ASSUME S # {} PROVE FALSE
  OBVIOUS
<1>1. PICK k \in S : \A j \in Nat : j < k => j \notin S
  BY SmallestFailure
<1>2. CASE k = 0
  <2> DEFINE f == [n \in 0 .. 0 |-> r]
  <2>1. Writes(f, r, 0)
    BY DEF Writes
  <2> QED
    BY <1>2, <2>1
<1>3. CASE k # 0
  <2>1. k - 1 \in Nat /\ k - 1 < k
    BY <1>3
  <2>2. PICK f : Writes(f, r, k - 1)
    BY <1>1, <2>1
  <2> DEFINE Step(s) == IF s.pc = "reading" THEN writeChunk(s) ELSE s
             g == [n \in 0 .. k |-> IF n = k THEN Step(f[k - 1]) ELSE f[n]]
  <2>3. \A n \in 0 .. k : g[n] = IF n = 0 THEN r ELSE Step(g[n - 1])
    <3> TAKE n \in 0 .. k
    <3> HIDE DEF Step
    <3>1. CASE n = k
      <4>1. g[n] = Step(f[k - 1]) /\ g[n - 1] = f[k - 1]
        BY <2>1, <3>1
      <4> QED
        BY <1>3, <3>1, <4>1
    <3>2. CASE n # k
      <4>1. n \in 0 .. k - 1 /\ g[n] = f[n]
        BY <2>1, <3>2
      <4>2. n # 0 => g[n - 1] = f[n - 1]
        BY <2>1, <4>1
      <4>3. f[n] = IF n = 0 THEN r ELSE Step(f[n - 1])
        BY <2>2, <4>1 DEF Writes, Step
      <4> HIDE DEF g
      <4> QED
        BY <4>1, <4>2, <4>3
    <3> QED
      BY <3>1, <3>2
  <2>4. Writes(g, r, k)
    <3>1. g = [n \in 0 .. k |-> g[n]]
      OBVIOUS
    <3> HIDE DEF g
    <3> QED
      BY <2>3, <3>1 DEF Writes
  <2> HIDE DEF g
  <2> QED
    BY <2>4
<1> QED
  BY <1>2, <1>3

LEMMA WritesReads ==
    ASSUME NEW r, Reading(r), NEW m \in Nat, NEW f, Writes(f, r, m)
    PROVE  Reads(r, f[m])
<1> DEFINE S == {k \in Nat : k <= m /\ ~Reads(r, f[k])}
<1> SUFFICES ASSUME S # {} PROVE FALSE
  OBVIOUS
<1>1. PICK k \in S : \A j \in Nat : j < k => j \notin S
  BY SmallestFailure
<1>2. CASE k = 0
  <2>1. f[0] = r
    BY DEF Writes
  <2>2. Reads(r, r)
    BY ReadsLocal DEF Reading, Quiet
  <2> QED
    BY <1>2, <2>1, <2>2
<1>3. CASE k # 0
  <2>1. k - 1 \in Nat /\ k - 1 < k /\ k - 1 <= m /\ k \in 0 .. m
    BY <1>3
  <2> DEFINE s == f[k - 1]
  <2>2. Reads(r, s)
    BY <1>1, <2>1
  <2>3. f[k] = IF s.pc = "reading" THEN writeChunk(s) ELSE s
    BY <1>3, <2>1 DEF Writes
  <2> HIDE DEF s
  <2>4. CASE s.pc = "reading"
    <3>1. Reading(s)
      BY <2>2, <2>4 DEF Reads, Good, Reading, Over
    <3>2. Reads(s, writeChunk(s))
      BY <3>1, WriteChunkReads
    <3>3. Reads(r, writeChunk(s))
      BY <2>2, <3>2 DEF Reads, SameUpload
    <3> QED
      BY <2>3, <2>4, <3>3
  <2>5. CASE s.pc # "reading"
    BY <2>2, <2>3, <2>5
  <2> QED
    BY <2>4, <2>5
<1> QED
  BY <1>2, <1>3

LEMMA WriteAllReads == ASSUME NEW r, Reading(r) PROVE Reads(r, writeAll(r))
<1> DEFINE m == Len(r.buffer)
           f == CHOOSE f : Writes(f, r, m)
           w == f[m]
<1>1. writeAll(r) = IF w.pc = "reading" THEN Ended(w, "complete") ELSE w
  BY DEF writeAll, Writes
<1>2. m \in Nat
  BY SeqFacts DEF Reading, Quiet
<1>3. Writes(f, r, m)
  <2> HIDE DEF m
  <2> QED
    BY <1>2, WritesExists
<1>4. Reads(r, w)
  <2> HIDE DEF m, f
  <2> QED
    BY <1>2, <1>3, WritesReads
<1> HIDE DEF m, f, w
<1>5. CASE w.pc = "reading"
  <2>1. Reading(w)
    BY <1>4, <1>5 DEF Reads, Good, Reading, Over
  <2>2. Reads(w, Ended(w, "complete"))
    BY <2>1, ReadsEnd
  <2>3. Reads(r, Ended(w, "complete"))
    BY <1>4, <2>2 DEF Reads, SameUpload
  <2> QED
    BY <1>1, <1>5, <2>3
<1>6. CASE w.pc # "reading"
  BY <1>1, <1>4, <1>6
<1> QED
  BY <1>5, <1>6

LEMMA ReadBytesReads ==
    ASSUME NEW r, Reading(r), NEW bytes, IsSeq(bytes)
    PROVE  Reads(r, readBytes(r, bytes))
<1>1. DOMAIN r = Fields /\ IsSeq(r.buffer)
  BY DEF Reading, Quiet
<1>2. Reads(r, Ended(r, "response_too_large"))
  BY ReadsEnd
<1>3. Reads(r, decode(r, bytes))
  BY DecodeReads, SeqFacts
<1>4. Reads(r, [r EXCEPT !.buffer = r.buffer \o bytes])
  <2> DEFINE v == r.buffer \o bytes
             s == [r EXCEPT !.buffer = v]
  <2>1. IsSeq(v)
    BY <1>1, SeqFacts
  <2>2. DOMAIN s = Fields /\ s.buffer = v
        /\ \A f \in Fields \ {"head", "completed", "total", "written", "buffer", "rest", "response"} :
               s[f] = r[f]
    <3> HIDE DEF v
    <3> QED
      BY <1>1 DEF Fields
  <2>3. Reads(r, s)
    <3> HIDE DEF s, v
    <3> QED
      BY <2>1, <2>2, ReadsLocal
  <2> QED
    BY <2>3
<1>5. \/ readBytes(r, bytes) = Ended(r, "response_too_large")
      \/ readBytes(r, bytes) = decode(r, bytes)
      \/ readBytes(r, bytes) = [r EXCEPT !.buffer = r.buffer \o bytes]
  BY DEF readBytes
<1> QED
  BY <1>2, <1>3, <1>4, <1>5

LEMMA FinishResponseReads ==
    ASSUME NEW r, Reading(r)
    PROVE  Reads(r, finishResponse(r))
<1>1. \A e : Reads(r, Ended(r, e))
  BY ReadsEnd
<1>2. Reads(r, writeAll(r))
  BY WriteAllReads
<1>3. \/ \E e : finishResponse(r) = Ended(r, e)
      \/ finishResponse(r) = writeAll(r)
  <2>1. CASE r.response.form = "plain"
    BY <2>1 DEF finishResponse
  <2>2. CASE r.response.form = "json"
    BY <2>2 DEF finishResponse
  <2>3. CASE r.response.form \notin {"plain", "json"}
    BY <2>3 DEF finishResponse
  <2> QED
    BY <2>1, <2>2, <2>3
<1> QED
  BY <1>1, <1>2, <1>3

-----------------------------------------------------------------------------
(* The text of an answer *)

LEMMA HalfFacts ==
    /\ \A l, h : Half(l, h).frame = l /\ Half(l, h).half = h
    /\ \A l : Half(l, 1) # NewLine /\ Half(l, 2) # NewLine /\ Half(l, 1) # Half(l, 2)
BY DEF Half, NewLine

LEMMA FrontFacts ==
    ASSUME NEW s, NEW n \in Nat, s = [i \in 1 .. n |-> s[i]], n > 0
    PROVE  Len(Front(s)) = n - 1 /\ \A i \in 1 .. n - 1 : Front(s)[i] = s[i]
<1> DEFINE S == {s[i] : i \in 1 .. n}
<1>1. s \in Seq(S) /\ Len(s) = n
  OBVIOUS
<1> HIDE DEF S
<1>2. Front(s) = SubSeq(s, 1, n - 1)
  BY <1>1 DEF Front
<1>3. Len(SubSeq(s, 1, n - 1)) = n - 1 /\ \A i \in 1 .. n - 1 : SubSeq(s, 1, n - 1)[i] = s[i]
  BY <1>1
<1> QED
  BY <1>2, <1>3

\* The lines of a stream lie in its text one after the other.
LEMMA TextFacts ==
    ASSUME NEW response \in Responses, isGatewayStreamResponse(response)
    PROVE  LET lines == response.lines
               text == Encode(response)
               n == Len(text)
           IN  /\ Len(lines) \in Nat /\ n \in Nat
               /\ n = IF response.whole \/ Len(lines) = 0 THEN 3 * Len(lines) ELSE 3 * Len(lines) - 1
               /\ \A m \in Nat :
                    /\ 3 * m + 1 <= n => m + 1 \in 1 .. Len(lines) /\ text[3 * m + 1] = Half(lines[m + 1], 1)
                    /\ 3 * m + 2 <= n => m + 1 \in 1 .. Len(lines) /\ text[3 * m + 2] = Half(lines[m + 1], 2)
                    /\ 3 * m + 3 <= n => m + 1 \in 1 .. Len(lines) /\ text[3 * m + 3] = NewLine
<1> DEFINE lines == response.lines
           size == 3 * Len(lines)
           text == [i \in 1 .. size |->
                     IF i % 3 = 0 THEN NewLine ELSE Half(lines[(i + 2) \div 3], i % 3)]
           sent == Encode(response)
<1>1. Len(lines) \in Nat /\ size \in Nat /\ response.whole \in BOOLEAN
  BY ResponsesAssumption
<1>2. ASSUME NEW m \in Nat
      PROVE  /\ (3 * m + 1) % 3 = 1 /\ (3 * m + 1 + 2) \div 3 = m + 1
             /\ (3 * m + 2) % 3 = 2 /\ (3 * m + 2 + 2) \div 3 = m + 1
             /\ (3 * m + 3) % 3 = 0
  OBVIOUS
<1>3. ASSUME NEW m \in Nat
      PROVE  /\ 3 * m + 1 <= size => m + 1 \in 1 .. Len(lines) /\ text[3 * m + 1] = Half(lines[m + 1], 1)
             /\ 3 * m + 2 <= size => m + 1 \in 1 .. Len(lines) /\ text[3 * m + 2] = Half(lines[m + 1], 2)
             /\ 3 * m + 3 <= size => m + 1 \in 1 .. Len(lines) /\ text[3 * m + 3] = NewLine
  <2>1. /\ 3 * m + 1 <= size => m + 1 \in 1 .. Len(lines) /\ 3 * m + 1 \in 1 .. size
        /\ 3 * m + 2 <= size => m + 1 \in 1 .. Len(lines) /\ 3 * m + 2 \in 1 .. size
        /\ 3 * m + 3 <= size => m + 1 \in 1 .. Len(lines) /\ 3 * m + 3 \in 1 .. size
    BY <1>1
  <2> HIDE DEF size, lines
  <2>2. \A i \in 1 .. size : text[i] = IF i % 3 = 0 THEN NewLine ELSE Half(lines[(i + 2) \div 3], i % 3)
    OBVIOUS
  <2> HIDE DEF text
  <2>3. 3 * m + 1 <= size => text[3 * m + 1] = Half(lines[m + 1], 1)
    BY <1>2, <2>1, <2>2
  <2>4. 3 * m + 2 <= size => text[3 * m + 2] = Half(lines[m + 1], 2)
    BY <1>2, <2>1, <2>2
  <2>5. 3 * m + 3 <= size => text[3 * m + 3] = NewLine
    BY <1>2, <2>1, <2>2
  <2> QED
    BY <2>1, <2>3, <2>4, <2>5
<1>4. Len(text) = size /\ text = [i \in 1 .. size |-> text[i]]
  BY <1>1
<1>5. sent = IF response.whole THEN text ELSE Front(text)
  BY DEF Encode
<1> HIDE DEF text, sent, size
<1>6. /\ Len(sent) = IF response.whole \/ size = 0 THEN size ELSE size - 1
      /\ \A i \in 1 .. Len(sent) : sent[i] = text[i]
  <2>1. CASE response.whole
    BY <1>1, <1>4, <1>5, <2>1
  <2>2. CASE ~response.whole /\ size > 0
    BY <1>1, <1>4, <1>5, <2>2, FrontFacts
  <2>3. CASE ~response.whole /\ size = 0
    <3>1. text = <<>>
      BY <1>4, <2>3
    <3>2. Front(text) = <<>>
      BY <3>1 DEF Front
    <3> QED
      BY <1>1, <1>5, <2>3, <3>2
  <2> QED
    BY <1>1, <2>1, <2>2, <2>3
<1> QED
  BY <1>1, <1>3, <1>6 DEF sent, size

-----------------------------------------------------------------------------
(* Counting chunks *)

ChunksTo(lines, m) == Cardinality({i \in 1 .. m : lines[i] = "chunk"})

LEMMA CountFacts ==
    ASSUME NEW lines, NEW m \in Nat
    PROVE  /\ ChunksTo(lines, 0) = 0 /\ ChunksTo(lines, m) \in Nat
           /\ ChunksTo(lines, m + 1) = IF lines[m + 1] = "chunk" THEN ChunksTo(lines, m) + 1
                                       ELSE ChunksTo(lines, m)
           /\ (\A i \in 1 .. m : lines[i] = "chunk") => ChunksTo(lines, m) = m
<1> DEFINE S(k) == {i \in 1 .. k : lines[i] = "chunk"}
<1>1. S(0) = {} /\ Cardinality({}) = 0
  BY FS_EmptySet
<1>2. IsFiniteSet(S(m)) /\ Cardinality(S(m)) \in Nat
  <2>1. IsFiniteSet(1 .. m)
    BY FS_Interval
  <2> QED
    BY <2>1, FS_Subset, FS_CardinalityType
<1>3. ASSUME lines[m + 1] = "chunk" PROVE Cardinality(S(m + 1)) = Cardinality(S(m)) + 1
  <2>1. S(m + 1) = S(m) \cup {m + 1} /\ m + 1 \notin S(m)
    BY <1>3
  <2> HIDE DEF S
  <2>2. Cardinality(S(m) \cup {m + 1}) = Cardinality(S(m)) + 1
    BY <1>2, <2>1, FS_AddElement
  <2> QED
    BY <2>1, <2>2
<1>4. ASSUME lines[m + 1] # "chunk" PROVE S(m + 1) = S(m)
  BY <1>4
<1>5. ASSUME \A i \in 1 .. m : lines[i] = "chunk" PROVE Cardinality(S(m)) = m
  <2>1. S(m) = 1 .. m
    BY <1>5
  <2>2. Cardinality(1 .. m) = m
    BY FS_Interval
  <2> QED
    BY <2>1, <2>2
<1> QED
  BY <1>1, <1>2, <1>3, <1>4, <1>5 DEF ChunksTo

-----------------------------------------------------------------------------
(* What the first lines of a stream say *)

AllBlank(lines, m) == \A i \in 1 .. m : lines[i] = "blank"
Begun(lines, m) ==
    \E h \in 1 .. m : /\ lines[h] = "response"
                      /\ \A i \in 1 .. m \ {h} : lines[i] = "blank" \/ (lines[i] = "chunk" /\ h < i)
Done(lines, m) ==
    \E h, e \in 1 .. m : /\ h < e /\ lines[h] = "response" /\ lines[e] = "end"
                         /\ \A i \in 1 .. m \ {h, e} :
                              lines[i] = "blank" \/ (lines[i] = "chunk" /\ h < i /\ i < e)

LEMMA StageSteps ==
    ASSUME NEW lines, NEW m \in Nat
    PROVE  /\ AllBlank(lines, m) /\ lines[m + 1] = "blank" => AllBlank(lines, m + 1)
           /\ AllBlank(lines, m) /\ lines[m + 1] = "response" => Begun(lines, m + 1)
           /\ Begun(lines, m) /\ lines[m + 1] \in {"blank", "chunk"} => Begun(lines, m + 1)
           /\ Begun(lines, m) /\ lines[m + 1] = "end" => Done(lines, m + 1)
           /\ Done(lines, m) /\ lines[m + 1] = "blank" => Done(lines, m + 1)
<1>1. \A i \in 1 .. m + 1 : i # m + 1 => i \in 1 .. m
  OBVIOUS
<1>2. m + 1 \in 1 .. m + 1 /\ \A i \in 1 .. m : i \in 1 .. m + 1 /\ i < m + 1
  OBVIOUS
<1>3. AllBlank(lines, m) /\ lines[m + 1] = "blank" => AllBlank(lines, m + 1)
  BY <1>1 DEF AllBlank
<1>4. ASSUME AllBlank(lines, m), lines[m + 1] = "response" PROVE Begun(lines, m + 1)
  BY <1>1, <1>2, <1>4 DEF AllBlank, Begun
<1>5. ASSUME Begun(lines, m), lines[m + 1] \in {"blank", "chunk"} PROVE Begun(lines, m + 1)
  <2>1. PICK h \in 1 .. m : /\ lines[h] = "response"
                            /\ \A i \in 1 .. m \ {h} : lines[i] = "blank" \/ (lines[i] = "chunk" /\ h < i)
    BY <1>5 DEF Begun
  <2>2. h \in 1 .. m + 1 /\ h < m + 1
    BY <1>2
  <2>3. \A i \in 1 .. m + 1 \ {h} : lines[i] = "blank" \/ (lines[i] = "chunk" /\ h < i)
    BY <1>1, <1>5, <2>1, <2>2
  <2> QED
    BY <2>1, <2>2, <2>3 DEF Begun
<1>6. ASSUME Begun(lines, m), lines[m + 1] = "end" PROVE Done(lines, m + 1)
  <2>1. PICK h \in 1 .. m : /\ lines[h] = "response"
                            /\ \A i \in 1 .. m \ {h} : lines[i] = "blank" \/ (lines[i] = "chunk" /\ h < i)
    BY <1>6 DEF Begun
  <2>2. h \in 1 .. m + 1 /\ h < m + 1
    BY <1>2
  <2>3. \A i \in 1 .. m + 1 \ {h, m + 1} :
            lines[i] = "blank" \/ (lines[i] = "chunk" /\ h < i /\ i < m + 1)
    BY <1>1, <1>2, <2>1
  <2> QED
    BY <1>2, <1>6, <2>1, <2>2, <2>3 DEF Done
<1>7. ASSUME Done(lines, m), lines[m + 1] = "blank" PROVE Done(lines, m + 1)
  <2>1. PICK h \in 1 .. m, e \in 1 .. m :
            /\ h < e /\ lines[h] = "response" /\ lines[e] = "end"
            /\ \A i \in 1 .. m \ {h, e} :
                 lines[i] = "blank" \/ (lines[i] = "chunk" /\ h < i /\ i < e)
    BY <1>7 DEF Done
  <2>2. h \in 1 .. m + 1 /\ e \in 1 .. m + 1
    BY <1>2
  <2>3. \A i \in 1 .. m + 1 \ {h, e} :
            lines[i] = "blank" \/ (lines[i] = "chunk" /\ h < i /\ i < e)
    BY <1>1, <1>7, <2>1
  <2> QED
    BY <2>1, <2>2, <2>3 DEF Done
<1> QED
  BY <1>3, <1>4, <1>5, <1>6, <1>7

\* What may come next in a stream that is valid in the end.
LEMMA StageFollows ==
    ASSUME NEW lines, NEW n \in Nat, Done(lines, n), NEW m \in Nat
    PROVE  /\ m + 1 \in 1 .. n =>
                /\ AllBlank(lines, m) => lines[m + 1] \in {"blank", "response"}
                /\ Begun(lines, m) => lines[m + 1] \in {"blank", "chunk", "end"}
                /\ Done(lines, m) => lines[m + 1] = "blank"
           /\ ~AllBlank(lines, n) /\ ~Begun(lines, n)
<1>1. PICK h \in 1 .. n, e \in 1 .. n :
          /\ h < e /\ lines[h] = "response" /\ lines[e] = "end"
          /\ \A i \in 1 .. n \ {h, e} :
               lines[i] = "blank" \/ (lines[i] = "chunk" /\ h < i /\ i < e)
  BY DEF Done
<1>2. ASSUME m + 1 \in 1 .. n PROVE m + 1 \in Nat /\ m < m + 1 /\ \A i \in 1 .. m : i \in 1 .. n /\ i < m + 1
  BY <1>2
<1>3. \A i \in 1 .. n : /\ lines[i] = "response" => i = h
                        /\ lines[i] = "end" => i = e
                        /\ lines[i] = "chunk" => h < i /\ i < e
                        /\ lines[i] \in {"blank", "response", "chunk", "end"}
  BY <1>1
<1>4. ASSUME m + 1 \in 1 .. n, AllBlank(lines, m) PROVE lines[m + 1] \in {"blank", "response"}
  <2>1. h \notin 1 .. m
    BY <1>1, <1>4 DEF AllBlank
  <2>2. ~(h < m + 1)
    BY <2>1
  <2> QED
    BY <1>1, <1>3, <1>4, <2>2
<1>5. ASSUME m + 1 \in 1 .. n, Begun(lines, m) PROVE lines[m + 1] \in {"blank", "chunk", "end"}
  <2>1. PICK k \in 1 .. m : lines[k] = "response"
    BY <1>5 DEF Begun
  <2> QED
    BY <1>2, <1>3, <1>5, <2>1
<1>6. ASSUME m + 1 \in 1 .. n, Done(lines, m) PROVE lines[m + 1] = "blank"
  <2>1. PICK k \in 1 .. m, l \in 1 .. m : lines[k] = "response" /\ lines[l] = "end"
    BY <1>6 DEF Done
  <2>2. k = h /\ l = e /\ h < m + 1 /\ e < m + 1
    BY <1>2, <1>3, <1>6, <2>1
  <2> QED
    BY <1>3, <1>6, <2>2
<1>7. ~AllBlank(lines, n)
  BY <1>1 DEF AllBlank
<1>8. ~Begun(lines, n)
  BY <1>1 DEF Begun
<1> QED
  BY <1>4, <1>5, <1>6, <1>7, <1>8

LEMMA ValidStreamFacts ==
    ASSUME NEW response \in Responses
    PROVE  LET lines == response.lines
           IN  /\ Len(lines) \in Nat
               /\ Chunks(lines) = ChunksTo(lines, Len(lines))
               /\ ValidStream(lines) <=> ChunksTo(lines, Len(lines)) <= BodyLimit /\ Done(lines, Len(lines))
<1>1. response.lines \in Seq(STRING)
  BY ResponsesAssumption
<1>2. DOMAIN response.lines = 1 .. Len(response.lines) /\ Len(response.lines) \in Nat
  BY <1>1
<1> QED
  BY <1>2 DEF ValidStream, Chunks, ChunksTo, Done

-----------------------------------------------------------------------------
(* Decoding a stream *)

\* The transport has taken the first m lines of its stream.
Took(r, m) ==
    LET lines == r.response.lines
    IN  /\ r.total = ChunksTo(lines, m) /\ r.written = r.total /\ r.total <= BodyLimit
        /\ IF r.completed THEN Done(lines, m)
           ELSE IF r.head THEN Begun(lines, m) ELSE AllBlank(lines, m)

\* What is in the buffer after k bytes of a line.
Part(line, k) == IF k = 0 THEN <<>> ELSE IF k = 1 THEN <<Half(line, 1)>>
                 ELSE <<Half(line, 1), Half(line, 2)>>

\* It has taken p bytes.
TookBytes(r, p) ==
    \E m \in Nat, k \in {0, 1, 2} : p = 3 * m + k /\ Took(r, m) /\ r.buffer = Part(r.response.lines[m + 1], k)

\* It has ended, and rightly so.
Verdict(r) == Over(r) /\ ResponseWhole(r)

\* What follows a step of the decoder: it goes on, having taken p bytes, or has ended.
TakesBytes(r, s, p) ==
    s.response = r.response /\ ((Reading(s) /\ s.rest = r.rest /\ TookBytes(s, p)) \/ Verdict(s))

LEMMA EndedAnswer ==
    ASSUME NEW r, Quiet(r), NEW event
    PROVE  /\ Over(Ended(r, event)) /\ Ended(r, event).terminals = <<event>>
           /\ Ended(r, event).response = r.response /\ Ended(r, event).written = r.written
<1> DEFINE t == IF r.reported THEN Dropped(r).terminals ELSE Append(Dropped(r).terminals, event)
<1>1. Ended(r, event) = [Dropped(r) EXCEPT !.terminals = t]
  BY DEF Ended
<1>2. /\ DOMAIN Dropped(r) = Fields /\ Dropped(r).terminals = <<>>
      /\ Dropped(r).response = r.response /\ Dropped(r).written = r.written
  BY DEF Dropped, Fields, Quiet
<1>3. t = <<event>>
  BY <1>2 DEF Quiet
<1> HIDE DEF t
<1>4. /\ Ended(r, event).terminals = t
      /\ Ended(r, event).response = r.response /\ Ended(r, event).written = r.written
  BY <1>1, <1>2 DEF Fields
<1> QED
  BY <1>3, <1>4, QuietEnds

LEMMA EndedVerdict ==
    ASSUME NEW r, Quiet(r), NEW event,
           event = "complete" => ValidAnswer(r.response) /\ r.written = Chunks(r.response.lines),
           event = "invalid_response" => ~ValidAnswer(r.response)
    PROVE  Verdict(Ended(r, event)) /\ Ended(r, event).response = r.response
<1>1. <<event>> = <<"complete">> => event = "complete"
  OBVIOUS
<1>2. <<event>> = <<"invalid_response">> => event = "invalid_response"
  OBVIOUS
<1> QED
  BY <1>1, <1>2, EndedAnswer DEF Verdict, ResponseWhole

\* Other local changes than those of the text.
LEMMA SetReading ==
    ASSUME NEW r, Reading(r), NEW s, DOMAIN s = Fields, IsSeq(s.buffer),
           \A f \in Fields \ {"head", "completed", "total", "written", "buffer", "rest"} : s[f] = r[f]
    PROVE  Reading(s) /\ s.response = r.response
BY ReadsLocal DEF Fields

LEMMA ApplyFrameTakes ==
    ASSUME NEW r, Reading(r), r.buffer = <<>>, r.response \in Responses, isGatewayStreamResponse(r.response),
           NEW m \in Nat, m + 1 \in 1 .. Len(r.response.lines), Took(r, m),
           r.response.lines[m + 1] # "blank"
    PROVE  TakesBytes(r, applyFrame(r, r.response.lines[m + 1]), 3 * (m + 1))
<1> DEFINE lines == r.response.lines
           f == lines[m + 1]
           n == Len(lines)
<1>1. DOMAIN r = Fields /\ Quiet(r)
  BY DEF Reading, Quiet
<1>2. n \in Nat /\ (ValidStream(lines) => Done(lines, n))
  BY ValidStreamFacts
<1>3. ValidAnswer(r.response) => Done(lines, n)
  BY <1>2 DEF ValidAnswer
<1>4. \A e : e \notin {"complete", "invalid_response"} => TakesBytes(r, Ended(r, e), 3 * (m + 1))
  BY <1>1, EndedVerdict DEF TakesBytes
<1>5. ~Done(lines, n) => TakesBytes(r, Ended(r, "invalid_response"), 3 * (m + 1))
  BY <1>1, <1>3, EndedVerdict DEF TakesBytes
<1>6. ASSUME NEW s, Reading(s), s.response = r.response, s.rest = r.rest, s.buffer = <<>>, Took(s, m + 1)
      PROVE  TakesBytes(r, s, 3 * (m + 1))
  <2>1. 3 * (m + 1) = 3 * (m + 1) + 0 /\ m + 1 \in Nat
    OBVIOUS
  <2>2. s.buffer = Part(s.response.lines[(m + 1) + 1], 0)
    BY <1>6 DEF Part
  <2> QED
    BY <1>6, <2>1, <2>2 DEF TakesBytes, TookBytes
<1>7. /\ r.total = ChunksTo(lines, m) /\ r.written = r.total /\ r.total <= BodyLimit
      /\ IF r.completed THEN Done(lines, m) ELSE IF r.head THEN Begun(lines, m) ELSE AllBlank(lines, m)
  BY DEF Took
<1>8. ChunksTo(lines, m) \in Nat
      /\ ChunksTo(lines, m + 1) = IF f = "chunk" THEN ChunksTo(lines, m) + 1 ELSE ChunksTo(lines, m)
  BY CountFacts
<1>9. ASSUME Done(lines, n)
      PROVE  /\ AllBlank(lines, m) => f \in {"blank", "response"}
             /\ Begun(lines, m) => f \in {"blank", "chunk", "end"}
             /\ Done(lines, m) => f = "blank"
  BY <1>2, <1>9, StageFollows
<1>10. CASE r.completed
  BY <1>5, <1>7, <1>9, <1>10 DEF applyFrame
<1>11. CASE ~r.completed /\ f = "response" /\ ~r.head
  <2>1. ASSUME NEW v PROVE LET s == [r EXCEPT !.head = v]
                           IN  /\ DOMAIN s = Fields /\ s.head = v
                               /\ \A g \in Fields \ {"head"} : s[g] = r[g]
    BY <1>1 DEF Fields
  <2> DEFINE s == [r EXCEPT !.head = TRUE]
  <2>2. applyFrame(r, f) = s
    BY <1>11 DEF applyFrame
  <2>3. DOMAIN s = Fields /\ s.head = TRUE /\ \A g \in Fields \ {"head"} : s[g] = r[g]
    BY <2>1
  <2> HIDE DEF s
  <2>4. s.completed = r.completed /\ s.total = r.total /\ s.written = r.written /\ s.buffer = <<>>
        /\ s.response = r.response /\ s.rest = r.rest
    BY <2>3 DEF Fields
  <2>5. Reading(s)
    BY <2>3, <2>4, SeqFacts, SetReading
  <2>6. Begun(lines, m + 1)
    BY <1>7, <1>11, StageSteps
  <2>7. Took(s, m + 1)
    BY <1>7, <1>8, <1>11, <2>3, <2>4, <2>6 DEF Took
  <2> QED
    BY <1>6, <2>2, <2>4, <2>5, <2>7
<1>12. CASE ~r.completed /\ f = "chunk" /\ r.head
  <2>1. applyFrame(r, f) = writeChunk(r)
    BY <1>12 DEF applyFrame
  <2>2. CASE r.total + 1 > BodyLimit
    BY <1>4, <2>1, <2>2 DEF writeChunk
  <2>3. CASE ~(r.total + 1 > BodyLimit)
    <3> DEFINE s == [r EXCEPT !.total = r.total + 1, !.written = r.written + 1]
    <3>1. applyFrame(r, f) = s
      BY <2>1, <2>3 DEF writeChunk
    <3>2. DOMAIN s = Fields /\ s.total = r.total + 1 /\ s.written = r.written + 1
          /\ \A g \in Fields \ {"total", "written"} : s[g] = r[g]
      BY <1>1 DEF Fields
    <3> HIDE DEF s
    <3>3. s.completed = r.completed /\ s.head = r.head /\ s.buffer = <<>> /\ s.response = r.response
          /\ s.rest = r.rest
      BY <3>2 DEF Fields
    <3>4. Reading(s)
      BY <3>2, <3>3, SeqFacts, SetReading
    <3>5. Begun(lines, m + 1)
      BY <1>7, <1>12, StageSteps
    <3>6. s.total <= BodyLimit /\ s.total = ChunksTo(lines, m + 1) /\ s.written = s.total
      BY <1>7, <1>8, <1>12, <2>3, <3>2, LimitsAssumption
    <3>7. Took(s, m + 1)
      BY <1>12, <3>3, <3>5, <3>6 DEF Took
    <3> QED
      BY <1>6, <3>1, <3>3, <3>4, <3>7
  <2> QED
    BY <2>2, <2>3
<1>13. CASE ~r.completed /\ f = "end" /\ r.head
  <2>1. ASSUME NEW v PROVE LET s == [r EXCEPT !.completed = v]
                           IN  /\ DOMAIN s = Fields /\ s.completed = v
                               /\ \A g \in Fields \ {"completed"} : s[g] = r[g]
    BY <1>1 DEF Fields
  <2> DEFINE s == [r EXCEPT !.completed = TRUE]
  <2>2. applyFrame(r, f) = s
    BY <1>13 DEF applyFrame
  <2>3. DOMAIN s = Fields /\ s.completed = TRUE /\ \A g \in Fields \ {"completed"} : s[g] = r[g]
    BY <2>1
  <2> HIDE DEF s
  <2>4. s.head = r.head /\ s.total = r.total /\ s.written = r.written /\ s.buffer = <<>>
        /\ s.response = r.response /\ s.rest = r.rest
    BY <2>3 DEF Fields
  <2>5. Reading(s)
    BY <2>3, <2>4, SeqFacts, SetReading
  <2>6. Done(lines, m + 1)
    BY <1>7, <1>13, StageSteps
  <2>7. Took(s, m + 1)
    BY <1>7, <1>8, <1>13, <2>3, <2>4, <2>6 DEF Took
  <2> QED
    BY <1>6, <2>2, <2>4, <2>5, <2>7
<1>14. CASE ~r.completed /\ f = "error"
  BY <1>4, <1>14 DEF applyFrame
<1>15. CASE ~r.completed /\ \/ f \notin {"response", "chunk", "end", "error"}
                            \/ f = "response" /\ r.head
                            \/ f \in {"chunk", "end"} /\ ~r.head
  <2>1. applyFrame(r, f) = Ended(r, "invalid_response")
    BY <1>15 DEF applyFrame
  <2>2. ~Done(lines, n)
    BY <1>7, <1>9, <1>15
  <2> QED
    BY <1>5, <2>1, <2>2
<1> QED
  BY <1>10, <1>11, <1>12, <1>13, <1>14, <1>15

LEMMA PairFacts ==
    ASSUME NEW a, NEW b
    PROVE  /\ Append(<<>>, a) = <<a>> /\ Append(<<a>>, b) = <<a, b>>
           /\ DOMAIN <<a, b>> = {1, 2} /\ <<a, b>>[1] = a /\ <<a, b>>[2] = b
           /\ IsSeq(<<a>>) /\ IsSeq(<<a, b>>)
<1>1. <<a>> \in Seq({a, b}) /\ <<a, b>> \in Seq({a, b})
  OBVIOUS
<1>2. Append(<<>>, a) = <<a>>
  OBVIOUS
<1>3. Append(<<a>>, b) = <<a, b>>
  <2> DEFINE s == <<a>>
             t == Append(s, b)
  <2>1. s \in Seq({a, b}) /\ Len(s) = 1 /\ s[1] = a
    OBVIOUS
  <2> HIDE DEF s
  <2>2. t \in Seq({a, b}) /\ Len(t) = 2 /\ t[1] = a /\ t[2] = b
    <3>1. ASSUME NEW S, NEW u \in Seq(S), NEW x \in S
          PROVE  /\ Append(u, x) \in Seq(S)
                 /\ Append(u, x)[Len(u) + 1] = x
      OBVIOUS
    <3>2. ASSUME NEW S, NEW u \in Seq(S), NEW x \in S
          PROVE  /\ Len(Append(u, x)) = Len(u) + 1
                 /\ \A i \in 1 .. Len(u) : Append(u, x)[i] = u[i]
      OBVIOUS
    <3>3. PICK S : S = {a, b}
      OBVIOUS
    <3>4. s \in Seq(S) /\ b \in S
      BY <2>1, <3>3
    <3>5. t \in Seq(S) /\ t[Len(s) + 1] = b
      BY <3>1, <3>4
    <3>6. Len(t) = Len(s) + 1 /\ \A i \in 1 .. Len(s) : t[i] = s[i]
      BY <3>2, <3>4
    <3> QED
      BY <2>1, <3>3, <3>5, <3>6
  <2> HIDE DEF t
  <2>3. t = <<a, b>>
    BY <2>2
  <2> QED
    BY <2>3 DEF t, s
<1>4. DOMAIN <<a, b>> = {1, 2}
  <2>1. DOMAIN <<a, b>> = 1 .. 2
    OBVIOUS
  <2> QED
    BY <2>1
<1>5. <<a, b>>[1] = a /\ <<a, b>>[2] = b
  OBVIOUS
<1> QED
  BY <1>1, <1>2, <1>3, <1>4, <1>5 DEF IsSeq

LEMMA PartFacts ==
    ASSUME NEW line
    PROVE  /\ isAsciiWhitespace(Part(line, 0)) /\ Part(line, 0) = <<>>
           /\ Append(Part(line, 0), Half(line, 1)) = Part(line, 1)
           /\ Append(Part(line, 1), Half(line, 2)) = Part(line, 2)
           /\ isAsciiWhitespace(Part(line, 2)) <=> line = "blank"
           /\ Part(line, 2)[1].frame = line /\ Part(line, 2) = <<Half(line, 1), Half(line, 2)>>
           /\ IsSeq(Part(line, 1)) /\ IsSeq(Part(line, 2))
<1>1. PICK a, b : a = Half(line, 1) /\ b = Half(line, 2)
  OBVIOUS
<1>2. Part(line, 0) = <<>> /\ Part(line, 1) = <<a>> /\ Part(line, 2) = <<a, b>>
  BY <1>1 DEF Part
<1>3. a.frame = line /\ b.frame = line
  BY <1>1, HalfFacts
<1>4. isAsciiWhitespace(<<>>)
  BY DEF isAsciiWhitespace
<1>5. isAsciiWhitespace(<<a, b>>) <=> line = "blank"
  <2>1. DOMAIN <<a, b>> = {1, 2} /\ <<a, b>>[1] = a /\ <<a, b>>[2] = b
    BY PairFacts
  <2>2. PICK s : s = <<a, b>>
    OBVIOUS
  <2>3. isAsciiWhitespace(s) <=> s[1].frame = "blank" /\ s[2].frame = "blank"
    BY <2>1, <2>2 DEF isAsciiWhitespace
  <2> QED
    BY <1>3, <2>1, <2>2, <2>3
<1>6. /\ Append(<<>>, a) = <<a>> /\ Append(<<a>>, b) = <<a, b>>
      /\ <<a, b>>[1] = a /\ IsSeq(<<a>>) /\ IsSeq(<<a, b>>)
  BY PairFacts
<1>7. PICK s, t : s = <<a>> /\ t = <<a, b>>
  OBVIOUS
<1>8. /\ Part(line, 1) = s /\ Part(line, 2) = t /\ Append(<<>>, a) = s /\ Append(s, b) = t
      /\ t[1] = a /\ IsSeq(s) /\ IsSeq(t) /\ (isAsciiWhitespace(t) <=> line = "blank")
  BY <1>2, <1>5, <1>6, <1>7
<1>9. Part(line, 2) = <<Half(line, 1), Half(line, 2)>>
  BY DEF Part
<1> QED
  BY <1>1, <1>2, <1>3, <1>4, <1>8, <1>9

LEMMA SetBuffer ==
    ASSUME NEW r, Reading(r), NEW v, IsSeq(v)
    PROVE  LET s == [r EXCEPT !.buffer = v]
           IN  /\ Reading(s) /\ s.response = r.response /\ s.rest = r.rest /\ s.buffer = v
               /\ s.head = r.head /\ s.completed = r.completed /\ s.total = r.total /\ s.written = r.written
<1> DEFINE s == [r EXCEPT !.buffer = v]
<1>1. DOMAIN s = Fields /\ s.buffer = v /\ \A f \in Fields \ {"buffer"} : s[f] = r[f]
  BY DEF Reading, Quiet, Fields
<1> HIDE DEF s
<1>2. /\ s.head = r.head /\ s.completed = r.completed /\ s.total = r.total /\ s.written = r.written
      /\ s.response = r.response /\ s.rest = r.rest
  BY <1>1 DEF Fields
<1>3. Reading(s)
  BY <1>1, SetReading
<1> QED
  BY <1>1, <1>2, <1>3 DEF s

LEMMA DecodeByteTakes ==
    ASSUME NEW r, Reading(r), r.response \in Responses, isGatewayStreamResponse(r.response),
           NEW p \in Nat, p < Len(Encode(r.response)), TookBytes(r, p)
    PROVE  TakesBytes(r, decodeByte(r, Encode(r.response)[p + 1]), p + 1)
<1> DEFINE lines == r.response.lines
           text == Encode(r.response)
           b == text[p + 1]
<1>1. PICK m \in Nat, k \in {0, 1, 2} : p = 3 * m + k /\ Took(r, m) /\ r.buffer = Part(lines[m + 1], k)
  BY DEF TookBytes
<1> DEFINE line == lines[m + 1]
<1>2. /\ 3 * m + 1 <= Len(text) => text[3 * m + 1] = Half(line, 1)
      /\ 3 * m + 2 <= Len(text) => text[3 * m + 2] = Half(line, 2)
      /\ 3 * m + 3 <= Len(text) => m + 1 \in 1 .. Len(lines) /\ text[3 * m + 3] = NewLine
      /\ Len(text) \in Nat
  BY TextFacts
<1>3. r.pc = "reading" /\ Quiet(r)
  BY DEF Reading
<1>4. ASSUME NEW j \in {1, 2}, k = j - 1, NEW c, c # NewLine, b = c, Append(r.buffer, c) = Part(line, j)
      PROVE  TakesBytes(r, decodeByte(r, b), p + 1)
  <2> DEFINE v == Append(r.buffer, c)
             s == [r EXCEPT !.buffer = v]
  <2>1. decodeByte(r, b) = s
    BY <1>3, <1>4 DEF decodeByte
  <2>2. IsSeq(v) /\ v = Part(line, j)
    BY <1>4, PartFacts
  <2> HIDE DEF v
  <2>3. /\ Reading(s) /\ s.response = r.response /\ s.rest = r.rest /\ s.buffer = v
        /\ s.head = r.head /\ s.completed = r.completed /\ s.total = r.total /\ s.written = r.written
    BY <2>2, SetBuffer
  <2> HIDE DEF s
  <2>4. Took(s, m)
    BY <1>1, <2>3 DEF Took
  <2>5. p + 1 = 3 * m + j /\ j \in {0, 1, 2}
    BY <1>1, <1>4
  <2>6. TookBytes(s, p + 1)
    BY <2>2, <2>3, <2>4, <2>5 DEF TookBytes
  <2> QED
    BY <2>1, <2>3, <2>6 DEF TakesBytes
<1>5. CASE k = 0
  <2>1. b = Half(line, 1) /\ Append(r.buffer, b) = Part(line, 1) /\ b # NewLine
    BY <1>1, <1>2, <1>5, PartFacts, HalfFacts
  <2> QED
    BY <1>4, <1>5, <2>1
<1>6. CASE k = 1
  <2>1. b = Half(line, 2) /\ Append(r.buffer, b) = Part(line, 2) /\ b # NewLine
    BY <1>1, <1>2, <1>6, PartFacts, HalfFacts
  <2> QED
    BY <1>4, <1>6, <2>1
<1>7. CASE k = 2
  <2>1. p + 1 = 3 * m + 3 /\ p + 1 = 3 * (m + 1) /\ 3 * m + 3 <= Len(text)
    BY <1>1, <1>2, <1>7
  <2>2. b = NewLine /\ m + 1 \in 1 .. Len(lines)
    BY <1>2, <2>1
  <2> DEFINE s == [r EXCEPT !.buffer = <<>>]
  <2>3. decodeByte(r, b) = applyLine(s, Part(line, 2))
    BY <1>1, <1>3, <1>7, <2>2 DEF decodeByte
  <2>4. /\ Reading(s) /\ s.response = r.response /\ s.rest = r.rest /\ s.buffer = <<>>
        /\ s.head = r.head /\ s.completed = r.completed /\ s.total = r.total /\ s.written = r.written
    BY SetBuffer, SeqFacts
  <2> HIDE DEF s
  <2>5. Took(s, m)
    BY <1>1, <2>4 DEF Took
  <2>6. CASE line = "blank"
    <3>1. applyLine(s, Part(line, 2)) = s
      BY <2>6, PartFacts DEF applyLine
    <3>2. Took(s, m + 1)
      BY <2>4, <2>5, <2>6, StageSteps, CountFacts DEF Took
    <3>3. 3 * (m + 1) = 3 * (m + 1) + 0 /\ m + 1 \in Nat /\ s.buffer = Part(s.response.lines[(m + 1) + 1], 0)
      BY <2>4, PartFacts
    <3>4. TookBytes(s, p + 1)
      BY <2>1, <3>2, <3>3 DEF TookBytes
    <3> QED
      BY <2>3, <2>4, <3>1, <3>4 DEF TakesBytes
  <2>7. CASE line # "blank"
    <3>1. applyLine(s, Part(line, 2)) = applyFrame(s, line)
      <4>1. ~isAsciiWhitespace(Part(line, 2)) /\ Part(line, 2)[1].frame = line
            /\ Part(line, 2) = <<Half(line, 1), Half(line, 2)>>
        BY <2>7, PartFacts
      <4> QED
        BY <4>1 DEF applyLine
    <3>2. TakesBytes(s, applyFrame(s, line), 3 * (m + 1))
      BY <2>2, <2>4, <2>5, <2>7, ApplyFrameTakes
    <3> QED
      BY <2>1, <2>3, <2>4, <3>1, <3>2 DEF TakesBytes
  <2> QED
    BY <2>6, <2>7
<1> QED
  BY <1>5, <1>6, <1>7

\* The loop over a chunk of the network.
LEMMA DecodeTakes ==
    ASSUME NEW r, Reading(r), r.response \in Responses, isGatewayStreamResponse(r.response),
           NEW p \in Nat, TookBytes(r, p), NEW bytes, Len(bytes) \in Nat,
           p + Len(bytes) <= Len(Encode(r.response)),
           \A i \in 1 .. Len(bytes) : bytes[i] = Encode(r.response)[p + i]
    PROVE  TakesBytes(r, decode(r, bytes), p + Len(bytes))
<1> DEFINE n == Len(bytes)
           f == CHOOSE f : Decodes(f, r, bytes, n)
<1>1. decode(r, bytes) = f[n]
  BY DEF decode, Decodes
<1>2. Decodes(f, r, bytes, n)
  <2> HIDE DEF n
  <2> QED
    BY DecodesExists DEF n
<1>3. Len(Encode(r.response)) \in Nat
  BY TextFacts
<1> HIDE DEF f
<1> DEFINE S == {k \in Nat : k <= n /\ ~TakesBytes(r, f[k], p + k)}
<1> SUFFICES ASSUME S # {} PROVE FALSE
  BY <1>1
<1>4. PICK k \in S : \A j \in Nat : j < k => j \notin S
  BY SmallestFailure
<1>5. CASE k = 0
  <2>1. f[0] = r /\ p + 0 = p
    BY <1>2 DEF Decodes
  <2>2. TakesBytes(r, r, p)
    BY DEF TakesBytes
  <2> QED
    BY <1>4, <1>5, <2>1, <2>2
<1>6. CASE k # 0
  <2>1. k - 1 \in Nat /\ k - 1 < k /\ k - 1 <= n /\ k \in 0 .. n /\ k \in 1 .. n
    BY <1>4, <1>6
  <2> DEFINE s == f[k - 1]
             q == p + (k - 1)
  <2>2. TakesBytes(r, s, q)
    BY <1>4, <2>1
  <2>3. f[k] = decodeByte(s, bytes[k])
    BY <1>2, <1>6, <2>1 DEF Decodes
  <2>4. q \in Nat /\ q + 1 = p + k /\ q < Len(Encode(r.response)) /\ bytes[k] = Encode(r.response)[q + 1]
    BY <1>3, <2>1
  <2> HIDE DEF s, q
  <2>5. CASE Reading(s) /\ s.rest = r.rest /\ TookBytes(s, q)
    <3>1. s.response = r.response
      BY <2>2 DEF TakesBytes
    <3>2. TakesBytes(s, decodeByte(s, bytes[k]), q + 1)
      BY <2>4, <2>5, <3>1, DecodeByteTakes
    <3>3. TakesBytes(r, f[k], p + k)
      BY <2>3, <2>4, <2>5, <3>1, <3>2 DEF TakesBytes
    <3> QED
      BY <1>4, <3>3
  <2>6. CASE Verdict(s)
    <3>1. s.pc # "reading"
      BY <2>6 DEF Verdict, Over
    <3>2. f[k] = s
      BY <2>3, <3>1 DEF decodeByte
    <3>3. TakesBytes(r, f[k], p + k)
      BY <2>2, <2>6, <3>2 DEF TakesBytes
    <3> QED
      BY <1>4, <3>3
  <2> QED
    BY <2>2, <2>5, <2>6 DEF TakesBytes
<1> QED
  BY <1>5, <1>6

-----------------------------------------------------------------------------
(* A body that is read to its end first *)

LEMMA WriteChunkCounts ==
    ASSUME NEW r, Reading(r)
    PROVE  LET s == writeChunk(r)
           IN  \/ /\ Reading(s) /\ s.total = r.total + 1 /\ s.written = r.written + 1
                  /\ s.response = r.response
               \/ Verdict(s)
<1>1. CASE r.total + 1 > BodyLimit
  BY <1>1, EndedVerdict DEF writeChunk, Reading
<1>2. CASE ~(r.total + 1 > BodyLimit)
  <2> DEFINE s == [r EXCEPT !.total = r.total + 1, !.written = r.written + 1]
  <2>1. writeChunk(r) = s
    BY <1>2 DEF writeChunk
  <2>2. DOMAIN s = Fields /\ s.total = r.total + 1 /\ s.written = r.written + 1
        /\ \A g \in Fields \ {"total", "written"} : s[g] = r[g]
    BY DEF Fields, Reading, Quiet
  <2> HIDE DEF s
  <2>3. IsSeq(s.buffer)
    BY <2>2 DEF Fields, Reading, Quiet
  <2>4. Reading(s) /\ s.response = r.response
    BY <2>2, <2>3, SetReading
  <2> QED
    BY <2>1, <2>2, <2>4
<1> QED
  BY <1>1, <1>2

LEMMA WritesCount ==
    ASSUME NEW r, Reading(r), r.total = 0, r.written = 0, NEW m \in Nat, NEW f, Writes(f, r, m)
    PROVE  \/ Reading(f[m]) /\ f[m].written = m /\ f[m].response = r.response
           \/ Verdict(f[m])
<1> DEFINE Counted(s, k) == \/ Reading(s) /\ s.total = k /\ s.written = k /\ s.response = r.response
                          \/ Verdict(s)
           S == {k \in Nat : k <= m /\ ~Counted(f[k], k)}
<1> SUFFICES ASSUME S # {} PROVE FALSE
  OBVIOUS
<1>1. PICK k \in S : \A j \in Nat : j < k => j \notin S
  BY SmallestFailure
<1>2. CASE k = 0
  <2>1. f[0] = r
    BY DEF Writes
  <2> QED
    BY <1>1, <1>2, <2>1
<1>3. CASE k # 0
  <2>1. k - 1 \in Nat /\ k - 1 < k /\ k - 1 <= m /\ k \in 0 .. m /\ (k - 1) + 1 = k
    BY <1>1, <1>3
  <2> DEFINE s == f[k - 1]
  <2>2. Counted(s, k - 1)
    BY <1>1, <2>1
  <2>3. f[k] = IF s.pc = "reading" THEN writeChunk(s) ELSE s
    BY <1>3, <2>1 DEF Writes
  <2> HIDE DEF s
  <2>4. CASE Verdict(s)
    <3>1. f[k] = s
      BY <2>3, <2>4 DEF Verdict, Over
    <3> QED
      BY <1>1, <2>4, <3>1
  <2>5. CASE Reading(s) /\ s.total = k - 1 /\ s.written = k - 1 /\ s.response = r.response
    <3>1. f[k] = writeChunk(s)
      BY <2>3, <2>5 DEF Reading
    <3>2. Counted(writeChunk(s), k)
      BY <2>1, <2>5, WriteChunkCounts
    <3> QED
      BY <1>1, <3>1, <3>2
  <2> QED
    BY <2>2, <2>4, <2>5
<1> QED
  BY <1>2, <1>3

LEMMA WriteAllVerdict ==
    ASSUME NEW r, Reading(r), r.total = 0, r.written = 0, ValidAnswer(r.response),
           Len(r.buffer) = Chunks(r.response.lines)
    PROVE  Verdict(writeAll(r))
<1> DEFINE m == Len(r.buffer)
           f == CHOOSE f : Writes(f, r, m)
           w == f[m]
<1>1. writeAll(r) = IF w.pc = "reading" THEN Ended(w, "complete") ELSE w
  BY DEF writeAll, Writes
<1>2. m \in Nat
  BY SeqFacts DEF Reading, Quiet
<1>3. Writes(f, r, m)
  <2> HIDE DEF m
  <2> QED
    BY <1>2, WritesExists
<1>4. (Reading(w) /\ w.written = m /\ w.response = r.response) \/ Verdict(w)
  <2> HIDE DEF m, f
  <2> QED
    BY <1>2, <1>3, WritesCount
<1>5. m = Chunks(r.response.lines)
  OBVIOUS
<1> HIDE DEF m, f, w
<1>6. CASE Verdict(w)
  BY <1>1, <1>6 DEF Verdict, Over
<1>7. CASE Reading(w) /\ w.written = m /\ w.response = r.response
  <2>1. Verdict(Ended(w, "complete"))
    BY <1>5, <1>7, EndedVerdict DEF Reading
  <2> QED
    BY <1>1, <1>7, <2>1 DEF Reading
<1> QED
  BY <1>4, <1>6, <1>7

-----------------------------------------------------------------------------
(* What is taken of an answer and what is to come make up the answer *)

TookBody(r, p) ==
    IF isGatewayStreamResponse(r.response) THEN TookBytes(r, p)
    ELSE /\ r.total = 0 /\ r.written = 0 /\ Len(r.buffer) = p
         /\ \A i \in 1 .. p : r.buffer[i] = Encode(r.response)[i]

Progress(r) ==
    /\ r.response \in Responses /\ r.response.form # "badStatus" /\ IsSeq(r.rest)
    /\ \E p \in Nat : /\ p + Len(r.rest) = Len(Encode(r.response)) /\ TookBody(r, p)
                      /\ \A i \in 1 .. Len(r.rest) : r.rest[i] = Encode(r.response)[p + i]

LEMMA SplitFacts ==
    ASSUME NEW s, IsSeq(s), NEW n \in 1 .. Len(s)
    PROVE  LET first == SubSeq(s, 1, n)
               rest == SubSeq(s, n + 1, Len(s))
           IN  /\ IsSeq(first) /\ IsSeq(rest) /\ Len(first) = n /\ Len(rest) = Len(s) - n
               /\ \A i \in 1 .. n : first[i] = s[i]
               /\ \A i \in 1 .. Len(s) - n : rest[i] = s[n + i]
<1>1. PICK S : s \in Seq(S)
  BY DEF IsSeq
<1>2. Len(s) \in Nat /\ n \in Nat /\ n <= Len(s)
  BY <1>1
<1>3. SubSeq(s, 1, n) \in Seq(S) /\ Len(SubSeq(s, 1, n)) = n
      /\ \A i \in 1 .. n : SubSeq(s, 1, n)[i] = s[i]
  BY <1>1, <1>2
<1>4. SubSeq(s, n + 1, Len(s)) \in Seq(S)
  BY <1>1, <1>2
<1>5. Len(SubSeq(s, n + 1, Len(s))) = Len(s) - n
      /\ \A i \in 1 .. Len(s) - n : SubSeq(s, n + 1, Len(s))[i] = s[n + i]
  BY <1>1, <1>2
<1> QED
  BY <1>3, <1>4, <1>5 DEF IsSeq

LEMMA JoinFacts ==
    ASSUME NEW s, IsSeq(s), NEW t, IsSeq(t)
    PROVE  /\ Len(s \o t) = Len(s) + Len(t)
           /\ \A i \in 1 .. Len(s) : (s \o t)[i] = s[i]
           /\ \A i \in Len(s) + 1 .. Len(s) + Len(t) : (s \o t)[i] = t[i - Len(s)]
<1>1. PICK S : s \in Seq(S)
  BY DEF IsSeq
<1>2. PICK T : t \in Seq(T)
  BY DEF IsSeq
<1>3. s \in Seq(S \cup T) /\ t \in Seq(S \cup T)
  BY <1>1, <1>2
<1> QED
  BY <1>3

LEMMA ArrivesAnswer ==
    ASSUME NEW r, Reading(r), Progress(r), NEW n \in 1 .. Len(r.rest)
    PROVE  LET s == readBytes([r EXCEPT !.rest = SubSeq(r.rest, n + 1, Len(r.rest))],
                              SubSeq(r.rest, 1, n))
           IN  (Reading(s) /\ Progress(s)) \/ Verdict(s)
<1> DEFINE text == Encode(r.response)
           bytes == SubSeq(r.rest, 1, n)
           rest == SubSeq(r.rest, n + 1, Len(r.rest))
           a == [r EXCEPT !.rest = rest]
           s == readBytes(a, bytes)
<1>1. r.response \in Responses /\ r.response.form # "badStatus" /\ IsSeq(r.rest)
  BY DEF Progress
<1>2. PICK p \in Nat : /\ p + Len(r.rest) = Len(text) /\ TookBody(r, p)
                       /\ \A i \in 1 .. Len(r.rest) : r.rest[i] = text[p + i]
  BY DEF Progress
<1>3. /\ IsSeq(bytes) /\ IsSeq(rest) /\ Len(bytes) = n /\ Len(rest) = Len(r.rest) - n
      /\ \A i \in 1 .. n : bytes[i] = r.rest[i]
      /\ \A i \in 1 .. Len(r.rest) - n : rest[i] = r.rest[n + i]
  BY <1>1, SplitFacts
<1>4. Len(r.rest) \in Nat /\ n \in Nat /\ n <= Len(r.rest)
  BY <1>1, SeqFacts
<1> HIDE DEF bytes, rest
<1>5. DOMAIN a = Fields /\ a.rest = rest /\ \A f \in Fields \ {"rest"} : a[f] = r[f]
  BY DEF Fields, Reading, Quiet
<1> HIDE DEF a
<1>6. /\ a.response = r.response /\ a.buffer = r.buffer /\ a.total = r.total /\ a.written = r.written
      /\ a.head = r.head /\ a.completed = r.completed
  BY <1>5 DEF Fields
<1>7. Reading(a) /\ IsSeq(a.buffer)
  <2>1. IsSeq(a.buffer)
    BY <1>6 DEF Reading, Quiet
  <2> QED
    BY <1>5, <2>1, SetReading
<1> DEFINE q == p + n
<1>8. /\ q \in Nat /\ q + Len(rest) = Len(text) /\ q <= Len(text) /\ Len(bytes) \in Nat /\ Len(text) \in Nat
      /\ \A i \in 1 .. Len(rest) : rest[i] = text[q + i]
      /\ \A i \in 1 .. Len(bytes) : bytes[i] = text[p + i]
  <2>1. q \in Nat /\ q + Len(rest) = Len(text) /\ q <= Len(text) /\ Len(bytes) \in Nat /\ Len(text) \in Nat
    <3>1. p + Len(r.rest) = Len(text) /\ Len(bytes) = n /\ Len(rest) = Len(r.rest) - n
      BY <1>2, <1>3
    <3>2. ASSUME NEW l \in Nat, NEW t, NEW b, NEW c, n \in Nat, n <= l, p + l = t, b = n, c = l - n
          PROVE  p + n \in Nat /\ (p + n) + c = t /\ p + n <= t /\ b \in Nat /\ t \in Nat
      BY <3>2
    <3> QED
      BY <1>4, <3>1, <3>2
  <2>2. ASSUME NEW i \in 1 .. Len(rest) PROVE rest[i] = text[q + i]
    <3>1. i \in 1 .. Len(r.rest) - n /\ n + i \in 1 .. Len(r.rest) /\ p + (n + i) = q + i
      BY <1>2, <1>3, <1>4
    <3>2. r.rest[n + i] = text[p + (n + i)]
      BY <1>2, <3>1
    <3> QED
      BY <1>3, <3>1, <3>2
  <2>3. ASSUME NEW i \in 1 .. Len(bytes) PROVE bytes[i] = text[p + i]
    <3>1. i \in 1 .. n /\ i \in 1 .. Len(r.rest)
      BY <1>3, <1>4
    <3> HIDE DEF text
    <3> QED
      BY <1>2, <1>3, <3>1
  <2> QED
    BY <2>1, <2>2, <2>3
<1> HIDE DEF q
<1>9. ASSUME NEW t, Reading(t), t.response = r.response, t.rest = rest, TookBody(t, q)
      PROVE  Progress(t)
  <2>1. /\ q \in Nat /\ q + Len(t.rest) = Len(Encode(t.response)) /\ TookBody(t, q)
        /\ \A i \in 1 .. Len(t.rest) : t.rest[i] = Encode(t.response)[q + i]
    BY <1>8, <1>9
  <2>2. t.response \in Responses /\ t.response.form # "badStatus" /\ IsSeq(t.rest)
    BY <1>1, <1>3, <1>9
  <2> QED
    BY <2>1, <2>2, Zenon DEF Progress
<1>10. Verdict(Ended(a, "response_too_large"))
  BY <1>7, EndedVerdict DEF Reading
<1>11. CASE s = Ended(a, "response_too_large")
  BY <1>10, <1>11 DEF a, bytes, rest
<1>12. CASE s # Ended(a, "response_too_large") /\ isGatewayStreamResponse(r.response)
  <2>1. s = decode(a, bytes)
    BY <1>6, <1>12 DEF readBytes
  <2>2. TookBytes(a, p)
    BY <1>2, <1>6, <1>12 DEF TookBody, TookBytes, Took
  <2>3. TakesBytes(a, decode(a, bytes), p + Len(bytes))
    BY <1>1, <1>3, <1>6, <1>7, <1>8, <1>12, <2>2, DecodeTakes DEF q
  <2>4. p + Len(bytes) = q
    BY <1>3 DEF q
  <2>5. CASE Verdict(s)
    BY <2>5 DEF a, bytes, rest
  <2>6. CASE s.response = r.response /\ Reading(s) /\ s.rest = rest /\ TookBytes(s, q)
    <3>1. TookBody(s, q)
      BY <1>12, <2>6 DEF TookBody
    <3>2. Reading(s) /\ Progress(s)
      BY <1>9, <2>6, <3>1
    <3> QED
      BY <3>2 DEF a, bytes, rest
  <2> QED
    BY <1>5, <1>6, <2>1, <2>3, <2>4, <2>5, <2>6 DEF TakesBytes
<1>13. CASE s # Ended(a, "response_too_large") /\ ~isGatewayStreamResponse(r.response)
  <2> DEFINE v == r.buffer \o bytes
             t == [a EXCEPT !.buffer = v]
  <2>1. s = t
    BY <1>6, <1>13 DEF readBytes
  <2>2. /\ IsSeq(r.buffer) /\ IsSeq(v) /\ Len(v) = Len(r.buffer) + Len(bytes)
        /\ \A i \in 1 .. Len(r.buffer) : v[i] = r.buffer[i]
        /\ \A i \in Len(r.buffer) + 1 .. Len(r.buffer) + Len(bytes) : v[i] = bytes[i - Len(r.buffer)]
    <3>1. IsSeq(r.buffer) /\ IsSeq(bytes)
      BY <1>3, <1>6, <1>7
    <3>2. IsSeq(v)
      BY <3>1, SeqFacts
    <3> QED
      BY <3>1, <3>2, JoinFacts
  <2>3. /\ r.total = 0 /\ r.written = 0 /\ Len(r.buffer) = p
        /\ \A i \in 1 .. p : r.buffer[i] = text[i]
    BY <1>2, <1>13 DEF TookBody
  <2> HIDE DEF v
  <2>4. Len(v) = q /\ \A i \in 1 .. q : v[i] = text[i]
    <3>1. Len(v) = q
      BY <1>3, <2>2, <2>3 DEF q
    <3>2. ASSUME NEW i \in 1 .. q PROVE v[i] = text[i]
      <4>1. CASE i \in 1 .. p
        BY <2>2, <2>3, <4>1
      <4>2. CASE i \notin 1 .. p
        <5>1. i - p \in 1 .. Len(bytes) /\ p + (i - p) = i /\ i \in p + 1 .. p + Len(bytes)
          BY <1>3, <1>8, <4>2 DEF q
        <5>2. v[i] = bytes[i - p] /\ bytes[i - p] = text[p + (i - p)]
          BY <1>8, <2>2, <2>3, <5>1
        <5> QED
          BY <5>1, <5>2
      <4> QED
        BY <4>1, <4>2
    <3> QED
      BY <3>1, <3>2
  <2>5. /\ Reading(t) /\ t.response = a.response /\ t.rest = a.rest /\ t.buffer = v
        /\ t.total = a.total /\ t.written = a.written
    BY <1>7, <2>2, SetBuffer
  <2> HIDE DEF t
  <2>6. TookBody(t, q)
    BY <1>6, <1>13, <2>3, <2>4, <2>5 DEF TookBody
  <2>7. Reading(s) /\ Progress(s)
    BY <1>5, <1>6, <1>9, <2>1, <2>5, <2>6
  <2> QED
    BY <2>7 DEF a, bytes, rest
<1> QED
  BY <1>11, <1>12, <1>13

LEMMA FinishAnswer ==
    ASSUME NEW r, Reading(r), Progress(r), r.rest = <<>>
    PROVE  Verdict(finishResponse(r))
<1> DEFINE lines == r.response.lines
           n == Len(lines)
           text == Encode(r.response)
<1>1. r.response \in Responses /\ r.response.form # "badStatus" /\ Quiet(r)
  BY DEF Progress, Reading
<1>2. TookBody(r, Len(text)) /\ Len(text) \in Nat
  <2>1. PICK p \in Nat : p + Len(r.rest) = Len(text) /\ TookBody(r, p)
    BY DEF Progress
  <2>2. Len(r.rest) = 0
    OBVIOUS
  <2>3. p = Len(text)
    BY <2>1, <2>2
  <2> QED
    BY <2>1, <2>3
<1>3. \A e : e \notin {"complete", "invalid_response"} => Verdict(Ended(r, e))
  BY <1>1, EndedVerdict
<1>4. ~ValidAnswer(r.response) => Verdict(Ended(r, "invalid_response"))
  BY <1>1, EndedVerdict
<1>5. /\ n \in Nat /\ Chunks(lines) = ChunksTo(lines, n)
      /\ ValidStream(lines) <=> ChunksTo(lines, n) <= BodyLimit /\ Done(lines, n)
  BY <1>1, ValidStreamFacts
<1>6. /\ r.response.form \in {"plain", "json", "ndjson"} /\ r.response.whole \in BOOLEAN
      /\ lines \in Seq(STRING)
      /\ r.response.form = "plain" => r.response.whole /\ lines \in Seq({"chunk"})
      /\ r.response.form = "json" => lines \in Seq({"chunk", "error"})
  BY <1>1, ResponsesAssumption
<1>7. ASSUME r.response.form \in {"plain", "json"}
      PROVE  /\ ~isGatewayStreamResponse(r.response) /\ ValidAnswer(r.response) = r.response.whole
             /\ r.total = 0 /\ r.written = 0 /\ Len(r.buffer) = n
             /\ \A i \in 1 .. n : r.buffer[i].frame = lines[i]
             /\ DOMAIN r.buffer = 1 .. n
  <2>1. ~isGatewayStreamResponse(r.response)
    BY <1>7 DEF isGatewayStreamResponse
  <2>2. text = [i \in 1 .. n |-> Half(lines[i], 0)]
    BY <1>6, <2>1 DEF Encode
  <2>3. Len(text) = n /\ \A i \in 1 .. n : text[i] = Half(lines[i], 0)
    BY <1>5, <2>2
  <2> HIDE DEF text
  <2>4. /\ r.total = 0 /\ r.written = 0 /\ Len(r.buffer) = Len(text)
        /\ \A i \in 1 .. Len(text) : r.buffer[i] = text[i]
    BY <1>2, <2>1 DEF TookBody, text
  <2>5. DOMAIN r.buffer = 1 .. Len(r.buffer)
    BY <1>1 DEF Quiet, IsSeq
  <2> QED
    BY <2>1, <2>3, <2>4, <2>5, HalfFacts DEF ValidAnswer
<1>8. ASSUME r.response.form \in {"plain", "json"}, r.response.whole, \A i \in 1 .. n : lines[i] = "chunk"
      PROVE  Verdict(writeAll(r))
  <2>1. ChunksTo(lines, n) = n
    BY <1>5, <1>8, CountFacts
  <2> QED
    BY <1>5, <1>7, <1>8, <2>1, WriteAllVerdict
<1>9. CASE r.response.form = "plain"
  <2>1. finishResponse(r) = writeAll(r)
    BY <1>9 DEF finishResponse
  <2>2. \A i \in 1 .. n : lines[i] = "chunk"
    BY <1>6, <1>9
  <2> QED
    BY <1>6, <1>8, <1>9, <2>1, <2>2
<1>10. CASE r.response.form = "json"
  <2>1. finishResponse(r) =
          IF ~r.response.whole THEN Ended(r, "invalid_response")
          ELSE IF \E i \in DOMAIN r.buffer : r.buffer[i].frame = "error" THEN Ended(r, "gateway")
          ELSE writeAll(r)
    BY <1>10 DEF finishResponse
  <2>2. CASE ~r.response.whole
    BY <1>4, <1>7, <1>10, <2>1, <2>2
  <2>3. CASE r.response.whole /\ \E i \in DOMAIN r.buffer : r.buffer[i].frame = "error"
    BY <1>3, <2>1, <2>3
  <2>4. CASE r.response.whole /\ ~\E i \in DOMAIN r.buffer : r.buffer[i].frame = "error"
    <3>1. \A i \in 1 .. n : lines[i] \in {"chunk", "error"} /\ lines[i] # "error"
      BY <1>6, <1>7, <1>10, <2>4
    <3> QED
      BY <1>8, <1>10, <2>1, <2>4, <3>1
  <2> QED
    BY <2>2, <2>3, <2>4
<1>11. CASE r.response.form = "ndjson"
  <2>1. finishResponse(r) = IF ~isAsciiWhitespace(r.buffer) \/ ~r.completed THEN Ended(r, "invalid_response")
                            ELSE Ended(r, "complete")
    BY <1>11 DEF finishResponse
  <2>2. isGatewayStreamResponse(r.response)
    BY <1>11 DEF isGatewayStreamResponse
  <2>3. PICK m \in Nat, k \in {0, 1, 2} :
            Len(text) = 3 * m + k /\ Took(r, m) /\ r.buffer = Part(lines[m + 1], k)
    BY <1>2, <2>2 DEF TookBody, TookBytes
  <2>4. Len(text) = IF r.response.whole \/ n = 0 THEN 3 * n ELSE 3 * n - 1
    BY <1>1, <2>2, TextFacts
  <2>5. /\ r.total = ChunksTo(lines, m) /\ r.written = r.total /\ r.total <= BodyLimit
        /\ IF r.completed THEN Done(lines, m)
           ELSE IF r.head THEN Begun(lines, m) ELSE AllBlank(lines, m)
    BY <2>3 DEF Took
  <2>6. ValidAnswer(r.response) <=> ValidStream(lines) /\ (r.response.whole \/ lines[n] = "blank")
    BY <2>2 DEF ValidAnswer
  <2>7. ASSUME Took(r, n), isAsciiWhitespace(r.buffer), r.response.whole \/ lines[n] = "blank" \/ n = 0
        PROVE  Verdict(finishResponse(r))
    <3>1. /\ r.total = ChunksTo(lines, n) /\ r.written = r.total /\ r.total <= BodyLimit
          /\ IF r.completed THEN Done(lines, n)
             ELSE IF r.head THEN Begun(lines, n) ELSE AllBlank(lines, n)
      BY <2>7 DEF Took
    <3>2. CASE ~r.completed
      <4>1. ~Done(lines, n)
        BY <1>5, <3>1, <3>2, StageFollows
      <4> QED
        BY <1>4, <1>5, <2>1, <2>6, <3>2, <4>1
    <3>3. CASE r.completed
      <4>1. Done(lines, n) /\ n # 0
        BY <3>1, <3>3 DEF Done
      <4>2. ValidAnswer(r.response) /\ r.written = Chunks(lines)
        BY <1>5, <2>6, <2>7, <3>1, <4>1
      <4> QED
        BY <1>1, <2>1, <2>7, <3>3, <4>2, EndedVerdict
    <3> QED
      BY <3>2, <3>3
  <2>8. CASE r.response.whole \/ n = 0
    <3>1. m = n /\ k = 0
      BY <1>5, <2>3, <2>4, <2>8
    <3> QED
      BY <2>3, <2>7, <2>8, <3>1, PartFacts
  <2>9. CASE ~r.response.whole /\ n # 0
    <3>1. n = m + 1 /\ k = 2
      BY <1>5, <2>3, <2>4, <2>9
    <3>2. CASE lines[n] = "blank"
      <4>1. Took(r, n)
        BY <2>3, <2>5, <3>1, <3>2, StageSteps, CountFacts DEF Took
      <4> QED
        BY <2>3, <2>7, <3>1, <3>2, <4>1, PartFacts
    <3>3. CASE lines[n] # "blank"
      BY <1>4, <2>1, <2>3, <2>6, <2>9, <3>1, <3>3, PartFacts
    <3> QED
      BY <3>2, <3>3
  <2> QED
    BY <2>8, <2>9
<1> QED
  BY <1>6, <1>9, <1>10, <1>11

-----------------------------------------------------------------------------
(* The body of a request *)

\* What an upload has come to: its end is sent after the page's end and the last chunk,
\* and a body that failed has ended its dispatch.
Up(r) ==
    /\ r.uploaded /\ r.request.body = "stream" => r.closed /\ r.queued = 0
    /\ r.closed /\ r.request.body = "stream" => r.page # "sending"
    /\ r.page = "failed" => r.pc = "ended"
    /\ r.pc = "buffering" => r.queued = 0

\* What has come of the answer: nothing yet, part of it, or an end that reports it rightly.
Answered(r) ==
    /\ r.pc # "ended" => r.reason \in {"none", "timeout", "cancelled"}
    /\ r.pc \in {"new", "buffering", "fetching"} =>
           r.buffer = <<>> /\ ~r.head /\ ~r.completed /\ r.total = 0 /\ r.written = 0
    /\ r.pc = "reading" => Progress(r)
    /\ r.pc = "ended" => ResponseWhole(r)

Fine(r) == Good(r) /\ Up(r) /\ Answered(r)

AnswerFields == {"pc", "reason", "response", "rest", "buffer", "head", "completed", "total", "written"}

LEMMA SameAnswer ==
    ASSUME NEW r, Answered(r), r.pc # "ended", NEW s, \A f \in AnswerFields : s[f] = r[f]
    PROVE  Answered(s)
<1>1. /\ s.pc = r.pc /\ s.reason = r.reason /\ s.response = r.response /\ s.rest = r.rest
      /\ s.buffer = r.buffer /\ s.head = r.head /\ s.completed = r.completed
      /\ s.total = r.total /\ s.written = r.written
  BY DEF AnswerFields
<1>2. Progress(r) => Progress(s)
  BY <1>1 DEF Progress, TookBody, TookBytes, Took
<1> QED
  BY <1>1, <1>2 DEF Answered

\* The terminal events that say something of the answer.
Verdicts == {"complete", "invalid_response"}

\* A dispatch that ends with another event says nothing of its answer.
LEMMA SaysNothing ==
    ASSUME NEW r, r.pc = "ended", NEW event, event \notin Verdicts, r.terminals = <<event>>
    PROVE  Answered(r)
<1>1. <<event>> # <<"complete">> /\ <<event>> # <<"invalid_response">>
  BY DEF Verdicts
<1> QED
  BY <1>1 DEF Answered, ResponseWhole

LEMMA ReadsAnswer ==
    ASSUME NEW r, Answered(r), Reading(r), NEW s, Reads(r, s), (Reading(s) /\ Progress(s)) \/ Verdict(s)
    PROVE  Answered(s)
BY DEF Answered, Reading, Reads, SameUpload, Verdict, Over

LEMMA TextIsSeq ==
    ASSUME NEW response \in Responses
    PROVE  IsSeq(Encode(response)) /\ Len(Encode(response)) \in Nat
<1> DEFINE lines == response.lines
           n == 3 * Len(lines)
           Byte(i) == IF i % 3 = 0 THEN NewLine ELSE Half(lines[(i + 2) \div 3], i % 3)
           text == [i \in 1 .. n |-> Byte(i)]
           body == [i \in DOMAIN lines |-> Half(lines[i], 0)]
<1>1. n \in Nat /\ Len(lines) \in Nat /\ DOMAIN lines = 1 .. Len(lines)
  BY ResponsesAssumption
<1>2. ASSUME NEW f, NEW k \in Nat, f = [i \in 1 .. k |-> f[i]] PROVE IsSeq(f)
  <2>1. f \in Seq({f[i] : i \in 1 .. k})
    BY <1>2
  <2> QED
    BY <2>1 DEF IsSeq
<1>3. Encode(response) \in {text, Front(text), body}
  BY DEF Encode
<1> HIDE DEF Byte
<1>4. IsSeq(text)
  <2>1. text = [i \in 1 .. n |-> text[i]]
    BY <1>1
  <2> HIDE DEF text, n
  <2> QED
    BY <1>1, <1>2, <2>1
<1>5. IsSeq(body)
  <2>1. body = [i \in 1 .. Len(lines) |-> body[i]]
    BY <1>1
  <2> HIDE DEF body
  <2> QED
    BY <1>1, <1>2, <2>1
<1> HIDE DEF text, body
<1>6. IsSeq(Front(text))
  <2>1. PICK S : text \in Seq(S)
    BY <1>4 DEF IsSeq
  <2>2. Front(text) \in Seq(S)
    BY <2>1 DEF Front
  <2> QED
    BY <2>2 DEF IsSeq
<1> QED
  BY <1>3, <1>4, <1>5, <1>6, SeqFacts

\* The head of a response: nothing of the body is taken.
LEMMA ProgressBegins ==
    ASSUME NEW r, r.response \in Responses, r.response.form # "badStatus", r.rest = Encode(r.response),
           r.buffer = <<>>, ~r.head, ~r.completed, r.total = 0, r.written = 0
    PROVE  Progress(r)
<1> DEFINE text == Encode(r.response)
<1>1. IsSeq(text) /\ Len(text) \in Nat
  BY TextIsSeq
<1>2. TookBody(r, 0)
  <2>1. AllBlank(r.response.lines, 0) /\ ChunksTo(r.response.lines, 0) = 0
    BY CountFacts DEF AllBlank
  <2>2. Took(r, 0)
    BY <2>1, LimitsAssumption DEF Took
  <2>3. TookBytes(r, 0)
    <3>1. 0 = 3 * 0 + 0 /\ r.buffer = Part(r.response.lines[0 + 1], 0)
      BY PartFacts
    <3> QED
      BY <2>2, <3>1 DEF TookBytes
  <2>4. Len(r.buffer) = 0
    OBVIOUS
  <2> QED
    BY <2>3, <2>4 DEF TookBody
<1>3. 0 + Len(text) = Len(text) /\ \A i \in 1 .. Len(text) : text[i] = text[0 + i]
  <2> HIDE DEF text
  <2> QED
    BY <1>1
<1> QED
  BY <1>1, <1>2, <1>3 DEF Progress

LEMMA SameUp == ASSUME NEW r, NEW s, Up(r), SameUpload(r, s) PROVE Up(s)
BY DEF Up, SameUpload

LEMMA EndedFine ==
    ASSUME NEW r, Quiet(r), Up(r), NEW event, event \notin Verdicts
    PROVE  Fine(Ended(r, event)) /\ Over(Ended(r, event))
<1>1. Answered(Ended(r, event))
  BY EndedAnswer, SaysNothing DEF Over
<1> QED
  BY <1>1, QuietEnds, SameUp DEF Fine

LEMMA ReadsFine == ASSUME NEW r, NEW s, Up(r), Reads(r, s), Answered(s) PROVE Fine(s)
BY SameUp DEF Reads, Fine

LEMMA CallFetchFine ==
    ASSUME NEW r, Quiet(r), Up(r), Answered(r), r.pc \in {"new", "buffering"}
    PROVE  Fine(CallFetch(r))
<1>1. CASE r.reason = "none"
  <2> DEFINE s == [r EXCEPT !.pc = "fetching"]
  <2>1. CallFetch(r) = s
    BY <1>1 DEF CallFetch
  <2>2. DOMAIN r = Fields
    BY DEF Quiet
  <2>3. DOMAIN s = Fields /\ s.pc = "fetching" /\ \A f \in Fields \ {"pc"} : s[f] = r[f]
    BY <2>2 DEF Fields
  <2> HIDE DEF s
  <2>4. Quiet(s) /\ s.pc \in Active
    BY <2>3 DEF Quiet, Fields, Active
  <2>5. Up(s)
    BY <2>3 DEF Up, Fields
  <2>6. Answered(s)
    BY <2>3 DEF Answered, Fields
  <2> QED
    BY <2>1, <2>4, <2>5, <2>6 DEF Fine, Good
<1>2. CASE r.reason # "none"
  <2>1. r.reason \notin Verdicts
    BY DEF Answered, Verdicts
  <2> QED
    BY <1>2, <2>1, EndedFine DEF CallFetch
<1> QED
  BY <1>1, <1>2

LEMMA BeginFine ==
    ASSUME NEW r, Quiet(r), r.queued = 0, r.page = "sending", r.closed = FALSE, r.uploaded = FALSE,
           r.pc = "new", Answered(r)
    PROVE  Fine(Begin(r))
<1>1. DOMAIN r = Fields /\ Up(r)
  BY DEF Quiet, Up
<1>2. CASE r.request.transport = "unknown" \/ r.request.body = "both"
  <2>1. Begin(r) = Ended(r, "invalid_request")
    BY <1>2 DEF Begin
  <2> QED
    BY <1>1, <2>1, EndedFine DEF Verdicts
<1>3. CASE ~(r.request.transport = "unknown" \/ r.request.body = "both") /\ r.request.body # "stream"
  <2>1. ASSUME NEW u, NEW c
        PROVE  Fine(CallFetch([r EXCEPT !.uploaded = u, !.closed = c]))
    <3> DEFINE s == [r EXCEPT !.uploaded = u, !.closed = c]
    <3>1. DOMAIN s = Fields /\ \A f \in Fields \ {"uploaded", "closed"} : s[f] = r[f]
      BY <1>1 DEF Fields
    <3> HIDE DEF s
    <3>2. Quiet(s) /\ s.pc = "new" /\ Up(s)
      BY <1>3, <3>1 DEF Quiet, Up, Fields
    <3>3. Answered(s)
      BY <3>1, SameAnswer DEF AnswerFields, Fields
    <3>4. Fine(CallFetch(s))
      BY <3>2, <3>3, CallFetchFine
    <3> QED
      BY <3>4 DEF s
  <2>2. Begin(r) = CallFetch([r EXCEPT !.uploaded = TRUE, !.closed = TRUE])
    BY <1>3 DEF Begin
  <2> QED
    BY <2>1, <2>2
<1>4. CASE r.request.body = "stream" /\ r.request.transport # "unknown" /\ r.request.streamUploads
  <2>1. Begin(r) = CallFetch(r)
    BY <1>4 DEF Begin
  <2> QED
    BY <1>1, <2>1, CallFetchFine
<1>5. CASE r.request.body = "stream" /\ r.request.transport # "unknown" /\ ~r.request.streamUploads
  <2> DEFINE s == [r EXCEPT !.pc = "buffering"]
  <2>1. Begin(r) = s
    BY <1>5 DEF Begin
  <2>2. DOMAIN s = Fields /\ s.pc = "buffering" /\ \A f \in Fields \ {"pc"} : s[f] = r[f]
    BY <1>1 DEF Fields
  <2> HIDE DEF s
  <2>3. Quiet(s) /\ s.pc \in Active /\ Up(s)
    BY <2>2 DEF Quiet, Fields, Active, Up
  <2>4. Answered(s)
    BY <2>2 DEF Answered, Fields
  <2> QED
    BY <2>1, <2>3, <2>4 DEF Fine, Good
<1> QED
  BY <1>2, <1>3, <1>4, <1>5

\* A cancellation always ends the dispatch; a timeout may leave it buffering.
LEMMA AbortedFine ==
    ASSUME NEW r, Quiet(r), r.pc \in Active, Up(r), Answered(r), NEW reason \in {"timeout", "cancelled"}
    PROVE  Fine(Aborted(r, reason)) /\ (reason = "cancelled" => Aborted(r, reason).pc = "ended")
<1> DEFINE v == IF r.reason = "none" THEN reason ELSE r.reason
           a == [r EXCEPT !.reason = v]
<1>1. \/ Aborted(r, reason) = a /\ reason # "cancelled"
      \/ \E e \in {"cancelled", a.reason} : Aborted(r, reason) = Ended(a, e)
  BY DEF Aborted
<1>2. v \in {"timeout", "cancelled"}
  BY DEF Answered, Active
<1> HIDE DEF v
<1>3. DOMAIN a = Fields /\ a.reason = v /\ \A f \in Fields \ {"reason"} : a[f] = r[f]
  BY DEF Fields, Quiet
<1> HIDE DEF a
<1>4. Quiet(a) /\ a.pc \in Active /\ Up(a)
  BY <1>3 DEF Quiet, Up, Fields
<1>5. Answered(a)
  <2>1. Answered(r) /\ r.pc # "ended"
    BY DEF Active
  <2>2. /\ a.pc = r.pc /\ a.response = r.response /\ a.rest = r.rest
        /\ a.buffer = r.buffer /\ a.head = r.head /\ a.completed = r.completed
        /\ a.total = r.total /\ a.written = r.written
    BY <1>3 DEF Fields
  <2>3. Progress(r) => Progress(a)
    BY <2>2 DEF Progress, TookBody, TookBytes, Took
  <2> QED
    BY <1>2, <1>3, <2>1, <2>2, <2>3 DEF Answered
<1>6. Fine(a)
  BY <1>4, <1>5 DEF Fine, Good
<1>7. \A e \in {"cancelled", a.reason} : Fine(Ended(a, e)) /\ Ended(a, e).pc = "ended"
  BY <1>2, <1>3, <1>4, EndedFine DEF Over, Verdicts
<1> QED
  BY <1>1, <1>6, <1>7

LEMMA FailBodyFine ==
    ASSUME NEW r, Quiet(r), r.pc \in Active, Up(r), NEW kind, kind \notin Verdicts
    PROVE  Fine(failBodyMessage(r, kind)) /\ failBodyMessage(r, kind).pc = "ended"
<1>1. ASSUME NEW t, t = TRUE
      PROVE  LET f == [r EXCEPT !.reported = t, !.terminals = Append(@, kind), !.page = "failed"]
             IN  Fine(Aborted(f, "cancelled")) /\ Aborted(f, "cancelled").pc = "ended"
  <2> DEFINE l == Append(r.terminals, kind)
             f == [r EXCEPT !.reported = t, !.terminals = l, !.page = "failed"]
             v == IF f.reason = "none" THEN "cancelled" ELSE f.reason
             a == [f EXCEPT !.reason = v]
  <2>1. \E e : Aborted(f, "cancelled") = Ended(a, e)
    BY DEF Aborted
  <2>2. Len(l) = 1 /\ l = <<kind>>
    BY DEF Quiet
  <2> HIDE DEF l
  <2>3. DOMAIN f = Fields /\ f.reported = t /\ f.terminals = l /\ f.page = "failed"
        /\ \A g \in Fields \ {"reported", "terminals", "page"} : f[g] = r[g]
    BY DEF Fields, Quiet
  <2> HIDE DEF v, f
  <2>4. DOMAIN a = Fields /\ a.reported = t /\ a.terminals = l /\ a.page = "failed"
        /\ \A g \in Fields \ {"reported", "terminals", "page", "reason"} : a[g] = r[g]
    BY <2>3 DEF Fields
  <2> HIDE DEF a
  <2>5. ASSUME NEW e PROVE Fine(Ended(a, e)) /\ Ended(a, e).pc = "ended"
    <3>1. Over(Ended(a, e)) /\ SameUpload(a, Ended(a, e))
      BY <1>1, <2>2, <2>4, EndedOnce
    <3>2. Ended(a, e).pc = "ended"
      BY <3>1 DEF Over
    <3>3. Up(Ended(a, e))
      BY <2>4, <3>1, <3>2 DEF Up, SameUpload, Fields
    <3>4. Ended(a, e).terminals = a.terminals
      BY <1>1, <2>4, DroppedFacts DEF Ended, Fields
    <3>5. Answered(Ended(a, e))
      BY <2>2, <2>4, <3>2, <3>4, SaysNothing
    <3> QED
      BY <3>1, <3>2, <3>3, <3>5 DEF Fine, Good
  <2>6. Fine(Aborted(f, "cancelled")) /\ Aborted(f, "cancelled").pc = "ended"
    BY <2>1, <2>5
  <2> QED
    BY <2>6 DEF f, l
<1> QED
  BY <1>1, Zenon DEF failBodyMessage

LEMMA PushBodyFine ==
    ASSUME NEW r, Quiet(r), r.pc \in Active, Up(r), Answered(r), r.request.body = "stream"
    PROVE  Fine(pushBody(r))
<1> r.pc # "ended"
  BY DEF Active
<1>1. CASE r.closed
  BY <1>1, FailBodyFine DEF pushBody, Verdicts
<1>2. CASE ~r.closed /\ r.pc = "buffering"
  <2> DEFINE s == [r EXCEPT !.sent = r.sent + 1]
  <2>1. pushBody(r) = s
    BY <1>2 DEF pushBody
  <2>2. DOMAIN s = Fields /\ \A f \in Fields \ {"sent"} : s[f] = r[f]
    BY DEF Fields, Quiet
  <2> HIDE DEF s
  <2>3. Quiet(s) /\ s.pc \in Active /\ Up(s)
    BY <2>2 DEF Quiet, Up, Fields
  <2>4. Answered(s)
    BY <2>2, SameAnswer DEF AnswerFields, Fields
  <2> QED
    BY <2>1, <2>3, <2>4 DEF Fine, Good
<1>3. CASE ~r.closed /\ r.pc # "buffering"
  <2> DEFINE s == [r EXCEPT !.queued = r.queued + 1]
  <2>1. pushBody(r) = s
    BY <1>3 DEF pushBody
  <2>2. DOMAIN s = Fields /\ \A f \in Fields \ {"queued"} : s[f] = r[f]
    BY DEF Fields, Quiet
  <2> HIDE DEF s
  <2>3. Quiet(s) /\ s.pc \in Active /\ Up(s)
    BY <1>3, <2>2 DEF Quiet, Up, Fields
  <2>4. Answered(s)
    BY <2>2, SameAnswer DEF AnswerFields, Fields
  <2> QED
    BY <2>1, <2>3, <2>4 DEF Fine, Good
<1> QED
  BY <1>1, <1>2, <1>3

LEMMA EndBodyFine ==
    ASSUME NEW r, Quiet(r), r.pc \in Active, Up(r), Answered(r)
    PROVE  Fine(endBody(r))
<1> r.pc # "ended"
  BY DEF Active
<1>1. CASE r.closed
  BY <1>1, FailBodyFine DEF endBody, Verdicts
<1>2. CASE ~r.closed
  <2>1. ASSUME NEW t
        PROVE  LET c == [r EXCEPT !.closed = t, !.page = "ended"]
               IN  /\ t = TRUE => Quiet(c) /\ c.pc = r.pc /\ Up(c) /\ Answered(c)
                   /\ t = TRUE /\ r.pc = "buffering" =>
                          Fine(CallFetch([c EXCEPT !.uploaded = c.reason = "none"]))
    <3> DEFINE c == [r EXCEPT !.closed = t, !.page = "ended"]
    <3>1. DOMAIN c = Fields /\ c.closed = t /\ c.page = "ended"
          /\ \A f \in Fields \ {"closed", "page"} : c[f] = r[f]
      BY DEF Fields, Quiet
    <3> HIDE DEF c
    <3>2. t = TRUE => Quiet(c) /\ c.pc = r.pc /\ Up(c)
      BY <1>2, <3>1 DEF Quiet, Up, Fields
    <3>3. Answered(c)
      BY <3>1, SameAnswer DEF AnswerFields, Fields
    <3>4. ASSUME t = TRUE, r.pc = "buffering", NEW u
          PROVE  Fine(CallFetch([c EXCEPT !.uploaded = u]))
      <4> DEFINE s == [c EXCEPT !.uploaded = u]
      <4>1. DOMAIN s = Fields /\ \A f \in Fields \ {"uploaded"} : s[f] = c[f]
        BY <3>1 DEF Fields
      <4> HIDE DEF s
      <4>2. Quiet(s) /\ s.pc = "buffering" /\ Up(s)
        BY <3>1, <3>2, <3>4, <4>1 DEF Quiet, Up, Fields
      <4>3. Answered(s)
        <5>1. \A f \in AnswerFields : s[f] = r[f]
          BY <3>1, <4>1 DEF AnswerFields, Fields
        <5> QED
          BY <5>1, SameAnswer
      <4>4. Fine(CallFetch(s))
        BY <4>2, <4>3, CallFetchFine
      <4> QED
        BY <4>4 DEF s
    <3> QED
      BY <3>2, <3>3, <3>4 DEF c
  <2> QED
    BY <1>2, <2>1 DEF endBody, Fine, Good
<1> QED
  BY <1>1, <1>2

-----------------------------------------------------------------------------
(* The runtime *)

\* A dispatch is not begun, or goes as it should.
Known(r) == r = NewRun \/ Fine(r)

\* inFlight holds running dispatches, under their ids.
Registered(in, R) ==
    /\ DOMAIN in = Ids
    /\ \A i \in Ids : in[i] # NoDispatch =>
           in[i] \in Dispatches /\ Id[in[i]] = i /\ R[in[i]].pc \in Active

Bridge(in, R) ==
    /\ DOMAIN R = Dispatches
    /\ \A d \in Dispatches : Known(R[d])
    /\ Registered(in, R)

BInv == Bridge(inFlight, run)

\* Every running dispatch is the one under its id.
Reached(in, R) == \A d \in Dispatches : R[d].pc \in Active => in[Id[d]] = d

LEMMA NewRunFacts ==
    /\ DOMAIN NewRun = Fields /\ NewRun.pc = "new" /\ NewRun.terminals = <<>>
    /\ NewRun.queued = 0 /\ NewRun.page = "sending" /\ NewRun.closed = FALSE
    /\ NewRun.uploaded = FALSE /\ NewRun.reported = FALSE /\ IsSeq(NewRun.buffer)
    /\ NewRun.reason = "none" /\ NewRun.buffer = <<>> /\ NewRun.head = FALSE
    /\ NewRun.completed = FALSE /\ NewRun.total = 0 /\ NewRun.written = 0
BY SeqFacts DEF NewRun, Fields

LEMMA NothingSaid == ASSUME NEW r, r.terminals = <<>> PROVE ResponseWhole(r)
<1>1. <<>> # <<"complete">> /\ <<>> # <<"invalid_response">>
  OBVIOUS
<1> QED
  BY <1>1 DEF ResponseWhole

LEMMA KnownFacts ==
    ASSUME NEW r, Known(r)
    PROVE  /\ r.pc \in Active => Quiet(r) /\ Up(r) /\ Answered(r)
           /\ r.pc \notin Active => r.pc \in {"new", "ended"}
           /\ r.pc = "new" => r = NewRun
           /\ Len(r.terminals) = IF r.pc = "ended" THEN 1 ELSE 0
           /\ UploadWhole(r) /\ ResponseWhole(r)
<1>1. CASE r = NewRun
  <2>1. r.pc = "new" /\ r.terminals = <<>> /\ r.uploaded = FALSE
    BY <1>1, NewRunFacts
  <2> QED
    BY <1>1, <2>1, NothingSaid DEF Active, UploadWhole
<1>2. CASE Quiet(r) /\ r.pc \in Active /\ Up(r) /\ Answered(r)
  BY <1>2, NothingSaid DEF Quiet, Active, Up, UploadWhole
<1>3. CASE Over(r) /\ Up(r) /\ Answered(r)
  BY <1>3 DEF Over, Active, Up, UploadWhole, Answered
<1> QED
  BY <1>1, <1>2, <1>3 DEF Known, Fine, Good

\* A running dispatch goes on as r.
GoesOn(in, R, d, r, in2, R2) ==
    /\ R2 = [R EXCEPT ![d] = r]
    /\ in2 = IF r.pc = "ended" THEN [in EXCEPT ![Id[d]] = NoDispatch] ELSE in

LEMMA BecomesKeeps ==
    ASSUME NEW in, NEW R, Bridge(in, R), NEW d \in Dispatches, R[d].pc \in Active,
           NEW r, Fine(r), NEW R2, NEW in2, GoesOn(in, R, d, r, in2, R2)
    PROVE  Bridge(in2, R2) /\ (Reached(in, R) => Reached(in2, R2))
<1>1. DOMAIN R2 = Dispatches /\ R2[d] = r /\ \A e \in Dispatches \ {d} : R2[e] = R[e]
  BY DEF Bridge, GoesOn
<1>2. r.pc = "ended" \/ r.pc \in Active
  BY DEF Fine, Good, Over
<1>3. Id[d] \in Ids
  BY DEF Ids
<1>4. DOMAIN in2 = Ids /\ (\A i \in Ids \ {Id[d]} : in2[i] = in[i])
      /\ in2[Id[d]] = IF r.pc = "ended" THEN NoDispatch ELSE in[Id[d]]
  BY <1>3 DEF Bridge, Registered, GoesOn
<1>5. \A e \in Dispatches : Known(R2[e])
  BY <1>1 DEF Bridge, Known
<1>6. Registered(in2, R2)
  <2> SUFFICES ASSUME NEW i \in Ids, in2[i] # NoDispatch
               PROVE  in2[i] \in Dispatches /\ Id[in2[i]] = i /\ R2[in2[i]].pc \in Active
    BY <1>4 DEF Registered
  <2>1. in2[i] = in[i]
    BY <1>4
  <2>2. in[i] \in Dispatches /\ Id[in[i]] = i /\ R[in[i]].pc \in Active
    BY <2>1 DEF Bridge, Registered
  <2>3. CASE in[i] = d
    BY <1>1, <1>2, <1>4, <2>1, <2>2, <2>3
  <2>4. CASE in[i] # d
    BY <1>1, <2>1, <2>2, <2>4
  <2> QED
    BY <2>3, <2>4
<1>7. ASSUME Reached(in, R) PROVE Reached(in2, R2)
  <2> SUFFICES ASSUME NEW e \in Dispatches, R2[e].pc \in Active
               PROVE  in2[Id[e]] = e
    BY DEF Reached
  <2>1. Id[e] \in Ids
    BY DEF Ids
  <2>2. in[Id[d]] = d
    BY <1>7 DEF Reached
  <2>3. CASE e = d
    <3>1. r.pc # "ended"
      BY <1>1, <2>3 DEF Active
    <3> QED
      BY <1>4, <2>2, <2>3, <3>1
  <2>4. CASE e # d
    <3>1. in[Id[e]] = e
      BY <1>1, <1>7, <2>4 DEF Reached
    <3>2. Id[e] # Id[d]
      BY <2>2, <2>4, <3>1
    <3> QED
      BY <1>4, <2>1, <3>1, <3>2
  <2> QED
    BY <2>3, <2>4
<1> QED
  BY <1>1, <1>5, <1>6, <1>7 DEF Bridge

LEMMA BecomesStep ==
    ASSUME BInv, NEW d \in Dispatches, run[d].pc \in Active, NEW r, Fine(r), Becomes(d, r)
    PROVE  BInv' /\ (Reached(inFlight, run) => Reached(inFlight', run'))
<1>1. run' = [run EXCEPT ![d] = r]
      /\ inFlight' = IF r.pc = "ended" THEN [inFlight EXCEPT ![Id[d]] = NoDispatch] ELSE inFlight
  BY DEF Becomes
<1>2. Bridge(inFlight, run)
  BY DEF BInv
<1>3. Bridge(inFlight', run') /\ (Reached(inFlight, run) => Reached(inFlight', run'))
  <2>1. GoesOn(inFlight, run, d, r, inFlight', run')
    BY <1>1 DEF GoesOn
  <2> QED
    BY <1>2, <2>1, BecomesKeeps
<1>4. BInv' <=> Bridge(inFlight', run')
  BY DEF BInv, Bridge, Known, Registered, Ids
<1> QED
  BY <1>3, <1>4

LEMMA RunningFacts ==
    ASSUME BInv, NEW d \in Dispatches, run[d].pc \in Active
    PROVE  Quiet(run[d]) /\ Up(run[d]) /\ Answered(run[d]) /\ DOMAIN run[d] = Fields
BY KnownFacts DEF BInv, Bridge, Quiet

LEMMA InFlightFacts ==
    ASSUME BInv, NEW i \in Ids, inFlight[i] # NoDispatch
    PROVE  inFlight[i] \in Dispatches /\ Id[inFlight[i]] = i /\ run[inFlight[i]].pc \in Active
BY DEF BInv, Bridge, Registered

-----------------------------------------------------------------------------
(* The steps: each keeps the invariant, and with it that running dispatches are reached *)

LEMMA DispatchKeeps ==
    ASSUME BInv, NEW d \in Dispatches, NEW request, Dispatch(d, request)
    PROVE  BInv' /\ (WaitsForEnd /\ Reached(inFlight, run) => Reached(inFlight', run'))
<1> DEFINE n == [NewRun EXCEPT !.request = request]
           r == Begin(n)
           v == IF r.pc = "ended" THEN NoDispatch ELSE d
<1>1. /\ run[d].pc = "new"
      /\ WaitsForEnd => \A e \in Dispatches : Id[e] = Id[d] /\ run[e].pc # "new" => Told(e)
      /\ run' = [run EXCEPT ![d] = r]
      /\ inFlight' = [inFlight EXCEPT ![Id[d]] = v]
  BY DEF Dispatch
<1>2. DOMAIN n = Fields /\ \A f \in Fields \ {"request"} : n[f] = NewRun[f]
  BY NewRunFacts DEF Fields
<1>3. Fine(r)
  <2> HIDE DEF n
  <2>1. Quiet(n) /\ n.queued = 0 /\ n.page = "sending" /\ n.closed = FALSE /\ n.uploaded = FALSE
        /\ n.pc = "new"
    BY <1>2, NewRunFacts DEF Quiet, Fields
  <2>2. Answered(n)
    BY <1>2, NewRunFacts DEF Answered, Fields
  <2> QED
    BY <2>1, <2>2, BeginFine
<1> HIDE DEF n, r
<1>4. r.pc = "ended" \/ r.pc \in Active
  BY <1>3 DEF Fine, Good, Over
<1>5. Id[d] \in Ids
  BY DEF Ids
<1>6. DOMAIN run' = Dispatches /\ run'[d] = r /\ \A e \in Dispatches \ {d} : run'[e] = run[e]
  BY <1>1 DEF BInv, Bridge
<1>7. DOMAIN inFlight' = Ids /\ (\A i \in Ids \ {Id[d]} : inFlight'[i] = inFlight[i])
      /\ inFlight'[Id[d]] = v
  BY <1>1, <1>5 DEF BInv, Bridge, Registered
<1>8. \A e \in Dispatches : Known(run'[e])
  BY <1>3, <1>6 DEF BInv, Bridge, Known
<1>9. Registered(inFlight', run')
  <2> SUFFICES ASSUME NEW i \in Ids, inFlight'[i] # NoDispatch
               PROVE  /\ inFlight'[i] \in Dispatches /\ Id[inFlight'[i]] = i
                      /\ run'[inFlight'[i]].pc \in Active
    BY <1>7 DEF Registered
  <2>1. CASE i = Id[d]
    BY <1>4, <1>6, <1>7, <2>1
  <2>2. CASE i # Id[d]
    <3>1. inFlight'[i] = inFlight[i]
      BY <1>7, <2>2
    <3>2. inFlight[i] \in Dispatches /\ Id[inFlight[i]] = i /\ run[inFlight[i]].pc \in Active
      BY <3>1, InFlightFacts
    <3>3. inFlight[i] # d
      BY <2>2, <3>2
    <3> QED
      BY <1>6, <3>1, <3>2, <3>3
  <2> QED
    BY <2>1, <2>2
<1>10. ASSUME WaitsForEnd, Reached(inFlight, run) PROVE Reached(inFlight', run')
  <2> SUFFICES ASSUME NEW e \in Dispatches, run'[e].pc \in Active
               PROVE  inFlight'[Id[e]] = e
    BY DEF Reached
  <2>1. Id[e] \in Ids
    BY DEF Ids
  <2>2. CASE e = d
    <3>1. r.pc # "ended"
      BY <1>6, <2>2 DEF Active
    <3> QED
      BY <1>7, <2>2, <3>1
  <2>3. CASE e # d
    <3>1. run[e].pc \in Active
      BY <1>6, <2>3
    <3>2. run[e].terminals = <<>>
      BY <3>1, RunningFacts DEF Quiet
    <3>3. Id[e] # Id[d]
      BY <1>1, <1>10, <3>1, <3>2 DEF Told, Active
    <3> QED
      BY <1>7, <1>10, <2>1, <3>1, <3>3 DEF Reached
  <2> QED
    BY <2>2, <2>3
<1>11. BInv' <=> Bridge(inFlight', run')
  BY DEF BInv, Bridge, Known, Registered, Ids
<1> QED
  BY <1>6, <1>8, <1>9, <1>10, <1>11 DEF Bridge

\* A message of the page about the dispatch under id i.
LEMMA PageKeeps ==
    ASSUME BInv, NEW i \in Ids,
           \/ cancel(i) \/ handleBodyChunk(i) \/ handleMalformedChunk(i)
           \/ handleBodyEnd(i) \/ handleBodyError(i) \/ unknownBody(i)
    PROVE  BInv' /\ (Reached(inFlight, run) => Reached(inFlight', run'))
<1> DEFINE d == inFlight[i]
           r == run[d]
<1>1. CASE unknownBody(i)
  <2>1. inFlight' = inFlight /\ run' = run
    BY <1>1 DEF unknownBody
  <2> QED
    BY <2>1 DEF BInv, Bridge, Known, Registered, Ids, Reached
<1>2. CASE ~unknownBody(i)
  <2>1. inFlight[i] # NoDispatch
    BY <1>2 DEF cancel, handleBodyChunk, handleMalformedChunk, handleBodyEnd, handleBodyError, BodyMessage
  <2>2. d \in Dispatches /\ r.pc \in Active
    BY <2>1, InFlightFacts
  <2>3. Quiet(r) /\ Up(r) /\ Answered(r)
    BY <2>2, RunningFacts
  <2>4. \E s : Fine(s) /\ Becomes(d, s)
    <3>1. CASE cancel(i)
      <4>1. Fine(Aborted(r, "cancelled"))
        BY <2>2, <2>3, AbortedFine
      <4> QED
        BY <3>1, <4>1 DEF cancel
    <3>2. CASE handleBodyChunk(i)
      <4>1. r.request.body = "stream" /\ Becomes(d, pushBody(r))
        BY <3>2 DEF handleBodyChunk, BodyMessage
      <4>2. Fine(pushBody(r))
        BY <2>2, <2>3, <4>1, PushBodyFine
      <4> QED
        BY <4>1, <4>2
    <3>3. CASE handleMalformedChunk(i)
      <4>1. Fine(failBodyMessage(r, "invalid_request"))
        BY <2>2, <2>3, FailBodyFine DEF Verdicts
      <4> QED
        BY <3>3, <4>1 DEF handleMalformedChunk, BodyMessage
    <3>4. CASE handleBodyEnd(i)
      <4>1. Fine(endBody(r))
        BY <2>2, <2>3, EndBodyFine
      <4> QED
        BY <3>4, <4>1 DEF handleBodyEnd, BodyMessage
    <3>5. CASE handleBodyError(i)
      <4>1. Fine(errorBody(r))
        BY <2>2, <2>3, FailBodyFine DEF errorBody, Verdicts
      <4> QED
        BY <3>5, <4>1 DEF handleBodyError, BodyMessage
    <3> QED
      BY <1>2, <3>1, <3>2, <3>3, <3>4, <3>5
  <2> QED
    BY <2>2, <2>4, BecomesStep
<1> QED
  BY <1>1, <1>2

LEMMA StopKeeps ==
    ASSUME BInv, stop
    PROVE  BInv' /\ (Reached(inFlight, run) => Reached(inFlight', run'))
<1>1. /\ run' = [d \in Dispatches |-> IF inFlight[Id[d]] = d THEN Aborted(run[d], "cancelled")
                                       ELSE run[d]]
      /\ inFlight' = [i \in Ids |-> NoDispatch]
  BY DEF stop
<1>2. ASSUME NEW d \in Dispatches, inFlight[Id[d]] = d
      PROVE  Fine(Aborted(run[d], "cancelled")) /\ Aborted(run[d], "cancelled").pc = "ended"
  <2>1. Id[d] \in Ids /\ d # NoDispatch
    BY NoDispatchAssumption DEF Ids
  <2>2. run[d].pc \in Active
    BY <1>2, <2>1, InFlightFacts
  <2>3. Quiet(run[d]) /\ Up(run[d]) /\ Answered(run[d])
    BY <2>2, RunningFacts
  <2> QED
    BY <2>2, <2>3, AbortedFine
<1>3. \A d \in Dispatches : Known(run'[d])
  BY <1>1, <1>2 DEF BInv, Bridge, Known
<1>4. Registered(inFlight', run')
  BY <1>1 DEF Registered
<1>5. ASSUME Reached(inFlight, run) PROVE Reached(inFlight', run')
  <2> SUFFICES ASSUME NEW d \in Dispatches PROVE run'[d].pc \notin Active
    BY DEF Reached
  <2>1. CASE inFlight[Id[d]] = d
    BY <1>1, <1>2, <2>1 DEF Active
  <2>2. CASE inFlight[Id[d]] # d
    BY <1>1, <1>5, <2>2 DEF Reached
  <2> QED
    BY <2>1, <2>2
<1>6. BInv' <=> Bridge(inFlight', run')
  BY DEF BInv, Bridge, Known, Registered, Ids
<1> QED
  BY <1>1, <1>3, <1>4, <1>5, <1>6 DEF Bridge

\* The network and the timer.
LEMMA NetworkKeeps ==
    ASSUME BInv, NEW d \in Dispatches, Network(d)
    PROVE  BInv' /\ (Reached(inFlight, run) => Reached(inFlight', run'))
<1> DEFINE r == run[d]
<1>1. r.pc \in Active
  BY DEF Network, PullChunk, PullEnd, BodyDone, NetworkFails, TimesOut, Responds, Arrives, Pulling,
         Running, Active
<1>2. Quiet(r) /\ Up(r) /\ Answered(r) /\ r.pc # "ended" /\ DOMAIN r = Fields /\ IsSeq(r.buffer)
  BY <1>1, RunningFacts DEF Quiet, Active
<1>3. \E s : Fine(s) /\ Becomes(d, s)
  <2>1. CASE PullChunk(d)
    <3> DEFINE s == [r EXCEPT !.queued = r.queued - 1, !.sent = r.sent + 1]
    <3>1. Becomes(d, s) /\ ~r.uploaded /\ r.pc # "buffering"
      BY <2>1 DEF PullChunk, Pulling
    <3>2. DOMAIN s = Fields /\ \A f \in Fields \ {"queued", "sent"} : s[f] = r[f]
      BY <1>2 DEF Fields
    <3> HIDE DEF s
    <3>3. Quiet(s) /\ s.pc \in Active /\ Up(s)
      <4> HIDE DEF r
      <4> QED
        BY <1>1, <1>2, <3>1, <3>2 DEF Quiet, Up, Fields
    <3>4. Answered(s)
      <4> HIDE DEF r
      <4> QED
        BY <1>2, <3>2, SameAnswer DEF AnswerFields, Fields
    <3> QED
      BY <3>1, <3>3, <3>4 DEF Fine, Good
  <2>2. CASE PullEnd(d)
    <3>1. r.queued = 0 /\ r.closed /\ r.pc # "buffering"
      BY <2>2 DEF PullEnd, Pulling
    <3>2. ASSUME NEW u PROVE Fine([r EXCEPT !.uploaded = u])
      <4> DEFINE s == [r EXCEPT !.uploaded = u]
      <4>1. DOMAIN s = Fields /\ \A f \in Fields \ {"uploaded"} : s[f] = r[f]
        BY <1>2 DEF Fields
      <4>2. Quiet(s) /\ s.pc \in Active /\ Up(s)
        <5> HIDE DEF r, s
        <5> QED
          BY <1>1, <1>2, <3>1, <4>1 DEF Quiet, Up, Fields
      <4>3. Answered(s)
        <5> HIDE DEF r, s
        <5> QED
          BY <1>2, <4>1, SameAnswer DEF AnswerFields, Fields
      <4> HIDE DEF s
      <4>4. Fine(s)
        BY <4>2, <4>3 DEF Fine, Good
      <4> QED
        BY <4>4 DEF s
    <3> QED
      BY <2>2, <3>2 DEF PullEnd
  <2>3. CASE BodyDone(d)
    <3>1. Reading(r) /\ r.rest = <<>> /\ Becomes(d, finishResponse(r))
      BY <1>2, <2>3 DEF BodyDone, Reading
    <3>2. Progress(r)
      BY <1>2, <3>1 DEF Answered, Reading
    <3>3. Reads(r, finishResponse(r)) /\ Verdict(finishResponse(r))
      BY <3>1, <3>2, FinishResponseReads, FinishAnswer
    <3>4. Fine(finishResponse(r))
      BY <1>2, <3>1, <3>3, ReadsAnswer, ReadsFine
    <3> QED
      BY <3>1, <3>4
  <2>4. CASE NetworkFails(d)
    <3>1. NetworkError(r) \notin Verdicts
      BY DEF NetworkError, Verdicts
    <3>2. Fine(Ended(r, NetworkError(r)))
      BY <1>2, <3>1, EndedFine
    <3> QED
      BY <2>4, <3>2 DEF NetworkFails
  <2>5. CASE TimesOut(d)
    <3>1. Fine(Aborted(r, "timeout"))
      BY <1>1, <1>2, AbortedFine
    <3> QED
      BY <2>5, <3>1 DEF TimesOut
  <2>6. ASSUME NEW response \in Responses, Responds(d, response)
        PROVE  \E s : Fine(s) /\ Becomes(d, s)
    <3> DEFINE rest == Encode(response)
               s == [r EXCEPT !.pc = "reading", !.response = response, !.rest = rest]
    <3>1. Becomes(d, Ended(r, "gateway")) \/ (Becomes(d, s) /\ response.form # "badStatus")
      BY <2>6 DEF Responds, validGatewayStatus
    <3>2. Fine(Ended(r, "gateway")) /\ r.pc = "fetching"
      BY <1>2, <2>6, EndedFine DEF Verdicts, Responds
    <3> HIDE DEF rest
    <3>3. DOMAIN s = Fields /\ s.pc = "reading" /\ s.response = response /\ s.rest = rest
          /\ \A f \in Fields \ {"pc", "response", "rest"} : s[f] = r[f]
      BY <1>2 DEF Fields
    <3> HIDE DEF s, r
    <3>4. Quiet(s) /\ s.pc \in Active /\ Up(s)
      BY <1>1, <1>2, <3>3 DEF Quiet, Up, Fields, Active
    <3>5. ASSUME response.form # "badStatus" PROVE Fine(s)
      <4>1. /\ s.buffer = <<>> /\ ~s.head /\ ~s.completed /\ s.total = 0 /\ s.written = 0
            /\ s.reason \in {"none", "timeout", "cancelled"}
        BY <1>2, <3>2, <3>3 DEF Answered, Fields
      <4>2. Progress(s)
        BY <3>3, <3>5, <4>1, ProgressBegins DEF rest
      <4>3. Answered(s)
        BY <3>3, <4>1, <4>2 DEF Answered
      <4> QED
        BY <3>4, <4>3 DEF Fine, Good
    <3> QED
      BY <3>1, <3>2, <3>5
  <2>7. ASSUME NEW n \in 1 .. Len(r.rest), Arrives(d, n)
        PROVE  \E s : Fine(s) /\ Becomes(d, s)
    <3> DEFINE rest == SubSeq(r.rest, n + 1, Len(r.rest))
               bytes == SubSeq(r.rest, 1, n)
               a == [r EXCEPT !.rest = rest]
    <3>1. Becomes(d, readBytes(a, bytes)) /\ r.pc = "reading"
      BY <2>7 DEF Arrives
    <3>2. IsSeq(bytes)
      BY SeqFacts DEF IsSeq
    <3> HIDE DEF rest, bytes
    <3>3. DOMAIN a = Fields /\ \A f \in Fields \ {"rest"} : a[f] = r[f]
      BY <1>2 DEF Fields
    <3> HIDE DEF a, r
    <3>4. Reading(a) /\ Up(a)
      BY <1>2, <3>1, <3>3 DEF Reading, Quiet, Up, Fields
    <3>5. (Reading(readBytes(a, bytes)) /\ Progress(readBytes(a, bytes))) \/ Verdict(readBytes(a, bytes))
      <4>1. Reading(r) /\ Progress(r)
        BY <1>2, <3>1 DEF Reading, Answered
      <4> QED
        BY <2>7, <4>1, ArrivesAnswer DEF a, rest, bytes
    <3>6. Reads(a, readBytes(a, bytes))
      BY <3>2, <3>4, ReadBytesReads
    <3>7. Answered(readBytes(a, bytes))
      <4>1. a.reason \in {"none", "timeout", "cancelled"}
        BY <1>2, <3>3 DEF Answered, Fields
      <4> QED
        BY <3>5, <3>6, <4>1 DEF Answered, Reading, Reads, SameUpload, Verdict, Over
    <3>8. Fine(readBytes(a, bytes))
      BY <3>4, <3>6, <3>7, ReadsFine
    <3> QED
      BY <3>1, <3>8
  <2> QED
    BY <2>1, <2>2, <2>3, <2>4, <2>5, <2>6, <2>7 DEF Network
<1> QED
  BY <1>1, <1>3, BecomesStep

LEMMA NextKeeps ==
    ASSUME BInv, [BridgeNext]_bridgeVars
    PROVE  BInv' /\ (WaitsForEnd /\ Reached(inFlight, run) => Reached(inFlight', run'))
<1>1. ASSUME NEW d \in Dispatches, NEW request, Dispatch(d, request)
      PROVE  BInv' /\ (WaitsForEnd /\ Reached(inFlight, run) => Reached(inFlight', run'))
  BY <1>1, DispatchKeeps
<1>2. ASSUME NEW i \in Ids,
             \/ cancel(i) \/ handleBodyChunk(i) \/ handleMalformedChunk(i)
             \/ handleBodyEnd(i) \/ handleBodyError(i) \/ unknownBody(i)
      PROVE  BInv' /\ (WaitsForEnd /\ Reached(inFlight, run) => Reached(inFlight', run'))
  BY <1>2, PageKeeps
<1>3. CASE stop
  BY <1>3, StopKeeps
<1>4. CASE start \/ UNCHANGED bridgeVars
  <2>1. inFlight' = inFlight /\ run' = run
    BY <1>4 DEF start, bridgeVars
  <2> QED
    BY <2>1 DEF BInv, Bridge, Known, Registered, Ids, Reached
<1>5. ASSUME NEW d \in Dispatches, Network(d)
      PROVE  BInv' /\ (WaitsForEnd /\ Reached(inFlight, run) => Reached(inFlight', run'))
  BY <1>5, NetworkKeeps
<1> QED
  BY <1>1, <1>2, <1>3, <1>4, <1>5 DEF BridgeNext, Page

LEMMA InitHolds == BridgeInit => BInv /\ Reached(inFlight, run)
<1> SUFFICES ASSUME BridgeInit PROVE BInv /\ Reached(inFlight, run)
  OBVIOUS
<1>1. \A d \in Dispatches : run[d] = NewRun /\ run[d].pc \notin Active
  BY NewRunFacts DEF BridgeInit, Active
<1> QED
  BY <1>1 DEF BridgeInit, BInv, Bridge, Known, Registered, Reached

LEMMA Invariance == BridgeSpec => []BInv
<1>1. BInv /\ [BridgeNext]_bridgeVars => BInv'
  BY NextKeeps
<1> QED
  BY <1>1, InitHolds, PTL DEF BridgeSpec

\* Every dispatch reports exactly one end, whichever of the timer, a cancellation, a
\* body message, the network, the decoder and stop comes first, for any requests and any
\* responses: reportedError keeps the catch block of dispatch from a second event after
\* failBodyMessage, and no path ends without one.
THEOREM OneEnd == BridgeSpec => []OneTerminalEvent
<1>1. BInv => OneTerminalEvent
  BY KnownFacts DEF BInv, Bridge, OneTerminalEvent
<1> QED
  BY <1>1, Invariance, PTL

\* A truncated body is never taken for a whole one: http.bodyEnd reaches the server after
\* every chunk of a streaming upload, and a response is reported complete only with all
\* chunks of a valid answer, for every way the network may cut the frames that
\* readGatewayStreamResponse puts together again; nor is a valid answer called invalid.
THEOREM BodiesAreWhole == BridgeSpec => []BodiesWhole
<1>1. BInv => BodiesWhole
  BY KnownFacts DEF BInv, Bridge, BodiesWhole
<1> QED
  BY <1>1, Invariance, PTL

\* When the page reuses an id only after the terminal event of its last request, http.cancel
\* and the body messages reach every dispatch that runs: the finally block of one request
\* never deletes the record of another.
THEOREM RunningIsReached ==
    ASSUME WaitsForEnd = TRUE
    PROVE  BridgeSpec => []CancelReaches
<1>1. BInv /\ Reached(inFlight, run) /\ [BridgeNext]_bridgeVars => BInv' /\ Reached(inFlight, run)'
  <2> SUFFICES ASSUME BInv, Reached(inFlight, run), [BridgeNext]_bridgeVars
               PROVE  BInv' /\ Reached(inFlight, run)'
    OBVIOUS
  <2>1. BInv' /\ Reached(inFlight', run')
    BY NextKeeps
  <2> QED
    BY <2>1 DEF Reached
<1>2. Reached(inFlight, run) => CancelReaches
  BY DEF Reached, CancelReaches, Running, Active
<1> QED
  BY <1>1, <1>2, InitHolds, PTL DEF BridgeSpec
=============================================================================
