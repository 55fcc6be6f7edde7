------------------------- MODULE StreamDrain_proofs --------------------------
(***************************************************************************)
(* The chunks a stream accepts, for every value of the constants: what a   *)
(* consumer took and what waits in the queue stay one sequence through     *)
(* every step of the engine, so that a stream that ended orderly on a      *)
(* connection that is up was taken to the last chunk.                      *)
(*                                                                         *)
(* The argument is Drained, one stream at a time.  A queue moves when a    *)
(* chunk arrives, when one is taken and when the stream settles: each has  *)
(* a lemma, and every other operation keeps the queues it finds.           *)
(***************************************************************************)
EXTENDS StreamEngine_proofs

-----------------------------------------------------------------------------
(* Accepted chunks.                                                        *)

\* What a consumer took and what waits in its queue are the accepted chunks, in
\* order; a stream that was not confirmed or is settled has nothing queued; and
\* a stream that settled orderly on a connection that is up was drained.
Drained(e, id, a, t) ==
    /\ a \in Seq(Chunk) /\ t \in Seq(Chunk) /\ IsPrefix(t, a)
    /\ IsLive(e, id) => a = t \o e.streams[id].queue
    /\ ~IsLive(e, id) \/ e.streams[id].state = "opening" => e.streams[id].queue = <<>>
    /\ id > e.highest => a = <<>> /\ t = <<>>
    /\ e.cause[id] = "orderly" /\ ~Closed(e) => t = a

Drains(e, a, t) == \A id \in Id : Drained(e, id, a[id], t[id])

\* A sequence is a prefix of what follows it, and taking the head of a queue and
\* appending to a queue keep the whole.
LEMMA Wholes ==
    ASSUME NEW t \in Seq(Chunk), NEW q \in Seq(Chunk)
    PROVE  /\ t \o q \in Seq(Chunk) /\ IsPrefix(t, t \o q)
           /\ \A c \in Chunk : Append(t \o q, c) = t \o Append(q, c)
           /\ q # <<>> => /\ Head(q) \in Chunk /\ Tail(q) \in Seq(Chunk)
                          /\ Append(t, Head(q)) \o Tail(q) = t \o q
  <1>1. t \o q \in Seq(Chunk) /\ IsPrefix(t, t \o q)
    BY DEF IsPrefix
  <1>2. \A c \in Chunk : Append(t \o q, c) = t \o Append(q, c)
    OBVIOUS
  <1>3. ASSUME q # <<>>
        PROVE  /\ Head(q) \in Chunk /\ Tail(q) \in Seq(Chunk)
               /\ Append(t, Head(q)) \o Tail(q) = t \o q
    <2>1. Head(q) \in Chunk /\ Tail(q) \in Seq(Chunk) /\ <<Head(q)>> \in Seq(Chunk)
      BY <1>3, HeadTailProperties
    <2>2. q = <<Head(q)>> \o Tail(q)
      BY <1>3
    <2>3. Append(t, Head(q)) = t \o <<Head(q)>>
      BY <2>1, AppendIsConcat
    <2>4. (t \o <<Head(q)>>) \o Tail(q) = t \o (<<Head(q)>> \o Tail(q))
      BY <2>1, ConcatAssociative
    <2> QED
      BY <2>1, <2>2, <2>3, <2>4
  <1> QED
    BY <1>1, <1>2, <1>3

\* The record of one stream changes and its queue does not.
LEMMA PutDrains ==
    ASSUME NEW e, Good(e), NEW a, NEW t, Drains(e, a, t), NEW id \in Id, NEW s \in muxStream,
           s.queue = e.streams[id].queue,
           s.state = e.streams[id].state \/ (IsLive(e, id) /\ s.state \in LiveStates \ {"opening"})
    PROVE  Drains(Put(e, id, s), a, t)
  <1> DEFINE f == Put(e, id, s)
  <1>1. /\ f.streams = [e.streams EXCEPT ![id] = s]
        /\ f.cause = e.cause /\ f.physical = e.physical /\ f.highest = e.highest
    BY DEF Put, Good, EngineType
  <1> HIDE DEF f
  <1>2. \A x \in Id : f.streams[x] = IF x = id THEN s ELSE e.streams[x]
    BY <1>1 DEF Good, EngineType
  <1>3. ASSUME NEW x \in Id
        PROVE  /\ f.streams[x].queue = e.streams[x].queue /\ (IsLive(f, x) <=> IsLive(e, x))
               /\ f.streams[x].state = "opening" => e.streams[x].state = "opening"
    <2>1. CASE x = id
      BY <1>2, <2>1 DEF IsLive
    <2>2. CASE x # id
      <3>1. f.streams[x] = e.streams[x]
        BY <1>2, <2>2
      <3> QED
        BY <3>1 DEF IsLive
    <2> QED
      BY <2>1, <2>2
  <1>4. Drains(f, a, t)
    <2>1. ASSUME NEW x \in Id PROVE Drained(f, x, a[x], t[x])
      <3>1. Drained(e, x, a[x], t[x])
        BY DEF Drains
      <3> QED
        BY <1>1, <1>3, <3>1 DEF Drained, Closed
    <2> QED
      BY <2>1 DEF Drains
  <1> QED
    BY <1>4 DEF f

\* A stream the step does not touch.
LEMMA OthersDrained ==
    ASSUME NEW e, NEW f, NEW id \in Id, NEW a, NEW t, Drained(e, id, a, t),
           f.streams[id] = e.streams[id],
           f.cause = e.cause, f.physical = e.physical, f.highest = e.highest
    PROVE  Drained(f, id, a, t)
  BY DEF Drained, IsLive, Closed

\* A live stream takes in or hands out a chunk, and its histories follow.
LEMMA LiveDrained ==
    ASSUME NEW e, Good(e), NEW id \in Id, IsLive(e, id), NEW f, f.streams[id] \in muxStream,
           f.streams[id].state \in LiveStates \ {"opening"},
           f.cause = e.cause, f.physical = e.physical, f.highest = e.highest,
           NEW a \in Seq(Chunk), NEW t \in Seq(Chunk), a = t \o f.streams[id].queue
    PROVE  Drained(f, id, a, t)
  <1>1. IsLive(f, id) /\ f.streams[id].state # "opening"
    BY DEF IsLive
  <1>2. f.cause[id] = "none" /\ id <= e.highest /\ e.highest \in Nat
    BY EngineAssumption DEF Good, Settlement, EngineType
  <1>3. IsPrefix(t, a)
    BY Wholes DEF muxStream
  <1>4. ~(id > f.highest)
    BY <1>2, EngineAssumption DEF Id
  <1> QED
    BY <1>1, <1>2, <1>3, <1>4 DEF Drained

\* What retireLocked leaves of each record.
LEMMA RetireRecords ==
    ASSUME NEW e, EngineType(e), NEW order, NEW outcome, NEW id \in Id
    PROVE  LET f == Retire(e, order, outcome)
           IN \/ f.streams[id] = NoStream /\ e.streams[id].state = "terminal"
              \/ f.streams[id] = NoStream /\ id \in ToSet(order)
              \/ f.streams[id] = SettledRecord(e.streams[id]) /\ id \in ToSet(order)
              \/ f.streams[id] = e.streams[id] /\ id \notin ToSet(order)
  BY DEF Retire, EngineType

\* Settling streams loses nothing that an orderly end promises: whoever settles
\* one orderly drained it, or the connection is over.
LEMMA RetireDrains ==
    ASSUME NEW e, EngineType(e), Settlement(e), NEW a, NEW t, Drains(e, a, t),
           NEW order \in Seq(Id), ToSet(order) \subseteq LiveIds(e), NEW outcome \in Outcome,
           outcome = "orderly" /\ ~Closed(e) => \A id \in ToSet(order) : e.streams[id].queue = <<>>
    PROVE  Drains(Retire(e, order, outcome), a, t)
  <1> PICK f : f = Retire(e, order, outcome)
    OBVIOUS
  <1>1. /\ f.physical = e.physical /\ f.highest = e.highest
        /\ \A id \in Id : f.cause[id] = IF id \in ToSet(order) THEN Publish(e.cause[id], outcome)
                                        ELSE e.cause[id]
    BY RetireFacts DEF Retired
  <1>2. /\ NoStream.queue = <<>> /\ NoStream.state = "absent"
        /\ \A s \in muxStream : SettledRecord(s).queue = <<>> /\ SettledRecord(s).state = "terminal"
    BY DEF NoStream, SettledRecord, muxStream
  <1>3. ASSUME NEW id \in Id
        PROVE  /\ IsLive(f, id) => f.streams[id] = e.streams[id] /\ IsLive(e, id)
               /\ f.streams[id].queue = <<>> \/ f.streams[id] = e.streams[id]
    <2>1. e.streams[id] \in muxStream
      BY DEF EngineType
    <2>2. \/ f.streams[id] = NoStream \/ f.streams[id] = SettledRecord(e.streams[id])
          \/ f.streams[id] = e.streams[id]
      BY RetireRecords
    <2> QED
      BY <1>2, <2>1, <2>2, States DEF IsLive
  <1>4. ASSUME NEW id \in ToSet(order), outcome = "orderly", ~Closed(e)
        PROVE  t[id] = a[id]
    <2>1. id \in Id /\ IsLive(e, id) /\ e.streams[id].queue = <<>>
      BY <1>4 DEF LiveIds
    <2> QED BY <2>1, ConcatEmptySeq DEF Drains, Drained
  <1>5. ASSUME NEW id \in Id
        PROVE  f.cause[id] = "orderly" /\ ~Closed(f) => t[id] = a[id]
    BY <1>1, <1>4 DEF Drains, Drained, Closed, Publish
  <1>6. ASSUME NEW id \in Id
        PROVE  ~IsLive(f, id) \/ f.streams[id].state = "opening" => f.streams[id].queue = <<>>
    BY <1>3 DEF Drains, Drained, IsLive
  <1> QED
    BY <1>1, <1>3, <1>5, <1>6 DEF Drains, Drained

\* Retiring one live stream.
LEMMA RetireOneDrains ==
    ASSUME NEW e, Good(e), NEW a, NEW t, Drains(e, a, t), NEW id \in Id, IsLive(e, id),
           NEW outcome \in Outcome, outcome = "orderly" => e.streams[id].queue = <<>>
    PROVE  Drains(Retire(e, <<id>>, outcome), a, t)
  <1>1. <<id>> \in Seq(Id) /\ ToSet(<<id>>) = {id}
    BY DEF ToSet
  <1>2. {id} \subseteq LiveIds(e)
    BY DEF LiveIds
  <1> QED
    BY <1>1, <1>2, RetireDrains DEF Good

\* Credit is granted, spent, given back and returned without touching a queue.
LEMMA CreditDrains ==
    ASSUME NEW e, Good(e), NEW a, NEW t, Drains(e, a, t), NEW id \in Id
    PROVE  /\ \A credit \in Nat : Drains(EngWindowUpdate(e, id, credit).eng, a, t)
           /\ \A c \in Chunk : /\ Drains(EngReserveSend(e, id, c).eng, a, t)
                              /\ Drains(EngRefundSend(e, id, c), a, t)
           /\ Drains(EngTakeReturn(e, id).eng, a, t)
  <1> PICK s : s = e.streams[id]
    OBVIOUS
  <1>1. /\ s \in muxStream /\ s.recvUsed - s.recvReturn \in Int
        /\ \A credit \in Nat : s.sendCredit + credit \in Int
        /\ \A c \in Chunk : /\ s.sendCredit - Cost(c) \in Int
                           /\ MinOf(s.sendCredit + Cost(c), Window) \in Int
    <2>1. s \in muxStream /\ s.recvUsed \in Int /\ s.recvReturn \in Int /\ s.sendCredit \in Int
      BY StreamTyped
    <2>2. ASSUME NEW c \in Chunk
          PROVE  s.sendCredit - Cost(c) \in Int /\ MinOf(s.sendCredit + Cost(c), Window) \in Int
      <3>1. Cost(c) \in Nat /\ Window \in Nat
        BY Numbers
      <3> QED
        BY <2>1, <3>1 DEF MinOf
    <2> QED
      BY <2>1, <2>2
  <1>2. ASSUME NEW i \in Int
        PROVE  /\ Drains(Put(e, id, [s EXCEPT !.sendCredit = i, !.blocked = FALSE]), a, t)
               /\ Drains(Put(e, id, [s EXCEPT !.sendCredit = i]), a, t)
               /\ Drains(Put(e, id, [s EXCEPT !.blocked = TRUE]), a, t)
               /\ Drains(Put(e, id, [s EXCEPT !.recvReturn = 0, !.recvUsed = i]), a, t)
    <2>1. /\ [s EXCEPT !.sendCredit = i, !.blocked = FALSE] \in muxStream
          /\ [s EXCEPT !.sendCredit = i] \in muxStream /\ [s EXCEPT !.blocked = TRUE] \in muxStream
          /\ [s EXCEPT !.recvReturn = 0, !.recvUsed = i] \in muxStream
      <3>1. [s EXCEPT !.sendCredit = i, !.blocked = FALSE] \in muxStream
        BY <1>1 DEF muxStream
      <3>2. [s EXCEPT !.sendCredit = i] \in muxStream
        BY <1>1 DEF muxStream
      <3>3. [s EXCEPT !.blocked = TRUE] \in muxStream
        BY <1>1 DEF muxStream
      <3>4. [s EXCEPT !.recvReturn = 0, !.recvUsed = i] \in muxStream
        BY <1>1, Numbers, QueueFields, Zenon
      <3> QED
        BY <3>1, <3>2, <3>3, <3>4
    <2>2. ASSUME NEW x, x \in {[s EXCEPT !.sendCredit = i, !.blocked = FALSE], [s EXCEPT !.sendCredit = i],
                               [s EXCEPT !.blocked = TRUE], [s EXCEPT !.recvReturn = 0, !.recvUsed = i]}
          PROVE  x.queue = s.queue /\ x.state = s.state
      BY <1>1, <2>2 DEF muxStream
    <2> QED
      BY <2>1, <2>2, PutDrains
  <1>3. ASSUME NEW credit \in Nat PROVE Drains(EngWindowUpdate(e, id, credit).eng, a, t)
    BY <1>1, <1>2, Zenon DEF EngWindowUpdate, Result
  <1>4. ASSUME NEW c \in Chunk PROVE Drains(EngReserveSend(e, id, c).eng, a, t)
    BY <1>1, <1>2, Zenon DEF EngReserveSend, Result
  <1>5. ASSUME NEW c \in Chunk PROVE Drains(EngRefundSend(e, id, c), a, t)
    BY <1>1, <1>2, Zenon DEF EngRefundSend
  <1>6. Drains(EngTakeReturn(e, id).eng, a, t)
    BY <1>1, <1>2, Zenon DEF EngTakeReturn, Result
  <1> QED
    BY <1>3, <1>4, <1>5, <1>6

\* Nothing was accepted or taken under a fresh identity.
LEMMA FreshDrains ==
    ASSUME NEW e, Good(e), NEW a, NEW t, Drains(e, a, t), NEW id \in Id, id > e.highest,
           NEW s, s.queue = <<>>, NEW f, f.streams = [e.streams EXCEPT ![id] = s],
           f.cause = e.cause, f.physical = e.physical, f.highest = id
    PROVE  Drains(f, a, t)
  <1>1. \A x \in Id : (x > f.highest => x > e.highest) /\ ~(id > f.highest)
    BY EngineAssumption DEF Good, EngineType, Id
  <1>2. \A x \in Id : f.streams[x] = IF x = id THEN s ELSE e.streams[x]
    BY DEF Good, EngineType
  <1>3. ASSUME NEW x \in Id, x # id PROVE Drained(f, x, a[x], t[x])
    <2>1. f.streams[x] = e.streams[x] /\ (IsLive(f, x) <=> IsLive(e, x))
      BY <1>2, <1>3 DEF IsLive
    <2> QED
      BY <1>1, <2>1 DEF Drains, Drained, Closed
  <1>4. /\ a[id] = <<>> /\ t[id] = <<>> /\ f.cause[id] # "orderly"
        /\ a[id] \in Seq(Chunk) /\ t[id] \in Seq(Chunk) /\ IsPrefix(t[id], a[id])
    BY DEF Drains, Drained, Good, Settlement
  <1>5. f.streams[id].queue = <<>> /\ a[id] = t[id] \o f.streams[id].queue
    BY <1>2, <1>4, ConcatEmptySeq
  <1> QED
    BY <1>1, <1>3, <1>4, <1>5 DEF Drains, Drained

\* A new stream starts with nothing accepted; a confirmation moves no chunk.
LEMMA OpenDrains ==
    ASSUME NEW e, Good(e), NEW a, NEW t, Drains(e, a, t), NEW id \in Id, NEW r \in Ref, NEW p \in Policy
    PROVE  /\ Drains(EngRestrict(e, p).eng, a, t) /\ Drains(EngOpen(e, id, r, p).eng, a, t)
           /\ Drains(EngOpened(e, id, r).eng, a, t) /\ Drains(EngRefused(e, id, r).eng, a, t)
  <1>1. Drains(EngRestrict(e, p).eng, a, t)
    <2> DEFINE f == [e EXCEPT !.restricted = TRUE, !.policy = p]
    <2>1. f.streams = e.streams /\ f.cause = e.cause /\ f.physical = e.physical /\ f.highest = e.highest
      BY DEF Good, EngineType
    <2> HIDE DEF f
    <2>2. Drains(f, a, t)
      BY <2>1 DEF Drains, Drained, IsLive, Closed
    <2> QED
      BY <2>2 DEF EngRestrict, Result, f
  <1>2. Drains(EngOpen(e, id, r, p).eng, a, t)
    <2>1. CASE EngOpenError(e, id, p) # "ok"
      BY <2>1 DEF EngOpen, Result
    <2>2. CASE EngOpenError(e, id, p) = "ok"
      <3>1. PICK s : s = [NoStream EXCEPT !.state = "opening", !.ref = r, !.sendCredit = Window]
        OBVIOUS
      <3>2. s.queue = <<>>
        BY <3>1 DEF NoStream
      <3>3. PICK f : f = Put([e EXCEPT !.highest = id, !.live = @ + 1], id, s)
        OBVIOUS
      <3>4. /\ f.streams = [e.streams EXCEPT ![id] = s] /\ f.cause = e.cause
            /\ f.physical = e.physical /\ f.highest = id
        BY <3>3 DEF Put, Good, EngineType
      <3>5. id > e.highest /\ e.highest \in Nat
        BY <2>2, EngineAssumption DEF EngOpenError, Good, EngineType, Id
      <3>6. Drains(f, a, t)
        BY <3>2, <3>4, <3>5, FreshDrains
      <3>7. EngOpen(e, id, r, p).eng = f
        BY <2>2, <3>1, <3>3 DEF EngOpen, Result
      <3> QED
        BY <3>6, <3>7
    <2> QED
      BY <2>1, <2>2
  <1>3. Drains(EngOpened(e, id, r).eng, a, t) /\ Drains(EngRefused(e, id, r).eng, a, t)
    <2>1. CASE EngConfirmError(e, id, r) # "ok"
      BY <2>1 DEF EngOpened, EngRefused, Result
    <2>2. CASE EngConfirmError(e, id, r) = "ok"
      <3>1. Lookup(e, id) = "opening"
        BY <2>2 DEF EngConfirmError
      <3>2. IsLive(e, id) /\ e.streams[id].state = "opening"
        BY <3>1, LookupLive
      <3> PICK s : s = [e.streams[id] EXCEPT !.state = "open"]
        OBVIOUS
      <3>3. s \in muxStream /\ s.queue = e.streams[id].queue /\ s.state = "open"
        BY StreamTyped, States DEF muxStream
      <3>4. Drains(EngOpened(e, id, r).eng, a, t)
        BY <2>2, <3>2, <3>3, States, PutDrains DEF EngOpened, Result
      <3> PICK x : x = [e.streams[id] EXCEPT !.refused = TRUE]
        OBVIOUS
      <3>5. x \in muxStream /\ x.queue = e.streams[id].queue /\ x.state = e.streams[id].state
        BY StreamTyped DEF muxStream
      <3> PICK f : f = Put(e, id, x)
        OBVIOUS
      <3>6. Drains(f, a, t) /\ Good(f)
        BY <3>5, PutDrains, PutLive DEF Preserves
      <3>7. f.streams[id] = x
        BY DEF Put, Good, EngineType
      <3>8. IsLive(f, id) /\ f.streams[id].queue = <<>>
        BY <3>2, <3>5, <3>7 DEF Drains, Drained, IsLive
      <3>9. Drains(Retire(f, <<id>>, "orderly"), a, t)
        BY <3>6, <3>8, RetireOneDrains DEF Outcome
      <3> QED
        BY <2>2, <3>4, <3>9 DEF EngRefused, Result
    <2> QED
      BY <2>1, <2>2
  <1> QED
    BY <1>1, <1>2, <1>3

\* An accepted chunk joins its queue, every other result accepts nothing.
LEMMA DataDrains ==
    ASSUME NEW e, Good(e), NEW a \in [Id -> Seq(Chunk)], NEW t, Drains(e, a, t), NEW id \in Id, NEW c \in Chunk
    PROVE  Drains(EngData(e, id, c).eng,
                  IF EngData(e, id, c).res = "accepted" THEN [a EXCEPT ![id] = Append(@, c)] ELSE a, t)
  <1> DEFINE b == [a EXCEPT ![id] = Append(@, c)]
  <1>1. CASE EngData(e, id, c).eng = e /\ EngData(e, id, c).res # "accepted"
    BY <1>1
  <1>2. CASE Lookup(e, id) = "open"
    <2>1. IsLive(e, id) /\ e.streams[id].state = "open"
      BY <1>2, LookupLive
    <2>2. Drains(Retire(e, <<id>>, "queueFull"), a, t)
      BY <2>1, RetireOneDrains DEF Outcome
    <2>3. Drains(Enqueue(e, id, c), b, t)
      <3> DEFINE q == Append(e.streams[id].queue, c)
                 s == [e.streams[id] EXCEPT !.bytes = @ + ChunkLen[c], !.recvUsed = @ + Cost(c),
                                            !.queue = Append(@, c)]
                 f == Enqueue(e, id, c)
      <3>1. e.streams[id] \in muxStream /\ e.streams[id].queue \in Seq(Chunk) /\ q \in Seq(Chunk)
        BY StreamTyped
      <3>2. s \in muxStream
        <4>1. e.streams[id].bytes + ChunkLen[c] \in Int /\ e.streams[id].recvUsed + Cost(c) \in Int
          BY StreamTyped, Numbers
        <4> QED
          BY <3>1, <4>1, QueueFields, Zenon
      <3>3. s.queue = q /\ s.state = "open"
        BY <2>1, <3>1 DEF muxStream
      <3>4. f = Put(Charge(e, ChunkLen[c]), id, s)
        BY DEF Enqueue, Charge, Good, EngineType
      <3> HIDE DEF s
      <3>5. /\ f.streams = [e.streams EXCEPT ![id] = s] /\ f.cause = e.cause
            /\ f.physical = e.physical /\ f.highest = e.highest
        BY <3>4 DEF Put, Charge, Good, EngineType
      <3> HIDE DEF f
      <3>6. t[id] \in Seq(Chunk) /\ a[id] = t[id] \o e.streams[id].queue
        BY <2>1 DEF Drains, Drained
      <3>7. b[id] = Append(a[id], c) /\ \A x \in Id \ {id} : b[x] = a[x]
        OBVIOUS
      <3> HIDE DEF b
      <3>8. Append(t[id] \o e.streams[id].queue, c) = t[id] \o q
        BY <3>1, <3>6, Wholes
      <3>9. b[id] = t[id] \o s.queue /\ b[id] \in Seq(Chunk)
        <4>1. b[id] = t[id] \o s.queue
          BY <3>3, <3>6, <3>7, <3>8, Zenon
        <4>2. Append(a[id], c) \in Seq(Chunk)
          OBVIOUS
        <4> QED BY <3>7, <4>1, <4>2, Zenon
      <3>10. f.streams[id] = s /\ \A x \in Id \ {id} : f.streams[x] = e.streams[x]
        BY <3>5 DEF Good, EngineType
      <3> HIDE DEF q
      <3>11. Drained(f, id, b[id], t[id])
        <4>1. s.state \in LiveStates \ {"opening"}
          BY <3>3, States
        <4> QED
          BY <2>1, <3>2, <3>5, <3>6, <3>9, <3>10, <4>1, LiveDrained
      <3>12. ASSUME NEW x \in Id \ {id} PROVE Drained(f, x, b[x], t[x])
        BY <3>5, <3>7, <3>10, OthersDrained DEF Drains
      <3>13. Drains(f, b, t)
        BY <3>11, <3>12 DEF Drains
      <3> QED
        BY <3>13 DEF f
    <2>4. CASE ChunkLen[c] > Ceilings.StreamChunkLimit
      BY <1>1, <2>4 DEF EngData, Result
    <2>5. CASE ~(ChunkLen[c] > Ceilings.StreamChunkLimit) /\ queueOverflows(e, id, c)
      BY <1>2, <2>2, <2>5 DEF EngData, Result
    <2>6. CASE ~(ChunkLen[c] > Ceilings.StreamChunkLimit) /\ ~queueOverflows(e, id, c)
      BY <1>2, <2>3, <2>6 DEF EngData, Result
    <2> QED
      BY <2>4, <2>5, <2>6
  <1>3. CASE Lookup(e, id) # "open"
    <2>1. Lookup(e, id) \in {"future", "terminal", "opening", "closing"}
      <3>1. Lookup(e, id) \notin {"future", "terminal"} => Lookup(e, id) \in LiveStates
        BY LookupLive DEF IsLive
      <3> QED BY <1>3, <3>1 DEF LiveStates
    <2> QED
      BY <1>1, <2>1 DEF EngData, Result
  <1> QED
    BY <1>2, <1>3

\* An orderly Close settles only a drained stream; a Reset promises nothing.
LEMMA CloseDrains ==
    ASSUME NEW e, Good(e), NEW a, NEW t, Drains(e, a, t), NEW id \in Id
    PROVE  Drains(EngClose(e, id).eng, a, t) /\ Drains(EngReset(e, id).eng, a, t)
  <1>1. CASE Lookup(e, id) \in {"future", "terminal"}
    BY <1>1 DEF EngClose, EngReset, Result
  <1>2. CASE Lookup(e, id) \notin {"future", "terminal"}
    <2>1. IsLive(e, id)
      BY <1>2, LookupLive
    <2>2. Drains(EngReset(e, id).eng, a, t)
      <3>1. Drains(Retire(e, <<id>>, "reset"), a, t)
        BY <2>1, RetireOneDrains DEF Outcome
      <3> QED
        BY <1>2, <3>1 DEF EngReset, Result
    <2>3. CASE e.streams[id].queue = <<>>
      <3>1. Drains(Retire(e, <<id>>, "orderly"), a, t)
        BY <2>1, <2>3, RetireOneDrains DEF Outcome
      <3> QED
        BY <1>2, <2>2, <2>3, <3>1 DEF EngClose, Result
    <2>4. CASE e.streams[id].queue # <<>>
      <3> DEFINE s == [e.streams[id] EXCEPT !.state = "closing", !.blocked = FALSE]
      <3>1. s \in muxStream /\ s.queue = e.streams[id].queue /\ s.state = "closing"
        BY StreamTyped, States DEF muxStream
      <3> HIDE DEF s
      <3>2. Drains(Put(e, id, s), a, t)
        BY <2>1, <3>1, States, PutDrains
      <3> QED
        BY <1>2, <2>2, <2>4, <3>2 DEF EngClose, Result, s
    <2> QED
      BY <2>3, <2>4
  <1> QED
    BY <1>1, <1>2

\* A Take hands out the oldest chunk, and settles a closing stream with the last.
LEMMA TakeDrains ==
    ASSUME NEW e, Good(e), NEW a, NEW t \in [Id -> Seq(Chunk)], Drains(e, a, t), NEW id \in Id,
           e.streams[id].queue # <<>>
    PROVE  Drains(EngTake(e, id).eng, a, [t EXCEPT ![id] = Append(@, Head(e.streams[id].queue))])
  <1> DEFINE q == e.streams[id].queue
             c == Head(q)
             u == [t EXCEPT ![id] = Append(@, Head(e.streams[id].queue))]
             s == [e.streams[id] EXCEPT !.queue = Tail(@), !.bytes = @ - ChunkLen[c],
                                        !.recvReturn = @ + Cost(c)]
             f == Put(e, id, s)
             g == Charge(f, -ChunkLen[c])
  <1>1. q \in Seq(Chunk) /\ c \in Chunk /\ Tail(q) \in Seq(Chunk) /\ e.streams[id] \in muxStream
    BY StreamTyped
  <1>2. s \in muxStream
    <2> HIDE DEF c
    <2>1. e.streams[id].bytes - ChunkLen[c] \in Int /\ e.streams[id].recvReturn + Cost(c) \in Int
      BY <1>1, StreamTyped, Numbers
    <2> QED
      BY <1>1, <2>1, QueueFields, Zenon
  <1>3. s.state = e.streams[id].state /\ s.queue = Tail(q)
    BY <1>1 DEF muxStream
  <1>4. EngTake(e, id).eng = IF e.streams[id].state = "closing" /\ Len(q) = 1
                             THEN Retire(g, <<id>>, "orderly") ELSE g
    BY DEF EngTake, Popped, Result
  <1> HIDE DEF s
  <1>5. /\ g.streams = [e.streams EXCEPT ![id] = s] /\ g.cause = e.cause
        /\ g.physical = e.physical /\ g.highest = e.highest
    BY DEF Charge, Put, Good, EngineType
  <1>6. Good(g)
    <2>1. Good(f)
      BY <1>2, <1>3, PutLive DEF Preserves
    <2> QED
      BY <2>1, ChargePreserves DEF Preserves
  <1> HIDE DEF g, f
  <1>7. g.streams[id] = s /\ \A x \in Id \ {id} : g.streams[x] = e.streams[x]
    BY <1>5 DEF Good, EngineType
  <1>8. /\ IsLive(e, id) /\ e.streams[id].state # "opening"
        /\ a[id] \in Seq(Chunk) /\ t[id] \in Seq(Chunk) /\ a[id] = t[id] \o q
    BY DEF Drains, Drained
  <1>9. u[id] = Append(t[id], c) /\ \A x \in Id \ {id} : u[x] = t[x]
    OBVIOUS
  <1> HIDE DEF u, q, c
  <1>10. Append(t[id], c) \o Tail(q) = t[id] \o q /\ Append(t[id], c) \in Seq(Chunk)
    <2>1. Append(t[id], c) \o Tail(q) = t[id] \o q
      BY <1>1, <1>8, Wholes, Zenon DEF c, q
    <2>2. Append(t[id], c) \in Seq(Chunk)
      BY <1>1, <1>8
    <2> QED
      BY <2>1, <2>2
  <1>11. Drained(g, id, a[id], u[id])
    <2>1. s.state \in LiveStates \ {"opening"}
      BY <1>3, <1>8 DEF IsLive
    <2>2. u[id] \in Seq(Chunk) /\ a[id] = u[id] \o s.queue
      BY <1>3, <1>8, <1>9, <1>10, Zenon
    <2> QED
      BY <1>2, <1>5, <1>7, <1>8, <2>1, <2>2, LiveDrained
  <1>12. ASSUME NEW x \in Id \ {id} PROVE Drained(g, x, a[x], u[x])
    BY <1>5, <1>7, <1>9, OthersDrained DEF Drains
  <1>13. Drains(g, a, u)
    BY <1>11, <1>12 DEF Drains
  <1>14. CASE e.streams[id].state = "closing" /\ Len(q) = 1
    <2>1. g.streams[id].queue = <<>>
      <3>1. q # <<>> /\ Len(q) = 1
        BY <1>14 DEF q
      <3>2. Tail(q) \in Seq(Chunk) /\ Len(Tail(q)) = 0
        BY <1>1, <3>1, HeadTailProperties
      <3>3. Tail(q) = <<>>
        BY <3>2, EmptySeq
      <3> QED
        BY <1>3, <1>7, <3>3
    <2>2. IsLive(g, id)
      BY <1>3, <1>7, <1>8 DEF IsLive
    <2>3. Drains(Retire(g, <<id>>, "orderly"), a, u)
      BY <1>6, <1>13, <2>1, <2>2, RetireOneDrains DEF Outcome
    <2> QED
      BY <1>4, <1>14, <2>3 DEF u
  <1>15. CASE ~(e.streams[id].state = "closing" /\ Len(q) = 1)
    BY <1>4, <1>13, <1>15 DEF u
  <1> QED
    BY <1>14, <1>15

\* Once the connection is over an orderly end promises nothing.
LEMMA TerminalizeDrains ==
    ASSUME NEW e, Good(e), NEW a, NEW t, Drains(e, a, t), NEW outcome \in {"orderly", "lost"},
           NEW order \in Orders(LiveIds(e))
    PROVE  Drains(EngTerminalize(e, order, outcome), a, t)
  <1>1. order \in Seq(Id) /\ ToSet(order) = LiveIds(e)
    <2>1. order \in [1 .. Cardinality(LiveIds(e)) -> LiveIds(e)] /\ ToSet(order) = LiveIds(e)
      BY DEF Orders
    <2>2. order \in [1 .. Cardinality(LiveIds(e)) -> Id]
      BY <2>1 DEF LiveIds
    <2> QED
      BY <2>1, <2>2, LiveFinite
  <1> DEFINE f == [e EXCEPT !.physical = Publish(@, outcome)]
  <1>2. /\ f.streams = e.streams /\ f.cause = e.cause /\ f.highest = e.highest
        /\ f.physical = Publish(e.physical, outcome)
    BY DEF Good, EngineType
  <1>3. EngineType(f)
    BY DEF Good, EngineType, Publish
  <1> HIDE DEF f
  <1>4. LiveIds(f) = LiveIds(e) /\ Settlement(f) /\ Closed(f)
    BY <1>2 DEF Good, Settlement, LiveIds, IsLive, Closed, Publish
  <1>5. Drains(f, a, t)
    BY <1>2, <1>4 DEF Drains, Drained, IsLive
  <1>6. outcome \in Outcome
    BY DEF Outcome
  <1>7. Drains(Retire(f, order, outcome), a, t)
    BY <1>1, <1>3, <1>4, <1>5, <1>6, RetireDrains
  <1> QED
    BY <1>7 DEF EngTerminalize, f

\* One step of the engine keeps every accepted chunk with its stream.
LEMMA StepDrains ==
    ASSUME Good(eng), accepted \in [Id -> Seq(Chunk)], taken \in [Id -> Seq(Chunk)],
           Drains(eng, accepted, taken), [Next]_vars
    PROVE  /\ accepted' \in [Id -> Seq(Chunk)] /\ taken' \in [Id -> Seq(Chunk)]
           /\ Drains(eng', accepted', taken')
  <1>1. CASE UNCHANGED vars
    BY <1>1 DEF vars
  <1>2. ASSUME NEW p \in Policy, RestrictAdmissions(p) PROVE Drains(eng', accepted, taken)
    <2>1. CASE Id = {}
      BY <2>1 DEF Drains
    <2>2. CASE Id # {}
      <3>1. PICK id \in Id, r \in Ref : TRUE
        BY <2>2, EngineAssumption
      <3> QED
        BY <1>2, <3>1, OpenDrains DEF RestrictAdmissions
    <2> QED
      BY <2>1, <2>2
  <1>3. ASSUME NEW outcome \in {"orderly", "lost"}, Terminalize(outcome)
        PROVE  Drains(eng', accepted, taken) /\ UNCHANGED <<accepted, taken>>
    BY <1>3, TerminalizeDrains DEF Terminalize
  <1>4. ASSUME NEW id \in Id, NEW r \in Ref, NEW p \in Policy,
               Open(id, r, p) \/ Opened(id, r) \/ Refused(id, r)
        PROVE  Drains(eng', accepted, taken)
    BY <1>4, OpenDrains DEF Open, Opened, Refused
  <1>5. ASSUME NEW id \in Id, NEW c \in Chunk, Data(id, c)
        PROVE  Drains(eng', accepted', taken) /\ accepted' \in [Id -> Seq(Chunk)]
    <2>1. Drains(eng', accepted', taken)
      BY <1>5, DataDrains DEF Data
    <2>2. Append(accepted[id], c) \in Seq(Chunk)
      OBVIOUS
    <2>3. accepted' \in [Id -> Seq(Chunk)]
      BY <1>5, <2>2 DEF Data
    <2> QED
      BY <2>1, <2>3
  <1>6. ASSUME NEW id \in Id, NEW c \in Chunk, ReserveSend(id, c) \/ RefundSend(id, c)
        PROVE  Drains(eng', accepted, taken)
    BY <1>6, CreditDrains DEF ReserveSend, RefundSend
  <1>7. ASSUME NEW id \in Id, NEW credit \in 1 .. Window, WindowUpdate(id, credit)
        PROVE  Drains(eng', accepted, taken)
    BY <1>7, CreditDrains, Numbers DEF WindowUpdate
  <1>8. ASSUME NEW id \in Id, TakeReturn(id) PROVE Drains(eng', accepted, taken)
    BY <1>8, CreditDrains DEF TakeReturn
  <1>9. ASSUME NEW id \in Id, Close(id) \/ Reset(id) PROVE Drains(eng', accepted, taken)
    BY <1>9, CloseDrains DEF Close, Reset
  <1>10. ASSUME NEW id \in Id, Take(id)
         PROVE  Drains(eng', accepted, taken') /\ taken' \in [Id -> Seq(Chunk)]
    <2>1. Drains(eng', accepted, taken')
      BY <1>10, TakeDrains DEF Take
    <2>2. eng.streams[id].queue \in Seq(Chunk) /\ eng.streams[id].queue # <<>>
      BY <1>10, StreamTyped DEF Take
    <2>3. Append(taken[id], Head(eng.streams[id].queue)) \in Seq(Chunk)
      BY <2>2
    <2>4. taken' \in [Id -> Seq(Chunk)]
      BY <1>10, <2>3 DEF Take
    <2> QED
      BY <2>1, <2>4
  <1> DEFINE Kept == /\ accepted' \in [Id -> Seq(Chunk)] /\ taken' \in [Id -> Seq(Chunk)]
                     /\ Drains(eng', accepted', taken')
  <1>11. ASSUME NEW p \in Policy, RestrictAdmissions(p) PROVE Kept
    BY <1>2, <1>11 DEF RestrictAdmissions
  <1>12. ASSUME NEW id \in Id, NEW r \in Ref, NEW p \in Policy,
                Open(id, r, p) \/ Opened(id, r) \/ Refused(id, r)
         PROVE  Kept
    BY <1>4, <1>12 DEF Open, Opened, Refused
  <1>13. ASSUME NEW id \in Id, NEW c \in Chunk, Data(id, c) \/ ReserveSend(id, c) \/ RefundSend(id, c)
         PROVE  Kept
    BY <1>5, <1>6, <1>13 DEF Data, ReserveSend, RefundSend
  <1>14. ASSUME NEW id \in Id, NEW credit \in 1 .. Window, WindowUpdate(id, credit) PROVE Kept
    BY <1>7, <1>14 DEF WindowUpdate
  <1>15. ASSUME NEW id \in Id, TakeReturn(id) \/ Close(id) \/ Reset(id) \/ Take(id) PROVE Kept
    BY <1>8, <1>9, <1>10, <1>15 DEF TakeReturn, Close, Reset, Take
  <1>16. PICK p \in Policy : TRUE
    BY EngineAssumption
  <1>17. ASSUME NEW outcome \in {"orderly", "lost"}, Terminalize(outcome) PROVE Kept
    BY <1>3, <1>17
  <1>18. UNCHANGED vars => Kept
    BY <1>1
  <1> HIDE DEF Kept
  <1>19. Kept
    BY <1>11, <1>12, <1>13, <1>14, <1>15, <1>16, <1>17, <1>18 DEF Next
  <1> QED
    BY <1>19 DEF Kept

\* An orderly end loses no accepted data: what the consumer took is a prefix of
\* what was accepted, and all of it once the stream settled orderly while the
\* connection was up (the half-close of StreamEngine.Close and Take's last pop).
THEOREM OrderlyCloseAlwaysDrains == Spec => []OrderlyCloseDrains
  <1> DEFINE Histories == /\ accepted \in [Id -> Seq(Chunk)] /\ taken \in [Id -> Seq(Chunk)]
                          /\ Drains(eng, accepted, taken)
  <1>1. Init => Histories
    <2> SUFFICES ASSUME Init PROVE Histories
      OBVIOUS
    <2>1. accepted = [id \in Id |-> <<>>] /\ taken = [id \in Id |-> <<>>] /\ eng = newStreamEngine
      BY DEF Init
    <2>2. accepted \in [Id -> Seq(Chunk)] /\ taken \in [Id -> Seq(Chunk)]
      BY <2>1, EmptySeq
    <2>3. NoStream.queue = <<>> /\ NoStream.state \notin LiveStates /\ IsPrefix(<<>>, <<>>)
      <3>1. NoStream.queue = <<>> /\ NoStream.state = "absent"
        BY DEF NoStream
      <3>2. "absent" \notin LiveStates
        BY DEF LiveStates
      <3>3. IsPrefix(<<>>, <<>>)
        BY EmptySeq DEF IsPrefix
      <3> QED
        BY <3>1, <3>2, <3>3
    <2>4. \A id \in Id : eng.streams[id] = NoStream /\ eng.cause[id] = "none"
      BY <2>1 DEF newStreamEngine
    <2>5. \A id \in Id : accepted[id] = <<>> /\ taken[id] = <<>>
      BY <2>1
    <2> QED
      BY <2>2, <2>3, <2>4, <2>5 DEF Drains, Drained, IsLive
  <1>2. Good(eng) /\ Histories /\ [Next]_vars => Histories'
    BY StepDrains
  <1>3. Histories => OrderlyCloseDrains
    BY DEF Drains, Drained, OrderlyCloseDrains
  <1> QED
    BY <1>1, <1>2, <1>3, AlwaysGood, PTL DEF Spec

=============================================================================
