------------------------- MODULE StreamEngine_proofs -------------------------
(***************************************************************************)
(* What the ceilings of MuxLimits guarantee for every legal advertisement, *)
(* and the stream table of StreamEngine for every value of its constants:  *)
(* the type invariant, the slot accounting, the joint settlement of        *)
(* streams and connection, the identity fence and the finality of          *)
(* outcomes.                                                               *)
(*                                                                         *)
(* Each engine method maps a well-formed engine to a well-formed engine    *)
(* and moves it only forward (Preserves); the temporal theorems follow     *)
(* from one lemma per method.                                              *)
(***************************************************************************)
EXTENDS StreamEngine, FiniteSetTheorems, SequenceTheorems, TLAPS

-----------------------------------------------------------------------------
(* The ceilings.                                                           *)

\* Natural division rounds down: m streams of n \div m bytes fit in n bytes.
LEMMA DivFits ==
    ASSUME NEW n \in Nat, NEW m \in Nat \ {0}
    PROVE  /\ n \div m \in Nat
           /\ m * (n \div m) <= n
  OBVIOUS

\* Multiplication is monotone.
LEMMA TimesMonotone ==
    ASSUME NEW k \in Nat, NEW x \in Nat, NEW y \in Nat, x <= y
    PROVE  k * x <= k * y
  OBVIOUS

\* A window is a natural number, never below the cost of one full chunk:
\* StreamWindow's one-chunk floor survives the MaxMuxStreamWindowBytes cap.
LEMMA WindowHoldsAChunk ==
    ASSUME NEW c \in MuxCeilings
    PROVE  /\ StreamWindow(c) \in Nat
           /\ StreamWindow(c) >= chunkCredit(c.StreamChunkLimit)
  BY LimitsAssumption, DivFits DEF MuxCeilings, StreamWindow, chunkCredit, MinOf, MaxOf, MinMuxAggregateBytes

\* creditReturnThreshold can never deadlock a writer: a sender blocked on a
\* maximum chunk has spent more than window - chunkCredit(limit), and the
\* receiver that consumed all of it is at or past the return threshold.
THEOREM ReturnThresholdUnblocks ==
    ASSUME NEW c \in MuxCeilings,
           NEW spent \in Nat,
           StreamWindow(c) - spent < chunkCredit(c.StreamChunkLimit)
    PROVE  /\ creditReturnThreshold(c) \in 1 .. StreamWindow(c) + 1
           /\ spent >= creditReturnThreshold(c)
  <1>1. StreamWindow(c) \in Nat /\ StreamWindow(c) >= chunkCredit(c.StreamChunkLimit)
    BY WindowHoldsAChunk
  <1>2. chunkCredit(c.StreamChunkLimit) \in Nat \ {0}
    BY LimitsAssumption DEF MuxCeilings, chunkCredit
  <1> QED
    BY <1>1, <1>2 DEF creditReturnThreshold, MinOf, MaxOf

\* The element-wise minima of two legal advertisements, with the lowered
\* stream ceiling, are a legal advertisement again.
LEMMA EffectiveIsLegal ==
    ASSUME NEW local \in MuxCeilings, NEW remote \in MuxCeilings
    PROVE  EffectiveMuxCeilings(local, remote) \in MuxCeilings
  <1> DEFINE chunk == MinOf(local.StreamChunkLimit, remote.StreamChunkLimit)
             streams == MinOf(local.MaxStreams, remote.MaxStreams)
             bytes == MinOf(local.MaxAggregateBytes, remote.MaxAggregateBytes)
             fair == bytes \div chunkCredit(chunk)
  <1>1. chunk \in 1 .. MaxMuxChunkBytes
    BY LimitsAssumption DEF MuxCeilings, MinOf
  <1>2. streams \in 1 .. MaxMuxStreams
    BY LimitsAssumption DEF MuxCeilings, MinOf
  <1>3. bytes \in MinMuxAggregateBytes .. MaxMuxAggregateBytes
    BY LimitsAssumption DEF MuxCeilings, MinMuxAggregateBytes, MinOf
  <1>4. fair \in Nat
    BY <1>1, <1>3, DivFits, LimitsAssumption DEF chunkCredit, MinMuxAggregateBytes
  <1>5. MaxOf(MinOf(streams, fair), 1) \in 1 .. MaxMuxStreams
    BY <1>2, <1>4, LimitsAssumption DEF MinOf, MaxOf
  <1> QED
    BY <1>1, <1>3, <1>5 DEF EffectiveMuxCeilings, MuxCeilings

\* EffectiveMuxCeilings keeps a conforming peer inside the aggregate budget:
\* the windows of all streams the ceiling admits fit in it together.
THEOREM WindowsFitAggregate ==
    ASSUME NEW local \in MuxCeilings, NEW remote \in MuxCeilings
    PROVE  LET c == EffectiveMuxCeilings(local, remote)
           IN c.MaxStreams * StreamWindow(c) <= c.MaxAggregateBytes
  <1> DEFINE c == EffectiveMuxCeilings(local, remote)
             A == c.MaxAggregateBytes
             S == c.MaxStreams
             cost == chunkCredit(c.StreamChunkLimit)
  <1> SUFFICES S * StreamWindow(c) <= A
    OBVIOUS
  <1>1. c \in MuxCeilings
    BY EffectiveIsLegal
  <1>2. A \in Nat /\ S \in Nat \ {0} /\ cost \in Nat \ {0} /\ A >= cost
    BY <1>1, LimitsAssumption DEF MuxCeilings, chunkCredit, MinMuxAggregateBytes
  <1>3. S <= MaxOf(A \div cost, 1)
    <2> DEFINE streams == MinOf(local.MaxStreams, remote.MaxStreams)
    <2>1. streams \in Nat
      BY DEF MuxCeilings, MinOf
    <2>2. S = MaxOf(MinOf(streams, A \div cost), 1)
      BY DEF EffectiveMuxCeilings
    <2>3. A \div cost \in Nat
      BY <1>2, DivFits
    <2> HIDE DEF c, A, S, cost, streams
    <2> QED
      BY <2>1, <2>2, <2>3 DEF MaxOf, MinOf
  <1>4. StreamWindow(c) <= MaxOf(A \div S, cost) /\ StreamWindow(c) \in Nat
    <2>1. A \div S \in Nat
      BY <1>2, DivFits
    <2>2. StreamWindow(c) = MinOf(MaxOf(A \div S, cost), MaxMuxStreamWindowBytes)
      BY DEF StreamWindow
    <2> HIDE DEF c, A, S, cost
    <2> QED
      BY <1>2, <2>1, <2>2, LimitsAssumption DEF MinOf, MaxOf
  <1> HIDE DEF c, A, S, cost
  <1>5. S * (A \div S) <= A /\ A \div S \in Nat
    BY <1>2, DivFits
  <1>6. S * cost <= A
    <2>1. cost * (A \div cost) <= A /\ A \div cost \in Nat
      BY <1>2, DivFits
    <2>2. CASE S <= A \div cost
      BY <1>2, <2>1, <2>2
    <2>3. CASE S = 1
      BY <1>2, <2>3
    <2> QED
      BY <1>2, <1>3, <2>1, <2>2, <2>3 DEF MaxOf
  <1>7. CASE StreamWindow(c) <= A \div S
    BY <1>2, <1>4, <1>5, <1>7, TimesMonotone, SMT
  <1>8. CASE StreamWindow(c) <= cost
    BY <1>2, <1>4, <1>6, <1>8, TimesMonotone, SMT
  <1> QED
    BY <1>2, <1>4, <1>5, <1>7, <1>8 DEF MaxOf

-----------------------------------------------------------------------------
(* The stream table.                                                       *)

\* The aggregate byte counter is a sum over the table, which BytesAccounted
\* checks; here it may be anything.
EngineType(e) ==
    e \in [streams : [Id -> muxStream], cause : [Id -> Outcome],
           physical : {"none", "orderly", "lost"}, retired : Seq(Id),
           highest : 0 .. MaxId, live : Nat, aggregate : {e.aggregate},
           restricted : BOOLEAN, policy : Policy]

Slots(e) ==
    /\ e.live = Cardinality(LiveIds(e))
    /\ e.live <= Ceilings.MaxStreams

\* Live streams lie below the high-water mark and have no outcome yet,
\* settled records have one, fresh identities have neither record nor outcome.
Settlement(e) ==
    \A id \in Id :
        /\ IsLive(e, id) => id <= e.highest /\ e.cause[id] = "none"
        /\ e.streams[id].state = "terminal" => e.cause[id] # "none"
        /\ id > e.highest => e.streams[id].state = "absent" /\ e.cause[id] = "none"

EndedTogether(e) == Closed(e) => LiveIds(e) = {}

Good(e) == EngineType(e) /\ Slots(e) /\ Settlement(e) /\ EndedTogether(e)

\* What a step never undoes.
Forward(e, f) ==
    /\ \A id \in Id : id <= e.highest /\ ~IsLive(e, id) => ~IsLive(f, id)
    /\ \A id \in Id : e.cause[id] # "none" => f.cause[id] = e.cause[id]
    /\ e.physical # "none" => f.physical = e.physical

Preserves(e, f) == Good(f) /\ Forward(e, f)

-----------------------------------------------------------------------------
(* Records and cardinalities *)

LEMMA LiveFinite ==
    ASSUME NEW e
    PROVE  IsFiniteSet(LiveIds(e)) /\ Cardinality(LiveIds(e)) \in Nat
  <1>1. IsFiniteSet(Id)
    BY FS_Interval, EngineAssumption DEF Id
  <1>2. LiveIds(e) \in SUBSET Id
    BY DEF LiveIds
  <1> QED
    BY <1>1, <1>2, FS_Subset, FS_CardinalityType

LEMMA States ==
    /\ \A x : x \in StreamState <=> x \in LiveStates \/ x = "terminal" \/ x = "absent"
    /\ LiveStates \subseteq StreamState
    /\ "terminal" \notin LiveStates /\ "absent" \notin LiveStates
    /\ "opening" \in LiveStates /\ "open" \in LiveStates /\ "closing" \in LiveStates
    /\ "opening" \in StreamState /\ "open" \in StreamState /\ "closing" \in StreamState
    /\ "terminal" \in StreamState /\ "absent" \in StreamState
  BY DEF StreamState, LiveStates

LEMMA Numbers ==
    /\ Window \in Nat /\ Window \in Int
    /\ \A c \in Chunk : ChunkLen[c] \in Nat /\ Cost(c) \in Nat
    /\ 0 \in Int /\ TRUE \in BOOLEAN /\ FALSE \in BOOLEAN
    /\ <<>> \in Seq(Chunk)
  <1>1. Window \in Nat
    BY EngineAssumption, WindowHoldsAChunk DEF Window
  <1>2. \A c \in Chunk : ChunkLen[c] \in Nat /\ Cost(c) \in Nat
    BY EngineAssumption, LimitsAssumption DEF Cost, chunkCredit
  <1> QED
    BY <1>1, <1>2

LEMMA NoStreamType == NoStream \in muxStream /\ NoStream.state = "absent"
  <1>1. AnyRef \in Ref
    BY EngineAssumption DEF AnyRef
  <1> QED
    BY <1>1, States, Numbers DEF NoStream, muxStream

\* Every field update the methods perform on a stream record keeps its type.
LEMMA Fields ==
    ASSUME NEW s \in muxStream,
           NEW st \in StreamState, NEW r \in Ref, NEW q \in Seq(Chunk),
           NEW i \in Int, NEW j \in Int, NEW a \in BOOLEAN
    PROVE  /\ [s EXCEPT !.state = st, !.queue = q, !.bytes = i, !.sendCredit = j, !.blocked = a] \in muxStream
           /\ [s EXCEPT !.state = st, !.ref = r, !.sendCredit = i] \in muxStream
           /\ [s EXCEPT !.state = st] \in muxStream
           /\ [s EXCEPT !.state = st, !.blocked = a] \in muxStream
           /\ [s EXCEPT !.refused = a] \in muxStream
           /\ [s EXCEPT !.blocked = a] \in muxStream
           /\ [s EXCEPT !.sendCredit = i] \in muxStream
           /\ [s EXCEPT !.sendCredit = i, !.blocked = a] \in muxStream
    BY DEF muxStream

LEMMA QueueFields ==
    ASSUME NEW s \in muxStream, NEW q \in Seq(Chunk), NEW i \in Int, NEW j \in Int
    PROVE  /\ [s EXCEPT !.bytes = i, !.recvUsed = j, !.queue = q] \in muxStream
           /\ [s EXCEPT !.queue = q, !.bytes = i, !.recvReturn = j] \in muxStream
           /\ [s EXCEPT !.recvReturn = i, !.recvUsed = j] \in muxStream
    BY DEF muxStream

LEMMA FieldTypes ==
    ASSUME NEW s \in muxStream
    PROVE  /\ s.state \in StreamState /\ s.queue \in Seq(Chunk) /\ s.bytes \in Int
           /\ s.recvUsed \in Int /\ s.recvReturn \in Int /\ s.sendCredit \in Int
  BY DEF muxStream

LEMMA SettledRecordType ==
    ASSUME NEW s \in muxStream
    PROVE  SettledRecord(s) \in muxStream /\ SettledRecord(s).state = "terminal"
  <1>1. PICK r : r \in Ref
    BY EngineAssumption
  <1>2. [s EXCEPT !.state = "terminal", !.queue = <<>>, !.bytes = 0, !.sendCredit = 0,
                  !.blocked = FALSE] \in muxStream
    BY <1>1, Fields, States, Numbers, Zenon
  <1>3. [s EXCEPT !.state = "terminal", !.queue = <<>>, !.bytes = 0, !.sendCredit = 0,
                  !.blocked = FALSE].state = "terminal"
    BY DEF muxStream
  <1> QED
    BY <1>2, <1>3 DEF SettledRecord

-----------------------------------------------------------------------------
(* The two ways a method changes the table: a record is replaced, or      *)
(* records are retired.                                                    *)

\* Replacing a record by one that is live exactly when the old one was
\* changes nothing the invariant counts.
LEMMA PutPreserves ==
    ASSUME NEW e, Good(e), NEW id \in Id, NEW s \in muxStream,
           s.state = e.streams[id].state \/ (IsLive(e, id) /\ s.state \in LiveStates)
    PROVE  Preserves(e, Put(e, id, s))
  <1> DEFINE f == Put(e, id, s)
  <1>1. /\ f.streams = [e.streams EXCEPT ![id] = s]
        /\ f.cause = e.cause /\ f.physical = e.physical /\ f.highest = e.highest
        /\ f.live = e.live
    BY DEF Put, Good, EngineType
  <1>2. EngineType(f)
    BY DEF Put, Good, EngineType
  <1> HIDE DEF f
  <1>3. \A x \in Id : f.streams[x] = IF x = id THEN s ELSE e.streams[x]
    BY <1>1 DEF Good, EngineType
  <1>4. \A x \in Id : IsLive(f, x) <=> IsLive(e, x)
    BY <1>3 DEF IsLive
  <1>5. LiveIds(f) = LiveIds(e)
    BY <1>4 DEF LiveIds
  <1>6. Settlement(f)
    BY <1>1, <1>3, <1>4, States DEF Good, Settlement, IsLive
  <1>7. Slots(f) /\ EndedTogether(f)
    BY <1>1, <1>5 DEF Good, Slots, EndedTogether, Closed
  <1>8. Forward(e, f)
    BY <1>1, <1>4 DEF Forward
  <1> QED
    BY <1>2, <1>6, <1>7, <1>8 DEF f, Preserves, Good

LEMMA ChargePreserves ==
    ASSUME NEW e, Good(e), NEW n
    PROVE  /\ Preserves(e, Charge(e, n))
           /\ Charge(e, n).streams = e.streams /\ Charge(e, n).highest = e.highest
  <1> DEFINE f == Charge(e, n)
  <1>1. /\ f.streams = e.streams /\ f.cause = e.cause /\ f.physical = e.physical
        /\ f.highest = e.highest /\ f.live = e.live
    BY DEF Charge, Good, EngineType
  <1>2. EngineType(f)
    BY DEF Charge, Good, EngineType
  <1> HIDE DEF f
  <1> QED
    BY <1>1, <1>2 DEF f, Preserves, Good, Slots, Settlement, EndedTogether, Forward, Closed, LiveIds, IsLive

\* f is e with the streams ids retired with outcome.
Retired(e, f, ids, outcome) ==
    /\ f.physical = e.physical /\ f.highest = e.highest
    /\ f.live = e.live - Cardinality(ids)
    /\ f.live \in Nat => EngineType(f)
    /\ \A id \in Id : f.streams[id].state \in
          IF id \in ids \/ e.streams[id].state = "terminal"
          THEN {"terminal", "absent"} ELSE {e.streams[id].state}
    /\ \A id \in Id : f.cause[id] = IF id \in ids THEN Publish(e.cause[id], outcome)
                                    ELSE e.cause[id]

\* What retireLocked does: the named streams, and only those, stop being
\* live and publish an outcome; the records dropped were settled ones.
LEMMA RetireFacts ==
    ASSUME NEW e, EngineType(e),
           NEW order \in Seq(Id),
           NEW outcome \in Outcome
    PROVE  Retired(e, Retire(e, order, outcome), ToSet(order), outcome)
  <1> DEFINE ids == ToSet(order)
             f == Retire(e, order, outcome)
             listed == e.retired \o order
             excess == MaxOf(Len(listed) - MaxRetiredStreamRecords, 0)
             evicted == {listed[i] : i \in 1 .. excess}
             settled == [id \in Id |->
                          IF id \in ids THEN SettledRecord(e.streams[id]) ELSE e.streams[id]]
             streams == [id \in Id |-> IF id \in evicted /\ settled[id].state = "terminal"
                                       THEN NoStream ELSE settled[id]]
             cause == [id \in Id |-> IF id \in ids THEN Publish(e.cause[id], outcome)
                                     ELSE e.cause[id]]
             retired == SubSeq(listed, excess + 1, Len(listed))
             live == e.live - Cardinality(ids)
             aggregate == e.aggregate - SumOver([id \in Id |-> e.streams[id].bytes], ids)
  <1>1. f = [e EXCEPT !.streams = streams, !.cause = cause, !.live = live,
                      !.aggregate = aggregate, !.retired = retired]
    BY DEF Retire
  <1>2. \A id \in Id : settled[id] \in muxStream
    BY SettledRecordType DEF EngineType
  <1>3. \A id \in Id : settled[id].state = IF id \in ids THEN "terminal" ELSE e.streams[id].state
    BY SettledRecordType DEF EngineType
  <1>4. retired \in Seq(Id)
    <2>1. listed \in Seq(Id) /\ Len(listed) \in Nat
      BY ConcatProperties DEF EngineType
    <2>2. excess \in Nat
      BY <2>1, EngineAssumption DEF MaxOf
    <2> HIDE DEF listed, excess
    <2>3. \A i \in excess + 1 .. Len(listed) : listed[i] \in Id
      BY <2>1, <2>2
    <2> QED
      BY <2>1, <2>2, <2>3, SubSeqProperties
  <1>5. cause \in [Id -> Outcome]
    BY DEF EngineType, Publish
  <1> HIDE DEF settled, evicted
  <1>6. streams \in [Id -> muxStream]
    BY <1>2, NoStreamType
  <1>7. \A id \in Id : streams[id].state \in
                 IF id \in ids \/ e.streams[id].state = "terminal"
                 THEN {"terminal", "absent"} ELSE {e.streams[id].state}
    BY <1>3, NoStreamType
  <1>8. \A id \in Id : cause[id] = IF id \in ids THEN Publish(e.cause[id], outcome)
                                   ELSE e.cause[id]
    OBVIOUS
  <1> HIDE DEF streams, cause, retired, live, aggregate, f, ids
  <1>9. /\ f.physical = e.physical /\ f.highest = e.highest /\ f.live = live
        /\ f.streams = streams /\ f.cause = cause
    BY <1>1 DEF EngineType
  <1>10. live \in Nat => EngineType(f)
    BY <1>1, <1>4, <1>5, <1>6 DEF EngineType
  <1> QED
    BY <1>7, <1>8, <1>9, <1>10 DEF live, f, ids, Retired

\* Retiring live streams keeps the table well-formed; when the connection is
\* already terminal every live stream must be among them.
LEMMA RetirePreserves ==
    ASSUME NEW e, EngineType(e), Slots(e), Settlement(e),
           NEW order \in Seq(Id),
           NEW outcome \in Outcome \ {"none"},
           ToSet(order) \subseteq LiveIds(e),
           Closed(e) => ToSet(order) = LiveIds(e)
    PROVE  Preserves(e, Retire(e, order, outcome))
  <1> DEFINE f == Retire(e, order, outcome)
             ids == ToSet(order)
  <1>0. outcome \in Outcome /\ outcome # "none"
    OBVIOUS
  <1>16. Retired(e, f, ids, outcome)
    BY <1>0, RetireFacts
  <1>17. ids \subseteq LiveIds(e) /\ (Closed(e) => ids = LiveIds(e))
    OBVIOUS
  <1> HIDE DEF f, ids
  <1>1. /\ f.physical = e.physical /\ f.highest = e.highest
        /\ f.live = e.live - Cardinality(ids)
        /\ f.live \in Nat => EngineType(f)
    BY <1>16 DEF Retired
  <1>2. \A id \in Id : f.streams[id].state \in
                 IF id \in ids \/ e.streams[id].state = "terminal"
                 THEN {"terminal", "absent"} ELSE {e.streams[id].state}
    BY <1>16 DEF Retired
  <1>3. \A id \in Id : f.cause[id] = IF id \in ids THEN Publish(e.cause[id], outcome)
                                     ELSE e.cause[id]
    BY <1>16 DEF Retired
  <1>4. \A id \in Id : IsLive(f, id) <=> IsLive(e, id) /\ id \notin ids
    BY <1>2, States DEF IsLive
  <1>5. LiveIds(f) = LiveIds(e) \ ids
    BY <1>4 DEF LiveIds
  <1>6. Cardinality(LiveIds(f)) = Cardinality(LiveIds(e)) - Cardinality(ids)
    <2>1. LiveIds(e) \cap ids = ids
      BY <1>17
    <2> QED
      BY <1>5, <2>1, LiveFinite, FS_Difference
  <1>7. Cardinality(ids) \in Nat
    BY <1>17, LiveFinite, FS_Subset, FS_CardinalityType
  <1>8. f.live = Cardinality(LiveIds(f)) /\ f.live \in Nat /\ f.live <= e.live
    BY <1>1, <1>6, <1>7, LiveFinite DEF Slots
  <1>9. Slots(f)
    <2>1. Ceilings.MaxStreams \in Nat
      BY EngineAssumption, LimitsAssumption DEF MuxCeilings
    <2> QED
      BY <1>8, <2>1 DEF Slots, EngineType
  <1>10. Settlement(f)
    <2>1. ASSUME NEW id \in Id
          PROVE  /\ IsLive(f, id) => id <= f.highest /\ f.cause[id] = "none"
                 /\ f.streams[id].state = "terminal" => f.cause[id] # "none"
                 /\ id > f.highest => f.streams[id].state = "absent" /\ f.cause[id] = "none"
      <3>1. id \in ids => IsLive(e, id)
        BY <1>17 DEF LiveIds
      <3>2. id \in ids => f.cause[id] = outcome
        BY <1>0, <3>1, <1>3 DEF Settlement, Publish
      <3>3. ~(id > e.highest /\ IsLive(e, id))
        BY States DEF Settlement, IsLive
      <3>4. IsLive(f, id) => id <= f.highest /\ f.cause[id] = "none"
        BY <1>1, <1>3, <1>4 DEF Settlement
      <3>5. f.streams[id].state = "terminal" => f.cause[id] # "none"
        <4>1. CASE id \in ids
          BY <4>1, <3>2, <1>0
        <4>2. CASE id \notin ids
          BY <4>2, <1>2, <1>3 DEF Settlement
        <4> QED
          BY <4>1, <4>2
      <3>6. id > f.highest => f.streams[id].state = "absent" /\ f.cause[id] = "none"
        BY <1>1, <1>2, <1>3, <3>1, <3>3 DEF Settlement
      <3> QED
        BY <3>4, <3>5, <3>6
    <2> QED
      BY <2>1 DEF Settlement
  <1>11. EndedTogether(f)
    BY <1>1, <1>5, <1>17 DEF EndedTogether, Closed
  <1>12. Forward(e, f)
    BY <1>1, <1>3, <1>4 DEF Forward, Publish
  <1> QED
    BY <1>1, <1>8, <1>9, <1>10, <1>11, <1>12 DEF f, Preserves, Good

LEMMA RetireOne ==
    ASSUME NEW e, Good(e), NEW id \in Id, IsLive(e, id), NEW outcome \in Outcome \ {"none"}
    PROVE  Preserves(e, Retire(e, <<id>>, outcome))
  <1>1. <<id>> \in Seq(Id) /\ ToSet(<<id>>) = {id}
    BY DEF ToSet
  <1>2. {id} \subseteq LiveIds(e) /\ ~Closed(e)
    BY DEF Good, EndedTogether, LiveIds
  <1> QED
    BY <1>1, <1>2, RetirePreserves DEF Good

LEMMA PreservesTransitive ==
    ASSUME NEW e, NEW f, NEW g, Good(e), Preserves(e, f), Preserves(f, g), e.highest <= f.highest
    PROVE  Preserves(e, g)
  BY EngineAssumption DEF Preserves, Good, Forward, EngineType, Id

-----------------------------------------------------------------------------
(* The engine's methods *)

\* A change of the stream record is all a method did.
LEMMA PutLive ==
    ASSUME NEW e, Good(e), NEW id \in Id
    PROVE  /\ e.streams[id] \in muxStream
           /\ \A s \in muxStream : s.state = e.streams[id].state => Preserves(e, Put(e, id, s))
           /\ \A s \in muxStream : IsLive(e, id) /\ s.state \in LiveStates => Preserves(e, Put(e, id, s))
  BY PutPreserves DEF Good, EngineType

LEMMA StreamTyped ==
    ASSUME NEW e, Good(e), NEW id \in Id
    PROVE  /\ e.streams[id] \in muxStream
           /\ e.streams[id].queue \in Seq(Chunk) /\ e.streams[id].bytes \in Int
           /\ e.streams[id].recvUsed \in Int /\ e.streams[id].recvReturn \in Int
           /\ e.streams[id].sendCredit \in Int
  BY PutLive, FieldTypes

LEMMA Unchanged ==
    ASSUME NEW e, Good(e)
    PROVE  Preserves(e, e)
  BY DEF Preserves, Forward

LEMMA LookupLive ==
    ASSUME NEW e, Good(e), NEW id \in Id, Lookup(e, id) \notin {"future", "terminal"}
    PROVE  IsLive(e, id) /\ Lookup(e, id) = e.streams[id].state
  BY FieldTypes, States DEF Lookup, Tracked, IsLive, Good, EngineType

LEMMA RestrictPreserves ==
    ASSUME NEW e, Good(e), NEW p \in Policy
    PROVE  Preserves(e, EngRestrict(e, p).eng)
  <1> DEFINE f == [e EXCEPT !.restricted = TRUE, !.policy = p]
  <1>1. /\ f.streams = e.streams /\ f.cause = e.cause /\ f.physical = e.physical
        /\ f.highest = e.highest /\ f.live = e.live
    BY DEF Good, EngineType
  <1>2. EngineType(f)
    BY DEF Good, EngineType
  <1> HIDE DEF f
  <1>3. Preserves(e, f)
    BY <1>1, <1>2 DEF Preserves, Good, Slots, Settlement, EndedTogether, Forward, Closed, LiveIds, IsLive
  <1> QED
    BY <1>3, Unchanged DEF EngRestrict, Result, f

LEMMA OpenPreserves ==
    ASSUME NEW e, Good(e), NEW id \in Id, NEW r \in Ref, NEW p \in Policy
    PROVE  Preserves(e, EngOpen(e, id, r, p).eng)
  <1>1. CASE EngOpenError(e, id, p) # "ok"
    BY <1>1, Unchanged DEF EngOpen, Result
  <1>2. CASE EngOpenError(e, id, p) = "ok"
    <2> DEFINE s == [NoStream EXCEPT !.state = "opening", !.ref = r, !.sendCredit = Window]
               f == Put([e EXCEPT !.highest = id, !.live = @ + 1], id, s)
    <2>1. ~Closed(e) /\ id > e.highest /\ e.live < Ceilings.MaxStreams
      <3>1. Ceilings.MaxStreams \in Nat
        BY EngineAssumption, LimitsAssumption DEF MuxCeilings
      <3> QED
        BY <1>2, <3>1, EngineAssumption DEF EngOpenError, Good, EngineType, Id
    <2>2. s \in muxStream
      BY NoStreamType, Fields, States, Numbers, Zenon
    <2>3. s.state = "opening"
      BY NoStreamType DEF muxStream
    <2> HIDE DEF s
    <2>4. /\ f.streams = [e.streams EXCEPT ![id] = s] /\ f.cause = e.cause
          /\ f.physical = e.physical /\ f.highest = id /\ f.live = e.live + 1
      BY DEF Put, Good, EngineType
    <2>5. EngineType(f)
      <3> DEFINE g == [e EXCEPT !.highest = id, !.live = @ + 1]
      <3>1. id \in 0 .. MaxId
        BY EngineAssumption DEF Id
      <3>2. EngineType(g)
        <4> DEFINE n == e.live + 1
        <4>1. n \in Nat
          BY DEF Good, EngineType
        <4>2. g = [e EXCEPT !.highest = id, !.live = n]
          BY DEF Good, EngineType
        <4> HIDE DEF n, g
        <4>3. g.aggregate = e.aggregate
          BY <4>2 DEF Good, EngineType
        <4> QED
          BY <4>1, <4>2, <4>3, <3>1 DEF Good, EngineType
      <3> HIDE DEF g
      <3>3. EngineType(Put(g, id, s))
        BY <2>2, <3>2 DEF Put, EngineType
      <3> QED
        BY <3>3 DEF g
    <2> HIDE DEF f
    <2>6. \A x \in Id : f.streams[x] = IF x = id THEN s ELSE e.streams[x]
      BY <2>4 DEF Good, EngineType
    <2>7. \A x \in Id : IsLive(f, x) <=> IsLive(e, x) \/ x = id
      BY <2>3, <2>6, States DEF IsLive
    <2>8. LiveIds(f) = LiveIds(e) \cup {id}
      BY <2>7 DEF LiveIds
    <2>9. e.streams[id].state = "absent" /\ e.cause[id] = "none"
      BY <2>1 DEF Good, Settlement
    <2>10. id \notin LiveIds(e)
      BY <2>9, States DEF LiveIds, IsLive
    <2>11. Cardinality(LiveIds(f)) = Cardinality(LiveIds(e)) + 1
      BY <2>8, <2>10, LiveFinite, FS_AddElement
    <2>12. Slots(f)
      <3>1. Ceilings.MaxStreams \in Nat
        BY EngineAssumption, LimitsAssumption DEF MuxCeilings
      <3> QED
        BY <2>1, <2>4, <2>11, <3>1 DEF Good, Slots, EngineType
    <2>13. Settlement(f)
      <3>1. ASSUME NEW x \in Id
            PROVE  /\ IsLive(f, x) => x <= f.highest /\ f.cause[x] = "none"
                   /\ f.streams[x].state = "terminal" => f.cause[x] # "none"
                   /\ x > f.highest => f.streams[x].state = "absent" /\ f.cause[x] = "none"
        <4>1. CASE x = id
          BY <4>1, <2>3, <2>4, <2>6, <2>9, EngineAssumption DEF Id
        <4>2. CASE x # id
          <5>1. f.streams[x] = e.streams[x] /\ (IsLive(f, x) <=> IsLive(e, x))
            BY <4>2, <2>6, <2>7
          <5>2. x > id => x > e.highest
            BY <2>1, EngineAssumption DEF Id, Good, EngineType
          <5>3. x <= e.highest => x <= id
            BY <2>1, EngineAssumption DEF Id, Good, EngineType
          <5> QED
            BY <5>1, <5>2, <5>3, <2>4 DEF Good, Settlement
        <4> QED
          BY <4>1, <4>2
      <3> QED
        BY <3>1 DEF Settlement
    <2>14. EndedTogether(f)
      BY <2>1, <2>4 DEF EndedTogether, Closed
    <2>15. Forward(e, f)
      <3>1. ~(id <= e.highest)
        BY <2>1, EngineAssumption DEF Id, Good, EngineType
      <3> QED
        BY <3>1, <2>4, <2>7 DEF Forward
    <2>16. Preserves(e, f)
      BY <2>5, <2>12, <2>13, <2>14, <2>15 DEF Preserves, Good
    <2> QED
      BY <1>2, <2>16 DEF EngOpen, Result, f, s
  <1> QED
    BY <1>1, <1>2

LEMMA OpenedPreserves ==
    ASSUME NEW e, Good(e), NEW id \in Id, NEW r \in Ref
    PROVE  Preserves(e, EngOpened(e, id, r).eng)
  <1>1. CASE EngConfirmError(e, id, r) # "ok"
    BY <1>1, Unchanged DEF EngOpened, Result
  <1>2. CASE EngConfirmError(e, id, r) = "ok"
    <2>1. Lookup(e, id) = "opening"
      BY <1>2 DEF EngConfirmError
    <2>2. IsLive(e, id)
      BY <2>1, LookupLive
    <2> DEFINE s == [e.streams[id] EXCEPT !.state = "open"]
    <2>3. s \in muxStream /\ s.state \in LiveStates
      BY PutLive, States DEF muxStream
    <2> HIDE DEF s
    <2>4. Preserves(e, Put(e, id, s))
      BY <2>2, <2>3, PutLive
    <2> QED
      BY <1>2, <2>4 DEF EngOpened, Result, s
  <1> QED
    BY <1>1, <1>2

LEMMA RefusedPreserves ==
    ASSUME NEW e, Good(e), NEW id \in Id, NEW r \in Ref
    PROVE  Preserves(e, EngRefused(e, id, r).eng)
  <1>1. CASE EngConfirmError(e, id, r) # "ok"
    BY <1>1, Unchanged DEF EngRefused, Result
  <1>2. CASE EngConfirmError(e, id, r) = "ok"
    <2>1. Lookup(e, id) = "opening"
      BY <1>2 DEF EngConfirmError
    <2>2. IsLive(e, id)
      BY <2>1, LookupLive
    <2> DEFINE s == [e.streams[id] EXCEPT !.refused = TRUE]
               f == Put(e, id, s)
    <2>3. s \in muxStream /\ s.state = e.streams[id].state
      BY PutLive DEF muxStream
    <2> HIDE DEF s
    <2>4. Preserves(e, f)
      BY <2>3, PutLive
    <2>5. IsLive(f, id) /\ e.highest <= f.highest
      BY <2>2, <2>3, EngineAssumption DEF Put, IsLive, Good, EngineType
    <2> HIDE DEF f
    <2>6. Good(f) /\ "orderly" \in Outcome \ {"none"}
      BY <2>4 DEF Preserves, Outcome
    <2>7. Preserves(f, Retire(f, <<id>>, "orderly"))
      BY <2>5, <2>6, RetireOne
    <2>8. Preserves(e, Retire(f, <<id>>, "orderly"))
      BY <2>4, <2>5, <2>7, PreservesTransitive
    <2> QED
      BY <1>2, <2>8 DEF EngRefused, Result, f, s
  <1> QED
    BY <1>1, <1>2

LEMMA DataPreserves ==
    ASSUME NEW e, Good(e), NEW id \in Id, NEW c \in Chunk
    PROVE  Preserves(e, EngData(e, id, c).eng)
  <1>1. CASE EngData(e, id, c).eng = e
    BY <1>1, Unchanged
  <1>2. CASE Lookup(e, id) \notin {"future", "terminal"}
    <2>1. IsLive(e, id)
      BY <1>2, LookupLive
    <2>2. Preserves(e, Retire(e, <<id>>, "queueFull"))
      BY <2>1, RetireOne DEF Outcome
    <2>3. Preserves(e, Enqueue(e, id, c))
      <3> DEFINE f == Charge(e, ChunkLen[c])
                 s == [e.streams[id] EXCEPT !.bytes = @ + ChunkLen[c], !.recvUsed = @ + Cost(c),
                                            !.queue = Append(@, c)]
      <3>1. Preserves(e, f) /\ f.streams = e.streams /\ f.highest = e.highest
        BY ChargePreserves
      <3>2. Good(f) /\ e.highest <= f.highest
        BY <3>1, EngineAssumption DEF Preserves, Good, EngineType
      <3>3. s \in muxStream
        <4>1. /\ e.streams[id].bytes + ChunkLen[c] \in Int
              /\ e.streams[id].recvUsed + Cost(c) \in Int
          BY StreamTyped, Numbers
        <4>2. Append(e.streams[id].queue, c) \in Seq(Chunk)
          BY StreamTyped
        <4> QED
          BY <4>1, <4>2, StreamTyped, QueueFields, Zenon
      <3>4. s.state = e.streams[id].state
        BY PutLive DEF muxStream
      <3> HIDE DEF f, s
      <3>5. Preserves(f, Put(f, id, s))
        BY <3>1, <3>2, <3>3, <3>4, PutLive
      <3>6. Preserves(e, Put(f, id, s))
        BY <3>1, <3>2, <3>5, PreservesTransitive
      <3> QED
        BY <3>6 DEF Enqueue, f, s
    <2> QED
      BY <2>2, <2>3, Unchanged DEF EngData, Result
  <1>3. CASE Lookup(e, id) \in {"future", "terminal"}
    BY <1>1, <1>3 DEF EngData, Result
  <1> QED
    BY <1>2, <1>3

LEMMA WindowUpdatePreserves ==
    ASSUME NEW e, Good(e), NEW id \in Id, NEW credit \in Nat
    PROVE  Preserves(e, EngWindowUpdate(e, id, credit).eng)
  <1> DEFINE s == [e.streams[id] EXCEPT !.sendCredit = @ + credit, !.blocked = FALSE]
  <1>1. s \in muxStream /\ s.state = e.streams[id].state
    <2>1. e.streams[id].sendCredit + credit \in Int
      BY StreamTyped
    <2> QED
      BY <2>1, StreamTyped DEF muxStream
  <1> HIDE DEF s
  <1>2. Preserves(e, Put(e, id, s))
    BY <1>1, PutLive
  <1> QED
    BY <1>2, Unchanged DEF EngWindowUpdate, Result, s

LEMMA ReserveSendPreserves ==
    ASSUME NEW e, Good(e), NEW id \in Id, NEW c \in Chunk
    PROVE  Preserves(e, EngReserveSend(e, id, c).eng)
  <1> DEFINE s == [e.streams[id] EXCEPT !.blocked = TRUE]
             t == [e.streams[id] EXCEPT !.sendCredit = @ - Cost(c)]
  <1>1. s \in muxStream /\ s.state = e.streams[id].state
    BY PutLive DEF muxStream
  <1>2. t \in muxStream /\ t.state = e.streams[id].state
    <2>1. e.streams[id].sendCredit - Cost(c) \in Int
      BY StreamTyped, Numbers
    <2> QED
      BY <2>1, StreamTyped DEF muxStream
  <1> HIDE DEF s, t
  <1>3. Preserves(e, Put(e, id, s)) /\ Preserves(e, Put(e, id, t))
    BY <1>1, <1>2, PutLive
  <1> QED
    BY <1>3, Unchanged DEF EngReserveSend, Result, s, t

LEMMA RefundSendPreserves ==
    ASSUME NEW e, Good(e), NEW id \in Id, NEW c \in Chunk
    PROVE  Preserves(e, EngRefundSend(e, id, c))
  <1> DEFINE s == [e.streams[id] EXCEPT !.sendCredit = MinOf(@ + Cost(c), Window),
                                        !.blocked = FALSE]
  <1>1. s \in muxStream /\ s.state = e.streams[id].state
    <2>1. MinOf(e.streams[id].sendCredit + Cost(c), Window) \in Int
      BY StreamTyped, Numbers DEF MinOf
    <2> QED
      BY <2>1, StreamTyped DEF muxStream
  <1> HIDE DEF s
  <1>2. Preserves(e, Put(e, id, s))
    BY <1>1, PutLive
  <1> QED
    BY <1>2, Unchanged DEF EngRefundSend, s

LEMMA TakeReturnPreserves ==
    ASSUME NEW e, Good(e), NEW id \in Id
    PROVE  Preserves(e, EngTakeReturn(e, id).eng)
  <1> DEFINE s == [e.streams[id] EXCEPT !.recvReturn = 0,
                                        !.recvUsed = @ - e.streams[id].recvReturn]
  <1>1. s \in muxStream /\ s.state = e.streams[id].state
    <2> DEFINE n == e.streams[id].recvUsed - e.streams[id].recvReturn
    <2>1. n \in Int /\ s = [e.streams[id] EXCEPT !.recvReturn = 0, !.recvUsed = n]
      BY StreamTyped DEF muxStream
    <2> HIDE DEF n, s
    <2>2. s \in muxStream
      BY <2>1, StreamTyped, Numbers, QueueFields, Zenon
    <2>3. s.state = e.streams[id].state
      BY <2>1, StreamTyped DEF muxStream
    <2> QED
      BY <2>2, <2>3
  <1> HIDE DEF s
  <1>2. Preserves(e, Put(e, id, s))
    BY <1>1, PutLive
  <1> QED
    BY <1>2, Unchanged DEF EngTakeReturn, Result, s

LEMMA ClosePreserves ==
    ASSUME NEW e, Good(e), NEW id \in Id
    PROVE  Preserves(e, EngClose(e, id).eng)
  <1>1. CASE Lookup(e, id) \in {"future", "terminal"}
    BY <1>1, Unchanged DEF EngClose, Result
  <1>2. CASE Lookup(e, id) \notin {"future", "terminal"}
    <2>1. IsLive(e, id)
      BY <1>2, LookupLive
    <2>2. Preserves(e, Retire(e, <<id>>, "orderly"))
      BY <2>1, RetireOne DEF Outcome
    <2> DEFINE s == [e.streams[id] EXCEPT !.state = "closing", !.blocked = FALSE]
    <2>3. s \in muxStream /\ s.state \in LiveStates
      BY StreamTyped, States DEF muxStream
    <2> HIDE DEF s
    <2>4. Preserves(e, Put(e, id, s))
      BY <2>1, <2>3, PutLive
    <2> QED
      BY <1>2, <2>2, <2>4, Unchanged DEF EngClose, Result, s
  <1> QED
    BY <1>1, <1>2

LEMMA ResetPreserves ==
    ASSUME NEW e, Good(e), NEW id \in Id
    PROVE  Preserves(e, EngReset(e, id).eng)
  <1>1. CASE Lookup(e, id) \in {"future", "terminal"}
    BY <1>1, Unchanged DEF EngReset, Result
  <1>2. CASE Lookup(e, id) \notin {"future", "terminal"}
    <2>1. IsLive(e, id)
      BY <1>2, LookupLive
    <2>2. Preserves(e, Retire(e, <<id>>, "reset"))
      BY <2>1, RetireOne DEF Outcome
    <2> QED
      BY <1>2, <2>2 DEF EngReset, Result
  <1> QED
    BY <1>1, <1>2

LEMMA TakePreserves ==
    ASSUME NEW e, Good(e), NEW id \in Id
    PROVE  Preserves(e, EngTake(e, id).eng)
  <1>1. CASE e.streams[id].queue = <<>>
    BY <1>1, Unchanged DEF EngTake, Result
  <1>2. CASE e.streams[id].queue # <<>>
    <2> DEFINE q == e.streams[id].queue
               c == Head(q)
               s == [e.streams[id] EXCEPT !.queue = Tail(@), !.bytes = @ - ChunkLen[c],
                                          !.recvReturn = @ + Cost(c)]
               f == Popped(e, id)
               g == Charge(f, -ChunkLen[c])
    <2>1. c \in Chunk /\ Tail(q) \in Seq(Chunk)
      BY <1>2, StreamTyped
    <2>2. s \in muxStream
      <3> HIDE DEF c
      <3>1. e.streams[id].bytes - ChunkLen[c] \in Int /\ e.streams[id].recvReturn + Cost(c) \in Int
        BY <2>1, StreamTyped, Numbers
      <3> QED
        BY <2>1, <3>1, StreamTyped, QueueFields, Zenon
    <2>3. s.state = e.streams[id].state
      BY StreamTyped DEF muxStream
    <2>4. f = Put(e, id, s)
      BY DEF Popped
    <2> HIDE DEF s
    <2>5. Preserves(e, f) /\ f.streams[id] = s /\ f.highest = e.highest
      <3> HIDE DEF f
      <3>1. Preserves(e, Put(e, id, s))
        BY <2>2, <2>3, PutLive
      <3>2. Put(e, id, s).streams[id] = s /\ Put(e, id, s).highest = e.highest
        BY DEF Put, Good, EngineType
      <3> QED
        BY <2>4, <3>1, <3>2
    <2> HIDE DEF f
    <2>6. Good(f)
      BY <2>5 DEF Preserves
    <2>7. /\ Preserves(f, g) /\ Good(g) /\ g.streams[id] = s
          /\ g.highest = e.highest /\ e.highest <= e.highest
      <3>1. Preserves(f, g) /\ g.streams = f.streams /\ g.highest = f.highest
        BY <2>6, ChargePreserves
      <3>2. e.highest <= e.highest
        BY EngineAssumption DEF Good, EngineType
      <3> QED
        BY <2>5, <3>1, <3>2 DEF Preserves
    <2> HIDE DEF g
    <2>8. Preserves(e, g)
      BY <2>5, <2>7, PreservesTransitive
    <2>9. CASE e.streams[id].state = "closing"
      <3>1. IsLive(g, id)
        BY <2>3, <2>7, <2>9, States DEF IsLive
      <3>2. Preserves(g, Retire(g, <<id>>, "orderly"))
        BY <2>7, <3>1, RetireOne DEF Outcome
      <3>3. Preserves(e, Retire(g, <<id>>, "orderly"))
        BY <2>7, <2>8, <3>2, PreservesTransitive
      <3> QED
        BY <1>2, <2>8, <3>3 DEF EngTake, Result, f, g
    <2>10. CASE e.streams[id].state # "closing"
      BY <1>2, <2>8, <2>10 DEF EngTake, Result, f, g
    <2> QED
      BY <2>9, <2>10
  <1> QED
    BY <1>1, <1>2

LEMMA TerminalizePreserves ==
    ASSUME NEW e, Good(e), NEW outcome \in {"orderly", "lost"},
           NEW order \in Orders(LiveIds(e))
    PROVE  Preserves(e, EngTerminalize(e, order, outcome))
  <1>0. order \in Seq(Id) /\ ToSet(order) = LiveIds(e)
    <2>1. order \in [1 .. Cardinality(LiveIds(e)) -> LiveIds(e)] /\ ToSet(order) = LiveIds(e)
      BY DEF Orders
    <2>2. LiveIds(e) \subseteq Id
      BY DEF LiveIds
    <2>3. order \in [1 .. Cardinality(LiveIds(e)) -> Id]
      BY <2>1, <2>2
    <2> QED
      BY <2>1, <2>3, LiveFinite
  <1> DEFINE f == [e EXCEPT !.physical = Publish(@, outcome)]
  <1>1. /\ f.streams = e.streams /\ f.cause = e.cause /\ f.highest = e.highest
        /\ f.live = e.live
        /\ f.physical = Publish(e.physical, outcome)
    BY DEF Good, EngineType
  <1>2. EngineType(f)
    BY DEF Good, EngineType, Publish
  <1> HIDE DEF f
  <1>3. LiveIds(f) = LiveIds(e) /\ Slots(f) /\ Settlement(f)
    BY <1>1 DEF Good, Slots, Settlement, LiveIds, IsLive
  <1>4. outcome \in Outcome \ {"none"}
    BY DEF Outcome
  <1>5. Preserves(f, Retire(f, order, outcome))
    BY <1>0, <1>2, <1>3, <1>4, RetirePreserves
  <1>6. Preserves(e, Retire(f, order, outcome))
    BY <1>1, <1>5 DEF Preserves, Forward, Publish, IsLive
  <1> QED
    BY <1>6 DEF EngTerminalize, f

-----------------------------------------------------------------------------
(* The specification *)

LEMMA InitGood == Init => Good(eng)
  <1> SUFFICES ASSUME Init PROVE Good(eng)
    OBVIOUS
  <1>1. eng = newStreamEngine
    BY DEF Init
  <1>2. AnyPolicy \in Policy /\ 0 \in 0 .. MaxId /\ <<>> \in Seq(Id) /\ Ceilings.MaxStreams \in Nat
    BY EngineAssumption, LimitsAssumption DEF AnyPolicy, MuxCeilings
  <1>3. EngineType(eng)
    BY <1>1, <1>2, NoStreamType DEF newStreamEngine, EngineType, Outcome
  <1>4. \A id \in Id : eng.streams[id] = NoStream /\ eng.cause[id] = "none"
    BY <1>1 DEF newStreamEngine
  <1>5. \A id \in Id : ~IsLive(eng, id)
    BY <1>4, NoStreamType, States DEF IsLive
  <1>6. LiveIds(eng) = {} /\ eng.live = 0
    BY <1>1, <1>5 DEF LiveIds, newStreamEngine
  <1>7. Slots(eng) /\ EndedTogether(eng)
    BY <1>2, <1>6, FS_EmptySet DEF Slots, EndedTogether
  <1>8. Settlement(eng)
    BY <1>4, <1>5, NoStreamType DEF Settlement
  <1> QED
    BY <1>3, <1>7, <1>8 DEF Good

\* One step of the engine, whichever method it is, keeps the table
\* well-formed and moves it forward.
LEMMA StepPreserves ==
    ASSUME Good(eng), [Next]_vars
    PROVE  Preserves(eng, eng')
  <1>1. CASE UNCHANGED vars
    BY <1>1, Unchanged DEF vars
  <1>2. ASSUME NEW p \in Policy, RestrictAdmissions(p) PROVE Preserves(eng, eng')
    BY <1>2, RestrictPreserves DEF RestrictAdmissions
  <1>3. ASSUME NEW outcome \in {"orderly", "lost"}, Terminalize(outcome) PROVE Preserves(eng, eng')
    BY <1>3, TerminalizePreserves DEF Terminalize
  <1>4. ASSUME NEW id \in Id, NEW r \in Ref, NEW p \in Policy, Open(id, r, p) PROVE Preserves(eng, eng')
    BY <1>4, OpenPreserves DEF Open
  <1>5. ASSUME NEW id \in Id, NEW r \in Ref, Opened(id, r) PROVE Preserves(eng, eng')
    BY <1>5, OpenedPreserves DEF Opened
  <1>6. ASSUME NEW id \in Id, NEW r \in Ref, Refused(id, r) PROVE Preserves(eng, eng')
    BY <1>6, RefusedPreserves DEF Refused
  <1>7. ASSUME NEW id \in Id, NEW c \in Chunk, Data(id, c) PROVE Preserves(eng, eng')
    BY <1>7, DataPreserves DEF Data
  <1>8. ASSUME NEW id \in Id, NEW c \in Chunk, ReserveSend(id, c) PROVE Preserves(eng, eng')
    BY <1>8, ReserveSendPreserves DEF ReserveSend
  <1>9. ASSUME NEW id \in Id, NEW c \in Chunk, RefundSend(id, c) PROVE Preserves(eng, eng')
    BY <1>9, RefundSendPreserves DEF RefundSend
  <1>10. ASSUME NEW id \in Id, NEW credit \in 1 .. Window, WindowUpdate(id, credit) PROVE Preserves(eng, eng')
    <2>1. credit \in Nat
      BY Numbers
    <2> QED
      BY <1>10, <2>1, WindowUpdatePreserves DEF WindowUpdate
  <1>11. ASSUME NEW id \in Id, TakeReturn(id) PROVE Preserves(eng, eng')
    BY <1>11, TakeReturnPreserves DEF TakeReturn
  <1>12. ASSUME NEW id \in Id, Close(id) PROVE Preserves(eng, eng')
    BY <1>12, ClosePreserves DEF Close
  <1>13. ASSUME NEW id \in Id, Reset(id) PROVE Preserves(eng, eng')
    BY <1>13, ResetPreserves DEF Reset
  <1>14. ASSUME NEW id \in Id, Take(id) PROVE Preserves(eng, eng')
    BY <1>14, TakePreserves DEF Take
  <1> QED
    BY <1>1, <1>2, <1>3, <1>4, <1>5, <1>6, <1>7, <1>8, <1>9, <1>10, <1>11, <1>12, <1>13, <1>14 DEF Next

LEMMA AlwaysGood == Spec => []Good(eng)
  <1>1. Good(eng) /\ [Next]_vars => Good(eng)'
    BY StepPreserves DEF Preserves
  <1> QED
    BY <1>1, InitGood, PTL DEF Spec

\* Type correctness of the stream table, for any ceilings, any number of
\* streams and any sequence of frames and local calls.
THEOREM TypeCorrect == Spec => []TypeOK
  <1>1. Good(eng) => TypeOK
    BY DEF Good, EngineType, TypeOK
  <1> QED
    BY <1>1, AlwaysGood, PTL

\* No path of retireLocked releases an admission slot twice or keeps one,
\* and the negotiated stream ceiling is never exceeded.
THEOREM SlotsAlwaysAccounted == Spec => []SlotsAccounted
  <1>1. Good(eng) => SlotsAccounted
    BY DEF Good, Slots, SlotsAccounted
  <1> QED
    BY <1>1, AlwaysGood, PTL

\* A terminal connection leaves no live stream, and a stream has a published
\* outcome exactly when it has settled.
THEOREM AlwaysSettledTogether == Spec => []SettledTogether
  <1>1. Good(eng) => SettledTogether
    BY FieldTypes, States DEF Good, EngineType, Settlement, EndedTogether, SettledTogether, Tracked, IsLive
  <1> QED
    BY <1>1, AlwaysGood, PTL

\* The identity fence: an identity that is not live below the high-water mark
\* never becomes live, so an evicted record cannot be reopened.
THEOREM IdentityFence == Spec => NeverRevived
  <1>1. Good(eng) /\ [Next]_vars =>
          [\A id \in Id : id <= eng.highest /\ ~IsLive(eng, id) => ~IsLive(eng', id)]_vars
    BY StepPreserves DEF Preserves, Forward
  <1> QED
    BY <1>1, AlwaysGood, PTL DEF Spec, NeverRevived

\* terminalState.publish decides once: no later call changes an outcome.
THEOREM OutcomesAreFinal == Spec => OutcomeFinal
  <1>1. Good(eng) /\ [Next]_vars =>
          [/\ \A id \in Id : eng.cause[id] # "none" => eng'.cause[id] = eng.cause[id]
           /\ eng.physical # "none" => eng'.physical = eng.physical]_vars
    BY StepPreserves DEF Preserves, Forward
  <1> QED
    BY <1>1, AlwaysGood, PTL DEF Spec, OutcomeFinal

=============================================================================
