----------------------------- MODULE StreamEngine -----------------------------
(***************************************************************************)
(* The stream table of one end of a physical daemonmux connection          *)
(* (internal/adapters/daemonmux/engine_state.go).                          *)
(*                                                                         *)
(* Every exported method holds the engine lock for its whole body, so each *)
(* method is one operator from an engine value to [eng, res]: the engine   *)
(* it leaves and the disposition or error it returns.  MuxLink composes    *)
(* two engines from these operators; here one engine is driven by any peer *)
(* and any local caller, in any order, to check what it promises alone.    *)
(*                                                                         *)
(* A stream absent from the Go map is a record in state "absent".  The     *)
(* publish-once terminal authority of a stream outlives its record, so it  *)
(* is kept apart, in cause.                                                *)
(***************************************************************************)
EXTENDS MuxLimits, Sequences, FiniteSets, SequencesExt, FiniteSetsExt

CONSTANTS
    Ceilings,                 \* the negotiated MuxCeilings of the connection
    MaxId,                    \* bound: identities 1 .. MaxId are presented
    MaxRetiredStreamRecords,  \* settled records kept (128)
    Ref,                      \* stream references a frame may carry
    Policy,                   \* broker policies an Open may carry
    Chunk,                    \* opaque payloads
    ChunkLen,                 \* length in bytes of each payload
    MaxAccepted               \* bound: chunks presented to one stream

ASSUME EngineAssumption ==
    /\ Ceilings \in MuxCeilings
    /\ MaxId \in Nat
    /\ MaxRetiredStreamRecords \in Nat
    /\ Ref # {} /\ Policy # {}
    /\ ChunkLen \in [Chunk -> Nat]
    /\ MaxAccepted \in Nat

Id == 1 .. MaxId
Window == StreamWindow(Ceilings)
ReturnAt == creditReturnThreshold(Ceilings)
Cost(c) == chunkCredit(ChunkLen[c])

LiveStates == {"opening", "open", "closing"}
StreamState == LiveStates \cup {"terminal", "absent"}
Outcome == {"none", "orderly", "queueFull", "reset", "lost"}

AnyRef == CHOOSE r \in Ref : TRUE
AnyPolicy == CHOOSE p \in Policy : TRUE

\* A stream record: blocked says that a writer waits on the current
\* creditWake channel.
muxStream ==
    [state : StreamState, ref : Ref, queue : Seq(Chunk), bytes : Int,
     recvUsed : Int, recvReturn : Int, sendCredit : Int,
     refused : BOOLEAN, blocked : BOOLEAN]

NoStream ==
    [state |-> "absent", ref |-> AnyRef, queue |-> <<>>, bytes |-> 0,
     recvUsed |-> 0, recvReturn |-> 0, sendCredit |-> 0,
     refused |-> FALSE, blocked |-> FALSE]

newStreamEngine ==
    [streams |-> [id \in Id |-> NoStream],
     cause |-> [id \in Id |-> "none"],
     physical |-> "none",
     retired |-> <<>>, highest |-> 0, live |-> 0, aggregate |-> 0,
     restricted |-> FALSE, policy |-> AnyPolicy]

IsLive(e, id) == e.streams[id].state \in LiveStates
LiveIds(e) == {id \in Id : IsLive(e, id)}
Tracked(e, id) == e.streams[id].state # "absent"
Closed(e) == e.physical # "none"

SumOver(f, S) == FoldSet(LAMBDA id, acc : f[id] + acc, 0, S)
QueueBytes(q) == FoldSeq(LAMBDA c, acc : ChunkLen[c] + acc, 0, q)
QueueCost(q) == FoldSeq(LAMBDA c, acc : Cost(c) + acc, 0, q)

Result(e, r) == [eng |-> e, res |-> r]
Put(e, id, s) == [e EXCEPT !.streams[id] = s]
Charge(e, bytes) == [e EXCEPT !.aggregate = @ + bytes]

\* terminalState.publish: the first publication decides.
Publish(old, outcome) == IF old = "none" THEN outcome ELSE old

-----------------------------------------------------------------------------
(* Settlement *)

SettledRecord(s) ==
    [s EXCEPT !.state = "terminal", !.queue = <<>>, !.bytes = 0, !.sendCredit = 0,
              !.blocked = FALSE]

\* retireLocked and the publication that follows it, for the streams of one
\* call in the order the call visits them: the queues are released, the
\* records settle, and the oldest records past the retention bound go.
Retire(e, order, outcome) ==
    LET ids == ToSet(order)
        listed == e.retired \o order
        excess == MaxOf(Len(listed) - MaxRetiredStreamRecords, 0)
        evicted == {listed[i] : i \in 1 .. excess}
        settled == [id \in Id |->
                      IF id \in ids THEN SettledRecord(e.streams[id]) ELSE e.streams[id]]
    IN [e EXCEPT
          !.streams = [id \in Id |-> IF id \in evicted /\ settled[id].state = "terminal"
                                     THEN NoStream ELSE settled[id]],
          !.cause = [id \in Id |-> IF id \in ids THEN Publish(e.cause[id], outcome)
                                   ELSE e.cause[id]],
          !.live = @ - Cardinality(ids),
          !.aggregate = @ - SumOver([id \in Id |-> e.streams[id].bytes], ids),
          !.retired = SubSeq(listed, excess + 1, Len(listed))]

\* lookupLocked: an untracked identity is retired at or below the high-water
\* mark and was never opened above it.
Lookup(e, id) ==
    CASE Tracked(e, id) -> e.streams[id].state
      [] ~Tracked(e, id) /\ id > e.highest -> "future"
      [] OTHER -> "terminal"

-----------------------------------------------------------------------------
(* The engine's methods *)

EngRestrict(e, p) ==
    IF Closed(e) THEN Result(e, "ErrPhysicalClosed")
    ELSE IF e.restricted \/ e.highest # 0 THEN Result(e, "ErrStreamState")
    ELSE Result([e EXCEPT !.restricted = TRUE, !.policy = p], "ok")

\* [mutant] freshness is read from the table, which forgets evicted records.
EngOpenError_ByTable(e, id, p) ==
    CASE Closed(e) -> "ErrPhysicalClosed"
      [] ~Closed(e) /\ Tracked(e, id) -> "ErrStreamIDReused"
      [] OTHER -> IF e.live >= Ceilings.MaxStreams THEN "ErrTooManyStreams" ELSE "ok"

\* [mutant] the stream ceiling admits one stream too many.
EngOpenError_OffByOne(e, id, p) ==
    IF Closed(e) THEN "ErrPhysicalClosed"
    ELSE IF id <= e.highest THEN "ErrStreamIDReused"
    ELSE IF e.live > Ceilings.MaxStreams THEN "ErrTooManyStreams" ELSE "ok"

EngOpenError(e, id, p) ==
    CASE Closed(e) -> "ErrPhysicalClosed"
      [] ~Closed(e) /\ id <= e.highest -> "ErrStreamIDReused"
      [] ~Closed(e) /\ id > e.highest /\ e.restricted /\ e.policy # p -> "ErrOpenPolicyRefused"
      [] OTHER -> IF e.live >= Ceilings.MaxStreams THEN "ErrTooManyStreams" ELSE "ok"

EngOpen(e, id, r, p) ==
    IF EngOpenError(e, id, p) # "ok" THEN Result(e, EngOpenError(e, id, p))
    ELSE Result(Put([e EXCEPT !.highest = id, !.live = @ + 1], id,
                    [NoStream EXCEPT !.state = "opening", !.ref = r, !.sendCredit = Window]), "ok")

EngConfirmError(e, id, r) ==
    CASE Lookup(e, id) = "future" -> "ErrFutureStream"
      [] Lookup(e, id) \notin {"future", "opening"} -> "ErrStreamState"
      [] OTHER -> IF e.streams[id].ref # r THEN "ErrStreamRefMismatch" ELSE "ok"

EngOpened(e, id, r) ==
    IF EngConfirmError(e, id, r) # "ok" THEN Result(e, EngConfirmError(e, id, r))
    ELSE Result(Put(e, id, [e.streams[id] EXCEPT !.state = "open"]), "ok")

EngRefused(e, id, r) ==
    IF EngConfirmError(e, id, r) # "ok" THEN Result(e, EngConfirmError(e, id, r))
    ELSE Result(Retire(Put(e, id, [e.streams[id] EXCEPT !.refused = TRUE]), <<id>>, "orderly"), "ok")

queueOverflows(e, id, c) ==
    \/ e.streams[id].recvUsed + Cost(c) > Window
    \/ e.aggregate + ChunkLen[c] > Ceilings.MaxAggregateBytes

Enqueue(e, id, c) ==
    Put(Charge(e, ChunkLen[c]), id,
        [e.streams[id] EXCEPT !.bytes = @ + ChunkLen[c], !.recvUsed = @ + Cost(c),
                              !.queue = Append(@, c)])

EngData(e, id, c) ==
    LET state == Lookup(e, id)
    IN IF ChunkLen[c] > Ceilings.StreamChunkLimit THEN Result(e, "ErrTooLarge")
       ELSE IF state = "future" THEN Result(e, "ErrFutureStream")
       ELSE IF state = "terminal" THEN Result(e, "discarded")
       ELSE IF state \in {"opening", "closing"} THEN Result(e, "ErrStreamState")
       ELSE IF queueOverflows(e, id, c)
            THEN Result(Retire(e, <<id>>, "queueFull"), "ErrStreamQueueFull")
       ELSE Result(Enqueue(e, id, c), "accepted")

EngWindowUpdate(e, id, credit) ==
    LET state == Lookup(e, id)
    IN IF state = "future" THEN Result(e, "ErrFutureStream")
       ELSE IF state = "terminal" THEN Result(e, "discarded")
       ELSE IF credit > Window - e.streams[id].sendCredit THEN Result(e, "ErrStreamCredit")
       ELSE Result(Put(e, id, [e.streams[id] EXCEPT !.sendCredit = @ + credit,
                                                    !.blocked = FALSE]), "accepted")

\* [mutant] the fixed cost of a frame is not spent.
EngReserveSend_NoOverhead(e, id, c) ==
    IF e.streams[id].state \notin {"opening", "open"} THEN Result(e, "errStreamSettled")
    ELSE IF e.streams[id].sendCredit < Cost(c)
         THEN Result(Put(e, id, [e.streams[id] EXCEPT !.blocked = TRUE]), "wait")
    ELSE Result(Put(e, id, [e.streams[id] EXCEPT !.sendCredit = @ - ChunkLen[c]]), "ok")

\* reserveSend: "wait" hands the caller the current wake channel.
EngReserveSend(e, id, c) ==
    IF e.streams[id].state \notin {"opening", "open"} THEN Result(e, "errStreamSettled")
    ELSE IF e.streams[id].sendCredit < Cost(c)
         THEN Result(Put(e, id, [e.streams[id] EXCEPT !.blocked = TRUE]), "wait")
    ELSE Result(Put(e, id, [e.streams[id] EXCEPT !.sendCredit = @ - Cost(c)]), "ok")

EngRefundSend(e, id, c) ==
    IF ~IsLive(e, id) THEN e
    ELSE Put(e, id, [e.streams[id] EXCEPT !.sendCredit = MinOf(@ + Cost(c), Window),
                                          !.blocked = FALSE])

\* [mutant] the granted credit stays charged to the peer and is granted again.
EngTakeReturn_KeepsReturn(e, id) ==
    IF e.streams[id].state # "open" \/ e.streams[id].recvReturn < ReturnAt
    THEN Result(e, 0)
    ELSE Result(Put(e, id, [e.streams[id] EXCEPT !.recvUsed = @ - e.streams[id].recvReturn]),
                e.streams[id].recvReturn)

\* takeReturn: res is the credit to grant, zero while no batch is due.
EngTakeReturn(e, id) ==
    IF e.streams[id].state # "open" \/ e.streams[id].recvReturn < ReturnAt
    THEN Result(e, 0)
    ELSE Result(Put(e, id, [e.streams[id] EXCEPT !.recvReturn = 0,
                                                 !.recvUsed = @ - e.streams[id].recvReturn]),
                e.streams[id].recvReturn)

\* [mutant] an orderly Close settles at once and drops unread chunks.
EngClose_Drops(e, id) ==
    IF Lookup(e, id) = "future" THEN Result(e, "ErrFutureStream")
    ELSE IF Lookup(e, id) = "terminal" THEN Result(e, "discarded")
    ELSE Result(Retire(e, <<id>>, "orderly"), "accepted")

EngClose(e, id) ==
    LET state == Lookup(e, id)
    IN IF state = "future" THEN Result(e, "ErrFutureStream")
       ELSE IF state \in {"terminal", "closing"} THEN Result(e, "discarded")
       ELSE IF e.streams[id].queue = <<>> THEN Result(Retire(e, <<id>>, "orderly"), "accepted")
       ELSE Result(Put(e, id, [e.streams[id] EXCEPT !.state = "closing", !.blocked = FALSE]),
                   "accepted")

EngReset(e, id) ==
    LET state == Lookup(e, id)
    IN IF state = "future" THEN Result(e, "ErrFutureStream")
       ELSE IF state = "terminal" THEN Result(e, "discarded")
       ELSE Result(Retire(e, <<id>>, "reset"), "accepted")

Popped(e, id) ==
    LET c == Head(e.streams[id].queue)
    IN Put(e, id, [e.streams[id] EXCEPT !.queue = Tail(@), !.bytes = @ - ChunkLen[c],
                                        !.recvReturn = @ + Cost(c)])

\* Take: the pop that drains a closing stream settles it.
EngTake(e, id) ==
    LET q == e.streams[id].queue
        popped == Charge(Popped(e, id), -ChunkLen[Head(q)])
    IN IF q = <<>> THEN Result(e, "empty")
       ELSE IF e.streams[id].state = "closing" /\ Len(q) = 1
            THEN Result(Retire(popped, <<id>>, "orderly"), "finalized")
       ELSE Result(popped, "ok")

\* Fail ("lost") and Terminate ("orderly"): the physical outcome is published
\* before every live stream settles with it, in the order of the map walk.
EngTerminalize(e, order, outcome) ==
    Retire([e EXCEPT !.physical = Publish(@, outcome)], order, outcome)

-----------------------------------------------------------------------------
(* One engine under every peer and every caller *)

VARIABLES
    eng,        \* the StreamEngine
    accepted,   \* history: chunks accepted for each identity
    taken       \* history: chunks handed to the consumer of each identity

vars == <<eng, accepted, taken>>

Init ==
    /\ eng = newStreamEngine
    /\ accepted = [id \in Id |-> <<>>]
    /\ taken = [id \in Id |-> <<>>]

RestrictAdmissions(p) ==
    /\ eng' = EngRestrict(eng, p).eng
    /\ UNCHANGED <<accepted, taken>>

Open(id, r, p) ==
    /\ eng' = EngOpen(eng, id, r, p).eng
    /\ UNCHANGED <<accepted, taken>>

Opened(id, r) ==
    /\ eng' = EngOpened(eng, id, r).eng
    /\ UNCHANGED <<accepted, taken>>

Refused(id, r) ==
    /\ eng' = EngRefused(eng, id, r).eng
    /\ UNCHANGED <<accepted, taken>>

Data(id, c) ==
    /\ Len(accepted[id]) < MaxAccepted
    /\ eng' = EngData(eng, id, c).eng
    /\ accepted' = IF EngData(eng, id, c).res = "accepted"
                   THEN [accepted EXCEPT ![id] = Append(@, c)] ELSE accepted
    /\ UNCHANGED taken

WindowUpdate(id, credit) ==
    /\ eng' = EngWindowUpdate(eng, id, credit).eng
    /\ UNCHANGED <<accepted, taken>>

ReserveSend(id, c) ==
    /\ eng' = EngReserveSend(eng, id, c).eng
    /\ UNCHANGED <<accepted, taken>>

RefundSend(id, c) ==
    /\ eng' = EngRefundSend(eng, id, c)
    /\ UNCHANGED <<accepted, taken>>

TakeReturn(id) ==
    /\ eng' = EngTakeReturn(eng, id).eng
    /\ UNCHANGED <<accepted, taken>>

Close(id) ==
    /\ eng' = EngClose(eng, id).eng
    /\ UNCHANGED <<accepted, taken>>

Reset(id) ==
    /\ eng' = EngReset(eng, id).eng
    /\ UNCHANGED <<accepted, taken>>

Take(id) ==
    /\ eng.streams[id].queue # <<>>
    /\ eng' = EngTake(eng, id).eng
    /\ taken' = [taken EXCEPT ![id] = Append(@, Head(eng.streams[id].queue))]
    /\ UNCHANGED accepted

\* The orders in which a map walk may visit the live streams.
Orders(S) == {o \in [1 .. Cardinality(S) -> S] : ToSet(o) = S}

Terminalize(outcome) ==
    /\ \E order \in Orders(LiveIds(eng)) : eng' = EngTerminalize(eng, order, outcome)
    /\ UNCHANGED <<accepted, taken>>

Next ==
    \/ \E p \in Policy : RestrictAdmissions(p)
    \/ \E outcome \in {"orderly", "lost"} : Terminalize(outcome)
    \/ \E id \in Id :
        \/ \E r \in Ref, p \in Policy : Open(id, r, p)
        \/ \E r \in Ref : Opened(id, r) \/ Refused(id, r)
        \/ \E c \in Chunk : Data(id, c) \/ ReserveSend(id, c) \/ RefundSend(id, c)
        \/ \E credit \in 1 .. Window : WindowUpdate(id, credit)
        \/ TakeReturn(id) \/ Close(id) \/ Reset(id) \/ Take(id)

Spec == Init /\ [][Next]_vars

-----------------------------------------------------------------------------
(* What the engine promises *)

\* The shape of the table.  The budget counters are pinned down by
\* BytesAccounted and CreditAccounted.
TypeOK ==
    /\ eng.streams \in [Id -> muxStream]
    /\ eng.cause \in [Id -> Outcome]
    /\ eng.physical \in {"none", "orderly", "lost"}
    /\ eng.retired \in Seq(Id)
    /\ eng.highest \in 0 .. MaxId
    /\ eng.live \in Nat
    /\ eng.restricted \in BOOLEAN /\ eng.policy \in Policy

\* The admission counter is the number of streams that hold a slot, a closing
\* stream included, and never exceeds the negotiated ceiling: no path of
\* retireLocked releases a slot twice or keeps one.
SlotsAccounted ==
    /\ eng.live = Cardinality(LiveIds(eng))
    /\ eng.live <= Ceilings.MaxStreams

\* Every queued byte is charged to its stream and to the aggregate exactly
\* once and released exactly once, whichever of Take, Close, Reset, overflow
\* or physical loss ends it; the aggregate stays inside its ceiling.
BytesAccounted ==
    /\ \A id \in Id : eng.streams[id].bytes = QueueBytes(eng.streams[id].queue)
    /\ eng.aggregate = SumOver([id \in Id |-> eng.streams[id].bytes], Id)
    /\ eng.aggregate <= Ceilings.MaxAggregateBytes

\* Flow-control accounting: the credit a peer has outstanding is what is
\* queued plus what was consumed and not yet granted back, it never exceeds
\* the window, and neither does the credit this side may spend.  The uint64
\* subtractions of WindowUpdate and takeReturn therefore never wrap.
CreditAccounted ==
    \A id \in LiveIds(eng) :
        LET s == eng.streams[id]
        IN /\ s.recvUsed = QueueCost(s.queue) + s.recvReturn
           /\ s.recvUsed \in 0 .. Window
           /\ s.recvReturn \in 0 .. s.recvUsed
           /\ s.sendCredit \in 0 .. Window

\* Retention: the settled records kept are exactly the listed ones, each
\* listed once, at most MaxRetiredStreamRecords of them.
RetentionBounded ==
    /\ Len(eng.retired) <= MaxRetiredStreamRecords
    /\ \A i, j \in DOMAIN eng.retired : eng.retired[i] = eng.retired[j] => i = j
    /\ {id \in Id : eng.streams[id].state = "terminal"}
         = ToSet(eng.retired)

\* A terminal physical connection owns no live stream, and a settled stream
\* always has a published outcome while a live one never has.
SettledTogether ==
    /\ Closed(eng) => LiveIds(eng) = {}
    /\ \A id \in Id : IsLive(eng, id) <=> (id <= eng.highest /\ eng.cause[id] = "none"
                                            /\ Tracked(eng, id))

\* An orderly end loses no accepted data: a stream that settled orderly while
\* the physical connection was up handed every accepted chunk, in order, to
\* its consumer.
OrderlyCloseDrains ==
    \A id \in Id :
        /\ IsPrefix(taken[id], accepted[id])
        /\ eng.cause[id] = "orderly" /\ ~Closed(eng) => taken[id] = accepted[id]

\* An identity at or below the high-water mark that is not live never becomes
\* live again, not even after its record was evicted.
NeverRevived ==
    [][\A id \in Id : id <= eng.highest /\ ~IsLive(eng, id) => ~IsLive(eng', id)]_vars

\* A published outcome is final, for a stream and for the connection, also
\* when a later Fail, Terminate, Close or Reset races it.
OutcomeFinal ==
    [][/\ \A id \in Id : eng.cause[id] # "none" => eng'.cause[id] = eng.cause[id]
       /\ eng.physical # "none" => eng'.physical = eng.physical]_vars

\* The stream table and its budgets are exact after every frame and every local
\* call: queued bytes, spent and returned credit, retained records and published
\* outcomes agree, so no uint64 subtraction wraps and nothing is released twice.
EngineConsistent ==
    TypeOK /\ BytesAccounted /\ CreditAccounted /\ RetentionBounded /\ SettledTogether
=============================================================================
