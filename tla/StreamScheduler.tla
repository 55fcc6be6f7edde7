--------------------------- MODULE StreamScheduler ---------------------------
(***************************************************************************)
(* The outbound scheduler of one end of a physical daemonmux connection    *)
(* (internal/adapters/daemonmux/scheduler.go): one FIFO of encoded frames  *)
(* per stream, byte-deficit round robin between the streams, a bounded     *)
(* priority for control frames, and a bounded table of settled records.    *)
(*                                                                         *)
(* Every method holds the scheduler lock for its whole body, so each is an *)
(* operator from a scheduler value to [sch, res].  What a method asks of   *)
(* the engine (admittedLocked, knownLocked) is the argument gate:          *)
(* "admitted" for an opening or open stream, "known" for one the engine    *)
(* still tracks otherwise, "unknown" else.                                 *)
(***************************************************************************)
EXTENDS Integers, Sequences, FiniteSets, SequencesExt, FiniteSetsExt

CONSTANTS
    MaxId,                       \* bound: identities 1 .. MaxId
    MaxAggregateBytes,           \* negotiated aggregate budget
    SchedulerQuantum,            \* bytes per visit (64 KiB)
    MaxEnvelopeBytes,            \* largest encoded frame
    MaxRetiredSchedulerRecords,  \* settled records kept (128)
    MaxMuxSchedulerControlBurst, \* control frames ahead of data (4)
    DataSize,                    \* encoded sizes of Data frames
    OpenSize,                    \* encoded sizes of Open frames
    MaxQueue                     \* bound: frames queued for one stream by a caller

ASSUME SchedulerAssumption ==
    /\ MaxId \in Nat
    /\ MaxAggregateBytes \in Nat
    /\ SchedulerQuantum \in Nat \ {0}
    /\ MaxEnvelopeBytes \in Nat
    /\ MaxRetiredSchedulerRecords \in Nat
    /\ MaxMuxSchedulerControlBurst \in Nat
    /\ DataSize \subseteq 1 .. MaxEnvelopeBytes
    /\ OpenSize \subseteq 1 .. MaxEnvelopeBytes
    /\ MaxQueue \in Nat

Id == 1 .. MaxId

IsData(f) == f.kind = "Data"
Seals(f) == f.kind \in {"Close", "Reset"}

\* A schedStream; a stream absent from the Go map has present = FALSE.
NoRecord ==
    [present |-> FALSE, queue |-> <<>>, bytes |-> 0, deficit |-> 0,
     sealed |-> FALSE, overflowed |-> FALSE, retired |-> FALSE]

newScheduler ==
    [streams |-> [id \in Id |-> NoRecord], active |-> <<>>, retired |-> <<>>,
     aggregate |-> 0, controlBurst |-> MaxMuxSchedulerControlBurst]

Reply(s, r) == [sch |-> s, res |-> r]
Settled(rec) == (rec.sealed \/ rec.overflowed) /\ rec.queue = <<>>

-----------------------------------------------------------------------------
(* Retention *)

\* [mutant] an evicted record that still drains its terminal is never listed
\* again.
listRetired_Orphans(s, id) ==
    LET listed == Append(s.retired, id)
        full == Len(listed) > MaxRetiredSchedulerRecords
        oldest == Head(listed)
        marked == [s.streams EXCEPT ![id].retired = TRUE]
    IN IF s.streams[id].retired \/ ~Settled(s.streams[id]) THEN s
       ELSE IF ~full THEN [s EXCEPT !.streams = marked, !.retired = listed]
       ELSE [s EXCEPT !.retired = Tail(listed),
                      !.streams = IF Settled(marked[oldest])
                                  THEN [marked EXCEPT ![oldest] = NoRecord]
                                  ELSE marked]

\* listRetiredLocked: the list holds at most one record too many, so the
\* eviction loop runs at most once.
listRetired(s, id) ==
    LET listed == Append(s.retired, id)
        full == Len(listed) > MaxRetiredSchedulerRecords
        oldest == Head(listed)
        marked == [s.streams EXCEPT ![id].retired = TRUE]
    IN IF s.streams[id].retired \/ ~Settled(s.streams[id]) THEN s
       ELSE IF ~full THEN [s EXCEPT !.streams = marked, !.retired = listed]
       ELSE [s EXCEPT !.retired = Tail(listed),
                      !.streams = IF Settled(marked[oldest])
                                  THEN [marked EXCEPT ![oldest] = NoRecord]
                                  ELSE [marked EXCEPT ![oldest].retired = FALSE]]

discard(s, id) ==
    [s EXCEPT !.aggregate = @ - s.streams[id].bytes,
              !.streams[id].bytes = 0,
              !.streams[id].queue = <<>>,
              !.active = SelectSeq(@, LAMBDA x : x # id)]

-----------------------------------------------------------------------------
(* Admission of a frame *)

\* [mutant] a frame is queued ahead of the stream's earlier frames.
insert_Front(s, id, f) ==
    [s EXCEPT !.aggregate = @ + f.size,
              !.streams[id].bytes = @ + f.size,
              !.streams[id].queue = <<f>> \o @,
              !.streams[id].sealed = @ \/ Seals(f),
              !.active = IF s.streams[id].queue = <<>> THEN Append(@, id) ELSE @]

\* insertLocked
insert(s, id, f) ==
    [s EXCEPT !.aggregate = @ + f.size,
              !.streams[id].bytes = @ + f.size,
              !.streams[id].queue = Append(@, f),
              !.streams[id].sealed = @ \/ Seals(f),
              !.active = IF s.streams[id].queue = <<>> THEN Append(@, id) ELSE @]

\* overflowLockedStream
overflowStream(s, id) ==
    listRetired([discard(s, id) EXCEPT !.streams[id].overflowed = TRUE], id)

\* The common tail of enqueue and Refuse: the record exists from here on.
charge(s, id, f) ==
    LET known == [s EXCEPT !.streams[id].present = TRUE]
    IN IF s.aggregate + f.size > MaxAggregateBytes
       THEN Reply(overflowStream(known, id), "ErrSchedulerFull")
       ELSE Reply(insert(known, id, f), "ok")


\* enqueue: a terminal needs only a known identity, and an overflowed record
\* takes exactly one terminal, uncharged against the bound.
SchEnqueue(s, id, f, gate) ==
    LET rec == s.streams[id]
    IN IF rec.sealed THEN Reply(s, "ErrSchedulerSettled")
       ELSE IF rec.overflowed
       THEN IF Seals(f) THEN Reply(insert(s, id, f), "ok") ELSE Reply(s, "ErrSchedulerFull")
       ELSE IF ~Seals(f) /\ gate # "admitted" THEN Reply(s, "ErrSchedulerUnadmitted")
       ELSE IF Seals(f) /\ ~rec.present /\ gate = "unknown" THEN Reply(s, "ErrSchedulerUnadmitted")
       ELSE charge(s, id, f)

\* Refuse: the refusal of an Open the engine never recorded seals its record.
SchRefuse(s, id, f) ==
    LET rec == s.streams[id]
        r == charge(s, id, f)
    IN IF rec.sealed \/ rec.overflowed THEN Reply(s, "ErrSchedulerSettled")
       ELSE IF r.res = "ok" THEN Reply([r.sch EXCEPT !.streams[id].sealed = TRUE], "ok")
       ELSE r

\* Reset: settles one stream locally.
SchReset(s, id, gate) ==
    LET rec == s.streams[id]
        sealed == [discard(s, id) EXCEPT !.streams[id].present = TRUE,
                                         !.streams[id].sealed = TRUE]
    IN IF rec.present /\ rec.sealed /\ rec.queue = <<>> THEN Reply(s, FALSE)
       ELSE IF ~rec.present /\ gate # "admitted" THEN Reply(s, FALSE)
       ELSE Reply(listRetired(sealed, id), TRUE)

-----------------------------------------------------------------------------
(* Dequeue *)

Cap == SchedulerQuantum + MaxEnvelopeBytes
head(s, i) == Head(s.streams[s.active[i]].queue)

\* topUpLocked, k visits at once.
topUp(deficit, k) ==
    IF deficit + k * SchedulerQuantum > Cap THEN Cap ELSE deficit + k * SchedulerQuantum

\* rotateToBackLocked and popHeadLocked for the stream at ring position i.
\* What is served last is no longer queued; an emptied stream leaves the ring.
popHead(s, i) ==
    LET id == s.active[i]
        f == head(s, i)
        rest == RemoveAt(s.active, i)
        rec == s.streams[id]
        popped == [s EXCEPT !.aggregate = @ - f.size,
                            !.streams[id].bytes = @ - f.size,
                            !.streams[id].queue = Tail(@),
                            !.active = IF Len(rec.queue) = 1 THEN rest ELSE Append(rest, id)]
    IN Reply(listRetired(popped, id), [id |-> id, frame |-> f])

Controls(s) == {i \in DOMAIN s.active : ~IsData(head(s, i))}

\* The visits stream i needs before its head, which never exceeds the cap,
\* fits its deficit.
passes(s, i) ==
    LET short == head(s, i).size - s.streams[s.active[i]].deficit
    IN IF short <= SchedulerQuantum THEN 1
       ELSE (short + SchedulerQuantum - 1) \div SchedulerQuantum

\* Who is served: the first control head while the burst lasts
\* (firstControlLocked); else, going round the ring (serveDRRLocked), the
\* first head that fits, which is the earliest position among those needing
\* the fewest passes.
firstFit(s) ==
    LET need == [j \in DOMAIN s.active |-> passes(s, j)]
    IN CHOOSE j \in DOMAIN need :
         \A k \in DOMAIN need : need[j] < need[k] \/ (need[j] = need[k] /\ j <= k)

turn(s) ==
    IF s.controlBurst > 0 /\ Controls(s) # {}
    THEN [index |-> Min(Controls(s)), burst |-> TRUE]
    ELSE [index |-> firstFit(s), burst |-> FALSE]

\* The deficits after the visits of one turn.  A burst tops up only the stream
\* it serves; a round tops up the positions up to the served one once more
\* than those after it.
visits(s, t, id) ==
    IF t.burst THEN IF s.active[t.index] = id THEN 1 ELSE 0
    ELSE IF s.streams[id].queue = <<>> THEN 0
    ELSE IF \E j \in 1 .. t.index : s.active[j] = id THEN passes(s, t.index)
    ELSE passes(s, t.index) - 1

toppedUp(s, t) ==
    [id \in Id |-> [s.streams[id] EXCEPT !.deficit = topUp(@, visits(s, t, id))]]

\* [mutant] a control frame does not spend the burst.
burstAfter_NotSpent(s, t) == s.controlBurst

\* A data frame refills the burst unless the burst itself served the turn.
burstAfter(s, t) ==
    IF t.burst THEN s.controlBurst - 1
    ELSE IF IsData(head(s, t.index)) THEN MaxMuxSchedulerControlBurst
    ELSE s.controlBurst

\* serveIndexLocked and the end of serveDRRLocked: the served stream pays for
\* its head.
served(s, t, streams) ==
    popHead([s EXCEPT !.controlBurst = burstAfter(s, t),
                      !.streams = [streams EXCEPT ![s.active[t.index]].deficit =
                                     @ - head(s, t.index).size]], t.index)

\* Dequeue, for a scheduler with a frame queued: the set of its one reply.
SchDequeue(s) ==
    UNION {{served(s, t, streams) : streams \in {toppedUp(s, t)}} : t \in {turn(s)}}

-----------------------------------------------------------------------------
(* One scheduler under every caller *)

VARIABLES
    sch,     \* the Scheduler
    gate,    \* what the engine answers for each identity
    ended,   \* history: terminals accepted by the present record
    last,    \* history: the stream served by the last step, 0 for none
    opens    \* history: the identities whose Open was written, in order

vars == <<sch, gate, ended, last, opens>>

ControlSize == 1
Frames == [kind : {"Data"}, size : DataSize] \cup [kind : {"WindowUpdate", "Close"}, size : {ControlSize}]

Init ==
    /\ sch = newScheduler
    /\ gate = [id \in Id |-> "fresh"]
    /\ ended = [id \in Id |-> 0]
    /\ last = 0
    /\ opens = <<>>

GateView(id) ==
    CASE gate[id] = "admitted" -> "admitted"
      [] gate[id] = "settled" -> "known"
      [] OTHER -> "unknown"

\* A call that accepted or dropped frames of id; a record that left the table
\* takes its history with it.
Apply(s, id, terminals) ==
    /\ sch' = s
    /\ ended' = [x \in Id |-> IF ~s.streams[x].present THEN 0
                              ELSE IF x = id THEN ended[x] + terminals ELSE ended[x]]
    /\ last' = 0
    /\ UNCHANGED opens

\* The connector allocates identities in order and enqueues the Open in the
\* critical section that admits it.
SubmitOpen(id, n) ==
    /\ \A x \in Id : gate[x] = "fresh" <=> x >= id
    /\ gate' = [gate EXCEPT ![id] = "admitted"]
    /\ Apply(SchEnqueue(sch, id, [kind |-> "Open", size |-> n], "admitted").sch, id, 0)

\* A listener's engine admits the peer's Open; nothing is enqueued yet.
AdmitPeer(id) ==
    /\ \A x \in Id : gate[x] = "fresh" <=> x >= id
    /\ gate' = [gate EXCEPT ![id] = "admitted"]
    /\ last' = 0
    /\ UNCHANGED <<sch, ended, opens>>

\* The engine settles a stream, then forgets it.
EngineSettles(id) ==
    /\ gate[id] \in {"admitted", "settled"}
    /\ gate' = [gate EXCEPT ![id] = IF @ = "admitted" THEN "settled" ELSE "forgotten"]
    /\ last' = 0
    /\ UNCHANGED <<sch, ended, opens>>

Enqueue(id, f) ==
    LET r == SchEnqueue(sch, id, f, GateView(id))
    IN /\ Len(sch.streams[id].queue) < MaxQueue
       /\ Apply(r.sch, id, IF Seals(f) /\ r.res = "ok" THEN 1 ELSE 0)
       /\ UNCHANGED gate

Refuse(id) ==
    LET r == SchRefuse(sch, id, [kind |-> "Refused", size |-> ControlSize])
    IN /\ gate[id] = "fresh"
       /\ Apply(r.sch, id, IF r.res = "ok" THEN 1 ELSE 0)
       /\ UNCHANGED gate

Reset(id) ==
    /\ Apply(SchReset(sch, id, GateView(id)).sch, id, 0)
    /\ UNCHANGED gate

Dequeue ==
    /\ last' \in ToSet(sch.active)
    /\ \E r \in SchDequeue(sch) :
       /\ r.res.id = last'
       /\ sch' = r.sch
       /\ ended' = [x \in Id |-> IF r.sch.streams[x].present THEN ended[x] ELSE 0]
       /\ opens' = IF r.res.frame.kind = "Open" THEN Append(opens, r.res.id) ELSE opens
       /\ UNCHANGED gate

Next ==
    \/ \E id \in Id :
        \/ \E n \in OpenSize : SubmitOpen(id, n)
        \/ \E f \in Frames : Enqueue(id, f)
        \/ AdmitPeer(id) \/ EngineSettles(id) \/ Refuse(id) \/ Reset(id)
    \/ Dequeue

\* The writer goroutine drains while a frame is queued (drainScheduler).
Spec == Init /\ [][Next]_vars /\ WF_vars(Dequeue)

-----------------------------------------------------------------------------
(* What the scheduler promises *)

Sizes(q) == FoldSeq(LAMBDA f, acc : f.size + acc, 0, q)
Application(q) == SelectSeq(q, LAMBDA f : ~Seals(f))
Total(f) == FoldSet(LAMBDA id, acc : f[id] + acc, 0, Id)

Record(rec) ==
    /\ rec.present \in BOOLEAN /\ rec.sealed \in BOOLEAN
    /\ rec.overflowed \in BOOLEAN /\ rec.retired \in BOOLEAN
    /\ rec.bytes \in Nat /\ rec.deficit \in -MaxEnvelopeBytes .. Cap

TypeOK ==
    /\ \A id \in Id : Record(sch.streams[id])
    /\ ToSet(sch.active) \subseteq Id /\ ToSet(sch.retired) \subseteq Id
    /\ sch.aggregate \in Nat
    /\ sch.controlBurst \in 0 .. MaxMuxSchedulerControlBurst

\* The ring lists exactly the streams that have a frame queued, each once:
\* firstControlLocked and serveDRRLocked read the head of every listed queue.
RingExact ==
    /\ ToSet(sch.active) = {id \in Id : sch.streams[id].queue # <<>>}
    /\ IsInjective(sch.active)

\* Every accepted byte is released exactly once, and application frames of
\* all streams together stay within the aggregate budget; only the terminals
\* of overflowed streams may exceed it.
BytesBounded ==
    /\ \A id \in Id : sch.streams[id].bytes = Sizes(sch.streams[id].queue)
    /\ sch.aggregate = Total([id \in Id |-> sch.streams[id].bytes])
    /\ Total([id \in Id |-> Sizes(Application(sch.streams[id].queue))]) <= MaxAggregateBytes
    /\ sch.aggregate <= MaxAggregateBytes
         + ControlSize * Cardinality({id \in Id : sch.streams[id].overflowed})


\* A settled record is never orphaned in the table: each drained one is
\* listed exactly once for eviction, and the list respects its bound.
RetentionExact ==
    /\ Len(sch.retired) <= MaxRetiredSchedulerRecords
    /\ IsInjective(sch.retired)
    /\ \A id \in Id : sch.streams[id].retired <=> id \in ToSet(sch.retired)
    /\ \A id \in Id : Settled(sch.streams[id]) => sch.streams[id].retired

\* No stream starves, whatever its siblings enqueue and whatever the sizes:
\* a stream with a frame queued is served, or its queue is discarded.
NoStarvation ==
    \A id \in Id : sch.streams[id].queue # <<>> ~> (last = id \/ sch.streams[id].queue = <<>>)

\* Opens are written in the order their identities were allocated.
OpensInOrder == \A i \in 2 .. Len(opens) : opens[i - 1] < opens[i]

\* The scheduler's three views of a stream agree after every enqueue, dequeue,
\* overflow, reset and eviction: the ring, the byte budgets and the retired list.
RecordsExact == TypeOK /\ RingExact /\ BytesBounded /\ RetentionExact
=============================================================================
