------------------------------- MODULE MuxLink -------------------------------
(***************************************************************************)
(* One logical stream between the two ends of a physical daemonmux         *)
(* connection: two StreamEngines, two StreamSchedulers, the two FIFO       *)
(* directions of the carrier, and the goroutines that meet on them         *)
(* (internal/adapters/daemonmux/pump.go, logical_conn.go, listener.go).    *)
(*                                                                         *)
(* Every engine or scheduler call is one step, because each takes its own  *)
(* lock; between two calls of one goroutine every other goroutine may run. *)
(* The stream starts confirmed open on both ends; how it gets there is     *)
(* MuxListener, and the loss of the physical connection is MuxPump.        *)
(***************************************************************************)
EXTENDS MuxLimits, Sequences, FiniteSets, SequencesExt, FiniteSetsExt

CONSTANTS
    Ceilings, Chunk, ChunkLen,
    MaxSend,       \* bound: chunks written by each side
    MayClose,      \* sides whose owner may call Close
    MayAbort       \* sides whose owner may meet a malformed inner frame

Side == {"broker", "daemon"}
peer(x) == IF x = "broker" THEN "daemon" ELSE "broker"

ASSUME LinkAssumption ==
    /\ MaxSend \in [Side -> Nat]
    /\ MayClose \subseteq Side /\ MayAbort \subseteq Side

VARIABLES
    eng,      \* the StreamEngine of each side
    sch,      \* the Scheduler of each side
    wire,     \* frames travelling towards each side
    pc,       \* where each goroutine of a side stands between two calls
    arg,      \* the chunk or the credit a goroutine holds
    phase,    \* progress of Close, or of abortMalformed, on each side
    sent,     \* history: chunks a writer was told were sent
    got,      \* history: chunks a reader was handed
    faults    \* history: errors the engine answered to the peer's frames

vars == <<eng, sch, wire, pc, arg, phase, sent, got, faults>>

id == 1

E == INSTANCE StreamEngine WITH
       eng <- eng["broker"], accepted <- sent, taken <- got,
       MaxId <- 1, MaxRetiredStreamRecords <- 1, Ref <- {"ref"}, Policy <- {"policy"},
       MaxAccepted <- 0

\* A single stream uses neither the quantum nor the burst.
S == INSTANCE StreamScheduler WITH
       sch <- sch["broker"], gate <- pc, ended <- arg, last <- sent, opens <- got,
       MaxId <- 1, MaxAggregateBytes <- Ceilings.MaxAggregateBytes,
       SchedulerQuantum <- Ceilings.MaxAggregateBytes,
       MaxEnvelopeBytes <- Ceilings.MaxAggregateBytes, MaxRetiredSchedulerRecords <- 1,
       MaxMuxSchedulerControlBurst <- 4, DataSize <- {}, OpenSize <- {}, MaxQueue <- 0

\* The reader of the pump, the writer and the reader of the byte stream, and
\* whoever closes the connection.
Actor == {"pump", "writer", "taker", "closer"}

ControlSize == 1
DataFrame(c) == [kind |-> "Data", size |-> E!Cost(c), chunk |-> c]
Update(n) == [kind |-> "WindowUpdate", size |-> ControlSize, credit |-> n]
Terminal(k) == [kind |-> k, size |-> ControlSize]

Opened == E!EngOpened(E!EngOpen(E!newStreamEngine, id, "ref", "policy").eng, id, "ref").eng

Init ==
    /\ eng = [x \in Side |-> Opened]
    /\ sch = [x \in Side |-> S!newScheduler]
    /\ wire = [x \in Side |-> <<>>]
    /\ pc = [x \in Side |-> [a \in Actor |-> "idle"]]
    /\ arg = [x \in Side |-> [a \in Actor |-> 0]]
    /\ phase = [x \in Side |-> "live"]
    /\ sent = [x \in Side |-> <<>>]
    /\ got = [x \in Side |-> <<>>]
    /\ faults = {}

stream(x) == eng[x].streams[id]
gate(x) == IF stream(x).state \in {"opening", "open"} THEN "admitted"
           ELSE IF stream(x).state # "absent" THEN "known" ELSE "unknown"

At(x, a, where) == pc[x][a] = where
Go(x, a, where) == pc' = [pc EXCEPT ![x][a] = where]

\* admitOutbound: the frame is queued, refused, or overflows the budget; an
\* overflow resets the stream (scheduleReset) in the same goroutine.
Submit(x, f) == S!SchEnqueue(sch[x], id, f, gate(x))
After(r, then) == IF r.res = "ErrSchedulerFull" THEN "settle" ELSE then

-----------------------------------------------------------------------------
(* Writing: muxStreamPipe.Write and Pump.SendData *)

\* reserveSend, first with a new chunk and again after each wake.
Reserve(x, c) ==
    /\ \/ At(x, "writer", "idle") /\ Len(sent[x]) < MaxSend[x] /\ phase[x] # "done"
       \/ At(x, "writer", "wait") /\ ~stream(x).blocked /\ arg[x]["writer"] = c
    /\ LET r == E!EngReserveSend(eng[x], id, c)
       IN /\ eng' = [eng EXCEPT ![x] = r.eng]
          /\ Go(x, "writer", CASE r.res = "ok" -> "send"
                               [] r.res = "wait" -> "wait"
                               [] OTHER -> "stop")
    /\ arg' = [arg EXCEPT ![x]["writer"] = c]
    /\ UNCHANGED <<sch, wire, phase, sent, got, faults>>

\* A waiting writer is cancelled by the end of its byte stream.
CancelWrite(x) ==
    /\ At(x, "writer", "wait") /\ phase[x] = "done"
    /\ Go(x, "writer", "stop")
    /\ UNCHANGED <<eng, sch, wire, arg, phase, sent, got, faults>>

SendData(x) ==
    LET c == arg[x]["writer"]
        r == Submit(x, DataFrame(c))
    IN /\ At(x, "writer", "send")
       /\ sch' = [sch EXCEPT ![x] = r.sch]
       /\ sent' = IF r.res = "ok" THEN [sent EXCEPT ![x] = Append(@, c)] ELSE sent
       /\ Go(x, "writer", IF r.res = "ok" THEN "idle" ELSE After(r, "refund"))
       /\ UNCHANGED <<eng, wire, arg, phase, got, faults>>

Refund(x) ==
    /\ At(x, "writer", "refund")
    /\ eng' = [eng EXCEPT ![x] = E!EngRefundSend(@, id, arg[x]["writer"])]
    /\ Go(x, "writer", "stop")
    /\ UNCHANGED <<sch, wire, arg, phase, sent, got, faults>>

\* One turn of the pump's writeLoop.
Write(x) ==
    /\ sch[x].active # <<>>
    /\ \E r \in S!SchDequeue(sch[x]) :
        /\ sch' = [sch EXCEPT ![x] = r.sch]
        /\ wire' = [wire EXCEPT ![peer(x)] = Append(@, r.res.frame)]
    /\ UNCHANGED <<eng, pc, arg, phase, sent, got, faults>>

-----------------------------------------------------------------------------
(* Reading: the pump's readLoop *)

Apply(e, f) ==
    CASE f.kind = "Data" -> E!EngData(e, id, f.chunk)
      [] f.kind = "WindowUpdate" -> E!EngWindowUpdate(e, id, f.credit)
      [] f.kind = "Close" -> E!EngClose(e, id)
      [] f.kind = "Reset" -> E!EngReset(e, id)

\* applyStreamError and applyStreamTerminal: a refused frame resets the
\* stream, an accepted terminal drops what is queued for it.
Receive(x) ==
    /\ wire[x] # <<>> /\ At(x, "pump", "idle")
    /\ LET f == Head(wire[x])
           r == Apply(eng[x], f)
           failed == r.res \notin {"accepted", "discarded"}
       IN /\ eng' = [eng EXCEPT ![x] = r.eng]
          /\ wire' = [wire EXCEPT ![x] = Tail(@)]
          /\ faults' = IF failed THEN faults \cup {r.res} ELSE faults
          /\ Go(x, "pump", IF failed THEN "settle"
                           ELSE IF S!Seals(f) /\ r.res = "accepted" THEN "drop" ELSE "idle")
    /\ UNCHANGED <<sch, arg, phase, sent, got>>

DropOutbound(x) ==
    /\ At(x, "pump", "drop")
    /\ sch' = [sch EXCEPT ![x] = S!SchReset(@, id, gate(x)).sch]
    /\ Go(x, "pump", "idle")
    /\ UNCHANGED <<eng, wire, arg, phase, sent, got, faults>>

\* scheduleReset and abortMalformed: the engine settles first, then one Reset
\* is offered to the scheduler.
Settle(x, a) ==
    /\ At(x, a, "settle")
    /\ eng' = [eng EXCEPT ![x] = E!EngReset(@, id).eng]
    /\ Go(x, a, "signal")
    /\ UNCHANGED <<sch, wire, arg, phase, sent, got, faults>>

Signal(x, a) ==
    /\ At(x, a, "signal")
    /\ sch' = [sch EXCEPT ![x] = Submit(x, Terminal("Reset")).sch]
    /\ Go(x, a, IF a = "writer" THEN "refund" ELSE "idle")
    /\ phase' = IF a = "closer" THEN [phase EXCEPT ![x] = "done"] ELSE phase
    /\ UNCHANGED <<eng, wire, arg, sent, got, faults>>

-----------------------------------------------------------------------------
(* Consuming: Pump.Take and returnCredit *)

Draining(x) == phase[x] \in {"drain", "drainAgain"}

Take(x, a) ==
    /\ At(x, a, "idle") /\ stream(x).queue # <<>>
    /\ \/ a = "taker" /\ phase[x] # "done"
       \/ a = "closer" /\ Draining(x)
    /\ eng' = [eng EXCEPT ![x] = E!EngTake(@, id).eng]
    /\ got' = IF a = "taker" THEN [got EXCEPT ![x] = Append(@, Head(stream(x).queue))] ELSE got
    /\ Go(x, a, "return")
    /\ UNCHANGED <<sch, wire, arg, phase, sent, faults>>

Return(x, a) ==
    /\ At(x, a, "return")
    /\ LET r == E!EngTakeReturn(eng[x], id)
       IN /\ eng' = [eng EXCEPT ![x] = r.eng]
          /\ arg' = [arg EXCEPT ![x][a] = r.res]
          /\ Go(x, a, IF r.res = 0 THEN "idle" ELSE "grant")
    /\ UNCHANGED <<sch, wire, phase, sent, got, faults>>

Grant(x, a) ==
    LET r == Submit(x, Update(arg[x][a]))
    IN /\ At(x, a, "grant")
       /\ sch' = [sch EXCEPT ![x] = r.sch]
       /\ arg' = [arg EXCEPT ![x][a] = 0]
       /\ Go(x, a, After(r, "idle"))
       /\ UNCHANGED <<eng, wire, phase, sent, got, faults>>

-----------------------------------------------------------------------------
(* Ending: LogicalConnection.Close, ListenerConnection.Close *)

CloseBegins(x) ==
    /\ x \in MayClose /\ phase[x] = "live"
    /\ phase' = [phase EXCEPT ![x] = "drain"]
    /\ UNCHANGED <<eng, sch, wire, pc, arg, sent, got, faults>>

\* [mutant] Close trusts its first drain.
Drained_Once(x) ==
    /\ Draining(x) /\ At(x, "closer", "idle")
    /\ stream(x).queue = <<>> \/ phase[x] = "drainAgain"
    /\ phase' = [phase EXCEPT ![x] = IF @ = "drain" THEN "close" ELSE "send"]
    /\ UNCHANGED <<eng, sch, wire, pc, arg, sent, got, faults>>

\* discardQueuedInbound found nothing more to take.
Drained(x) ==
    /\ Draining(x) /\ At(x, "closer", "idle") /\ stream(x).queue = <<>>
    /\ phase' = [phase EXCEPT ![x] = IF @ = "drain" THEN "close" ELSE "send"]
    /\ UNCHANGED <<eng, sch, wire, pc, arg, sent, got, faults>>

CloseEngine(x) ==
    /\ phase[x] = "close"
    /\ eng' = [eng EXCEPT ![x] = E!EngClose(@, id).eng]
    /\ phase' = [phase EXCEPT ![x] = "drainAgain"]
    /\ UNCHANGED <<sch, wire, pc, arg, sent, got, faults>>

SendClose(x) ==
    LET r == Submit(x, Terminal("Close"))
    IN /\ phase[x] = "send" /\ At(x, "closer", "idle")
       /\ sch' = [sch EXCEPT ![x] = r.sch]
       /\ phase' = [phase EXCEPT ![x] = "done"]
       /\ Go(x, "closer", After(r, "idle"))
       /\ UNCHANGED <<eng, wire, arg, sent, got, faults>>

AbortMalformed(x) ==
    /\ x \in MayAbort /\ phase[x] = "live" /\ got[x] # <<>>
    /\ phase' = [phase EXCEPT ![x] = "abort"]
    /\ Go(x, "closer", "settle")
    /\ UNCHANGED <<eng, sch, wire, arg, sent, got, faults>>

-----------------------------------------------------------------------------
Next ==
    \E x \in Side :
        \/ \E c \in Chunk : Reserve(x, c)
        \/ CancelWrite(x) \/ SendData(x) \/ Refund(x) \/ Write(x)
        \/ Receive(x) \/ DropOutbound(x)
        \/ \E a \in Actor : Settle(x, a) \/ Signal(x, a) \/ Take(x, a) \/ Return(x, a) \/ Grant(x, a)
        \/ CloseBegins(x) \/ Drained(x) \/ CloseEngine(x) \/ SendClose(x) \/ AbortMalformed(x)

\* What runs by itself: every goroutine, and the application keeps reading.
\* Nothing forces it to write, to close or to abort.
Proceeds ==
    \E x \in Side :
        \/ \E c \in Chunk : At(x, "writer", "wait") /\ Reserve(x, c)
        \/ SendData(x) \/ Refund(x) \/ CancelWrite(x) \/ Write(x) \/ Receive(x) \/ DropOutbound(x)
        \/ \E a \in Actor : Settle(x, a) \/ Signal(x, a) \/ Take(x, a) \/ Return(x, a) \/ Grant(x, a)
        \/ Drained(x) \/ CloseEngine(x) \/ SendClose(x)

Spec == Init /\ [][Next]_vars
\* The scheduler runs every goroutine that can go on.  The chunks are finitely
\* many, so it is enough to assume that not all of them stop.
FairSpec == Spec /\ WF_vars(Proceeds)

-----------------------------------------------------------------------------
(* What the two ends promise each other *)

Frames(x) == wire[x] \o sch[peer(x)].streams[id].queue
CreditOf(f) == IF f.kind = "Data" THEN E!Cost(f.chunk)
               ELSE IF f.kind = "WindowUpdate" THEN f.credit ELSE 0
InFlight(x, kind) ==
    FoldSeq(LAMBDA f, acc : acc + (IF f.kind = kind THEN CreditOf(f) ELSE 0), 0, Frames(x))
Held(x, a, where) ==
    IF ~At(x, a, where) THEN 0 ELSE IF a = "writer" THEN E!Cost(arg[x][a]) ELSE arg[x][a]

\* Where the goroutines and the owners may stand, and what they hold.
TypeOK ==
    /\ pc \in [Side -> [Actor -> {"idle", "wait", "send", "refund", "stop", "settle", "signal",
                                  "drop", "return", "grant"}]]
    /\ phase \in [Side -> {"live", "drain", "close", "drainAgain", "send", "abort", "done"}]
    /\ arg \in [Side -> [Actor -> Chunk \cup 0 .. E!Window]]
    /\ \A x \in Side : sent[x] \in Seq(Chunk) /\ got[x] \in Seq(Chunk)

\* The credit of a direction is conserved: while both ends keep the stream
\* open, what the sender may still spend, what its writer holds reserved, what
\* travels, what the receiver has not granted back and the grants that travel
\* add up to the window, so the two sides never drift apart.
CreditConserved ==
    \A x \in Side :
        LET y == peer(x)
            granting == Held(y, "taker", "grant") + Held(y, "closer", "grant")
        IN stream(x).state = "open" /\ stream(y).state = "open" =>
             stream(x).sendCredit + Held(x, "writer", "send") + Held(x, "writer", "refund")
               + InFlight(y, "Data") + stream(y).recvUsed + granting + InFlight(x, "WindowUpdate")
             = E!Window

\* Two conforming ends never drive each other over a limit: the only error an
\* engine may answer to the peer's frame is the state conflict of a chunk that
\* crosses a local Close.
ConformingPeers == faults \subseteq {"ErrStreamState"}

\* A byte stream is read in the order it was written, without a gap, until its
\* own owner closes it.
ReadsInOrder ==
    \A x \in Side : phase[x] = "live" => IsPrefix(got[x], sent[peer(x)])

\* The same with a concurrent local Close, as muxStreamPipe.Read says of
\* itself: it "returns the next ordered inbound bytes".
AlwaysReadsInOrder ==
    \A x \in Side : IsPrefix(got[x], sent[peer(x)])

\* An end that never closed nor aborted and saw the peer close orderly was
\* handed everything the peer's writer was told was sent.
CloseDeliversAll ==
    \A x \in Side :
        phase[x] = "live" /\ eng[x].cause[id] = "orderly" => got[x] = sent[peer(x)]

\* Close "sends exactly one mux Close": an end whose owner closed, neither end
\* having aborted, never makes the other end see a Reset.
CloseIsOrderly ==
    \A x \in Side :
        phase[x] = "live" /\ phase[peer(x)] # "abort" /\ MayAbort = {}
          => eng[x].cause[id] # "reset"

\* A writer is blocked on credit, or the slot of a stream whose owner is done
\* with it is still taken on an end.
Unreleased ==
    \/ \E x \in Side : At(x, "writer", "wait")
    \/ \E x, y \in Side : phase[x] = "done" /\ eng[y].live # 0

\* A writer blocked on credit is always released, by a grant, by the end of the
\* stream or by the local Close; and once one owner closed or aborted, the
\* admission slot of the stream is freed on both ends: no stream stays parked
\* in closing behind a queue nobody reads.
LinkProgress == Unreleased ~> ~Unreleased

\* Two conforming ends keep the same account of the stream: credit is conserved
\* in each direction and neither drives the other over a limit.
EndsAgree == TypeOK /\ CreditConserved /\ ConformingPeers

\* A reader gets the bytes in order and, at an orderly end, all of them.
InOrderAndWhole == ReadsInOrder /\ CloseDeliversAll
=============================================================================
