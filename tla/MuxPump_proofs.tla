--------------------------- MODULE MuxPump_proofs ---------------------------
(***************************************************************************)
(* The life of a physical connection (MuxPump) for any number of frames    *)
(* and of concurrent Flush calls: the settlement is published once and in  *)
(* order, a Close that returned left nothing running, and Flush is a       *)
(* barrier.                                                                *)
(*                                                                         *)
(* The invariant follows each actor through its own settlement: whoever is *)
(* between the two publications is alone there and carries the outcome the *)
(* pump published; whoever closes the carrier is alone; and a Close past   *)
(* its join has seen both loops leave for good.                            *)
(***************************************************************************)
EXTENDS MuxPump, TLAPS

Place == {"new", "receive", "dropped", "dequeue", "send", "empty", "blocked", "judge",
          "leave", "publish", "engine", "stop", "closing", "join", "gone"}
Waits == {"no", "check", "wait", "flushed", "ended"}
Call == [at : Waits, woken : BOOLEAN, since : Nat]

Types ==
    /\ started \in BOOLEAN /\ closed \in BOOLEAN /\ broken \in BOOLEAN
    /\ stop \in {"no", "cancelled", "closed"} /\ term \in Outcome /\ engineEnd \in Outcome
    /\ pc \in [Actor -> Place] /\ verdict \in [Actor -> Outcome]
    /\ queued \in Nat /\ inflight \in 0 .. 1 /\ wake \in BOOLEAN
    /\ sender \in {"no", "checked", "queued"}
    /\ flush \in [Flusher -> Call]
    /\ accepted \in Nat /\ finished \in Nat

\* Frames: the writer counts the one it sends in the section that dequeues it,
\* and the senders stay within the bound.
Frames ==
    /\ inflight = (IF pc["writer"] = "send" THEN 1 ELSE 0)
    /\ accepted = finished + queued + inflight
    /\ accepted <= MaxFrames
    /\ sender = "checked" => accepted < MaxFrames
    /\ \A f \in Flusher : flush[f].since <= accepted

\* termMu: one publisher at a time is between the two publications.
Publications ==
    /\ engineEnd # "none" => engineEnd = term
    /\ \A a \in Actor : pc[a] = "publish" => verdict[a] # "none"
    /\ \A a \in Actor : pc[a] = "engine" => term # "none" /\ verdict[a] = term /\ engineEnd = "none"
    /\ \A a, b \in Actor : pc[a] = "engine" /\ pc[b] = "engine" => a = b

\* stopOnce: one caller closes the carrier.
Stopping ==
    /\ \A a \in Actor : pc[a] = "closing" => stop = "cancelled"
    /\ \A a, b \in Actor : pc[a] = "closing" /\ pc[b] = "closing" => a = b

\* Close: first stop, then join, then settle.
Joined ==
    \/ pc["closer"] \in {"publish", "engine", "gone"}
    \/ pc["closer"] \in {"stop", "closing"} /\ verdict["closer"] # "none"

Closing ==
    /\ pc["closer"] \in {"new", "stop", "closing", "join", "publish", "engine", "gone"}
    /\ pc["closer"] # "new" => closed
    /\ pc["closer"] \in {"new", "join"} => verdict["closer"] = "none"
    /\ ~started => pc["reader"] = "new" /\ pc["writer"] = "new"
    /\ pc["closer"] = "join" \/ Joined => stop = "closed"
    /\ Joined => (started => LoopsDone)
    /\ pc["closer"] = "gone" \/ (pc["closer"] \in {"stop", "closing"} /\ verdict["closer"] # "none")
         => term # "none" /\ engineEnd = term

PumpInv == Types /\ Frames /\ Publications /\ Stopping /\ Closing

-----------------------------------------------------------------------------
\* Nothing is queued, published or running at first.
LEMMA PumpInit == Init => PumpInv
<1> SUFFICES ASSUME Init PROVE PumpInv
  OBVIOUS
<1>1. flush \in [Flusher -> Call] BY DEF Init, Call, Waits
<1>2. Types
  <2>1. pc \in [Actor -> Place] /\ verdict \in [Actor -> Outcome] BY DEF Init, Place, Outcome
  <2>2. started \in BOOLEAN /\ closed \in BOOLEAN /\ broken \in BOOLEAN /\ wake \in BOOLEAN
    BY Zenon DEF Init
  <2>3. queued \in Nat /\ inflight \in 0 .. 1 /\ accepted \in Nat /\ finished \in Nat BY DEF Init
  <2> QED BY <1>1, <2>1, <2>2, <2>3, Zenon DEF Init, Types, Outcome
<1>3. Frames BY PumpAssumption DEF Init, Frames, Actor
<1>4. Publications /\ Stopping BY DEF Init, Publications, Stopping
<1>5. Closing BY DEF Init, Closing, Joined, Actor
<1> QED BY <1>2, <1>3, <1>4, <1>5 DEF PumpInv

\* A signal to the waiting Flush calls moves none of them.
LEMMA WakenedCalls ==
    ASSUME flush \in [Flusher -> Call]
    PROVE  /\ Wakened \in [Flusher -> Call]
           /\ \A f \in Flusher : Wakened[f].at = flush[f].at /\ Wakened[f].since = flush[f].since
<1>1. ASSUME NEW f \in Flusher
      PROVE  Wakened[f] \in Call /\ Wakened[f].at = flush[f].at /\ Wakened[f].since = flush[f].since
  <2> flush[f] \in Call OBVIOUS
  <2> [flush[f] EXCEPT !.woken = TRUE] \in Call BY DEF Call
  <2> QED BY DEF Wakened
<1> QED BY <1>1 DEF Wakened

\* Every step of every goroutine keeps the invariant.
LEMMA PumpStep == PumpInv /\ [Next]_vars => PumpInv'
<1> SUFFICES ASSUME PumpInv, [Next]_vars PROVE PumpInv'
  OBVIOUS
<1>1. CASE Start
  <2>1. Types' BY <1>1 DEF PumpInv, Start, ends, work, Types, Place
  <2>2. Frames' BY <1>1 DEF PumpInv, Start, ends, work, Frames, Closing, Types, Actor
  <2>3. Publications' BY <1>1 DEF PumpInv, Start, ends, work, Publications, Types
  <2>4. Stopping' BY <1>1 DEF PumpInv, Start, ends, work, Stopping, Types
  <2>5. Closing' BY <1>1 DEF PumpInv, Start, ends, work, Closing, Joined, LoopsDone, Types, Actor
  <2> QED BY <2>1, <2>2, <2>3, <2>4, <2>5 DEF PumpInv
<1>2. CASE Break
  <2>1. Types' BY <1>2 DEF PumpInv, Break, ends, work, Types
  <2>2. Frames' BY <1>2 DEF PumpInv, Break, ends, work, Frames
  <2>3. Publications' BY <1>2 DEF PumpInv, Break, ends, work, Publications
  <2>4. Stopping' BY <1>2 DEF PumpInv, Break, ends, work, Stopping
  <2>5. Closing' BY <1>2 DEF PumpInv, Break, ends, work, Closing, Joined, LoopsDone
  <2> QED BY <2>1, <2>2, <2>3, <2>4, <2>5 DEF PumpInv
<1>3. CASE CloseBegins
  <2>1. Types' BY <1>3 DEF PumpInv, CloseBegins, Go, ends, work, Types, Place
  <2>2. Frames' BY <1>3 DEF PumpInv, CloseBegins, Go, ends, work, Frames
  <2>3. Publications' BY <1>3 DEF PumpInv, CloseBegins, Go, ends, work, Publications
  <2>4. Stopping' BY <1>3 DEF PumpInv, CloseBegins, Go, ends, work, Stopping
  <2>5. Closing' BY <1>3 DEF PumpInv, CloseBegins, Go, ends, work, Closing, Joined, LoopsDone
  <2> QED BY <2>1, <2>2, <2>3, <2>4, <2>5 DEF PumpInv
<1>4. CASE ReceiveMalformed
  <2>1. Types'
    BY <1>4 DEF PumpInv, ReceiveMalformed, Settle, Go, run, work, Cancelled, Types, Place, Outcome
  <2>2. Frames' BY <1>4 DEF PumpInv, ReceiveMalformed, Settle, Go, run, work, Frames
  <2>3. Publications' BY <1>4 DEF PumpInv, ReceiveMalformed, Settle, Go, run, work, Publications, Types
  <2>4. Stopping' BY <1>4 DEF PumpInv, ReceiveMalformed, Settle, Go, run, work, Stopping
  <2>5. Closing' BY <1>4 DEF PumpInv, ReceiveMalformed, Settle, Go, run, work, Closing, Joined, LoopsDone
  <2> QED BY <2>1, <2>2, <2>3, <2>4, <2>5 DEF PumpInv
<1>5. CASE ReceiveTerminal
  <2>1. Types' BY <1>5 DEF PumpInv, ReceiveTerminal, Go, run, ends, Types, Place, Actor
  <2>2. Frames'
    <3>1. /\ finished' = finished + queued /\ queued' = 0 /\ pc'["writer"] = pc["writer"]
          /\ UNCHANGED <<inflight, sender, flush, accepted>>
      BY <1>5 DEF ReceiveTerminal, Go
    <3>2. finished \in Nat /\ queued \in Nat /\ inflight \in Nat
      BY DEF PumpInv, Types
    <3> QED BY <3>1, <3>2 DEF PumpInv, Frames
  <2>3. Publications' BY <1>5 DEF PumpInv, ReceiveTerminal, Go, run, ends, Publications
  <2>4. Stopping' BY <1>5 DEF PumpInv, ReceiveTerminal, Go, run, ends, Stopping
  <2>5. Closing' BY <1>5 DEF PumpInv, ReceiveTerminal, Go, run, ends, Closing, Joined, LoopsDone
  <2> QED BY <2>1, <2>2, <2>3, <2>4, <2>5 DEF PumpInv
<1>6. CASE ReceiveError
  <2>1. Types' BY <1>6 DEF PumpInv, ReceiveError, Go, run, ends, work, Types, Place
  <2>2. Frames' BY <1>6 DEF PumpInv, ReceiveError, Go, run, ends, work, Frames
  <2>3. Publications' BY <1>6 DEF PumpInv, ReceiveError, Go, run, ends, work, Publications
  <2>4. Stopping' BY <1>6 DEF PumpInv, ReceiveError, Go, run, ends, work, Stopping
  <2>5. Closing' BY <1>6 DEF PumpInv, ReceiveError, Go, run, ends, work, Closing, Joined, LoopsDone
  <2> QED BY <2>1, <2>2, <2>3, <2>4, <2>5 DEF PumpInv
<1>7. CASE SignalDropped
  <2>1. Types'
    BY <1>7, WakenedCalls DEF PumpInv, SignalDropped, SignalFlushIf, Go, run, ends, Types, Place
  <2>2. Frames'
    BY <1>7, WakenedCalls DEF PumpInv, SignalDropped, SignalFlushIf, Go, run, ends, Frames, Types
  <2>3. Publications'
    BY <1>7 DEF PumpInv, SignalDropped, SignalFlushIf, Wakened, Go, run, ends, Publications
  <2>4. Stopping' BY <1>7 DEF PumpInv, SignalDropped, SignalFlushIf, Wakened, Go, run, ends, Stopping
  <2>5. Closing'
    BY <1>7 DEF PumpInv, SignalDropped, SignalFlushIf, Wakened, Go, run, ends, Closing, Joined, LoopsDone
  <2> QED BY <2>1, <2>2, <2>3, <2>4, <2>5 DEF PumpInv
<1>8. CASE Dequeue
  <2>1. Types' BY <1>8 DEF PumpInv, Dequeue, Go, run, ends, Types, Place
  <2>2. Frames' BY <1>8 DEF PumpInv, Dequeue, Go, run, ends, Frames, Types, Actor
  <2>3. Publications' BY <1>8 DEF PumpInv, Dequeue, Go, run, ends, Publications, Types
  <2>4. Stopping' BY <1>8 DEF PumpInv, Dequeue, Go, run, ends, Stopping, Types
  <2>5. Closing' BY <1>8 DEF PumpInv, Dequeue, Go, run, ends, Closing, Joined, LoopsDone, Types, Actor
  <2> QED BY <2>1, <2>2, <2>3, <2>4, <2>5 DEF PumpInv
<1>9. CASE Sent
  <2>1. Types' BY <1>9, WakenedCalls DEF PumpInv, Sent, SignalFlushIf, Go, run, ends, Types, Place
  <2>2. Frames'
    BY <1>9, WakenedCalls DEF PumpInv, Sent, SignalFlushIf, Go, run, ends, Frames, Types, Actor
  <2>3. Publications'
    BY <1>9 DEF PumpInv, Sent, SignalFlushIf, Wakened, Go, run, ends, Publications, Types
  <2>4. Stopping' BY <1>9 DEF PumpInv, Sent, SignalFlushIf, Wakened, Go, run, ends, Stopping, Types
  <2>5. Closing'
    BY <1>9
       DEF PumpInv, Sent, SignalFlushIf, Wakened, Go, run, ends, Closing, Joined, LoopsDone, Types, Actor
  <2> QED BY <2>1, <2>2, <2>3, <2>4, <2>5 DEF PumpInv
<1>10. CASE WriterEmpty
  <2>1. Types' BY <1>10, WakenedCalls DEF PumpInv, WriterEmpty, SignalFlushIf, Go, run, ends, Types, Place
  <2>2. Frames'
    BY <1>10, WakenedCalls DEF PumpInv, WriterEmpty, SignalFlushIf, Go, run, ends, Frames, Types
  <2>3. Publications'
    BY <1>10 DEF PumpInv, WriterEmpty, SignalFlushIf, Wakened, Go, run, ends, Publications
  <2>4. Stopping' BY <1>10 DEF PumpInv, WriterEmpty, SignalFlushIf, Wakened, Go, run, ends, Stopping
  <2>5. Closing'
    BY <1>10 DEF PumpInv, WriterEmpty, SignalFlushIf, Wakened, Go, run, ends, Closing, Joined, LoopsDone
  <2> QED BY <2>1, <2>2, <2>3, <2>4, <2>5 DEF PumpInv
<1>11. CASE WriterWakes
  <2>1. Types'
    <3>1. wake' \in BOOLEAN
      <4>1. CASE UNCHANGED wake BY <4>1 DEF PumpInv, Types
      <4>2. CASE wake' = FALSE BY <4>2
      <4> QED BY <1>11, <4>1, <4>2 DEF WriterWakes
    <3>2. pc' \in [Actor -> Place] BY <1>11 DEF PumpInv, WriterWakes, Go, Types, Place
    <3> QED BY <1>11, <3>1, <3>2 DEF PumpInv, WriterWakes, run, ends, Types
  <2>2. Frames' BY <1>11 DEF PumpInv, WriterWakes, Go, run, ends, Frames, Types
  <2>3. Publications' BY <1>11 DEF PumpInv, WriterWakes, Go, run, ends, Publications, Types
  <2>4. Stopping' BY <1>11 DEF PumpInv, WriterWakes, Go, run, ends, Stopping, Types
  <2>5. Closing'
    BY <1>11 DEF PumpInv, WriterWakes, Go, run, ends, Closing, Joined, LoopsDone, Types, Actor
  <2> QED BY <2>1, <2>2, <2>3, <2>4, <2>5 DEF PumpInv
<1>12. CASE SendChecks
  <2>1. Types' BY <1>12 DEF PumpInv, SendChecks, run, ends, Types
  <2>2. Frames' BY <1>12 DEF PumpInv, SendChecks, run, ends, Frames
  <2>3. Publications' BY <1>12 DEF PumpInv, SendChecks, run, ends, Publications
  <2>4. Stopping' BY <1>12 DEF PumpInv, SendChecks, run, ends, Stopping
  <2>5. Closing' BY <1>12 DEF PumpInv, SendChecks, run, ends, Closing, Joined, LoopsDone
  <2> QED BY <2>1, <2>2, <2>3, <2>4, <2>5 DEF PumpInv
<1>13. CASE SendQueues
  <2>1. Types' BY <1>13 DEF PumpInv, SendQueues, run, ends, Types
  <2>2. Frames' BY <1>13, PumpAssumption DEF PumpInv, SendQueues, run, ends, Frames, Types, Call
  <2>3. Publications' BY <1>13 DEF PumpInv, SendQueues, run, ends, Publications
  <2>4. Stopping' BY <1>13 DEF PumpInv, SendQueues, run, ends, Stopping
  <2>5. Closing' BY <1>13 DEF PumpInv, SendQueues, run, ends, Closing, Joined, LoopsDone
  <2> QED BY <2>1, <2>2, <2>3, <2>4, <2>5 DEF PumpInv
<1>14. CASE SendSignals
  <2>1. Types' BY <1>14 DEF PumpInv, SendSignals, run, ends, Types
  <2>2. Frames' BY <1>14 DEF PumpInv, SendSignals, run, ends, Frames
  <2>3. Publications' BY <1>14 DEF PumpInv, SendSignals, run, ends, Publications
  <2>4. Stopping' BY <1>14 DEF PumpInv, SendSignals, run, ends, Stopping
  <2>5. Closing' BY <1>14 DEF PumpInv, SendSignals, run, ends, Closing, Joined, LoopsDone
  <2> QED BY <2>1, <2>2, <2>3, <2>4, <2>5 DEF PumpInv
<1>15. CASE CloseJoins
  <2>1. Types' BY <1>15 DEF PumpInv, CloseJoins, Settle, Go, run, work, Types, Place, Outcome
  <2>2. Frames' BY <1>15 DEF PumpInv, CloseJoins, Settle, Go, run, work, Frames
  <2>3. Publications' BY <1>15 DEF PumpInv, CloseJoins, Settle, Go, run, work, Publications, Types
  <2>4. Stopping' BY <1>15 DEF PumpInv, CloseJoins, Settle, Go, run, work, Stopping
  <2>5. Closing'
    BY <1>15 DEF PumpInv, CloseJoins, Settle, Go, run, work, Closing, Joined, LoopsDone, Types
  <2> QED BY <2>1, <2>2, <2>3, <2>4, <2>5 DEF PumpInv
<1>16. ASSUME NEW a \in Actor, Publish(a) PROVE PumpInv'
  <2>1. Types' BY <1>16 DEF PumpInv, Publish, Go, run, work, Types, Place
  <2>2. Frames' BY <1>16 DEF PumpInv, Publish, Go, run, work, Frames
  <2>3. Publications' BY <1>16 DEF PumpInv, Publish, Go, run, work, Publications
  <2>4. Stopping' BY <1>16 DEF PumpInv, Publish, Go, run, work, Stopping
  <2>5. Closing' BY <1>16 DEF PumpInv, Publish, Go, run, work, Closing, Joined, LoopsDone
  <2> QED BY <2>1, <2>2, <2>3, <2>4, <2>5 DEF PumpInv
<1>17. ASSUME NEW a \in Actor, PublishEngine(a) PROVE PumpInv'
  <2>1. Types' BY <1>17 DEF PumpInv, PublishEngine, Go, run, work, Types, Place
  <2>2. Frames' BY <1>17 DEF PumpInv, PublishEngine, Go, run, work, Frames
  <2>3. Publications' BY <1>17 DEF PumpInv, PublishEngine, Go, run, work, Publications, Types
  <2>4. Stopping' BY <1>17 DEF PumpInv, PublishEngine, Go, run, work, Stopping
  <2>5. Closing'
    BY <1>17 DEF PumpInv, PublishEngine, Go, run, work, Closing, Joined, LoopsDone, Publications
  <2> QED BY <2>1, <2>2, <2>3, <2>4, <2>5 DEF PumpInv
<1>18. ASSUME NEW a \in Actor, Stop(a) PROVE PumpInv'
  <2>1. Types' BY <1>18 DEF PumpInv, Stop, Go, AfterStop, ends, work, Types, Place
  <2>2. Frames' BY <1>18 DEF PumpInv, Stop, Go, AfterStop, ends, work, Frames, Types, Actor
  <2>3. Publications' BY <1>18 DEF PumpInv, Stop, Go, AfterStop, ends, work, Publications, Types
  <2>4. Stopping' BY <1>18 DEF PumpInv, Stop, Go, AfterStop, ends, work, Stopping, Types
  <2>5. Closing'
    BY <1>18 DEF PumpInv, Stop, Go, AfterStop, ends, work, Closing, Joined, LoopsDone, Types, Actor
  <2> QED BY <2>1, <2>2, <2>3, <2>4, <2>5 DEF PumpInv
<1>19. ASSUME NEW a \in Actor, CloseCarrier(a) PROVE PumpInv'
  <2>1. Types' BY <1>19 DEF PumpInv, CloseCarrier, Go, AfterStop, ends, work, Types, Place
  <2>2. Frames' BY <1>19 DEF PumpInv, CloseCarrier, Go, AfterStop, ends, work, Frames
  <2>3. Publications' BY <1>19 DEF PumpInv, CloseCarrier, Go, AfterStop, ends, work, Publications
  <2>4. Stopping' BY <1>19 DEF PumpInv, CloseCarrier, Go, AfterStop, ends, work, Stopping, Types
  <2>5. Closing' BY <1>19 DEF PumpInv, CloseCarrier, Go, AfterStop, ends, work, Closing, Joined, LoopsDone
  <2> QED BY <2>1, <2>2, <2>3, <2>4, <2>5 DEF PumpInv
<1>20. ASSUME NEW a \in Actor, Leave(a) PROVE PumpInv'
  <2>1. Types' BY <1>20 DEF PumpInv, Leave, Settle, Go, run, work, Types, Place, Outcome
  <2>2. Frames' BY <1>20 DEF PumpInv, Leave, Settle, Go, run, work, Frames
  <2>3. Publications' BY <1>20 DEF PumpInv, Leave, Settle, Go, run, work, Publications, Types
  <2>4. Stopping' BY <1>20 DEF PumpInv, Leave, Settle, Go, run, work, Stopping
  <2>5. Closing' BY <1>20 DEF PumpInv, Leave, Settle, Go, run, work, Closing, Joined, LoopsDone
  <2> QED BY <2>1, <2>2, <2>3, <2>4, <2>5 DEF PumpInv
<1>21. ASSUME NEW a \in Actor, Judge(a) PROVE PumpInv'
  <2>1. Types' BY <1>21 DEF PumpInv, Judge, Settle, Go, run, ends, work, Types, Place, Outcome
  <2>2. Frames' BY <1>21 DEF PumpInv, Judge, Settle, Go, run, ends, work, Frames, Types, Actor
  <2>3. Publications' BY <1>21 DEF PumpInv, Judge, Settle, Go, run, ends, work, Publications, Types
  <2>4. Stopping' BY <1>21 DEF PumpInv, Judge, Settle, Go, run, ends, work, Stopping, Types
  <2>5. Closing'
    BY <1>21 DEF PumpInv, Judge, Settle, Go, run, ends, work, Closing, Joined, LoopsDone, Types, Actor
  <2> QED BY <2>1, <2>2, <2>3, <2>4, <2>5 DEF PumpInv
<1>22. ASSUME NEW f \in Flusher, FlushBegins(f) PROVE PumpInv'
  <2>1. Types' BY <1>22 DEF PumpInv, FlushBegins, run, ends, Types, Call, Waits
  <2>2. Frames' BY <1>22 DEF PumpInv, FlushBegins, run, ends, Frames
  <2>3. Publications' BY <1>22 DEF PumpInv, FlushBegins, run, ends, Publications
  <2>4. Stopping' BY <1>22 DEF PumpInv, FlushBegins, run, ends, Stopping
  <2>5. Closing' BY <1>22 DEF PumpInv, FlushBegins, run, ends, Closing, Joined, LoopsDone
  <2> QED BY <2>1, <2>2, <2>3, <2>4, <2>5 DEF PumpInv
<1>23. ASSUME NEW f \in Flusher, FlushChecks(f) PROVE PumpInv'
  <2>1. Types'
    <3>1. PICK at \in Waits : flush' = [flush EXCEPT ![f] = [[@ EXCEPT !.at = at] EXCEPT !.woken = FALSE]]
      BY <1>23, Zenon DEF FlushChecks, Waits
    <3>2. [[flush[f] EXCEPT !.at = at] EXCEPT !.woken = FALSE] \in Call BY DEF PumpInv, Types, Call
    <3>3. flush' \in [Flusher -> Call] BY <3>1, <3>2 DEF PumpInv, Types
    <3> QED BY <1>23, <3>3 DEF PumpInv, FlushChecks, run, ends, Types
  <2>2. Frames' BY <1>23 DEF PumpInv, FlushChecks, run, ends, Frames, Types
  <2>3. Publications' BY <1>23 DEF PumpInv, FlushChecks, run, ends, Publications
  <2>4. Stopping' BY <1>23 DEF PumpInv, FlushChecks, run, ends, Stopping
  <2>5. Closing' BY <1>23 DEF PumpInv, FlushChecks, run, ends, Closing, Joined, LoopsDone
  <2> QED BY <2>1, <2>2, <2>3, <2>4, <2>5 DEF PumpInv
<1>24. ASSUME NEW f \in Flusher, FlushWakes(f) PROVE PumpInv'
  <2>1. Types' BY <1>24 DEF PumpInv, FlushWakes, run, ends, Types, Call, Waits
  <2>2. Frames' BY <1>24 DEF PumpInv, FlushWakes, run, ends, Frames, Types, Call
  <2>3. Publications' BY <1>24 DEF PumpInv, FlushWakes, run, ends, Publications
  <2>4. Stopping' BY <1>24 DEF PumpInv, FlushWakes, run, ends, Stopping
  <2>5. Closing' BY <1>24 DEF PumpInv, FlushWakes, run, ends, Closing, Joined, LoopsDone
  <2> QED BY <2>1, <2>2, <2>3, <2>4, <2>5 DEF PumpInv
<1>25. CASE UNCHANGED vars
  BY <1>25 DEF vars, PumpInv, Types, Frames, Publications, Stopping, Closing, Joined, LoopsDone
<1> QED
  BY <1>1, <1>2, <1>3, <1>4, <1>5, <1>6, <1>7, <1>8, <1>9, <1>10, <1>11, <1>12, <1>13, <1>14, <1>15, <1>16,
     <1>17, <1>18, <1>19, <1>20, <1>21, <1>22, <1>23, <1>24, <1>25
     DEF Next, Reads, Writes, Closes, Sends, Flushes, Ends, Actor

\* The settlement of a physical connection (settleFailure, settleOrderly, Close):
\* whoever comes first decides the outcome, Done closes with it before the engine
\* settles its streams with the same one, frames are accounted for, and a Close
\* that returned left no goroutine and no open carrier, however many senders and
\* Flush calls there are and whatever fails.
THEOREM SettledAlwaysInOrder == Spec => []SettledInOrder
<1>1. PumpInv => SettledInOrder
  <2> SUFFICES ASSUME PumpInv PROVE SettledInOrder
    OBVIOUS
  <2>1. TypeOK BY PumpAssumption DEF PumpInv, Types, Frames, TypeOK, Place
  <2>2. DoneBeforeStreams BY DEF PumpInv, Publications, DoneBeforeStreams
  <2>3. CloseLeavesNothing BY DEF PumpInv, Closing, Joined, LoopsDone, CloseLeavesNothing
  <2> QED BY <2>1, <2>2, <2>3 DEF SettledInOrder
<1> QED BY <1>1, PumpInit, PumpStep, PTL DEF Spec

\* A call reports success only in FlushChecks and FlushWakes, which find the
\* scheduler empty and no frame in flight.
LEMMA FlushStep ==
    ASSUME PumpInv, Next, NEW f \in Flusher, flush[f].at # "flushed", flush'[f].at = "flushed"
    PROVE  finished >= flush[f].since
<1>1. Idle => finished >= flush[f].since BY DEF PumpInv, Types, Frames, Idle
<1>2. ~Idle => FALSE
  <2> SUFFICES ASSUME ~Idle PROVE FALSE
    OBVIOUS
  <2>1. flush' # flush /\ flush' # Wakened BY WakenedCalls DEF PumpInv, Types
  <2>2. PICK g \in Flusher : FlushBegins(g) \/ FlushChecks(g) \/ FlushWakes(g)
    BY <2>1
       DEF Next, Start, Break, CloseBegins, ReceiveMalformed, ReceiveTerminal, SendChecks, Reads, Writes,
        Closes, Sends, Flushes, Ends, Publish, PublishEngine, Stop, CloseCarrier, Leave, Judge, Settle,
        ReceiveError, SignalDropped, Dequeue, Sent, WriterEmpty, WriterWakes, SendQueues, SendSignals,
        CloseJoins, SignalFlushIf, work
  <2>3. CASE FlushBegins(g) BY <2>3 DEF PumpInv, FlushBegins
  <2>4. CASE FlushChecks(g) BY <2>4 DEF PumpInv, Types, FlushChecks
  <2>5. CASE FlushWakes(g) BY <2>5 DEF PumpInv, Types, Call, FlushWakes
  <2> QED BY <2>2, <2>3, <2>4, <2>5
<1> QED BY <1>1, <1>2

\* Flush is a barrier: a call that returns nil returns after every frame that was
\* accepted before it began was sent, failed with the connection or dropped with
\* its stream, for any number of concurrent calls and senders.
THEOREM FlushAlwaysBarrier == Spec => FlushIsBarrier
<1> DEFINE Barrier == \A f \in Flusher : flush[f].at # "flushed" /\ flush'[f].at = "flushed"
                                            => finished >= flush[f].since
<1>1. PumpInv /\ [Next]_vars => [Barrier]_vars
  BY FlushStep
<1>2. PumpInv /\ [Next]_vars => PumpInv' BY PumpStep
<1> QED BY <1>1, <1>2, PumpInit, PTL DEF Spec, FlushIsBarrier
=============================================================================
