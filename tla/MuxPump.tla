------------------------------- MODULE MuxPump -------------------------------
(***************************************************************************)
(* The life of one physical daemonmux connection                           *)
(* (internal/adapters/daemonmux/pump.go): the reader and writer            *)
(* goroutines, the coalescing writer wake, the Flush barrier, the          *)
(* publish-once terminal outcome and Close.                                *)
(*                                                                         *)
(* The scheduler is the number of frames it holds and the engine its       *)
(* terminal outcome; what they do with a frame is MuxLink.  A mutex whose  *)
(* section is one step needs no variable.  termMu, whose section publishes *)
(* twice, is held exactly while the two publications differ.               *)
(***************************************************************************)
EXTENDS Naturals, FiniteSets

CONSTANTS
    MaxFrames,   \* bound: frames the senders get accepted
    Flusher      \* concurrent callers of Flush

ASSUME PumpAssumption == MaxFrames \in Nat

VARIABLES
    started, closed,   \* Start and Close took effect (under mu)
    stop,              \* progress of stopOnce: "no", "cancelled", "closed"
    broken,            \* the peer or the network ended the carrier
    term,              \* outcome published by the pump
    engineEnd,         \* outcome published by the engine
    pc,                \* reader, writer, closer
    verdict,           \* what each of them publishes
    queued, inflight,  \* frames in the scheduler, and being sent
    wake,              \* a token is pending in the wake channel
    sender,            \* where the concurrent Send stands
    flush,             \* where each Flush stands, and whether it was woken
    accepted, finished \* history: frames accepted, and sent, failed or dropped

vars == <<started, closed, stop, broken, term, engineEnd, pc, verdict, queued, inflight,
          wake, sender, flush, accepted, finished>>

run == <<started, closed, stop, broken>>
ends == <<term, engineEnd, verdict>>
work == <<queued, inflight, wake, sender, flush, accepted, finished>>

Actor == {"reader", "writer", "closer"}
Cancelled == stop # "no"
Idle == inflight = 0 /\ queued = 0

Init ==
    /\ started = FALSE /\ closed = FALSE /\ stop = "no" /\ broken = FALSE
    /\ term = "none" /\ engineEnd = "none"
    /\ pc = [a \in Actor |-> "new"]
    /\ verdict = [a \in Actor |-> "none"]
    /\ queued = 0 /\ inflight = 0 /\ wake = FALSE /\ sender = "no"
    /\ flush = [f \in Flusher |-> [at |-> "no", woken |-> FALSE, since |-> 0]]
    /\ accepted = 0 /\ finished = 0

Go(a, where) == pc' = [pc EXCEPT ![a] = where]

\* signalFlushLocked closes the channel every waiting Flush captured.
Wakened == [f \in Flusher |-> IF flush[f].at = "wait" THEN [flush[f] EXCEPT !.woken = TRUE] ELSE flush[f]]
SignalFlushIf(idle) == flush' = IF idle THEN Wakened ELSE flush

Start ==
    /\ ~started /\ ~closed
    /\ started' = TRUE
    /\ pc' = [pc EXCEPT !["reader"] = "receive", !["writer"] = "dequeue"]
    /\ UNCHANGED <<closed, stop, broken, ends, work>>

\* The peer vanishes, or the network does.
Break ==
    /\ ~broken
    /\ broken' = TRUE
    /\ UNCHANGED <<started, closed, stop, ends, pc, work>>

-----------------------------------------------------------------------------
(* Settlement: settleFailure, settleOrderly and stop, by any actor *)

Settle(a, outcome) ==
    /\ Go(a, "publish")
    /\ verdict' = [verdict EXCEPT ![a] = outcome]
    /\ UNCHANGED <<run, term, engineEnd, work>>

\* [mutant] a publisher does not look whether another one was first.
Publish_NotOnce(a) ==
    /\ pc[a] = "publish" /\ term = engineEnd
    /\ term' = IF term = "none" THEN verdict[a] ELSE term
    /\ engineEnd' = IF term = "none" THEN engineEnd ELSE verdict[a]
    /\ Go(a, IF term = "none" THEN "engine" ELSE "stop")
    /\ UNCHANGED <<run, verdict, work>>

Publish(a) ==
    /\ pc[a] = "publish" /\ term = engineEnd
    /\ term' = IF term = "none" THEN verdict[a] ELSE term
    /\ Go(a, IF term = "none" THEN "engine" ELSE "stop")
    /\ UNCHANGED <<run, engineEnd, verdict, work>>

PublishEngine(a) ==
    /\ pc[a] = "engine"
    /\ engineEnd' = verdict[a]
    /\ Go(a, "stop")
    /\ UNCHANGED <<run, term, verdict, work>>

\* Where an actor goes once its stop returned: a failed loop leaves, whose
\* deferred settleOrderly comes last.
AfterStop(a) ==
    IF a = "closer" THEN IF verdict[a] = "none" THEN "join" ELSE "gone"
    ELSE IF verdict[a] = "failed" THEN "leave" ELSE "gone"

\* stopOnce: the first caller cancels and closes, the others wait for it.
Stop(a) ==
    /\ pc[a] = "stop"
    /\ \/ stop = "no" /\ stop' = "cancelled" /\ Go(a, "closing")
       \/ stop = "closed" /\ UNCHANGED stop /\ Go(a, AfterStop(a))
    /\ UNCHANGED <<started, closed, broken, ends, work>>

CloseCarrier(a) ==
    /\ pc[a] = "closing"
    /\ stop' = "closed"
    /\ Go(a, AfterStop(a))
    /\ UNCHANGED <<started, closed, broken, ends, work>>

\* The deferred calls of readLoop and writeLoop: the done channel closes, then
\* settleOrderly runs.
Leave(a) == pc[a] = "leave" /\ Settle(a, "orderly")

\* An error is a failure only while the run context is not cancelled.
Judge(a) ==
    /\ pc[a] = "judge"
    /\ IF Cancelled
       THEN Go(a, "leave") /\ UNCHANGED <<run, ends, work>>
       ELSE Settle(a, "failed")

-----------------------------------------------------------------------------
(* The reader *)

\* Receive fails once the carrier broke or closed, or the context ended.
ReceiveError ==
    /\ pc["reader"] = "receive"
    /\ broken \/ Cancelled
    /\ Go("reader", "judge")
    /\ UNCHANGED <<run, ends, work>>

\* A malformed outer envelope is fatal to the connection.
ReceiveMalformed ==
    /\ pc["reader"] = "receive" /\ ~Cancelled
    /\ Settle("reader", "failed")

\* A peer Close or Reset drops what is queued for the stream.
ReceiveTerminal ==
    /\ pc["reader"] = "receive" /\ ~Cancelled
    /\ finished' = finished + queued
    /\ queued' = 0
    /\ Go("reader", "dropped")
    /\ UNCHANGED <<run, ends, inflight, wake, sender, flush, accepted>>

SignalDropped ==
    /\ pc["reader"] = "dropped"
    /\ SignalFlushIf(Idle)
    /\ Go("reader", "receive")
    /\ UNCHANGED <<run, ends, queued, inflight, wake, sender, accepted, finished>>

-----------------------------------------------------------------------------
(* The writer *)

\* [mutant] a dequeued frame is not counted in flight in the same section.
Dequeue_Uncounted ==
    /\ pc["writer"] = "dequeue"
    /\ IF queued > 0
       THEN /\ queued' = queued - 1 /\ UNCHANGED inflight
            /\ Go("writer", "send")
       ELSE /\ UNCHANGED <<queued, inflight>>
            /\ Go("writer", "empty")
    /\ UNCHANGED <<run, ends, wake, sender, flush, accepted, finished>>

Dequeue ==
    /\ pc["writer"] = "dequeue"
    /\ IF queued > 0
       THEN /\ queued' = queued - 1 /\ inflight' = 1
            /\ Go("writer", "send")
       ELSE /\ UNCHANGED <<queued, inflight>>
            /\ Go("writer", "empty")
    /\ UNCHANGED <<run, ends, wake, sender, flush, accepted, finished>>

\* carrier.Send returned, and the section that follows it.
Sent ==
    /\ pc["writer"] = "send"
    /\ \/ ~broken /\ stop # "closed" /\ Go("writer", "dequeue")
       \/ (broken \/ Cancelled) /\ Go("writer", "judge")
    /\ inflight' = 0
    /\ finished' = finished + 1
    /\ SignalFlushIf(queued = 0)
    /\ UNCHANGED <<run, ends, queued, wake, sender, accepted>>

WriterEmpty ==
    /\ pc["writer"] = "empty"
    /\ SignalFlushIf(Idle)
    /\ Go("writer", "blocked")
    /\ UNCHANGED <<run, ends, queued, inflight, wake, sender, accepted, finished>>

WriterWakes ==
    /\ pc["writer"] = "blocked"
    /\ \/ wake /\ wake' = FALSE /\ Go("writer", "dequeue")
       \/ Cancelled /\ UNCHANGED wake /\ Go("writer", "leave")
    /\ UNCHANGED <<run, ends, queued, inflight, sender, flush, accepted, finished>>

-----------------------------------------------------------------------------
(* Callers *)

\* Send: the terminal check, the scheduler and the wake are three sections.
SendChecks ==
    /\ sender = "no" /\ term = "none" /\ accepted < MaxFrames
    /\ sender' = "checked"
    /\ UNCHANGED <<run, ends, pc, queued, inflight, wake, flush, accepted, finished>>

SendQueues ==
    /\ sender = "checked"
    /\ sender' = "queued"
    /\ queued' = queued + 1 /\ accepted' = accepted + 1
    /\ UNCHANGED <<run, ends, pc, inflight, wake, flush, finished>>

\* [mutant] the writer is not woken.
SendSignals_NoWake ==
    /\ sender = "queued"
    /\ sender' = "no"
    /\ UNCHANGED <<run, ends, pc, queued, inflight, wake, flush, accepted, finished>>

SendSignals ==
    /\ sender = "queued"
    /\ sender' = "no"
    /\ wake' = TRUE
    /\ UNCHANGED <<run, ends, pc, queued, inflight, flush, accepted, finished>>

FlushBegins(f) ==
    /\ flush[f].at = "no"
    /\ flush' = [flush EXCEPT ![f] = [at |-> "check", woken |-> FALSE, since |-> accepted]]
    /\ UNCHANGED <<run, ends, pc, queued, inflight, wake, sender, accepted, finished>>

FlushChecks(f) ==
    /\ flush[f].at = "check"
    /\ flush' = [flush EXCEPT ![f].at = IF Idle THEN "flushed" ELSE "wait", ![f].woken = FALSE]
    /\ UNCHANGED <<run, ends, pc, queued, inflight, wake, sender, accepted, finished>>

FlushWakes(f) ==
    /\ flush[f].at = "wait"
    /\ \/ flush[f].woken /\ flush' = [flush EXCEPT ![f].at = "check"]
       \/ term # "none" /\ flush' = [flush EXCEPT ![f].at = IF Idle THEN "flushed" ELSE "ended"]
    /\ UNCHANGED <<run, ends, pc, queued, inflight, wake, sender, accepted, finished>>

CloseBegins ==
    /\ ~closed
    /\ closed' = TRUE
    /\ Go("closer", "stop")
    /\ UNCHANGED <<started, stop, broken, ends, work>>

LoopsDone == \A a \in {"reader", "writer"} : pc[a] \in {"publish", "engine", "stop", "closing", "gone"}
                                             /\ verdict[a] = "orderly"

\* Close joins the goroutines it knows of and publishes last.
CloseJoins ==
    /\ pc["closer"] = "join"
    /\ started => LoopsDone
    /\ Settle("closer", "orderly")

-----------------------------------------------------------------------------
\* What each goroutine of a pump does by itself: the carrier keeps its
\* contract, so Receive and Send return once it is closed or broken, and Send
\* otherwise completes.
Ends(a) == Publish(a) \/ PublishEngine(a) \/ Stop(a) \/ CloseCarrier(a) \/ Leave(a) \/ Judge(a)
Reads == Ends("reader") \/ ReceiveError \/ SignalDropped
Writes == Ends("writer") \/ Dequeue \/ Sent \/ WriterEmpty \/ WriterWakes
Closes == Ends("closer") \/ CloseJoins
Sends == SendQueues \/ SendSignals
Flushes(f) == FlushChecks(f) \/ FlushWakes(f)

Next ==
    \/ Start \/ Break \/ CloseBegins \/ ReceiveMalformed \/ ReceiveTerminal \/ SendChecks
    \/ Reads \/ Writes \/ Closes \/ Sends
    \/ \E f \in Flusher : FlushBegins(f) \/ Flushes(f)

Spec == Init /\ [][Next]_vars

\* Runnable goroutines run.
Fairness ==
    /\ WF_vars(Reads) /\ WF_vars(Writes) /\ WF_vars(Closes) /\ WF_vars(Sends)
    /\ \A f \in Flusher : WF_vars(Flushes(f))

FairSpec == Spec /\ Fairness

-----------------------------------------------------------------------------
(* What the pump promises *)

Outcome == {"none", "orderly", "failed"}

\* The places the goroutines may be and the counters they keep.
TypeOK ==
    /\ stop \in {"no", "cancelled", "closed"} /\ term \in Outcome /\ engineEnd \in Outcome
    /\ pc \in [Actor -> {"new", "receive", "dropped", "dequeue", "send", "empty", "blocked", "judge",
                         "leave", "publish", "engine", "stop", "closing", "join", "gone"}]
    /\ inflight \in 0 .. 1 /\ queued \in 0 .. MaxFrames
    /\ accepted = finished + queued + (IF pc["writer"] = "send" THEN 1 ELSE 0)

\* Done closes before the engine settles its streams, and both carry the same
\* outcome whoever published first.
DoneBeforeStreams == engineEnd # "none" => engineEnd = term

\* A Close that returned left nothing running: no goroutine receives or sends,
\* the carrier is closed and the outcome is published, also against a
\* concurrent Start or a failure in progress.
CloseLeavesNothing ==
    pc["closer"] = "gone" =>
        /\ stop = "closed" /\ term # "none" /\ engineEnd = term
        /\ pc["reader"] \notin {"receive", "dropped", "judge", "leave"}
        /\ pc["writer"] \notin {"dequeue", "send", "empty", "blocked", "judge", "leave"}

\* A Flush that returned nil waited for every frame accepted before it began.
FlushIsBarrier ==
    [][\A f \in Flusher : flush[f].at # "flushed" /\ flush'[f].at = "flushed"
                            => finished >= flush[f].since]_vars

\* A Flush waits on a started or closed pump, Close has not returned, or a
\* frame of a running pump is not written.
Owed ==
    \/ \E f \in Flusher : flush[f].at = "wait" /\ (started \/ closed)
    \/ closed /\ pc["closer"] # "gone"
    \/ started /\ queued > 0 /\ term = "none"

\* Whoever settles the connection first decides its outcome: Done closes with it
\* before the engine settles its streams with the same one, and a Close that
\* returned left no goroutine and no open carrier behind.
SettledInOrder == TypeOK /\ DoneBeforeStreams /\ CloseLeavesNothing

\* No wakeup of the pump is lost: Flush returns, Close returns whoever else
\* settles or fails at the same time, and an accepted frame is written unless
\* the connection ends.
PumpProgress == Owed ~> ~Owed
=============================================================================
