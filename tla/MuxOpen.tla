------------------------------- MODULE MuxOpen -------------------------------
(***************************************************************************)
(* Opening logical streams from the broker: LogicalConnector.Open          *)
(* (internal/adapters/daemonmux/logical_conn.go) over the pump's reader    *)
(* and its per-stream watch channels (pump.go).  Opens run concurrently.   *)
(* Each reserves an identity, sends its Open, and waits on the watch       *)
(* channel for the answer, the end of its context or of the connection.    *)
(*                                                                         *)
(* The frames of one stream stay in order in each direction; nothing is    *)
(* assumed about the order of frames of different streams.  A stream that  *)
(* was opened stays open unless the peer resets it: its later life is      *)
(* module MuxLink.                                                         *)
(***************************************************************************)
EXTENDS Naturals, Sequences, FiniteSets

CONSTANTS
    Opener,       \* concurrent calls of Open
    MaxStreams,   \* negotiated stream ceiling
    MayCancel,    \* the contexts of the calls may end
    Answers       \* the frames the peer answers with

Id == 1 .. Cardinality(Opener)

VARIABLES
    next,       \* last identity allocated (LogicalConnector.next)
    st,         \* engine state of each identity at the broker
    lost,       \* physical failure: "no", then "done", then "settled"
    sealed,     \* identities whose scheduler record takes no further frame
    out, in,    \* frames of each stream towards the daemon and back
    daemon,     \* the daemon's record: "none", "asked", "opened", "ended"
    reader,     \* the frame the reader is applying: [at, id, refused]
    watched,    \* identities with an entry in the pump's watch table
    op,         \* where each Open stands
    id,         \* its identity, 0 before it is allocated
    channel,    \* the channel it holds: "none", "settled", "live", "fired"
    cancelled   \* the calls whose context ended

conn == <<next, st, lost>>
net == <<sealed, out, in, daemon>>
call == <<op, id, channel, cancelled>>
vars == <<conn, net, reader, watched, call>>

Idle == [at |-> "receive", id |-> 0, refused |-> FALSE]

Init ==
    /\ next = 0 /\ st = [i \in Id |-> "future"] /\ lost = "no"
    /\ sealed = {} /\ daemon = [i \in Id |-> "none"]
    /\ out = [i \in Id |-> <<>>] /\ in = [i \in Id |-> <<>>]
    /\ reader = Idle
    /\ watched = {}
    /\ op = [o \in Opener |-> "new"] /\ id = [o \in Opener |-> 0]
    /\ channel = [o \in Opener |-> "none"] /\ cancelled = {}

Live(i) == st[i] \in {"opening", "open"}
LiveIds == {i \in Id : Live(i)}
Go(o, where) == op' = [op EXCEPT ![o] = where]

\* The engine's Reset: a settled stream stays as it is.
Settle(i) == st' = [st EXCEPT ![i] = IF Live(i) THEN "ended" ELSE @]

\* A Reset is queued behind the stream's earlier frames unless the scheduler
\* record is already sealed.
TellReset(i) ==
    /\ sealed' = sealed \cup {i}
    /\ out' = IF i \in sealed THEN out ELSE [out EXCEPT ![i] = Append(@, "Reset")]

-----------------------------------------------------------------------------
(* reserve, which holds openMu from the allocation to the answer of Send *)

Reserving(o) == op[o] \in {"send", "sendFailed"}

Reserve(o) ==
    LET i == next + 1
        admitted == lost # "settled" /\ Cardinality(LiveIds) < MaxStreams
    IN /\ op[o] = "new" /\ \A p \in Opener : ~Reserving(p)
       /\ next' = i /\ id' = [id EXCEPT ![o] = i]
       /\ st' = IF admitted THEN [st EXCEPT ![i] = "opening"] ELSE st
       /\ Go(o, IF admitted THEN "send" ELSE "failed")
       /\ UNCHANGED <<lost, net, reader, watched, channel, cancelled>>

\* Send queues the Open, or the connection already ended, or the outbound
\* queue is full: the overflow settles the stream and queues its Reset.
SendOpen(o) ==
    /\ op[o] = "send"
    /\ \/ /\ lost = "no"
          /\ out' = [out EXCEPT ![id[o]] = Append(@, "Open")]
          /\ Go(o, "watch") /\ UNCHANGED <<sealed, st>>
       \/ /\ lost = "no"
          /\ Settle(id[o]) /\ TellReset(id[o]) /\ Go(o, "sendFailed")
       \/ /\ lost # "no"
          /\ Go(o, "sendFailed") /\ UNCHANGED <<sealed, out, st>>
    /\ UNCHANGED <<next, lost, in, daemon, reader, watched, id, channel, cancelled>>

-----------------------------------------------------------------------------
(* awaitOpened *)

\* Pump.Watch
Watch(o) ==
    /\ op[o] = "watch"
    /\ channel' = [channel EXCEPT ![o] = IF Live(id[o]) THEN "live" ELSE "settled"]
    /\ watched' = IF Live(id[o]) THEN watched \cup {id[o]} ELSE watched \ {id[o]}
    /\ Go(o, "status")
    /\ UNCHANGED <<conn, net, reader, id, cancelled>>

Status(o) ==
    /\ op[o] = "status"
    /\ Go(o, CASE st[id[o]] = "open"  -> "opened"
               [] st[id[o]] = "ended" -> "release"
               [] OTHER               -> "wait")
    /\ UNCHANGED <<conn, net, reader, watched, id, channel, cancelled>>

\* [mutant] a wake is taken for the confirmation, without reading the status.
Select_NoRecheck(o) ==
    /\ op[o] = "wait"
    /\ \/ channel[o] = "fired" /\ Go(o, "opened")
       \/ (o \in cancelled \/ lost # "no") /\ Go(o, "release")
    /\ UNCHANGED <<conn, net, reader, watched, id, channel, cancelled>>

\* The select: any ready case may be taken.  The end of the connection is an
\* error even for a stream that was just confirmed.
Select(o) ==
    /\ op[o] = "wait"
    /\ \/ channel[o] = "fired" /\ Go(o, "watch")
       \/ (o \in cancelled \/ lost # "no") /\ Go(o, "release")
    /\ UNCHANGED <<conn, net, reader, watched, id, channel, cancelled>>

-----------------------------------------------------------------------------
(* The error path of Open *)

ReleaseWatch(o) ==
    /\ op[o] = "release"
    /\ watched' = watched \ {id[o]}
    /\ Go(o, "abort")
    /\ UNCHANGED <<conn, net, reader, id, channel, cancelled>>

\* abortReserved settles the engine record, then sends a best-effort Reset.
AbortReserved(o) ==
    /\ op[o] \in {"abort", "sendFailed"}
    /\ Settle(id[o])
    /\ Go(o, "tell")
    /\ UNCHANGED <<next, lost, net, reader, watched, id, channel, cancelled>>

\* [mutant] the peer is not told that the reservation was dropped.
AbortTells_Silent(o) ==
    /\ op[o] = "tell"
    /\ Go(o, "failed")
    /\ UNCHANGED <<conn, net, reader, watched, id, channel, cancelled>>

AbortTells(o) ==
    /\ op[o] = "tell"
    /\ IF lost = "no" THEN TellReset(id[o]) ELSE UNCHANGED <<sealed, out>>
    /\ Go(o, "failed")
    /\ UNCHANGED <<conn, in, daemon, reader, watched, id, channel, cancelled>>

\* The context of a running call ends.
Cancel(o) ==
    /\ MayCancel /\ op[o] \notin {"opened", "failed"} /\ o \notin cancelled
    /\ cancelled' = cancelled \cup {o}
    /\ UNCHANGED <<conn, net, reader, watched, op, id, channel>>

-----------------------------------------------------------------------------
(* The peer *)

DaemonTakes(i) ==
    /\ lost = "no" /\ out[i] # <<>>
    /\ out' = [out EXCEPT ![i] = Tail(@)]
    /\ daemon' = [daemon EXCEPT ![i] =
           CASE Head(out[i]) = "Open" -> "asked"
             [] @ = "none" -> "none"
             [] OTHER -> "ended"]
    /\ UNCHANGED <<conn, sealed, in, reader, watched, call>>

DaemonAnswers(i, f) ==
    /\ lost = "no"
    /\ daemon[i] = "asked" \/ (daemon[i] = "opened" /\ f = "Reset")
    /\ in' = [in EXCEPT ![i] = Append(@, f)]
    /\ daemon' = [daemon EXCEPT ![i] = IF f \in {"Opened", "OpenedOtherRef"} THEN "opened" ELSE "ended"]
    /\ UNCHANGED <<conn, sealed, out, reader, watched, call>>

-----------------------------------------------------------------------------
(* The reader *)

\* An Opened or a Refused is refused by the engine unless the stream is opening
\* and the reference matches.  A Reset that settles the stream also seals its
\* outbound record.
Receive(i) ==
    /\ reader.at = "receive" /\ in[i] # <<>>
    /\ LET f == Head(in[i])
           legal == f = "Reset" \/ (st[i] = "opening" /\ f # "OpenedOtherRef")
       IN /\ in' = [in EXCEPT ![i] = Tail(@)]
          /\ st' = [st EXCEPT ![i] = IF ~legal \/ ~Live(i) THEN @
                                     ELSE IF f = "Opened" THEN "open" ELSE "ended"]
          /\ sealed' = IF f = "Reset" /\ Live(i) THEN sealed \cup {i} ELSE sealed
          /\ reader' = [at |-> "signal", id |-> i, refused |-> ~legal]
    /\ UNCHANGED <<next, lost, out, daemon, watched, call>>

\* signalWatch closes and replaces the channel.
SignalWatch ==
    /\ reader.at = "signal"
    /\ channel' = [o \in Opener |->
           IF id[o] = reader.id /\ reader.id \in watched /\ channel[o] = "live"
           THEN "fired" ELSE channel[o]]
    /\ reader' = IF reader.refused THEN [reader EXCEPT !.at = "isolate"] ELSE Idle
    /\ UNCHANGED <<conn, net, watched, op, id, cancelled>>

\* applyStreamError isolates the refused stream after it signalled the watch.
ScheduleReset ==
    /\ reader.at = "isolate"
    /\ Settle(reader.id) /\ TellReset(reader.id)
    /\ reader' = Idle
    /\ UNCHANGED <<next, lost, in, daemon, watched, call>>

\* settleFailure: Done closes, then the engine settles every stream.
Fail ==
    /\ lost = "no" /\ lost' = "done"
    /\ UNCHANGED <<next, st, net, reader, watched, call>>

FailStreams ==
    /\ lost = "done" /\ lost' = "settled"
    /\ st' = [i \in Id |-> IF Live(i) THEN "ended" ELSE st[i]]
    /\ UNCHANGED <<next, net, reader, watched, call>>

-----------------------------------------------------------------------------
Steps(o) ==
    \/ SendOpen(o) \/ Watch(o) \/ Status(o) \/ Select(o)
    \/ ReleaseWatch(o) \/ AbortReserved(o) \/ AbortTells(o)
Reads == (\E i \in Id : Receive(i)) \/ SignalWatch \/ ScheduleReset

Next ==
    \/ \E o \in Opener : Reserve(o) \/ Steps(o) \/ Cancel(o)
    \/ \E i \in Id : DaemonTakes(i) \/ \E f \in Answers : DaemonAnswers(i, f)
    \/ Reads \/ Fail \/ FailStreams

Spec == Init /\ [][Next]_vars

\* The calls, the reader, the writer and the settlement of a failure run.  The
\* peer need not answer, a context need not end, the connection need not fail.
\* The calls are finitely many, so it is enough that not all of these stop.
Proceeds ==
    \/ \E o \in Opener : Steps(o)
    \/ Reads \/ FailStreams
    \/ \E i \in Id : DaemonTakes(i)

Fairness == WF_vars(Proceeds)

FairSpec == Spec /\ Fairness

-----------------------------------------------------------------------------
(* What Open promises *)

\* The engine holds at most the negotiated number of live streams, and a call
\* is at one of the steps of Open.
TypeOK ==
    /\ next \in 0 .. Cardinality(Opener) /\ id \in [Opener -> 0 .. next]
    /\ st \in [Id -> {"future", "opening", "open", "ended"}]
    /\ daemon \in [Id -> {"none", "asked", "opened", "ended"}]
    /\ op \in [Opener -> {"new", "send", "sendFailed", "watch", "status", "wait",
                          "release", "abort", "tell", "opened", "failed"}]
    /\ channel \in [Opener -> {"none", "settled", "live", "fired"}]
    /\ watched \subseteq Id /\ sealed \subseteq Id
    /\ Cardinality(LiveIds) <= MaxStreams

\* An Open that returned an error, whichever of its answer, its context and the
\* loss of the connection came first, holds no admission slot and leaves no
\* entry in the watch table.
FailureReleases ==
    \A o \in Opener : op[o] = "failed" => ~Live(id[o]) /\ id[o] \notin watched

\* Open returns a connection only for a stream the daemon confirmed under the
\* reference that was sent, and that the daemon had opened.
SuccessConfirmed ==
    \A o \in Opener : op[o] = "opened" =>
        st[id[o]] \in {"open", "ended"} /\ daemon[id[o]] \in {"opened", "ended"}
            /\ (st[id[o]] = "ended" => lost = "settled" \/ id[o] \in sealed)

\* An Open waits although its stream is confirmed, refused or settled, or it
\* failed and the daemon still has its stream.
Unreleased ==
    \E o \in Opener :
        \/ op[o] = "wait" /\ st[id[o]] # "opening"
        \/ op[o] = "failed" /\ daemon[id[o]] \in {"asked", "opened"} /\ lost = "no"

\* What Open returned is true: a failed call holds nothing on this side, a
\* successful one was confirmed by the daemon.
OpenResults == TypeOK /\ FailureReleases /\ SuccessConfirmed

\* An Open whose answer arrived stops waiting without the help of its context,
\* and a stream whose Open failed at the broker does not stay with the daemon:
\* the Reset follows an Open that was sent, even when its answer crosses it.
OpenProgress == Unreleased ~> ~Unreleased
=============================================================================
