----------------------------- MODULE MuxListener -----------------------------
(***************************************************************************)
(* The daemon half of stream admission                                     *)
(* (internal/adapters/daemonmux/listener.go): the accept queue, the        *)
(* handshake deadline watchdog, Accept and Close, against a peer that may  *)
(* end any stream and a physical connection that may be lost.              *)
(*                                                                         *)
(* A stream is fresh, opening, open or ended; what the engine and the      *)
(* scheduler do with it in detail is StreamEngine and StreamScheduler.     *)
(* Every stream gets the same budget, so deadlines elapse in the order of  *)
(* admission.  Each section under the listener lock is one step, and so is *)
(* each engine or scheduler call.                                          *)
(***************************************************************************)
EXTENDS Naturals, Sequences, FiniteSets, SequencesExt

CONSTANTS
    MaxId,       \* bound: streams the peer opens
    QueueLimit   \* MaxAcceptQueue (128)

ASSUME ListenerAssumption == MaxId \in Nat /\ QueueLimit \in Nat \ {0}

Id == 1 .. MaxId
Actor == {"reader", "accept", "watchdog", "closer"}

VARIABLES
    st,          \* engine state of each stream
    sealed,      \* its outbound record took or dropped its terminal
    out,         \* frames queued towards the peer
    due,         \* its deadline elapsed
    active,      \* streams the watchdog tracks (l.active)
    queue,       \* admitted streams nobody accepted (l.queue)
    settled,     \* entries marked settled
    built,       \* streams with a ListenerConnection
    delivered,   \* how often Accept returned the stream
    complete,    \* its session handshake ran
    closed, done, lost,   \* l.closed, l.done, pump.Done
    accept,      \* where Accept stands: [at, id, woken]
    watchdog,    \* where watchLoop stands: [at, armed, woken]
    closer,      \* where Close stands
    todo,        \* streams an actor still has to abort
    telling      \* stream an actor has reset and must still tell the peer of, or 0

table == <<active, queue, settled, closed>>
vars == <<st, sealed, out, due, table, built, delivered, complete, done, lost,
          accept, watchdog, closer, todo, telling>>

Init ==
    /\ st = [id \in Id |-> "fresh"]
    /\ sealed = [id \in Id |-> FALSE] /\ out = [id \in Id |-> <<>>]
    /\ due = [id \in Id |-> FALSE]
    /\ active = {} /\ queue = <<>> /\ settled = {}
    /\ built = {} /\ delivered = [id \in Id |-> 0] /\ complete = {}
    /\ closed = FALSE /\ done = FALSE /\ lost = FALSE
    /\ accept = [at |-> "next", id |-> 0, woken |-> FALSE]
    /\ watchdog = [at |-> "scan", armed |-> 0, woken |-> FALSE]
    /\ closer = "no"
    /\ todo = [a \in Actor |-> {}] /\ telling = [a \in Actor |-> 0]

Live(id) == st[id] \in {"opening", "open"}
Free(a) == todo[a] = {} /\ telling[a] = 0
ToAbort(a, S) == todo' = [todo EXCEPT ![a] = S]

\* signalLocked: whoever captured the change channel wakes; moved is where
\* Accept goes in the same step.
Signal(moved) ==
    /\ accept' = [moved EXCEPT !.woken = TRUE]
    /\ watchdog' = [watchdog EXCEPT !.woken = TRUE]

-----------------------------------------------------------------------------
(* The peer, time and the physical connection *)

\* An Open arrives: onAdmitted queues it, or refuses it because its admission
\* is invalid, the listener is closed or the queue is full.
Admit(id, valid) ==
    /\ st[id] = "fresh" /\ \A i \in Id : i < id => st[i] # "fresh"
    /\ Free("reader") /\ ~lost
    /\ st' = [st EXCEPT ![id] = "opening"]
    /\ IF valid /\ ~closed /\ Len(queue) < QueueLimit
       THEN /\ queue' = Append(queue, id) /\ active' = active \cup {id}
            /\ Signal(accept)
            /\ UNCHANGED <<todo, settled, closed>>
       ELSE /\ ToAbort("reader", {id})
            /\ UNCHANGED <<table, accept, watchdog>>
    /\ UNCHANGED <<sealed, out, due, built, delivered, complete, done, lost, closer, telling>>

\* A Close or Reset of the peer, which also drops the outbound record.
PeerEnds(id) ==
    /\ Live(id) /\ Free("reader")
    /\ st' = [st EXCEPT ![id] = "ended"] /\ sealed' = [sealed EXCEPT ![id] = TRUE]
    /\ UNCHANGED <<out, due, table, built, delivered, complete, done, lost,
                   accept, watchdog, closer, todo, telling>>

Lose ==
    /\ ~lost
    /\ lost' = TRUE
    /\ st' = [id \in Id |-> IF Live(id) THEN "ended" ELSE st[id]]
    /\ UNCHANGED <<sealed, out, due, table, built, delivered, complete, done,
                   accept, watchdog, closer, todo, telling>>

DeadlineElapses(id) ==
    /\ st[id] # "fresh" /\ ~due[id] /\ \A i \in Id : i < id => due[i]
    /\ due' = [due EXCEPT ![id] = TRUE]
    /\ UNCHANGED <<st, sealed, out, table, built, delivered, complete, done, lost,
                   accept, watchdog, closer, todo, telling>>

-----------------------------------------------------------------------------
(* abort: the engine first, then one Reset *)

\* expireDue skips a stream that ended meanwhile.
AbortEngine(a, id) ==
    /\ id \in todo[a] /\ telling[a] = 0
    /\ ToAbort(a, todo[a] \ {id})
    /\ IF a = "watchdog" /\ ~Live(id)
       THEN UNCHANGED <<st, telling>>
       ELSE /\ st' = [st EXCEPT ![id] = "ended"]
            /\ telling' = [telling EXCEPT ![a] = id]
    /\ UNCHANGED <<sealed, out, due, table, built, delivered, complete, done, lost,
                   accept, watchdog, closer>>

AbortTells(a) ==
    /\ telling[a] # 0
    /\ LET id == telling[a]
           sends == ~sealed[id] /\ ~lost
       IN /\ out' = IF sends THEN [out EXCEPT ![id] = Append(@, "Reset")] ELSE out
          /\ sealed' = [sealed EXCEPT ![id] = @ \/ sends]
    /\ telling' = [telling EXCEPT ![a] = 0]
    /\ UNCHANGED <<st, due, table, built, delivered, complete, done, lost,
                   accept, watchdog, closer, todo>>

-----------------------------------------------------------------------------
(* Accept *)

Ready(id) == id \notin settled /\ Live(id)

\* nextAdmitted pops entries that ended and stops at the first live one.
AcceptNext ==
    LET usable == SelectSeq(queue, Ready)
        skipped == IF usable = <<>> THEN ToSet(queue)
                   ELSE {id \in ToSet(queue) : id < Head(usable)}
    IN /\ accept.at = "next" /\ Free("accept")
       /\ IF closed
          THEN /\ accept' = [accept EXCEPT !.at = "closed"] /\ UNCHANGED table
          ELSE /\ settled' = settled \cup skipped
               /\ active' = active \ skipped
               /\ UNCHANGED closed
               /\ IF usable # <<>>
                  THEN /\ queue' = SelectSeq(queue, LAMBDA id : id > Head(usable))
                       /\ accept' = [accept EXCEPT !.at = "claim", !.id = Head(usable)]
                  ELSE /\ queue' = <<>>
                       /\ accept' = [accept EXCEPT !.at = IF lost THEN "lost" ELSE "wait",
                                                   !.woken = FALSE]
       /\ UNCHANGED <<st, sealed, out, due, built, delivered, complete, done, lost,
                      watchdog, closer, todo, telling>>

AcceptWakes ==
    /\ accept.at = "wait" /\ (accept.woken \/ done \/ lost)
    /\ accept' = [accept EXCEPT !.at = "next"]
    /\ UNCHANGED <<st, sealed, out, due, table, built, delivered, complete, done, lost,
                   watchdog, closer, todo, telling>>

\* claimForDelivery
Claim ==
    LET id == accept.id
    IN /\ accept.at = "claim"
       /\ \/ /\ id \in settled
             /\ accept' = [accept EXCEPT !.at = "next"]
             /\ UNCHANGED <<table, watchdog, todo>>
          \/ /\ id \notin settled /\ (closed \/ due[id])
             /\ settled' = settled \cup {id} /\ active' = active \ {id}
             /\ Signal([accept EXCEPT !.at = "next"])
             /\ ToAbort("accept", {id})
             /\ UNCHANGED <<queue, closed>>
          \/ /\ id \notin settled /\ ~closed /\ ~due[id]
             /\ accept' = [accept EXCEPT !.at = "confirm"]
             /\ UNCHANGED <<table, watchdog, todo>>
       /\ UNCHANGED <<st, sealed, out, due, built, delivered, complete, done, lost, closer, telling>>

\* finishStream for a stream the watchdog may track.
Finish(id, moved) ==
    IF id \in active
    THEN /\ active' = active \ {id} /\ settled' = settled \cup {id}
         /\ Signal(moved)
         /\ UNCHANGED <<queue, closed>>
    ELSE /\ accept' = moved
         /\ UNCHANGED <<table, watchdog>>

\* deliver: the engine confirms the stream and its connection is built.
Confirm ==
    LET id == accept.id
    IN /\ accept.at = "confirm"
       /\ IF st[id] = "opening"
          THEN /\ st' = [st EXCEPT ![id] = "open"] /\ built' = built \cup {id}
               /\ accept' = [accept EXCEPT !.at = "announce"]
               /\ UNCHANGED <<table, watchdog>>
          ELSE /\ Finish(id, [accept EXCEPT !.at = "next"])
               /\ UNCHANGED <<st, built>>
       /\ UNCHANGED <<sealed, out, due, delivered, complete, done, lost, closer, todo, telling>>


\* deliver: the peer is told.  If that fails the connection is closed again,
\* which settles whatever is left of the stream.
Announce ==
    LET id == accept.id
    IN /\ accept.at = "announce"
       /\ IF st[id] = "open" /\ ~sealed[id] /\ ~lost
          THEN /\ out' = [out EXCEPT ![id] = Append(@, "Opened")]
               /\ delivered' = [delivered EXCEPT ![id] = @ + 1]
               /\ accept' = [accept EXCEPT !.at = "next"]
               /\ UNCHANGED <<st, sealed, table, watchdog>>
          ELSE /\ st' = [st EXCEPT ![id] = "ended"]
               /\ out' = IF sealed[id] \/ lost THEN out ELSE [out EXCEPT ![id] = Append(@, "Close")]
               /\ sealed' = [sealed EXCEPT ![id] = TRUE]
               /\ Finish(id, [accept EXCEPT !.at = "next"])
               /\ UNCHANGED delivered
       /\ UNCHANGED <<due, built, complete, done, lost, closer, todo, telling>>

-----------------------------------------------------------------------------
(* The connections *)

\* OnHandshakeComplete runs finishStream.
HandshakeRuns(id) ==
    /\ id \in built \ complete
    /\ complete' = complete \cup {id}
    /\ Finish(id, accept)
    /\ UNCHANGED <<st, sealed, out, due, built, delivered, done, lost, closer, todo, telling>>

\* ListenerConnection.watch ends with finishStream when the stream ended.
ConnectionEnds(id) ==
    /\ id \in built \cap active /\ ~Live(id)
    /\ Finish(id, accept)
    /\ UNCHANGED <<st, sealed, out, due, built, delivered, complete, done, lost, closer, todo, telling>>

-----------------------------------------------------------------------------
(* The watchdog *)

Earliest == IF active = {} THEN 0 ELSE CHOOSE id \in active : \A i \in active : id <= i

WatchScan ==
    /\ watchdog.at = "scan" /\ Free("watchdog")
    /\ watchdog' = [at |-> "wait", armed |-> Earliest, woken |-> FALSE]
    /\ UNCHANGED <<st, sealed, out, due, table, built, delivered, complete, done, lost,
                   accept, closer, todo, telling>>

\* expireDue
WatchFires ==
    LET expired == {id \in active : due[id]}
    IN /\ watchdog.at = "wait" /\ watchdog.armed # 0 /\ due[watchdog.armed]
       /\ active' = active \ expired
       /\ settled' = settled \cup expired
       /\ queue' = SelectSeq(queue, LAMBDA id : id \notin expired)
       /\ accept' = [accept EXCEPT !.woken = @ \/ expired # {}]
       /\ ToAbort("watchdog", expired)
       /\ watchdog' = [watchdog EXCEPT !.at = "scan"]
       /\ UNCHANGED <<st, sealed, out, due, closed, built, delivered, complete, done, lost, closer, telling>>

WatchWakes ==
    /\ watchdog.at = "wait"
    /\ \/ watchdog.woken /\ watchdog' = [watchdog EXCEPT !.at = "scan"]
       \/ (done \/ lost) /\ watchdog' = [watchdog EXCEPT !.at = "gone"]
    /\ UNCHANGED <<st, sealed, out, due, table, built, delivered, complete, done, lost,
                   accept, closer, todo, telling>>

-----------------------------------------------------------------------------
(* Close *)

\* [mutant] Close forgets the streams nobody accepted.
CloseDrains_Forgets ==
    /\ closer = "no"
    /\ closer' = "abort"
    /\ closed' = TRUE
    /\ queue' = <<>>
    /\ settled' = settled \cup ToSet(queue)
    /\ active' = active \ ToSet(queue)
    /\ Signal(accept)
    /\ UNCHANGED <<todo, st, sealed, out, due, built, delivered, complete, done, lost, telling>>

CloseDrains ==
    /\ closer = "no"
    /\ closer' = "abort"
    /\ closed' = TRUE
    /\ queue' = <<>>
    /\ settled' = settled \cup ToSet(queue)
    /\ active' = active \ ToSet(queue)
    /\ Signal(accept)
    /\ ToAbort("closer", ToSet(queue))
    /\ UNCHANGED <<st, sealed, out, due, built, delivered, complete, done, lost, telling>>

CloseSignals ==
    /\ closer = "abort" /\ Free("closer")
    /\ closer' = "join" /\ done' = TRUE
    /\ UNCHANGED <<st, sealed, out, due, table, built, delivered, complete, lost,
                   accept, watchdog, todo, telling>>

CloseReturns ==
    /\ closer = "join" /\ watchdog.at = "gone"
    /\ closer' = "returned"
    /\ UNCHANGED <<st, sealed, out, due, table, built, delivered, complete, done, lost,
                   accept, watchdog, todo, telling>>

-----------------------------------------------------------------------------
Next ==
    \/ \E id \in Id, valid \in BOOLEAN : Admit(id, valid)
    \/ \E id \in Id : PeerEnds(id) \/ DeadlineElapses(id) \/ HandshakeRuns(id) \/ ConnectionEnds(id)
    \/ \E a \in Actor : AbortTells(a) \/ \E id \in Id : AbortEngine(a, id)
    \/ Lose
    \/ AcceptNext \/ AcceptWakes \/ Claim \/ Confirm \/ Announce
    \/ WatchScan \/ WatchFires \/ WatchWakes
    \/ CloseDrains \/ CloseSignals \/ CloseReturns

Spec == Init /\ [][Next]_vars

Aborts(a) == AbortTells(a) \/ \E id \in Id : AbortEngine(a, id)

\* What runs by itself: time and the goroutines; peers, sessions and owners need
\* not act.
Proceeds ==
    \/ \E id \in Id : DeadlineElapses(id) \/ ConnectionEnds(id)
    \/ \E a \in Actor : Aborts(a)
    \/ AcceptNext \/ AcceptWakes \/ Claim \/ Confirm \/ Announce
    \/ WatchScan \/ WatchFires \/ WatchWakes
    \/ CloseSignals \/ CloseReturns

\* The scheduler runs every goroutine that can go on.  The streams are finitely
\* many, so it is enough to assume that not all of them stop.
Fairness == WF_vars(Proceeds)

FairSpec == Spec /\ Fairness

-----------------------------------------------------------------------------
(* What the listener promises *)

\* The listener's tables and actors.
TypeOK ==
    /\ st \in [Id -> {"fresh", "opening", "open", "ended"}]
    /\ active \subseteq Id /\ settled \subseteq Id /\ built \subseteq Id /\ complete \subseteq built
    /\ queue \in Seq(Id) /\ Len(queue) <= QueueLimit
    /\ accept.at \in {"next", "wait", "claim", "confirm", "announce", "closed", "lost"}
    /\ watchdog.at \in {"scan", "wait", "gone"}
    /\ closer \in {"no", "abort", "join", "returned"}

\* The accept queue and the watchdog's table never disagree: what waits in the
\* queue is tracked and unsettled, in the order of admission, and what is
\* tracked is not settled.
TablesAgree ==
    /\ active \cap settled = {}
    /\ ToSet(queue) \subseteq active
    /\ \A i, j \in DOMAIN queue : i < j => queue[i] < queue[j]

\* Accept returns a stream at most once, and never one that was refused,
\* expired or drained before the peer was told that it is open.
DeliveredOnce ==
    \A id \in Id : /\ delivered[id] <= 1
                   /\ delivered[id] = 1 => out[id] # <<>> /\ Head(out[id]) = "Opened"

\* "A stream that finished its handshake is never expired afterwards": the
\* watchdog resets no stream whose handshake has completed.
CompletedNeverExpired ==
    [][\A id \in complete : telling'["watchdog"] = id => telling["watchdog"] = id]_vars

\* An admitted stream is unanswered, a delivered one has not completed its
\* handshake while the listener is open, or Close has not returned.
Pending ==
    \/ \E id \in Id : st[id] = "opening" \/ (st[id] = "open" /\ id \notin complete /\ ~closed)
    \/ closed /\ closer # "returned"


\* Nobody is left waiting: every admitted Open is answered, whether Accept, the
\* watchdog, Close, the peer or the loss of the connection gets to it, a stream
\* that never completes its handshake does not outlive its deadline, and Close
\* returns.
ListenerProgress == Pending ~> ~Pending
=============================================================================
