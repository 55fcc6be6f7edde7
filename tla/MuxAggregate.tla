----------------------------- MODULE MuxAggregate -----------------------------
(***************************************************************************)
(* AggregateListener (internal/adapters/daemonmux/aggregate.go): one       *)
(* accept stream over several physical listeners.  Each registered child   *)
(* has one forwarding goroutine, which moves connections from the child    *)
(* into a bounded queue; one condition variable serves the forwarders      *)
(* waiting for space and the accept loop waiting for a connection.         *)
(***************************************************************************)
EXTENDS Naturals, Sequences, FiniteSets

CONSTANTS
    Child,      \* physical listeners, each registered at most once
    Limit,      \* queue bound (MaxAggregateQueue), at least one
    MaxConn     \* bound: connections one child yields

Conn == Child \X (1 .. MaxConn)
acceptor == "acceptor"

LOCAL INSTANCE SequencesExt

VARIABLES
    children,   \* registry
    quit,       \* children whose quit channel is closed
    listener,   \* each child's own listener: "new", "open", "lost", "closed"
    fwd,        \* where each forwarder stands
    taken,      \* how many connections each child yielded
    queue,      \* accepted but undelivered connections
    closed,     \* the aggregate was closed
    waiting,    \* who is parked on the condition variable
    ended,      \* the accept loop saw ErrAggregateClosed
    remover,    \* where Remove of each child stands
    closer,     \* where Close stands: [at, children, queued]
    delivered,  \* connections handed to the daemon, in order
    released    \* connections closed by the aggregate

vars == <<children, quit, listener, fwd, taken, queue, closed, waiting, ended,
          remover, closer, delivered, released>>

Init ==
    /\ children = {} /\ quit = {} /\ queue = <<>> /\ closed = FALSE
    /\ listener = [c \in Child |-> "new"] /\ fwd = [c \in Child |-> "none"]
    /\ taken = [c \in Child |-> 0]
    /\ waiting = {} /\ ended = FALSE
    /\ remover = [c \in Child |-> "no"]
    /\ closer = [at |-> "no", children |-> {}, queued |-> <<>>]
    /\ delivered = <<>> /\ released = {}

Step(c, where) == fwd' = [fwd EXCEPT ![c] = where]
InHand(c) == <<c, taken[c]>>
Broadcast == waiting' = {}

-----------------------------------------------------------------------------
Register(c) ==
    /\ ~closed /\ c \notin children /\ listener[c] = "new"
    /\ children' = children \cup {c}
    /\ listener' = [listener EXCEPT ![c] = "open"]
    /\ Step(c, "accept")
    /\ UNCHANGED <<quit, taken, queue, closed, waiting, ended, remover, closer, delivered, released>>

\* The child's Accept, which the forwarder blocks in.
ChildAccepts(c) ==
    /\ fwd[c] = "accept"
    /\ \/ /\ listener[c] = "open" /\ taken[c] < MaxConn
          /\ taken' = [taken EXCEPT ![c] = @ + 1]
          /\ Step(c, "enqueue")
       \/ /\ listener[c] \in {"lost", "closed"}
          /\ Step(c, "deregister") /\ UNCHANGED taken
    /\ UNCHANGED <<children, quit, listener, queue, closed, waiting, ended, remover, closer, delivered, released>>

\* The physical connection of a child is lost.
ChildLost(c) ==
    /\ listener[c] = "open"
    /\ listener' = [listener EXCEPT ![c] = "lost"]
    /\ UNCHANGED <<children, quit, fwd, taken, queue, closed, waiting, ended, remover, closer, delivered, released>>

Stopped(c) == closed \/ c \in quit

\* enqueue, and the release of a connection it did not take.
Enqueue(c) ==
    /\ fwd[c] = "enqueue" /\ c \notin waiting
    /\ \/ /\ Stopped(c)
          /\ released' = released \cup {InHand(c)}
          /\ Step(c, "deregister") /\ UNCHANGED <<queue, waiting>>
       \/ /\ ~Stopped(c) /\ Len(queue) >= Limit
          /\ waiting' = waiting \cup {c} /\ UNCHANGED <<queue, released, fwd>>
       \/ /\ ~Stopped(c) /\ Len(queue) < Limit
          /\ queue' = Append(queue, InHand(c)) /\ Broadcast
          /\ Step(c, "accept") /\ UNCHANGED released
    /\ UNCHANGED <<children, quit, listener, taken, closed, ended, remover, closer, delivered>>

Deregister(c) ==
    /\ fwd[c] = "deregister"
    /\ children' = children \ {c}
    /\ Step(c, "done")
    /\ UNCHANGED <<quit, listener, taken, queue, closed, waiting, ended, remover, closer, delivered, released>>

-----------------------------------------------------------------------------
\* The daemon's accept loop calls Accept until the aggregate is closed.  The
\* pop does not touch the condition variable.
Accept ==
    /\ acceptor \notin waiting /\ ~ended
    /\ \/ /\ queue # <<>>
          /\ delivered' = Append(delivered, Head(queue)) /\ queue' = Tail(queue)
          /\ UNCHANGED <<waiting, ended>>
       \/ /\ queue = <<>> /\ closed /\ ended' = TRUE /\ UNCHANGED <<waiting, queue, delivered>>
       \/ /\ queue = <<>> /\ ~closed
          /\ waiting' = waiting \cup {acceptor} /\ UNCHANGED <<ended, queue, delivered>>
    /\ UNCHANGED <<children, quit, listener, fwd, taken, closed, remover, closer, released>>

-----------------------------------------------------------------------------

RemoveChild(c) ==
    /\ c \in children /\ remover[c] = "no"
    /\ children' = children \ {c} /\ quit' = quit \cup {c}
    /\ Broadcast
    /\ remover' = [remover EXCEPT ![c] = "close"]
    /\ UNCHANGED <<listener, fwd, taken, queue, closed, ended, closer, delivered, released>>

RemoveCloses(c) ==
    /\ remover[c] = "close"
    /\ listener' = [listener EXCEPT ![c] = "closed"]
    /\ remover' = [remover EXCEPT ![c] = "join"]
    /\ UNCHANGED <<children, quit, fwd, taken, queue, closed, waiting, ended, closer, delivered, released>>

RemoveJoins(c) ==
    /\ remover[c] = "join" /\ fwd[c] = "done"
    /\ remover' = [remover EXCEPT ![c] = "returned"]
    /\ UNCHANGED <<children, quit, listener, fwd, taken, queue, closed, waiting, ended, closer, delivered, released>>

-----------------------------------------------------------------------------
\* [mutant] the queued connections are dropped without being closed.
Close_DropsQueue ==
    /\ closer.at = "no"
    /\ closed' = TRUE /\ queue' = <<>> /\ children' = {}
    /\ closer' = [at |-> "children", children |-> children, queued |-> <<>>]
    /\ Broadcast
    /\ UNCHANGED <<quit, listener, fwd, taken, ended, remover, delivered, released>>

Close ==
    /\ closer.at = "no"
    /\ closed' = TRUE /\ queue' = <<>> /\ children' = {}
    /\ closer' = [at |-> "children", children |-> children, queued |-> queue]
    /\ Broadcast
    /\ UNCHANGED <<quit, listener, fwd, taken, ended, remover, delivered, released>>

CloseChildren ==
    /\ closer.at = "children"
    /\ listener' = [c \in Child |-> IF c \in closer.children THEN "closed" ELSE listener[c]]
    /\ closer' = [closer EXCEPT !.at = "join"]
    /\ UNCHANGED <<children, quit, fwd, taken, queue, closed, waiting, ended, remover, delivered, released>>

\* Close joins the forwarders of the children it found, then closes what was
\* queued.
CloseJoins ==
    /\ closer.at = "join" /\ \A c \in closer.children : fwd[c] = "done"
    /\ released' = released \cup ToSet(closer.queued)
    /\ closer' = [at |-> "returned", children |-> {}, queued |-> <<>>]
    /\ UNCHANGED <<children, quit, listener, fwd, taken, queue, closed, waiting, ended, remover, delivered>>

-----------------------------------------------------------------------------
Forward(c) == ChildAccepts(c) \/ Enqueue(c) \/ Deregister(c)
Removes(c) == RemoveCloses(c) \/ RemoveJoins(c)
Closes == CloseChildren \/ CloseJoins

Next ==
    \/ \E c \in Child : Register(c) \/ ChildLost(c) \/ Forward(c) \/ RemoveChild(c) \/ Removes(c)
    \/ Accept \/ Close \/ Closes

Spec == Init /\ [][Next]_vars

\* Goroutines run and the daemon keeps accepting.  Nothing obliges a child to
\* be registered, lost or removed, or the aggregate to be closed.
FairSpec ==
    /\ Spec
    /\ WF_vars(Accept) /\ WF_vars(Closes)
    /\ \A c \in Child : WF_vars(Forward(c)) /\ WF_vars(Removes(c))

-----------------------------------------------------------------------------
(* What the aggregate promises *)

Holds(c) == fwd[c] = "enqueue"
Held == {InHand(c) : c \in {d \in Child : Holds(d)}}
Taken == {x \in Conn : x[2] <= taken[x[1]]}

\* Types and the documented memory bound: the queue, plus one connection in the
\* hand of each forwarder.
TypeOK ==
    /\ children \subseteq Child /\ quit \subseteq Child
    /\ listener \in [Child -> {"new", "open", "lost", "closed"}]
    /\ fwd \in [Child -> {"none", "accept", "enqueue", "deregister", "done"}]
    /\ taken \in [Child -> 0 .. MaxConn]
    /\ waiting \subseteq Child \cup {acceptor}
    /\ Len(queue) <= Limit

\* Every connection taken from a child is in exactly one place: held by its
\* forwarder, queued, set aside by Close, delivered, or closed.
ConnectionsAccounted ==
    LET places == <<Held, ToSet(queue), ToSet(closer.queued), ToSet(delivered), released>>
    IN /\ UNION ToSet(places) = Taken
       /\ \A a, b \in 1 .. Len(places) : a # b => places[a] \cap places[b] = {}
       /\ Cardinality(ToSet(queue \o delivered)) = Len(queue \o delivered)

\* The daemon receives the connections of one child in the order they arrived.
DeliveredInOrder ==
    \A i, j \in 1 .. Len(delivered) :
        i < j /\ delivered[i][1] = delivered[j][1] => delivered[i][2] < delivered[j][2]

\* Once Close returned nothing is queued, and no forwarder is left that Close
\* found registered: a forwarder still running belongs to a Remove that took
\* its child out first, and its connection is closed there.
CloseLeavesNothing ==
    closer.at = "returned" =>
        /\ queue = <<>>
        /\ \A c \in Child : fwd[c] \in {"none", "done", "deregister"} \/ remover[c] \in {"close", "join"}

\* Remove and Close return although forwarders hold connections or wait for
\* space, and the blocked Accept ends with Close.  Each is called once, so the
\* calls in progress all return.
Returning == closer.at \in {"children", "join"} \/ \E c \in Child : remover[c] \in {"close", "join"}
ShutdownReturns == Returning ~> (~Returning /\ (closer.at = "returned" => ended))

\* "a child forwarder waiting for space never miss[es] a wakeup": with a daemon
\* that keeps accepting, every connection taken from a child is delivered or
\* closed.
TakenIsSettled ==
    \A x \in Conn : (x \in Taken) ~> (x \in ToSet(delivered) \cup released)

\* No connection is lost, duplicated or reordered on its way through the
\* aggregate, and Close leaves none behind.
ConnectionsConsistent ==
    TypeOK /\ ConnectionsAccounted /\ DeliveredInOrder /\ CloseLeavesNothing
=============================================================================
