---------------------------- MODULE MCMuxQueues ----------------------------
(***************************************************************************)
(* The two bounded queues of daemonmux for TLC: the outbound scheduler of  *)
(* one connection, with a Data frame that needs two visits and Opens that  *)
(* fit one visit or need three, and the listener that aggregates the       *)
(* logical connections of every physical one.  They share no state, so a   *)
(* behaviour runs one of them, chosen in Init, and the other stays put.    *)
(***************************************************************************)
EXTENDS StreamScheduler

CONSTANTS Child, Limit, MaxConn   \* of MuxAggregate

ASSUME AggregateAssumption == Limit \in Nat \ {0} /\ MaxConn \in Nat

VARIABLES
    part,
    children, quit, listener, fwd, taken, queue, closed, waiting, acceptEnded, remover,
    closer, delivered, released

A == INSTANCE MuxAggregate WITH ended <- acceptEnded

aggregate == <<children, quit, listener, fwd, taken, queue, closed, waiting, acceptEnded,
               remover, closer, delivered, released>>
both == <<part, sch, gate, ended, last, opens, aggregate>>

InScheduler == part = "scheduler" /\ UNCHANGED <<part, aggregate>>
InAggregate == part = "aggregate" /\ UNCHANGED <<part, sch, gate, ended, last, opens>>

MCInit == part \in {"scheduler", "aggregate"} /\ Init /\ A!Init

MCNext ==
    \/ InScheduler /\ Next
    \/ InAggregate /\ A!Next

\* The connection's writer dequeues while it can: Dequeue is enabled exactly
\* while the ring lists a stream, so the first disjunction is WF_vars(Dequeue)
\* with its ENABLED written out.  In the aggregate listener the goroutines that
\* the runtime drives (the forwarders, Accept, Remove and Close) keep going, in
\* any order.
MCSpec ==
    /\ MCInit /\ [][MCNext]_both
    /\ []<>(part # "scheduler" \/ sch.active = <<>>) \/ []<><<Dequeue>>_vars
    /\ WF_aggregate(part = "aggregate" /\
                     (A!Accept \/ A!Closes \/ \E c \in Child : A!Forward(c) \/ A!Removes(c)))

-----------------------------------------------------------------------------
\* No connection is lost, duplicated or reordered on its way through the
\* aggregate listener, and Close leaves none behind.
ConnectionsConsistent == A!ConnectionsConsistent

=============================================================================
