------------------------------ MODULE MCBroker ------------------------------
(***************************************************************************)
(* The broker process for TLC: its service life (BrokerServe) and its pool *)
(* of connections (BrokerPool).  A behaviour runs one of them, chosen in   *)
(* Init, and the other stays put.                                          *)
(*                                                                         *)
(* The pool meets calls that share a daemon, calls that reach one daemon   *)
(* through its identity and through unbound endpoints, a probe that offers *)
(* a connection, warm connections beyond the limit, calls at the limits    *)
(* and with used identities, and Close at every point.                     *)
(***************************************************************************)
EXTENDS MCBrokerServe, BrokerPool, TLC

Bound(c, n, k) == [client |-> c, stream |-> n, bound |-> TRUE, key |-> k, fence |-> None]
Unbound(c, n, f, k) == [client |-> c, stream |-> n, bound |-> FALSE, key |-> k, fence |-> f]

Demand(calls, probes) ==
    [calls |-> calls, probes |-> probes, physical |-> 3, clients |-> 2, streams |-> 3, perClient |-> 2,
     warm |-> 1, idle |-> FALSE, cancels |-> FALSE, faults |-> {}, closes |-> FALSE]

Shared == [Demand("r1" :> Bound("c1", 1, "k1") @@ "r2" :> Bound("c1", 2, "k1"), <<>>)
             EXCEPT !.idle = TRUE, !.cancels = TRUE]
Failing == [Demand("r1" :> Unbound("c1", 1, "f1", "k1") @@ "r2" :> Bound("c1", 2, "k1"), <<>>)
              EXCEPT !.faults = {"connect"}]
Lossy == [Demand("r1" :> Bound("c1", 1, "k1") @@ "r2" :> Bound("c1", 2, "k1"), <<>>)
            EXCEPT !.faults = {"resolve", "open", "lost"}]
Merged == [Demand("r1" :> Unbound("c1", 1, "f1", "k1") @@ "r2" :> Bound("c1", 2, "k1"), <<>>)
             EXCEPT !.cancels = TRUE]
Raced == Demand("r1" :> Unbound("c1", 1, "f1", "k1") @@ "r2" :> Unbound("c1", 2, "f2", "k1"), "p1" :> "k1")
Evicted == [Demand("r1" :> Bound("c1", 1, "k1") @@ "r2" :> Bound("c1", 2, "k2") @@ "r3" :> Bound("c1", 3, "k1"), <<>>)
              EXCEPT !.perClient = 3]
Adopts == [Demand("r1" :> Bound("c1", 1, "k1") @@ "r2" :> Bound("c1", 2, "k1"), "p1" :> "k2")
             EXCEPT !.idle = TRUE]
Limited == [Demand("r1" :> Bound("c1", 2, "k1") @@ "r2" :> Bound("c1", 3, "k2") @@ "r3" :> Bound("c1", 2, "k2"), <<>>)
              EXCEPT !.physical = 1, !.streams = 2, !.warm = 0]
Crowded == [Demand("r1" :> Bound("c1", 3, "k1") @@ "r2" :> Bound("c1", 3, "k2") @@ "r3" :> Bound("c2", 1, "k2"), <<>>)
              EXCEPT !.clients = 1, !.streams = 1, !.perClient = 1]
Stopped == [Demand("r1" :> Unbound("c1", 1, "f1", "k1"), "p1" :> "k1")
              EXCEPT !.faults = {"connect", "open"}, !.closes = TRUE]

MCDemands == {Shared, Failing, Lossy, Merged, Raced, Evicted, Adopts, Limited, Crowded, Stopped}

VARIABLE part

parts == <<part, vars, poolVars>>

InServe == part = "serve" /\ UNCHANGED <<part, poolVars>>
InPool == part = "pool" /\ UNCHANGED <<part, vars>>

MCInit ==
    /\ Init /\ PoolInit
    /\ \/ part = "serve" /\ demand = Shared
       \/ part = "pool" /\ scene = [Serving EXCEPT !.idle = TRUE]

MCNext ==
    \/ InServe /\ Next
    \/ InPool /\ PoolNext

\* Whatever runs by itself in the chosen part does not stop for ever.
MCSpec ==
    /\ MCInit /\ [][MCNext]_parts
    /\ WF_parts(InServe /\ Proceeds)
    /\ WF_parts(InPool /\ PoolProceeds)

-----------------------------------------------------------------------------
\* The process is ending or unused, a client is silent, or the pool owes a call,
\* a connection or its closer an end.
Waiting ==
    \/ part = "serve" /\ Ending
    \/ part = "pool" /\ PoolOwed

\* Nothing the broker owes an end is left without one.  Once the supervisor
\* commits, or the listener retires, the process exits; a broker nobody uses is
\* used again or exits; a silent client is dropped at its registration deadline.
\* In the pool a call whose context ended returns, a retired connection frees
\* its key, one nobody uses expires when an idle bound is set, and Close returns.
BrokerProgress == Waiting ~> ~Waiting
=============================================================================
