--------------------------- MODULE MCBrokerServe ---------------------------
(***************************************************************************)
(* BrokerServe for TLC: one connection through the whole life of a broker, *)
(* two that compete for a slot, two that share the broker while one of     *)
(* another build registers, and two for which the pool is too small.       *)
(***************************************************************************)
EXTENDS BrokerServe

CONSTANTS c1, c2

Serving ==
    [slots |-> 1, clients |-> 2, conns |-> {c1, c2}, ops |-> {}, late |-> {}, leaves |-> {c1, c2},
     builds |-> {FALSE}, cold |-> FALSE, idle |-> FALSE, stop |-> FALSE]

MCScenes ==
    { [Serving EXCEPT !.conns = {c1}, !.ops = {c1}, !.cold = TRUE, !.idle = TRUE, !.stop = TRUE],
      [Serving EXCEPT !.conns = {c1}, !.late = {c1}, !.cold = TRUE, !.clients = 1],
      [Serving EXCEPT !.conns = {c1}, !.late = {c1}, !.ops = {c1}, !.stop = TRUE],
      [Serving EXCEPT !.idle = TRUE],
      [Serving EXCEPT !.slots = 2, !.clients = 4, !.builds = {TRUE}, !.leaves = {c2}],
      [Serving EXCEPT !.slots = 2, !.clients = 1, !.leaves = {}] }
=============================================================================
