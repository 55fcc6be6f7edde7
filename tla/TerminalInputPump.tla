--------------------------- MODULE TerminalInputPump ---------------------------
(***************************************************************************)
(* The pump between the one terminal reader of a client and whoever owns   *)
(* its input (internal/usecase/client/terminal_input_pump.go).  Each       *)
(* method that holds p.mu is an operator on the pump.                      *)
(*                                                                         *)
(* A read is a sequence of keys; the empty sequence stands for no read.    *)
(* The space token of the code is free exactly when nothing is pending, so *)
(* it is not kept apart.  ready is the token of the current consumer, and  *)
(* claimChanged the one token of that channel.                             *)
(***************************************************************************)
EXTENDS Naturals, Sequences

Unclaimed == 0

newPump == [consumer |-> Unclaimed, nextID |-> 0, residual |-> <<>>, pending |-> <<>>, delivering |-> Unclaimed,
            deliveringResidual |-> FALSE, closed |-> FALSE, ready |-> FALSE, claimChanged |-> FALSE]

Waiting(p) == p.residual # <<>> \/ p.pending # <<>>

\* claimWithBacklog, for a pump nobody holds.
claim(p) == [p EXCEPT !.consumer = p.nextID + 1, !.nextID = @ + 1, !.claimChanged = TRUE,
                      !.ready = Waiting(p) /\ p.delivering = Unclaimed]

\* revoke takes the claim and the lease back and keeps what was read.
revoke(p, c) ==
    [p EXCEPT !.consumer = IF @ = c THEN Unclaimed ELSE @,
              !.delivering = IF @ = c THEN Unclaimed ELSE @,
              !.deliveringResidual = @ /\ p.delivering # c,
              !.ready = @ /\ p.consumer # c,
              !.claimChanged = TRUE]

\* enqueue publishes a completed read, unless the pump was closed meanwhile.
enqueue(p, data) == IF p.closed THEN p ELSE [p EXCEPT !.pending = data, !.ready = p.consumer # Unclaimed]

\* take leases what waits, the residual first.
Takes(p, c) == p.consumer = c /\ p.delivering = Unclaimed /\ Waiting(p)
Taken(p) == IF p.residual # <<>> THEN p.residual ELSE p.pending
take(p, c) == [p EXCEPT !.delivering = c, !.deliveringResidual = p.residual # <<>>]

\* Mutant: only a new read wakes the consumer.
ackQuietly(p, c) ==
    IF p.consumer # c \/ p.delivering # c THEN p
    ELSE [p EXCEPT !.residual = IF p.deliveringResidual THEN <<>> ELSE @,
                   !.pending = IF p.deliveringResidual THEN @ ELSE <<>>,
                   !.delivering = Unclaimed, !.deliveringResidual = FALSE]

\* ack commits the lease of its holder.
ack(p, c) ==
    IF p.consumer # c \/ p.delivering # c THEN p
    ELSE [p EXCEPT !.residual = IF p.deliveringResidual THEN <<>> ELSE @,
                   !.pending = IF p.deliveringResidual THEN @ ELSE <<>>,
                   !.delivering = Unclaimed, !.deliveringResidual = FALSE,
                   !.ready = @ \/ (p.deliveringResidual /\ p.pending # <<>>)]

\* preserveResidual replaces the residual by what the consumer did not deliver.
preserveResidual(p, c, data) == IF p.consumer # c \/ data = <<>> THEN p ELSE [p EXCEPT !.residual = data]

\* appendResidual hands back what a consumer took and kept.
Appends(p, c, data, limit) == p.consumer = c /\ Len(p.residual) + Len(data) <= limit
appendResidual(p, c, data, limit) == IF Appends(p, c, data, limit) THEN [p EXCEPT !.residual = @ \o data] ELSE p

dropOwned(p, c) ==
    IF p.consumer # c THEN p
    ELSE [p EXCEPT !.pending = <<>>, !.residual = <<>>, !.delivering = IF @ = c THEN Unclaimed ELSE @,
                   !.deliveringResidual = @ /\ p.delivering # c]

dropUnclaimed(p) == IF p.consumer # Unclaimed THEN p ELSE [p EXCEPT !.pending = <<>>, !.residual = <<>>]

\* stop followed by suspend, as the end of the input lifetime calls them.
stop(p) == [p EXCEPT !.closed = TRUE, !.pending = <<>>, !.residual = <<>>, !.delivering = Unclaimed,
                     !.deliveringResidual = FALSE, !.claimChanged = TRUE]

\* The keys the pump holds.
Kept(p) == {p.residual[i] : i \in DOMAIN p.residual} \cup {p.pending[i] : i \in DOMAIN p.pending}
=================================================================================
