------------------------------ MODULE MCMuxLink ------------------------------
(* MuxLink for TLC: two chunks towards the daemon. A window of 5 holds one   *)
(* small and one large chunk, but not two large ones.                        *)
EXTENDS MuxLink

MCCeilings == [StreamChunkLimit |-> 2, MaxStreams |-> 2, MaxAggregateBytes |-> 10]
MCChunkLen == [c \in Chunk |-> c]
TwoChunks == [x \in Side |-> IF x = "broker" THEN 2 ELSE 0]
=============================================================================
