--------------------------- MODULE MCStreamEngine ---------------------------
(* StreamEngine for TLC: a window holds one full chunk, the aggregate three. *)
EXTENDS StreamEngine

MCCeilings == [StreamChunkLimit |-> 2, MaxStreams |-> 2, MaxAggregateBytes |-> 9]
MCChunkLen == [c \in Chunk |-> c]

\* The third identity is admitted only in behaviours that carry no data: it
\* is there for the slots of a full table, not for the windows.
DataOrThirdStream == eng.highest <= 2 \/ \A id \in Id : accepted[id] = <<>>
=============================================================================
