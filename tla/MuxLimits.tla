------------------------------ MODULE MuxLimits ------------------------------
(***************************************************************************)
(* The ceilings one physical daemonmux connection negotiates               *)
(* (internal/adapters/daemonmux/limits.go) and what both peers derive from *)
(* them: the credit a Data frame costs, the per-stream receive window and  *)
(* the consumed credit at which a receiver grants a WindowUpdate.          *)
(* The package constants are parameters, so that small values can be       *)
(* model-checked and the theorems of StreamEngine_proofs hold for all.     *)
(***************************************************************************)
EXTENDS Integers

CONSTANTS
    MaxMuxChunkBytes,         \* largest legal chunk ceiling (64 KiB)
    MaxMuxStreams,            \* largest legal stream ceiling (128)
    MaxMuxAggregateBytes,     \* largest legal aggregate ceiling (64 MiB)
    MaxMuxStreamWindowBytes,  \* cap of one stream's window (4 MiB)
    MuxChunkCreditOverhead    \* fixed credit of a Data frame (64)

ASSUME LimitsAssumption ==
    /\ MaxMuxChunkBytes \in Nat \ {0}
    /\ MaxMuxStreams \in Nat \ {0}
    /\ MuxChunkCreditOverhead \in Nat
    /\ MaxMuxAggregateBytes \in Nat
    /\ MaxMuxAggregateBytes >= MaxMuxChunkBytes + MuxChunkCreditOverhead
    /\ MaxMuxStreamWindowBytes \in Nat
    /\ MaxMuxStreamWindowBytes >= MaxMuxChunkBytes + MuxChunkCreditOverhead

MinOf(a, b) == IF a <= b THEN a ELSE b
MaxOf(a, b) == IF a >= b THEN a ELSE b

MinMuxAggregateBytes == MaxMuxChunkBytes + MuxChunkCreditOverhead

\* The ceilings MuxCeilings.Validate accepts.  The receive-envelope ceiling
\* bounds the codec only and is left out.
MuxCeilings ==
    [StreamChunkLimit : 1 .. MaxMuxChunkBytes,
     MaxStreams : 1 .. MaxMuxStreams,
     MaxAggregateBytes : MinMuxAggregateBytes .. MaxMuxAggregateBytes]

chunkCredit(n) == n + MuxChunkCreditOverhead

StreamWindow(c) ==
    MinOf(MaxOf(c.MaxAggregateBytes \div c.MaxStreams, chunkCredit(c.StreamChunkLimit)),
          MaxMuxStreamWindowBytes)

creditReturnThreshold(c) ==
    LET window == StreamWindow(c)
        cost == chunkCredit(c.StreamChunkLimit)
    IN MaxOf(MinOf(window \div 2, window - cost + 1), 1)

\* The element-wise minima of both advertisements, with the stream ceiling
\* lowered until every stream can hold one maximum chunk at once.
EffectiveMuxCeilings(local, remote) ==
    LET chunk == MinOf(local.StreamChunkLimit, remote.StreamChunkLimit)
        streams == MinOf(local.MaxStreams, remote.MaxStreams)
        bytes == MinOf(local.MaxAggregateBytes, remote.MaxAggregateBytes)
        fair == bytes \div chunkCredit(chunk)
    IN [StreamChunkLimit |-> chunk,
        MaxStreams |-> MaxOf(MinOf(streams, fair), 1),
        MaxAggregateBytes |-> bytes]
=============================================================================
