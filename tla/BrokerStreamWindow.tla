------------------------ MODULE BrokerStreamWindow ------------------------
(***************************************************************************)
(* The anti-replay window over the logical stream identities of one        *)
(* connection (ports/broker_stream_window.go), as operators on its record. *)
(* words is the set of the offsets whose bit is set.                       *)
(***************************************************************************)
EXTENDS Integers

CONSTANT BrokerStreamWindowSize   \* 1024

ASSUME WindowAssumption == BrokerStreamWindowSize \in Nat \ {0}

NewWindow == [highest |-> 0, base |-> 0, words |-> {}]

windowBase(highest) ==
    IF highest <= BrokerStreamWindowSize THEN 1 ELSE highest - (BrokerStreamWindowSize - 1)

\* shiftLocked drops the oldest identities; a long shift clears the window.
shift(words, n) == {o - n : o \in {w \in words : w >= n}}

\* Whether Admit returns nil.
WindowAdmits(w, stream) ==
    /\ stream > 0
    /\ w.highest # 0 => stream >= w.base
    /\ w.highest # 0 /\ stream <= w.highest => stream - w.base \notin w.words

\* [mutant] the window slides without shifting its bits.
AdmitStream_NoShift(w, stream) ==
    LET next == IF stream > w.highest THEN windowBase(stream) ELSE w.base IN
    [highest |-> IF stream > w.highest THEN stream ELSE w.highest,
     base |-> next, words |-> w.words \union {stream - next}]

\* The window after it admitted the identity.
AdmitStream(w, stream) ==
    LET newest == stream > w.highest
        next == IF newest THEN windowBase(stream) ELSE w.base IN
    [highest |-> IF newest THEN stream ELSE w.highest,
     base |-> next,
     words |-> shift(w.words, next - w.base) \union {stream - next}]
=============================================================================
