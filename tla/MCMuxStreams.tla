---------------------------- MODULE MCMuxStreams ----------------------------
(***************************************************************************)
(* A logical stream of daemonmux for TLC, in two stages: the broker opens  *)
(* it (MuxOpen), and two ends use and close it (MuxLink).  The stages      *)
(* share no state, so a behaviour runs one of them, chosen in Init, and    *)
(* the other stays put.                                                    *)
(***************************************************************************)
EXTENDS MCMuxLink

CONSTANTS Opener, MaxStreams, MayCancel, Answers   \* of MuxOpen

ASSUME OpenAssumption ==
    /\ IsFiniteSet(Opener) /\ MaxStreams \in Nat /\ MayCancel \in BOOLEAN
    /\ Answers \subseteq {"Opened", "OpenedOtherRef", "Refused", "Reset"}

VARIABLES
    part,
    next, st, lost, sealed, out, in, daemon, reader, watched, op, call, channel, cancelled

O == INSTANCE MuxOpen WITH id <- call

opening == <<next, st, lost, sealed, out, in, daemon, reader, watched, op, call, channel, cancelled>>
stages == <<part, vars, opening>>

InLink == part = "link" /\ UNCHANGED <<part, opening>>
InOpen == part = "open" /\ UNCHANGED <<part, vars>>

MCInit == part \in {"link", "open"} /\ Init /\ O!Init

MCNext ==
    \/ InLink /\ Next
    \/ InOpen /\ O!Next

\* Whatever runs by itself in the chosen stage does not stop for ever.
MCSpec ==
    /\ MCInit /\ [][MCNext]_stages
    /\ WF_vars(part = "link" /\ Proceeds)
    /\ WF_opening(part = "open" /\ O!Proceeds)

-----------------------------------------------------------------------------
\* What Open returned is true: a failed call holds nothing on this side, a
\* successful one was confirmed by the daemon.
OpenResults == O!OpenResults

Waiting ==
    \/ part = "link" /\ Unreleased
    \/ part = "open" /\ O!Unreleased

\* No stage of a stream leaves anybody waiting.  A writer blocked on credit is
\* released, by a grant, by the end of the stream or by the local Close, and an
\* owner's close or abort frees the slot on both ends.  An Open whose answer
\* arrived returns without the help of its context, and a failed one does not
\* leave its stream with the daemon.
StreamsProgress == Waiting ~> ~Waiting
=============================================================================
