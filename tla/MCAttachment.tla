---------------------------- MODULE MCAttachment ----------------------------
(***************************************************************************)
(* One attachment for TLC, seen from its two hard sides: the flow of its   *)
(* output to the client (AttachmentOutput), and the credential by which a  *)
(* lost client resumes it (ResumeParking, in the scenes of                 *)
(* MCResumeParking).  The two share no state, so a behaviour runs one of   *)
(* them, chosen in Init, and the other stays put.                          *)
(***************************************************************************)
EXTENDS MCResumeParking

CONSTANTS Window, MaxBytes, MaxContent, MaxFocus, MaxEpoch, MayLose, MaxEffects   \* of AttachmentOutput

ASSUME OutputAssumption ==
    /\ Window \in Nat \ {0} /\ MaxBytes \in Nat \ {0} /\ MaxContent \in Nat
    /\ MaxFocus \in Nat /\ MaxEpoch \in Nat /\ MayLose \in BOOLEAN /\ MaxEffects \in Nat

VARIABLES part, o, paint, content, focus, link, wire, back, c, effects

A == INSTANCE AttachmentOutput

output == <<o, paint, content, focus, link, wire, back, c, effects>>
both == <<part, vars, output>>

InResume == part = "resume" /\ UNCHANGED <<part, output>>
InOutput == part = "output" /\ UNCHANGED <<part, vars>>

\* The scene of a resumption matters only there.
MCInit ==
    /\ Init /\ A!Init
    /\ \/ part = "resume"
       \/ part = "output" /\ scene = CHOOSE s \in Scenes : TRUE

MCNext ==
    \/ InResume /\ Next
    \/ InOutput /\ A!Next

\* A goroutine of a teardown, a handshake or a kill runs while it can.
ResumeFairness ==
    /\ \A j \in Losses : WF_core(part = "resume" /\ TeardownStep(j))
    /\ \A r \in Hellos : WF_core(part = "resume" /\ (TeardownStep(r) \/ ResumeStep(r)))
    /\ WF_core(part = "resume" /\ KillStep)

\* The render coordinator paints while there is room, the client runs, a failed
\* link is detached, and the daemon's reader gets sendMu although paints keep
\* taking it: a Go mutex is handed to its oldest waiter.
OutputFairness ==
    /\ WF_output(part = "output" /\ A!Paints)
    /\ WF_output(part = "output" /\ A!Client) /\ SF_output(part = "output" /\ A!FromClient)
    /\ WF_output(part = "output" /\ A!Gives) /\ WF_output(part = "output" /\ A!Detach)

MCSpec == MCInit /\ [][MCNext]_both /\ ResumeFairness /\ OutputFairness

-----------------------------------------------------------------------------
\* Acknowledgements, charges and the window stay exact across rebases; no frame is
\* applied to another screen than its source, and a healthy link rejects none.
OutputConsistent == A!WindowConsistent /\ A!FramesLand

\* One handshake wins a token and no kill retires a capability an effect holds;
\* while one teardown and one handshake race, the token that resumes a live
\* attachment is always in one of the registries (markParkingInFlight).
CredentialsConsistent == RegistryConsistent /\ CredentialHeld

=============================================================================
