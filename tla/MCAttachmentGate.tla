-------------------------- MODULE MCAttachmentGate --------------------------
(* Instances of AttachmentGate: two attachments, two sessions and two jobs  *)
(* at a time, or three jobs around the suspension of one attachment.        *)
EXTENDS AttachmentGate, Sequences

Transition(c, s) == [kind |-> "transition", c |-> c, s |-> s]
Kill(s, by) == [kind |-> "kill", s |-> s, by |-> by]
Move(c, retire) == [kind |-> "move", src |-> 1, dst |-> 2, c |-> c, retire |-> retire]
Of(kind) == [kind |-> kind, c |-> 1]

Given(c1, c2, j, k, l) ==
    [member |-> [c \in {1, 2} |-> IF c = 1 THEN c1 ELSE c2],
     job |-> [w \in {11, 12, 13} |-> IF w = 11 THEN j ELSE IF w = 12 THEN k ELSE l]]

JobList == <<Transition(1, 2), Transition(2, 1), Of("detach"), Of("drop"),
             Kill(1, NoClient), Kill(1, 2), Kill(2, 2),
             Move(1, TRUE), Move(1, FALSE), Move(NoClient, TRUE), Move(NoClient, FALSE)>>

\* Two jobs in either order, the workers being alike, with both attachments in
\* one session, in two, or one not attached yet.
Pairs ==
    {Given(m[1], m[2], JobList[x[1]], JobList[x[2]], Idle.job) :
        m \in {<<1, 1>>, <<1, 2>>, <<NoSession, 1>>},
        x \in {y \in (1 .. Len(JobList)) \X (1 .. Len(JobList)) : y[1] <= y[2]}}

\* What can meet the suspension of one attachment.
Suspensions ==
    {Given(1, NoSession, Of("suspend"), Of("activate"), Kill(1, NoClient))}
        \cup {Given(1, NoSession, Of("suspend"), j, Idle.job) : j \in {Of("suspend"), Move(1, TRUE)}}

MCWorkloads == Pairs \cup Suspensions
=============================================================================
