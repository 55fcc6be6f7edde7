------------------------- MODULE MCSessionRecovery -------------------------
(***************************************************************************)
(* Two names and three incarnations.  MCBudgets bounds what happens to     *)
(* one session, or to two.                                                 *)
(***************************************************************************)
EXTENDS SessionRecovery

\* One session and crashes at every write, with a failed sync, a rename or a
\* teardown; and two sessions, one renamed, torn down or of another format.
MCBudgets ==
    {[create |-> k[1], output |-> k[2], crash |-> k[3], fault |-> k[4],
      rename |-> k[5], teardown |-> k[6], upgrade |-> k[7]] :
        k \in {<<1, 3, 2, 1, 0, 0, 0>>, <<1, 3, 1, 0, 1, 0, 0>>, <<1, 2, 1, 1, 0, 1, 0>>,
               <<2, 1, 1, 1, 0, 0, 1>>, <<2, 1, 1, 1, 1, 0, 0>>, <<2, 1, 1, 0, 0, 1, 0>>}}
=============================================================================
