-------------------------- MODULE MCResumeParking --------------------------
(* Instances of ResumeParking: one loss and one or two resuming handshakes. *)
EXTENDS ResumeParking

\* One loss against one handshake, with everything that may end the credential.
Duel == {[tasks |-> {101, 2}, may |-> Events \ {"timeout"}],
         [tasks |-> {101, 2}, may |-> {"timeout", "fail", "kill", "reap"}]}

\* Two handshakes for one credential.
Race == {[tasks |-> {101, 2, 3}, may |-> {"expire"}],
         [tasks |-> {101, 2, 3}, may |-> {"fail"}]}

\* A shutdown during a resuming handshake.
ShutdownScene == {[tasks |-> {101, 2}, may |-> {"shutdown"}]}

MCScenes == Duel \cup Race
=============================================================================
