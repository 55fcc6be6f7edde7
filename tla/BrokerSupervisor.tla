-------------------------- MODULE BrokerSupervisor --------------------------
(***************************************************************************)
(* The broker's idle lifetime (internal/usecase/broker/lifecycle.go): the  *)
(* fields of Supervisor that s.mu protects as a record, and each section   *)
(* under that lock as an operator on it.                                   *)
(*                                                                         *)
(*   closed      s.closed and s.committed, which commitLocked sets together *)
(*   leases      s.clients and s.operations                                *)
(*   timer       the arm whose timer is installed, or NoTimer (s.timer)    *)
(*   armed, arm  s.timerArmed and s.arm                                    *)
(*                                                                         *)
(* Arming makes a fresh timer, so a timer is named by its arm.             *)
(***************************************************************************)
EXTENDS Integers

NoTimer == 0
LeaseKind == {"client", "operation"}

newSupervisor ==
    [closed |-> FALSE, leases |-> [k \in LeaseKind |-> 0], timer |-> NoTimer,
     armed |-> FALSE, arm |-> 0]

Unleased(s) == \A k \in LeaseKind : s.leases[k] = 0

armTimer(s) ==
    IF s.armed \/ s.closed THEN s
    ELSE [s EXCEPT !.timer = s.arm + 1, !.armed = TRUE, !.arm = s.arm + 1]

disarmTimer(s) == [s EXCEPT !.armed = FALSE, !.timer = NoTimer]

\* The caller has found s open; a closed supervisor refuses.
admit_KeepsTimer(s, kind) == [s EXCEPT !.leases[kind] = @ + 1]
admit(s, kind) == disarmTimer([s EXCEPT !.leases[kind] = @ + 1])

release(s, kind) ==
    LET t == [s EXCEPT !.leases[kind] = IF @ > 0 THEN @ - 1 ELSE 0]
    IN  IF ~t.closed /\ Unleased(t) THEN armTimer(t) ELSE t

commit(s) == IF s.closed THEN s ELSE disarmTimer([s EXCEPT !.closed = TRUE])

\* Whether a tick of arm's timer commits the idle shutdown.
expires_AnyArm(s, arm) == ~s.closed /\ s.armed /\ Unleased(s)
expires(s, arm) == ~s.closed /\ s.armed /\ s.arm = arm /\ Unleased(s)
=============================================================================
