--------------------------- MODULE AttachmentGate ---------------------------
(***************************************************************************)
(* The effect gate of the daemon's attachments (usecase/daemon):           *)
(* attachmentLifecycle admits every attachment-bound effect under the      *)
(* published capability; a transition freezes the gates of all the         *)
(* attachments it touches, in one global order, drains the effects already *)
(* admitted, changes membership and capability under the architecture      *)
(* locks, and unfreezes in reverse.  The users of the gate are modelled    *)
(* around it: transitions (attach and session switch), detach, suspension, *)
(* activation and the suspension's expiry, session kill and session move.  *)
(*                                                                         *)
(* A client's number is its immutable gate order.  One step is one         *)
(* critical section: of a gate's mutex, of d.mu with the session locks, or *)
(* of the session's teardownMu.                                            *)
(***************************************************************************)
EXTENDS Integers, FiniteSets

CONSTANTS
    Clients,    \* attachments: a set of numbers, the gates' immutable order
    Sessions,   \* live sessions
    Workers,    \* goroutines that each run one job
    Workloads,  \* bounds: where the attachments are, and each worker's job
    Effects     \* goroutines that admit and end effects, over and over

NoSession == 0
NoClient == 0

\* What a job is about.  A move that retires its source has another
\* destination (willRetireSource).
IsJob(j) ==
    /\ j.kind \in {"none", "transition", "detach", "drop", "suspend", "activate", "expire", "kill", "move"}
    /\ j.kind \notin {"none", "kill", "move"} => j.c \in Clients
    /\ j.kind = "transition" => j.s \in Sessions
    /\ j.kind = "kill" => j.s \in Sessions /\ j.by \in Clients \cup {NoClient}
    /\ j.kind = "move" => /\ j.src \in Sessions /\ j.dst \in Sessions /\ j.c \in Clients \cup {NoClient}
                         /\ j.retire \in BOOLEAN /\ (j.retire => j.src # j.dst)

ASSUME ConstantsAssumption ==
    /\ Clients \subseteq Nat \ {NoClient} /\ IsFiniteSet(Clients)
    /\ NoSession \notin Sessions
    /\ Workers \cap Clients = {} /\ IsFiniteSet(Workers)
    /\ IsFiniteSet(Effects)
    /\ \A given \in Workloads : /\ given.member \in [Clients -> Sessions \cup {NoSession}]
                               /\ \A i \in Workers : IsJob(given.job[i])

VARIABLES
    gate,       \* attachmentLifecycle of each client
    member,     \* the session an attachment is registered in
    alive,      \* d.sessions
    fence,      \* teardownActive and moveReservations of each session
    dispatch,   \* sessions whose move dispatch lock is held
    retention,  \* d.suspended: the suspended capability, Retired if none
    eff,        \* effect goroutines
    work        \* job goroutines, and one expiry watcher for each client

vars == <<gate, member, alive, fence, dispatch, retention, eff, work>>

Retired == [sess |-> NoSession, gen |-> 0]

\* captureAttachmentCapability: what a goroutine reads as c's capability.
Capability(c) == [sess |-> member[c], gen |-> gate[c].gen]

\* attachmentLifecycle.current and its locked variants.
Current(c, cap) == cap.sess # NoSession /\ cap = Capability(c)

Members(s) == {c \in Clients : member[c] = s}

Idle == [pc |-> "idle", job |-> [kind |-> "none"], cap |-> Retired,
         todo |-> {}, held |-> {}, parts |-> {}, waiting |-> FALSE,
         drained |-> FALSE, next |-> "done"]

Init ==
    /\ \E given \in Workloads :
          /\ member = given.member
          /\ work = [i \in Workers \cup Clients |->
                       IF i \in Workers THEN [Idle EXCEPT !.job = given.job[i]] ELSE Idle]
    /\ gate = [c \in Clients |->
                 LET g == IF member[c] = NoSession THEN 0 ELSE 1 IN
                 [frozen |-> FALSE, gen |-> g, cap |-> [sess |-> member[c], gen |-> g],
                  inFlight |-> 0, activity |-> "active"]]
    /\ alive = Sessions
    /\ fence = [s \in Sessions |-> [active |-> FALSE, moves |-> 0]]
    /\ dispatch = {}
    /\ retention = [c \in Clients |-> Retired]
    /\ eff = [e \in Effects |-> [pc |-> "idle", c |-> NoClient, cap |-> Retired]]

-----------------------------------------------------------------------------
(* Effects.                                                                *)

CaptureEffect(e, c) ==
    /\ eff[e].pc = "idle" /\ member[c] # NoSession
    /\ eff' = [eff EXCEPT ![e] = [pc |-> "captured", c |-> c, cap |-> Capability(c)]]
    /\ UNCHANGED <<gate, member, alive, fence, dispatch, retention, work>>

Admissible(c, cap) ==
    /\ Current(c, cap)
    /\ ~gate[c].frozen /\ gate[c].activity = "active" /\ gate[c].cap = cap

\* A refused effect is dropped; one that waits a freeze out captures afresh.
BeginEffect(e) ==
    /\ eff[e].pc = "captured"
    /\ IF Admissible(eff[e].c, eff[e].cap)
       THEN /\ gate' = [gate EXCEPT ![eff[e].c].inFlight = @ + 1]
            /\ eff' = [eff EXCEPT ![e].pc = "admitted"]
       ELSE /\ eff' = [eff EXCEPT ![e] = [pc |-> "idle", c |-> NoClient, cap |-> Retired]]
            /\ UNCHANGED gate
    /\ UNCHANGED <<member, alive, fence, dispatch, retention, work>>

EndEffect(e) ==
    /\ eff[e].pc = "admitted"
    /\ gate' = [gate EXCEPT ![eff[e].c].inFlight = @ - 1]
    /\ eff' = [eff EXCEPT ![e] = [pc |-> "idle", c |-> NoClient, cap |-> Retired]]
    /\ UNCHANGED <<member, alive, fence, dispatch, retention, work>>

-----------------------------------------------------------------------------
(* Freezing: ordered acquisition, drain, release in reverse.               *)

Blocking(j) == j.kind # "move"
Bounded(j) == j.kind \in {"kill", "suspend", "activate", "drop"}

\* Starts a freeze of the clients in todo.
Freezing(i, cap, todo, parts) ==
    work' = [work EXCEPT ![i] = [@ EXCEPT !.pc = "acquire", !.cap = cap,
                !.todo = todo, !.parts = parts, !.waiting = FALSE,
                !.drained = FALSE, !.next = "done"]]

\* The gates are taken from the first in their order to the last.
First(c, cs) == \A d \in cs : c <= d
Last(c, cs) == \A d \in cs : d <= c

Acquire(i) ==
    /\ work[i].pc = "acquire"
    /\ \E c \in work[i].todo :
          /\ First(c, work[i].todo) /\ ~gate[c].frozen
          /\ gate' = [gate EXCEPT ![c].frozen = TRUE]
          /\ work' = [work EXCEPT ![i] = [@ EXCEPT !.todo = work[i].todo \ {c},
                                    !.held = work[i].held \cup {c}, !.waiting = FALSE]]
    /\ UNCHANGED <<member, alive, fence, dispatch, retention, eff>>

\* A job that did not get all its gates: back out, in reverse.
GiveUp(i) ==
    work' = [work EXCEPT ![i] = [@ EXCEPT !.pc = "unfreeze", !.waiting = FALSE,
                !.todo = {}, !.next = IF work[i].job.kind \in {"suspend", "activate"}
                                      THEN "detach" ELSE "done"]]

\* The next gate is another transition's: nonblocking acquisition fails, the
\* others wait for the gate to change.
Blocked(i) ==
    /\ work[i].pc = "acquire" /\ ~work[i].waiting
    /\ \E c \in work[i].todo : First(c, work[i].todo) /\ gate[c].frozen
    /\ IF Blocking(work[i].job)
       THEN work' = [work EXCEPT ![i].waiting = TRUE]
       ELSE GiveUp(i)
    /\ UNCHANGED <<gate, member, alive, fence, dispatch, retention, eff>>

Acquired(i) ==
    /\ work[i].pc = "acquire" /\ work[i].todo = {}
    /\ work' = [work EXCEPT ![i].pc = "drain"]
    /\ UNCHANGED <<gate, member, alive, fence, dispatch, retention, eff>>

Busy(i) == \E c \in work[i].held : gate[c].inFlight # 0

\* Admission is closed on every held gate, so draining them one after the
\* other ends when the last admitted effect has ended.
Drained(i) ==
    /\ work[i].pc = "drain" /\ ~Busy(i)
    /\ work' = [work EXCEPT ![i] = [@ EXCEPT !.pc = "frozen", !.waiting = FALSE,
                                             !.drained = TRUE]]
    /\ UNCHANGED <<gate, member, alive, fence, dispatch, retention, eff>>

DrainWaits(i) ==
    /\ work[i].pc = "drain" /\ Busy(i) /\ ~work[i].waiting
    /\ work' = [work EXCEPT ![i].waiting = TRUE]
    /\ UNCHANGED <<gate, member, alive, fence, dispatch, retention, eff>>

\* The overall bound elapses: acquisition is rolled back, a drain ends with
\* the gates still frozen.
Deadline(i) ==
    /\ work[i].waiting /\ Bounded(work[i].job)
    /\ IF work[i].pc = "acquire" THEN GiveUp(i)
       ELSE work' = [work EXCEPT ![i] = [@ EXCEPT !.pc = "frozen", !.waiting = FALSE]]
    /\ UNCHANGED <<gate, member, alive, fence, dispatch, retention, eff>>

\* unfreeze, one gate at a time.
Unfreeze(i) ==
    /\ work[i].pc = "unfreeze"
    /\ \E c \in work[i].held :
          /\ Last(c, work[i].held)
          /\ gate' = [gate EXCEPT ![c].frozen = FALSE]
          /\ work' = [work EXCEPT ![i].held = @ \ {c}]
    /\ UNCHANGED <<member, alive, fence, dispatch, retention, eff>>

\* What the caller does once its gates are open again.
Continue(i) ==
    /\ work[i].pc = "unfreeze" /\ work[i].held = {}
    /\ LET w == work[i] IN
       /\ work' = [work EXCEPT ![i] =
             CASE w.next = "identity" ->
                    [@ EXCEPT !.pc = "identity", !.job = [kind |-> "transition", c |-> w.job.c, s |-> w.cap.sess]]
               [] w.next = "detach" ->
                    [@ EXCEPT !.pc = "acquire", !.todo = {w.job.c}, !.drained = FALSE,
                              !.job = [kind |-> "detach", c |-> w.job.c], !.next = "done"]
               [] OTHER -> IF i \in Clients THEN Idle ELSE [Idle EXCEPT !.pc = "done"]]
       /\ dispatch' = IF w.job.kind = "move" THEN dispatch \ {w.job.src, w.job.dst} ELSE dispatch
       /\ fence' = CASE w.job.kind = "move" ->
                          [s \in Sessions |-> IF s \in {w.job.src, w.job.dst}
                              THEN [fence[s] EXCEPT !.moves = @ - 1] ELSE fence[s]]
                     [] w.job.kind = "kill" /\ w.next = "closed" ->
                          [fence EXCEPT ![w.job.s].active = FALSE]
                     [] OTHER -> fence
    /\ UNCHANGED <<gate, member, alive, retention, eff>>

\* Leaves the frozen section: next says what follows the unfreeze.
Leave(i, next) ==
    work' = [work EXCEPT ![i] = [@ EXCEPT !.pc = "unfreeze", !.next = next]]

-----------------------------------------------------------------------------
(* Publication under the architecture locks.                               *)

Publish(g, c, s) == [g EXCEPT ![c].gen = @ + 1, ![c].cap = [sess |-> s, gen |-> g[c].gen + 1]]

Invalidate(g, cs) ==
    [c \in Clients |-> IF c \in cs THEN [g[c] EXCEPT !.gen = @ + 1, !.cap = Retired] ELSE g[c]]

ClearedFor(s) == [c \in Clients |-> IF retention[c].sess = s THEN Retired ELSE retention[c]]

\* Another goroutine runs one of these jobs for c.
Running(i, kinds, c) ==
    \E k \in Workers \ {i} : /\ work[k].pc \notin {"idle", "done"}
                            /\ work[k].job.kind \in kinds /\ work[k].job.c = c

\* transitionAttachment, of a registered client to another session or to its
\* own (rebind), or the one handshake of a new connection.
StartTransition(i) ==
    LET j == work[i].job IN
    /\ work[i].pc = "idle" /\ j.kind = "transition"
    /\ j.s \in alive /\ (member[j.c] # NoSession \/ (gate[j.c].gen = 0 /\ ~Running(i, {"transition"}, j.c)))
    /\ Freezing(i, Capability(j.c), {j.c}, {})
    /\ UNCHANGED <<gate, member, alive, fence, dispatch, retention, eff>>

\* Mutant: the target is not looked up again after the freeze.
PublishTransitionUnchecked(i) ==
    LET j == work[i].job
        ok == /\ gate[j.c].activity = "active"
              /\ work[i].cap.sess # NoSession => Current(j.c, work[i].cap)
    IN
    /\ work[i].pc = "frozen" /\ j.kind = "transition"
    /\ gate' = IF ok THEN Publish(gate, j.c, j.s) ELSE gate
    /\ member' = IF ok THEN [member EXCEPT ![j.c] = j.s] ELSE member
    /\ Leave(i, "done")
    /\ UNCHANGED <<alive, fence, dispatch, retention, eff>>

PublishTransition(i) ==
    LET j == work[i].job
        ok == /\ gate[j.c].activity = "active" /\ j.s \in alive
              /\ work[i].cap.sess # NoSession => Current(j.c, work[i].cap)
    IN
    /\ work[i].pc = "frozen" /\ j.kind = "transition"
    /\ gate' = IF ok THEN Publish(gate, j.c, j.s) ELSE gate
    /\ member' = IF ok THEN [member EXCEPT ![j.c] = j.s] ELSE member
    /\ work' = [work EXCEPT ![i] = [@ EXCEPT !.pc = "unfreeze",
                   !.cap = IF ok THEN [sess |-> j.s, gen |-> gate[j.c].gen + 1] ELSE work[i].cap,
                   !.next = IF ok /\ work[i].cap.sess # NoSession THEN "identity" ELSE "done"]]
    /\ UNCHANGED <<alive, fence, dispatch, retention, eff>>

\* finishAttachmentTransition: admit an effect for the route identity, under
\* the published capability or, if that was superseded, the current one; a
\* freeze in progress is waited out.
AdmitIdentity(i) ==
    LET c == work[i].job.c IN
    /\ work[i].pc = "identity" /\ ~(gate[c].frozen /\ member[c] # NoSession)
    /\ IF Admissible(c, Capability(c))
       THEN /\ gate' = [gate EXCEPT ![c].inFlight = @ + 1]
            /\ work' = [work EXCEPT ![i] = [@ EXCEPT !.pc = "sending", !.cap = Capability(c)]]
       ELSE /\ Leave(i, "detach")
            /\ UNCHANGED gate
    /\ UNCHANGED <<member, alive, fence, dispatch, retention, eff>>

\* The identity is sent, or the link refuses it and is torn down.
EndIdentity(i) ==
    /\ work[i].pc = "sending"
    /\ gate' = [gate EXCEPT ![work[i].job.c].inFlight = @ - 1]
    /\ \E next \in {"done", "detach"} : Leave(i, next)
    /\ UNCHANGED <<member, alive, fence, dispatch, retention, eff>>

\* detachIfCurrentTransport ("detach", unbounded, by session) and
\* detachIfAttachmentCurrentUntil ("drop", bounded, by exact capability).
StartDetach(i) ==
    LET j == work[i].job IN
    /\ work[i].pc = "idle" /\ j.kind \in {"detach", "drop"} /\ member[j.c] # NoSession
    /\ Freezing(i, Capability(j.c), {j.c}, {})
    /\ UNCHANGED <<gate, member, alive, fence, dispatch, retention, eff>>

\* Mutant: a detach whose drain ran out goes on.
DetachUndrained(i) ==
    LET j == work[i].job IN
    /\ work[i].pc = "frozen" /\ j.kind \in {"detach", "drop"}
    /\ gate' = IF Current(j.c, work[i].cap) THEN Invalidate(gate, {j.c}) ELSE gate
    /\ member' = IF Current(j.c, work[i].cap) THEN [member EXCEPT ![j.c] = NoSession] ELSE member
    /\ Leave(i, "done")
    /\ UNCHANGED <<alive, fence, dispatch, retention, eff>>

DetachFrozen(i) ==
    LET j == work[i].job
        ok == IF j.kind = "detach" THEN member[j.c] = work[i].cap.sess /\ member[j.c] # NoSession
              ELSE work[i].drained /\ Current(j.c, work[i].cap) /\ work[i].cap.sess \in alive
    IN
    /\ work[i].pc = "frozen" /\ j.kind \in {"detach", "drop"}
    /\ gate' = IF ok THEN Invalidate(gate, {j.c}) ELSE gate
    /\ member' = IF ok THEN [member EXCEPT ![j.c] = NoSession] ELSE member
    /\ retention' = IF ok THEN [retention EXCEPT ![j.c] = Retired] ELSE retention
    /\ Leave(i, "done")
    /\ UNCHANGED <<alive, fence, dispatch, eff>>

-----------------------------------------------------------------------------
(* Suspension and activation.                                              *)

\* The connection's loop handles one request at a time.
StartSuspension(i) ==
    LET j == work[i].job IN
    /\ work[i].pc = "idle" /\ j.kind \in {"suspend", "activate"} /\ member[j.c] # NoSession
    /\ ~Running(i, {"suspend", "activate"}, j.c)
    /\ Freezing(i, Capability(j.c), {j.c}, {})
    /\ UNCHANGED <<gate, member, alive, fence, dispatch, retention, eff>>

SuspendFrozen(i) ==
    LET c == work[i].job.c
        ok == /\ work[i].drained /\ Current(c, work[i].cap)
              /\ gate[c].activity = "active" /\ member[c] \in alive
    IN
    /\ work[i].pc = "frozen" /\ work[i].job.kind = "suspend"
    /\ IF ok THEN /\ gate' = [Publish(gate, c, member[c]) EXCEPT ![c].activity = "suspended"]
                  /\ work' = [work EXCEPT ![i].pc = "acking"]
             ELSE /\ Leave(i, "detach")
                  /\ UNCHANGED gate
    /\ UNCHANGED <<member, alive, fence, dispatch, retention, eff>>

\* Mutant: a failed acknowledgement is ignored.
AckSuspendIgnored(i) ==
    LET c == work[i].job.c IN
    /\ work[i].pc = "acking"
    /\ \/ retention' = [retention EXCEPT ![c] = Capability(c)]
       \/ UNCHANGED retention
    /\ Leave(i, "done")
    /\ UNCHANGED <<gate, member, alive, fence, dispatch, eff>>

\* The acknowledgement is sent and the safety expiry armed, or it fails.
AckSuspend(i) ==
    LET c == work[i].job.c IN
    /\ work[i].pc = "acking"
    /\ \/ /\ retention' = [retention EXCEPT ![c] = Capability(c)]
          /\ Leave(i, "done")
       \/ /\ Leave(i, "detach")
          /\ UNCHANGED retention
    /\ UNCHANGED <<gate, member, alive, fence, dispatch, eff>>

\* The activation reserves the sole effect under the freeze it holds.
ActivateFrozen(i) ==
    LET c == work[i].job.c
        ok == /\ work[i].drained /\ gate[c].activity = "suspended"
              /\ member[c] \in alive /\ member[c] = work[i].cap.sess
    IN
    /\ work[i].pc = "frozen" /\ work[i].job.kind = "activate"
    /\ IF ok THEN /\ gate' = [Publish(gate, c, member[c]) EXCEPT
                                 ![c].activity = "activating", ![c].inFlight = @ + 1]
                  /\ retention' = [retention EXCEPT ![c] = Retired]
                  /\ work' = [work EXCEPT ![i].pc = "activating"]
             ELSE /\ Leave(i, "detach")
                  /\ UNCHANGED <<gate, retention>>
    /\ UNCHANGED <<member, alive, fence, dispatch, eff>>

\* First paint and AttachmentActivated, or the link refuses one of them.
FinishActivation(i) ==
    LET c == work[i].job.c IN
    /\ work[i].pc = "activating"
    /\ \/ /\ gate' = [gate EXCEPT ![c].inFlight = @ - 1, ![c].activity = "active"]
          /\ Leave(i, "done")
       \/ /\ gate' = [gate EXCEPT ![c].inFlight = @ - 1]
          /\ Leave(i, "detach")
    /\ UNCHANGED <<member, alive, fence, dispatch, retention, eff>>

\* expireSuspendedAttachment: the watcher of the armed record.
ExpiryFires(c) ==
    /\ work[c].pc = "idle" /\ retention[c] # Retired
    /\ work' = [work EXCEPT ![c] = [Idle EXCEPT !.pc = "acquire", !.todo = {c}, !.cap = retention[c],
                   !.job = [kind |-> "expire", c |-> c]]]
    /\ UNCHANGED <<gate, member, alive, fence, dispatch, retention, eff>>

ExpireFrozen(i) ==
    LET c == work[i].job.c
        ok == /\ retention[c] = work[i].cap /\ member[c] \in alive
              /\ Current(c, work[i].cap) /\ gate[c].activity = "suspended"
    IN
    /\ work[i].pc = "frozen" /\ work[i].job.kind = "expire"
    /\ gate' = IF ok THEN Invalidate(gate, {c}) ELSE gate
    /\ member' = IF ok THEN [member EXCEPT ![c] = NoSession] ELSE member
    /\ retention' = IF ok THEN [retention EXCEPT ![c] = Retired] ELSE retention
    /\ Leave(i, "done")
    /\ UNCHANGED <<alive, fence, dispatch, eff>>

-----------------------------------------------------------------------------
(* Session kill.                                                           *)

\* snapshotSessionKillParticipants: the target's attachments and the one
\* that asked for the kill (by; NoClient for a kill by the daemon).
StartKill(i) ==
    LET j == work[i].job IN
    /\ work[i].pc = "idle" /\ j.kind = "kill" /\ j.s \in alive
    /\ j.by # NoClient => member[j.by] \in alive
    /\ Freezing(i, IF j.by = NoClient THEN Retired ELSE Capability(j.by),
                Members(j.s) \cup ({j.by} \ {NoClient}), Members(j.s))
    /\ UNCHANGED <<gate, member, alive, fence, dispatch, retention, eff>>

\* Mutant: the snapshot's membership is not compared again.
TargetStillLive(w) == w.job.s \in alive

\* sessionKillParticipantsCurrentLocked.
ParticipantsCurrent(w) ==
    /\ w.job.s \in alive /\ Members(w.job.s) = w.parts
    /\ w.job.by # NoClient => Current(w.job.by, w.cap)

KillFrozen(i) ==
    /\ work[i].pc = "frozen" /\ work[i].job.kind = "kill"
    /\ IF ParticipantsCurrent(work[i]) THEN work' = [work EXCEPT ![i].pc = "own"]
       ELSE Leave(i, "done")
    /\ UNCHANGED <<gate, member, alive, fence, dispatch, retention, eff>>

\* beginTeardownRequest: waits, gates frozen, for moves and other teardowns.
OwnTeardown(i) ==
    LET s == work[i].job.s IN
    /\ work[i].pc = "own" /\ ~fence[s].active /\ fence[s].moves = 0
    /\ fence' = [fence EXCEPT ![s].active = TRUE]
    /\ work' = [work EXCEPT ![i].pc = "teardown"]
    /\ UNCHANGED <<gate, member, alive, dispatch, retention, eff>>

\* The registry removal and every invalidation are one publication.
PublishKill(i) ==
    LET s == work[i].job.s IN
    /\ work[i].pc = "teardown"
    /\ IF ParticipantsCurrent(work[i])
       THEN /\ alive' = alive \ {s}
            /\ gate' = Invalidate(gate, Members(s))
            /\ member' = [c \in Clients |-> IF member[c] = s THEN NoSession ELSE member[c]]
            /\ retention' = ClearedFor(s)
            /\ Leave(i, "closed")
            /\ UNCHANGED fence
       ELSE /\ fence' = [fence EXCEPT ![s].active = FALSE]
            /\ Leave(i, "done")
            /\ UNCHANGED <<alive, gate, member, retention>>
    /\ UNCHANGED <<dispatch, eff>>

-----------------------------------------------------------------------------
(* Session move.                                                           *)

\* lockMoveDispatch: one move at a time in a session.
StartMove(i) ==
    LET j == work[i].job IN
    /\ work[i].pc = "idle" /\ j.kind = "move"
    /\ {j.src, j.dst} \subseteq alive /\ {j.src, j.dst} \cap dispatch = {}
    /\ dispatch' = dispatch \cup {j.src, j.dst}
    /\ work' = [work EXCEPT ![i].pc = "reserve"]
    /\ UNCHANGED <<gate, member, alive, fence, retention, eff>>

\* reserveMoveLifecycles pins both sessions, unless one is being torn down.
ReserveMove(i) ==
    LET j == work[i].job IN
    /\ work[i].pc = "reserve"
    /\ IF \E s \in {j.src, j.dst} : fence[s].active
       THEN /\ dispatch' = dispatch \ {j.src, j.dst}
            /\ work' = [work EXCEPT ![i] = [Idle EXCEPT !.pc = "done", !.job = j]]
            /\ UNCHANGED fence
       ELSE /\ fence' = [s \in Sessions |-> IF s \in {j.src, j.dst}
                            THEN [fence[s] EXCEPT !.moves = @ + 1] ELSE fence[s]]
            /\ work' = [work EXCEPT ![i].pc = "admit"]
            /\ UNCHANGED dispatch
    /\ UNCHANGED <<gate, member, alive, retention, eff>>

\* attachmentAuthorityCurrentLocked, for the attachment that follows.
MoveAuthority(j, cap) == j.c # NoClient => member[j.c] = j.src /\ Current(j.c, cap)

\* admit, and the participants freezeSourceAttachments will freeze.
AdmitMove(i) ==
    LET j == work[i].job
        cap == IF j.c = NoClient THEN Retired ELSE Capability(j.c)
    IN
    /\ work[i].pc = "admit"
    /\ IF {j.src, j.dst} \subseteq alive /\ MoveAuthority(j, cap)
       THEN Freezing(i, cap, IF j.retire THEN Members(j.src) ELSE {j.c} \ {NoClient}, Members(j.src))
       ELSE Leave(i, "done")
    /\ UNCHANGED <<gate, member, alive, fence, dispatch, retention, eff>>

\* publishLocked: the follower joins the destination; a source left empty is
\* retired with every attachment still in it.
PublishMove(i) ==
    LET j == work[i].job
        ok == /\ {j.src, j.dst} \subseteq alive /\ MoveAuthority(j, work[i].cap)
              /\ j.retire => Members(j.src) = work[i].parts
              /\ j.c # NoClient => gate[j.c].activity = "active"
        followed == IF j.c = NoClient THEN gate ELSE Publish(gate, j.c, j.dst)
        left == IF j.retire THEN Members(j.src) \ {j.c} ELSE {}
    IN
    /\ work[i].pc = "frozen" /\ j.kind = "move"
    /\ IF ok THEN /\ gate' = Invalidate(followed, left)
                  /\ member' = [c \in Clients |-> IF c \in left THEN NoSession
                                                 ELSE IF c = j.c THEN j.dst ELSE member[c]]
                  /\ alive' = IF j.retire THEN alive \ {j.src} ELSE alive
                  /\ retention' = IF j.retire THEN ClearedFor(j.src) ELSE retention
                  /\ work' = [work EXCEPT ![i] = [@ EXCEPT !.pc = "unfreeze",
                                 !.cap = IF j.c = NoClient THEN work[i].cap ELSE followed[j.c].cap,
                                 !.next = IF j.c = NoClient THEN "done" ELSE "identity"]]
             ELSE /\ Leave(i, "done")
                  /\ UNCHANGED <<gate, member, alive, retention>>
    /\ UNCHANGED <<fence, dispatch, eff>>

-----------------------------------------------------------------------------
Gates(i) == \/ Acquire(i) \/ Blocked(i) \/ Acquired(i) \/ Drained(i)
            \/ DrainWaits(i) \/ Unfreeze(i) \/ Continue(i)

Job(i) == \/ StartTransition(i) \/ PublishTransition(i)
          \/ AdmitIdentity(i) \/ EndIdentity(i)
          \/ StartDetach(i) \/ DetachFrozen(i)
          \/ StartSuspension(i) \/ SuspendFrozen(i) \/ AckSuspend(i)
          \/ ActivateFrozen(i) \/ FinishActivation(i)
          \/ ExpireFrozen(i)
          \/ StartKill(i) \/ KillFrozen(i) \/ OwnTeardown(i) \/ PublishKill(i)
          \/ StartMove(i) \/ ReserveMove(i) \/ AdmitMove(i) \/ PublishMove(i)

Next ==
    \/ \E e \in Effects : BeginEffect(e) \/ EndEffect(e) \/ \E c \in Clients : CaptureEffect(e, c)
    \/ \E i \in Workers \cup Clients : Gates(i) \/ Job(i) \/ Deadline(i)
    \/ \E c \in Clients : ExpiryFires(c)

Spec == Init /\ [][Next]_vars

\* The scheduler runs every job that can go on, and the expiry timers: the jobs
\* are finitely many, so it is enough that not all of them stop.  Effects come
\* and go for ever beside them; an admitted one ends.  Nothing makes a deadline
\* elapse and nothing makes an effect start.
FairSpec ==
    /\ Spec
    /\ WF_vars(\/ \E i \in Workers \cup Clients : work[i].pc # "idle" /\ (Gates(i) \/ Job(i))
               \/ \E c \in Clients : ExpiryFires(c))
    /\ \A e \in Effects : WF_vars(BeginEffect(e) \/ EndEffect(e))
-----------------------------------------------------------------------------
Capabilities == [sess : Sessions \cup {NoSession}, gen : Nat]

\* Every variable keeps its shape.
TypeOK ==
    /\ gate \in [Clients -> [frozen : BOOLEAN, gen : Nat, cap : Capabilities, inFlight : Nat,
                            activity : {"active", "suspended", "activating"}]]
    /\ member \in [Clients -> Sessions \cup {NoSession}]
    /\ alive \subseteq Sessions /\ dispatch \subseteq Sessions
    /\ fence \in [Sessions -> [active : BOOLEAN, moves : Nat]]
    /\ retention \in [Clients -> Capabilities]
    /\ \A i \in Workers \cup Clients : work[i].held \subseteq Clients /\ work[i].todo \subseteq Clients

\* Transition ownership is exclusive: a gate is frozen exactly while one
\* freeze holds it, whatever acquisition was rolled back or timed out
\* (acquireAttachmentEffectGates, unfreeze).
GateHasOneOwner ==
    \A c \in Clients :
        Cardinality({i \in Workers \cup Clients : c \in work[i].held}) = IF gate[c].frozen THEN 1 ELSE 0

\* An admitted effect keeps its authority until it ends: the capability it
\* was admitted under stays the published one, and only a kill that outlived
\* its drain deadline, with the whole session gone, retires it earlier.
EffectsKeepAuthority ==
    \A e \in Effects : eff[e].pc = "admitted" =>
        \/ gate[eff[e].c].cap = eff[e].cap
        \/ gate[eff[e].c].cap = Retired /\ eff[e].cap.sess \notin alive

\* The publication invariant beginCurrentAttachmentEffectContext relies on: at
\* an open gate the published capability is the registered one.
StableMeansPublished ==
    \A c \in Clients : ~gate[c].frozen =>
        gate[c].cap = IF member[c] = NoSession THEN Retired ELSE Capability(c)

\* No attachment is left in, or joins, a session that left the registry by a
\* kill or a move: either side of the race wins whole.
RegisteredInLiveSession ==
    \A c \in Clients : member[c] \in alive \cup {NoSession}

\* A safety expiry is armed only for the exact suspension that armed it; an
\* activation, a detach, a kill and a move each take it along.
ExpiryPinsSuspension ==
    \A c \in Clients : retention[c] # Retired =>
        gate[c].activity = "suspended" /\ Current(c, retention[c])

\* A session is never both reserved by a move and being torn down.
ReservationExcludesTeardown ==
    \A s \in Sessions : fence[s].active => fence[s].moves = 0

\* A capability is published or retired only at a gate that was frozen before
\* the step (publishFrozenAttachmentCapability and
\* invalidateFrozenAttachmentCapability panic otherwise).
IdentityUnderFreeze ==
    [][\A c \in Clients : gate'[c].cap # gate[c].cap => gate[c].frozen]_vars

\* A job is under way, or an attachment is suspended.
Unsettled ==
    \/ \E i \in Workers : work[i].pc \notin {"idle", "done"}
    \/ \E c \in Clients : gate[c].activity = "suspended" /\ member[c] # NoSession

\* Freezes, drains, teardown ownership and move reservations never wait for
\* one another in a circle, and no attachment stays suspended for ever: every
\* started job ends, and every suspension is activated, detached or expired,
\* whichever of them failed on the way.
GateProgress == Unsettled ~> ~Unsettled

\* Gates, membership, capabilities, reservations and expiries agree whenever the
\* architecture locks are free: a gate has one owner, an open one publishes the
\* registered capability, nobody is registered in a removed session, a reserved
\* session is not torn down, and an expiry belongs to its suspension.
GateConsistent ==
    /\ TypeOK /\ GateHasOneOwner /\ StableMeansPublished /\ RegisteredInLiveSession
    /\ ReservationExcludesTeardown /\ ExpiryPinsSuspension
=============================================================================
