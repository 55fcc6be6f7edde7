----------------------------- MODULE BrokerServe -----------------------------
(***************************************************************************)
(* One broker process: the startup of app/broker_offline.go, the idle      *)
(* supervisor (usecase/broker/lifecycle.go), the IPC listener with its      *)
(* admissions and sessions (adapters/brokeripc/server.go) and the authority *)
(* with the service of each admitted client (usecase/broker/service.go).    *)
(*                                                                         *)
(* A connection is accepted, admitted and served by one goroutine after    *)
(* another, so conn[c].at is where the connection stands:                  *)
(*   accepted .. bind            listener.admit, Authority.AdmitClient      *)
(*   serving                     serverSession.run                         *)
(*   ending .. over              serverSession.shutdown, Service.Close      *)
(* op[c] is one mutation or stream open it runs.  Each section under a     *)
(* lock is one step.  A signal that follows an unlock is sent with it:     *)
(* run reads the timer after taking the token, so an earlier token only    *)
(* spares it a second reading.                                             *)
(***************************************************************************)
EXTENDS BrokerSupervisor, Sequences, FiniteSets

CONSTANTS
    Conn,    \* bound: connections that arrive, each once
    Scenes   \* what a behaviour meets, a record of
             \*   slots    Config.MaxClients of the listener (64)
             \*   clients  PoolLimits.Clients; the broker uses 2 * slots
             \*   conns    connections that arrive
             \*   ops      connections that ask for an operation
             \*   late     connections whose handshake budget may elapse
             \*   leaves   connections whose peer may go away
             \*   builds   whether a client is of another build
             \*   cold     it starts with the startup; else with a broker that serves
             \*   idle     whether an idle grace elapses
             \*   stop     whether the operator stops the broker

ASSUME ServeAssumption ==
    /\ IsFiniteSet(Conn)
    /\ Scenes \subseteq [slots : Nat \ {0}, clients : Nat, conns : SUBSET Conn,
                        ops : SUBSET Conn, late : SUBSET Conn, leaves : SUBSET Conn, builds : SUBSET BOOLEAN,
                        cold : BOOLEAN, idle : BOOLEAN, stop : BOOLEAN]

VARIABLES
    sup,       \* the supervisor, as BrokerSupervisor has it
    tick,      \* arms whose timer channel holds a tick
    elapsed,   \* the current arm, once its whole grace went by
    wake,      \* the token in s.wake
    root,      \* the root context is cancelled
    run,       \* where Supervisor.run stands: [at, timer, arm, hooks]
    hooks,     \* s.hooks in the order of registration
    registry,  \* Registry.Run: none, running, returned
    main,      \* where the startup stands
    ids,       \* p.clients: pairs of a connection and a use of the identity
    poolClosed,
    scene,     \* the scene of this behaviour
    lis,       \* listener: its flags, pending, sessions and slots, and what Close drains
    conn, op,
    core       \* Service: [open, closed, busy]

pool == <<ids, poolClosed, scene>>
startup == <<hooks, registry, main>>
super == <<sup, tick, elapsed, wake>>
vars == <<super, root, run, startup, pool, lis, conn, op, core>>

Idle == [at |-> "none", late |-> FALSE, registered |-> FALSE, carrier |-> TRUE,
         guard |-> "off", publish |-> "no", started |-> FALSE]

\* Where a scene starts: the supervisor armed its timer; a broker that serves
\* held its startup lease, so it armed a second time.
Booted == release(admit(armTimer(newSupervisor), "operation"), "operation")

Init ==
    /\ scene \in Scenes
    /\ sup = IF scene.cold THEN armTimer(newSupervisor) ELSE Booted
    /\ tick = {} /\ elapsed = {} /\ wake = FALSE /\ root = FALSE
    /\ run = [at |-> "read", timer |-> NoTimer, arm |-> 0, hooks |-> <<>>]
    /\ hooks = IF scene.cold THEN <<>> ELSE <<"registry", "pool", "listener">>
    /\ registry = IF scene.cold THEN "none" ELSE "running"
    /\ main = IF scene.cold THEN "lease" ELSE "serving"
    /\ ids = {} /\ poolClosed = FALSE
    /\ lis = [open |-> ~scene.cold, closed |-> FALSE, retiring |-> FALSE, stopped |-> FALSE,
              pending |-> {}, sessions |-> {}, slots |-> {}, drain |-> {}, current |-> {}]
    /\ conn = [c \in Conn |-> Idle]
    /\ op = [c \in Conn |-> "none"]
    /\ core = [c \in Conn |-> [open |-> FALSE, closed |-> FALSE, busy |-> FALSE]]

-----------------------------------------------------------------------------
\* The supervisor

\* A new value of the record: stopping a timer also drains its channel.
Sets(s) ==
    /\ sup' = s
    /\ tick' = IF s.timer = sup.timer THEN tick ELSE tick \ {sup.timer}
    /\ elapsed' = elapsed \cap {s.arm}

Admits(kind) == ~sup.closed /\ Sets(admit(sup, kind)) /\ wake' = TRUE

Releases_NoSignal(kind) == Sets(release(sup, kind)) /\ UNCHANGED wake
Releases(kind) == Sets(release(sup, kind)) /\ wake' = TRUE

\* The clock: the grace of the installed timer elapses.
TimerFires ==
    /\ scene.idle /\ sup.timer # NoTimer /\ sup.timer \notin elapsed
    /\ tick' = tick \union {sup.timer}
    /\ elapsed' = elapsed \union {sup.timer}
    /\ UNCHANGED <<sup, wake, root, run, startup, pool, lis, conn, op, core>>

RunReads ==
    /\ run.at = "read"
    /\ run' = [run EXCEPT !.at = "select", !.timer = sup.timer, !.arm = sup.arm]
    /\ UNCHANGED <<super, root, startup, pool, lis, conn, op, core>>

RunWoken ==
    /\ run.at = "select" /\ wake
    /\ wake' = FALSE
    /\ run' = [run EXCEPT !.at = "read", !.timer = NoTimer, !.arm = 0]
    /\ UNCHANGED <<sup, tick, elapsed, root, startup, pool, lis, conn, op, core>>

RunTicks ==
    /\ run.at = "select" /\ run.timer \in tick
    /\ tick' = tick \ {run.timer}
    /\ run' = [run EXCEPT !.at = "expired"]
    /\ UNCHANGED <<sup, elapsed, wake, root, startup, pool, lis, conn, op, core>>

\* tryCommitIdleExpiry
RunExpires ==
    /\ run.at = "expired"
    /\ \/ /\ expires(sup, run.arm)
          /\ Sets(commit(sup))
          /\ run' = [run EXCEPT !.at = "finalize"]
       \/ /\ ~expires(sup, run.arm)
          /\ run' = [run EXCEPT !.at = "read", !.timer = NoTimer, !.arm = 0]
          /\ UNCHANGED <<sup, tick, elapsed>>
    /\ UNCHANGED <<wake, root, startup, pool, lis, conn, op, core>>

RunClosing ==
    /\ run.at = "select" /\ sup.closed
    /\ run' = [run EXCEPT !.at = "finalize"]
    /\ UNCHANGED <<super, root, startup, pool, lis, conn, op, core>>

\* The order in which finalize drains the hooks.
drainOrder_Registration(hs) == hs
drainOrder(hs) == [i \in 1 .. Len(hs) |-> hs[Len(hs) + 1 - i]]

Finalize ==
    /\ run.at = "finalize"
    /\ root' = TRUE
    /\ run' = [at |-> "drain", timer |-> NoTimer, arm |-> 0, hooks |-> drainOrder(hooks)]
    /\ UNCHANGED <<super, startup, pool, lis, conn, op, core>>

HookNext == run' = [run EXCEPT !.hooks = Tail(@), !.at = "drain"]

DrainRegistry ==
    /\ run.at = "drain" /\ run.hooks # <<>> /\ Head(run.hooks) = "registry"
    /\ registry = "returned"
    /\ HookNext
    /\ UNCHANGED <<super, root, startup, pool, lis, conn, op, core>>

DrainPool ==
    /\ run.at = "drain" /\ run.hooks # <<>> /\ Head(run.hooks) = "pool"
    /\ poolClosed' = TRUE
    /\ HookNext
    /\ UNCHANGED <<super, root, startup, ids, scene, lis, conn, op, core>>

Drained ==
    /\ run.at = "drain" /\ run.hooks = <<>>
    /\ run' = [run EXCEPT !.at = "stopped"]
    /\ UNCHANGED <<super, root, startup, pool, lis, conn, op, core>>

\* Registry.Run returns once the root context is cancelled.
RegistryReturns ==
    /\ registry = "running" /\ root
    /\ registry' = "returned"
    /\ UNCHANGED <<super, root, run, hooks, main, pool, lis, conn, op, core>>

-----------------------------------------------------------------------------
\* The startup

MainAdmitted ==
    /\ main = "lease"
    /\ Admits("operation")
    /\ main' = "runner"
    /\ UNCHANGED <<root, run, hooks, registry, pool, lis, conn, op, core>>

MainRefused ==
    /\ main = "lease" /\ sup.closed
    /\ main' = "close"
    /\ UNCHANGED <<super, root, run, hooks, registry, pool, lis, conn, op, core>>

\* A step of the composition fails: the deferred calls run.
MainFails ==
    /\ main \in {"runner", "pool", "listen"}
    /\ main' = "unwind"
    /\ UNCHANGED <<super, root, run, hooks, registry, pool, lis, conn, op, core>>

\* Supervisor.Register: main holds its lease, so it is not refused.
Registers(hook, next) ==
    /\ ~sup.closed
    /\ hooks' = Append(hooks, hook)
    /\ main' = next
    /\ UNCHANGED <<super, root, run, pool, conn, op, core>>

MainRegistry ==
    /\ main = "runner"
    /\ Registers("registry", "pool")
    /\ registry' = "running"
    /\ UNCHANGED lis

MainPool == main = "pool" /\ Registers("pool", "listen") /\ UNCHANGED <<registry, lis>>

MainListens ==
    /\ main = "listen"
    /\ lis' = [lis EXCEPT !.open = TRUE]
    /\ main' = "hook"
    /\ UNCHANGED <<super, root, run, hooks, registry, pool, conn, op, core>>

MainListener == main = "hook" /\ Registers("listener", "started") /\ UNCHANGED <<registry, lis>>

MainReleases ==
    /\ main \in {"started", "unwind"}
    /\ Releases("operation")
    /\ main' = IF main = "started" THEN "serving" ELSE "close"
    /\ UNCHANGED <<root, run, hooks, registry, pool, lis, conn, op, core>>

\* The context ends or the accept loop fails; or the listener retired, which
\* cancels the context, or the supervisor is done.
MainEnds == run.at = "stopped" \/ (lis.retiring /\ ~lis.open)

MainStops ==
    /\ main = "serving" /\ (scene.stop \/ MainEnds)
    /\ main' = "close"
    /\ UNCHANGED <<super, root, run, hooks, registry, pool, lis, conn, op, core>>

\* Supervisor.Close: commit, then wait for run.
MainCommits ==
    /\ main = "close"
    /\ Sets(commit(sup))
    /\ main' = "closing"
    /\ UNCHANGED <<wake, root, run, hooks, registry, pool, lis, conn, op, core>>

MainExits ==
    /\ main = "closing" /\ run.at = "stopped"
    /\ main' = "exited"
    /\ UNCHANGED <<super, root, run, hooks, registry, pool, lis, conn, op, core>>

-----------------------------------------------------------------------------
\* Admission

admitRest == <<root, run, startup>>
To(c, at) == conn' = [conn EXCEPT ![c].at = at]

\* acceptLoop takes a slot, then the carriage; it tracks one before the next.
Accept(c) ==
    /\ c \in scene.conns /\ conn[c].at = "none" /\ lis.open
    /\ Cardinality(lis.slots) < scene.slots
    /\ \A d \in Conn : conn[d].at # "accepted"
    /\ lis' = [lis EXCEPT !.slots = @ \union {c}]
    /\ To(c, "accepted")
    /\ UNCHANGED <<super, admitRest, pool, op, core>>

TrackPending(c) ==
    /\ conn[c].at = "accepted"
    /\ lis' = [lis EXCEPT !.pending = @ \union {c}]
    /\ To(c, "preamble")
    /\ UNCHANGED <<super, admitRest, pool, op, core>>

CtxDone(c) == lis.stopped \/ conn[c].late

\* The handshake budget of the connection elapses.
Deadline(c) ==
    /\ conn[c].at \in {"preamble", "check", "serving"}
    /\ c \in scene.late /\ ~conn[c].late /\ ~conn[c].registered
    /\ conn' = [conn EXCEPT ![c].late = TRUE]
    /\ UNCHANGED <<super, admitRest, pool, lis, op, core>>

\* runServerPreamble, and the first look of AdmitClient at its context.
PreambleEnds(c) ==
    /\ conn[c].at = "preamble"
    /\ \/ conn[c].carrier /\ ~CtxDone(c) /\ To(c, "lease")
       \/ (CtxDone(c) \/ ~conn[c].carrier) /\ To(c, "refused")
    /\ UNCHANGED <<super, admitRest, pool, lis, op, core>>

AdmitLease(c) ==
    /\ conn[c].at = "lease"
    /\ \/ Admits("client") /\ To(c, "id")
       \/ sup.closed /\ To(c, "refused") /\ UNCHANGED super
    /\ UNCHANGED <<admitRest, pool, lis, op, core>>

\* Pool.RegisterClient for the identity of one use.
RegisterFails == poolClosed \/ Cardinality(ids) >= scene.clients

RegisterClient(c, use, next, undo) ==
    \/ /\ ~RegisterFails
       /\ ids' = ids \union {<<c, use>>}
       /\ To(c, next)
    \/ /\ RegisterFails
       /\ To(c, undo)
       /\ UNCHANGED ids

AdmitId(c) ==
    /\ conn[c].at = "id"
    /\ RegisterClient(c, "stream", "preview", "undoLease")
    /\ UNCHANGED <<super, admitRest, poolClosed, scene, lis, op, core>>

AdmitPreview(c) ==
    /\ conn[c].at = "preview"
    /\ RegisterClient(c, "preview", "check", "undoId")
    /\ UNCHANGED <<super, admitRest, poolClosed, scene, lis, op, core>>

\* The last look at the context; an admitted client gets its service.
AdmitCheck(c) ==
    /\ conn[c].at = "check"
    /\ \/ /\ ~CtxDone(c)
          /\ core' = [core EXCEPT ![c].open = TRUE]
          /\ To(c, "bind")
       \/ /\ CtxDone(c)
          /\ To(c, "undoPreview")
          /\ UNCHANGED core
    /\ UNCHANGED <<super, admitRest, pool, lis, op>>

CloseClient(c, use) == ids' = ids \ {<<c, use>>} /\ UNCHANGED <<poolClosed, scene>>

UndoPreview(c) ==
    /\ conn[c].at = "undoPreview"
    /\ CloseClient(c, "preview") /\ To(c, "undoId")
    /\ UNCHANGED <<super, admitRest, lis, op, core>>

UndoId(c) ==
    /\ conn[c].at = "undoId"
    /\ CloseClient(c, "stream") /\ To(c, "undoLease")
    /\ UNCHANGED <<super, admitRest, lis, op, core>>

UndoLease(c) ==
    /\ conn[c].at = "undoLease"
    /\ Releases("client") /\ To(c, "refused")
    /\ UNCHANGED <<admitRest, pool, lis, op, core>>

\* admit after a failed startSession.
Refused(c) ==
    /\ conn[c].at = "refused"
    /\ lis' = [lis EXCEPT !.pending = @ \ {c}, !.slots = @ \ {c}]
    /\ To(c, "over")
    /\ UNCHANGED <<super, admitRest, pool, op, core>>

\* The end of startSession under l.mu: a session the listener will not serve is
\* shut down by the admission itself.
Bind(c) ==
    /\ conn[c].at = "bind"
    /\ \/ /\ ~lis.closed /\ ~lis.retiring
          /\ lis' = [lis EXCEPT !.pending = @ \ {c}, !.sessions = @ \union {c}]
          /\ conn' = [conn EXCEPT ![c].at = "serving", ![c].guard = "armed",
                                  ![c].publish = "publishing", ![c].started = TRUE]
       \/ /\ lis.closed \/ lis.retiring
          /\ To(c, "ending")
          /\ UNCHANGED lis
    /\ UNCHANGED <<super, admitRest, pool, op, core>>

\* admit publishes the session, or closes it when the listener is done.
Publish(c) ==
    /\ conn[c].publish = "publishing"
    /\ \/ conn' = [conn EXCEPT ![c].publish = "done"]
       \/ /\ lis.stopped
          /\ conn' = [conn EXCEPT ![c].publish = "closing", ![c].carrier = FALSE]
    /\ UNCHANGED <<super, admitRest, pool, lis, op, core>>

PublishCloses(c) ==
    /\ conn[c].publish = "closing" /\ conn[c].at = "over"
    /\ conn' = [conn EXCEPT ![c].publish = "done"]
    /\ UNCHANGED <<super, admitRest, pool, lis, op, core>>

-----------------------------------------------------------------------------
\* One session

\* The peer goes away, or breaks the protocol: the reader returns.
PeerLeaves(c) ==
    /\ c \in scene.leaves /\ conn[c].at \in {"preamble", "serving"} /\ conn[c].carrier
    /\ conn' = [conn EXCEPT ![c].carrier = FALSE]
    /\ UNCHANGED <<super, admitRest, pool, lis, op, core>>

\* The Register is marked before anything else is done for it.
RegisterArrives(c) ==
    /\ conn[c].at = "serving" /\ conn[c].carrier /\ ~conn[c].registered
    /\ conn' = [conn EXCEPT ![c].at = "registering", ![c].registered = TRUE]
    /\ UNCHANGED <<super, admitRest, pool, lis, op, core>>

tryRetire_NotAlone(c) == ~lis.closed /\ ~lis.retiring /\ c \in lis.sessions
tryRetire(c) == ~lis.closed /\ ~lis.retiring /\ lis.pending = {} /\ lis.sessions = {c}

\* stopRegistration joins the guard; then a client of another build retires the
\* listener when it is alone.
RegisterEnds(c, otherBuild) ==
    /\ conn[c].at = "registering" /\ conn[c].guard # "loaded"
    /\ conn' = [conn EXCEPT ![c].at = "serving",
                            ![c].guard = IF @ = "aborted" THEN @ ELSE "stopped"]
    /\ lis' = [lis EXCEPT !.retiring = @ \/ (otherBuild /\ tryRetire(c))]
    /\ UNCHANGED <<super, admitRest, pool, op, core>>

\* The goroutine of a retiring session closes the socket.
RetireCloses ==
    /\ lis.retiring /\ lis.open
    /\ lis' = [lis EXCEPT !.open = FALSE]
    /\ UNCHANGED <<super, admitRest, pool, conn, op, core>>

\* The guard of the registration deadline looks at the mark, and then aborts.
GuardLoads(c) ==
    /\ conn[c].guard = "armed" /\ conn[c].late /\ conn[c].at \in {"serving", "registering"}
    /\ conn' = [conn EXCEPT ![c].guard = IF conn[c].registered THEN "stopped" ELSE "loaded"]
    /\ UNCHANGED <<super, admitRest, pool, lis, op, core>>

GuardAborts(c) ==
    /\ conn[c].guard = "loaded"
    /\ conn' = [conn EXCEPT ![c].guard = "aborted", ![c].carrier = FALSE]
    /\ UNCHANGED <<super, admitRest, pool, lis, op, core>>

\* A mutation or a stream open, in a worker of its own.
OpStarts(c) ==
    /\ conn[c].at = "serving" /\ conn[c].carrier /\ conn[c].guard = "stopped"
    /\ c \in scene.ops /\ op[c] = "none"
    /\ op' = [op EXCEPT ![c] = "begin"]
    /\ UNCHANGED <<super, admitRest, pool, lis, conn, core>>

OpEnters(c) ==
    /\ op[c] = "begin"
    /\ core' = [core EXCEPT ![c].busy = ~core[c].closed]
    /\ op' = [op EXCEPT ![c] = IF core[c].closed THEN "over" ELSE "admit"]
    /\ UNCHANGED <<super, admitRest, pool, lis, conn>>

OpAdmitted(c) ==
    /\ op[c] = "admit"
    /\ \/ Admits("operation") /\ op' = [op EXCEPT ![c] = "running"]
       \/ sup.closed /\ op' = [op EXCEPT ![c] = "leave"] /\ UNCHANGED super
    /\ UNCHANGED <<admitRest, pool, lis, conn, core>>

\* The session's context, or the service's, which the root context bounds.
OpCancelled(c) == conn[c].at = "ending" \/ root

OpEnds(c) ==
    /\ op[c] = "running"
    /\ op' = [op EXCEPT ![c] = "release"]
    /\ UNCHANGED <<super, admitRest, pool, lis, conn, core>>

OpReleases(c) ==
    /\ op[c] = "release"
    /\ Releases("operation")
    /\ op' = [op EXCEPT ![c] = "leave"]
    /\ UNCHANGED <<admitRest, pool, lis, conn, core>>

OpLeaves(c) ==
    /\ op[c] = "leave"
    /\ core' = [core EXCEPT ![c].busy = FALSE]
    /\ op' = [op EXCEPT ![c] = "over"]
    /\ UNCHANGED <<super, admitRest, pool, lis, conn>>

-----------------------------------------------------------------------------
\* The end of a session: serverSession.shutdown and Service.Close

ReaderEnds(c) ==
    /\ conn[c].at = "serving" /\ ~conn[c].carrier /\ conn[c].guard # "loaded"
    /\ conn' = [conn EXCEPT ![c].at = "ending",
                            ![c].guard = IF @ = "armed" THEN "stopped" ELSE @]
    /\ UNCHANGED <<super, admitRest, pool, lis, op, core>>

WorkersJoined(c) == op[c] \in {"none", "over"}

CoreCloses(c) ==
    /\ conn[c].at = "ending" /\ WorkersJoined(c)
    /\ core' = [core EXCEPT ![c].closed = TRUE]
    /\ To(c, "closing")
    /\ UNCHANGED <<super, admitRest, pool, lis, op>>

CoreDrains(c) ==
    /\ conn[c].at = "closing" /\ ~core[c].busy
    /\ CloseClient(c, "preview") /\ To(c, "closeId")
    /\ UNCHANGED <<super, admitRest, lis, op, core>>

CoreRetires(c) ==
    /\ conn[c].at = "closeId"
    /\ CloseClient(c, "stream") /\ To(c, "release")
    /\ UNCHANGED <<super, admitRest, lis, op, core>>

CoreReleases(c) ==
    /\ conn[c].at = "release"
    /\ Releases("client") /\ To(c, "slot")
    /\ UNCHANGED <<admitRest, pool, lis, op, core>>

SlotReleased(c) ==
    /\ conn[c].at = "slot"
    /\ lis' = [lis EXCEPT !.slots = @ \ {c}]
    /\ To(c, "forget")
    /\ UNCHANGED <<super, admitRest, pool, op, core>>

SessionDone(c) ==
    /\ conn[c].at = "forget"
    /\ lis' = [lis EXCEPT !.sessions = @ \ {c}]
    /\ To(c, IF conn[c].started THEN "over" ELSE "refused")
    /\ UNCHANGED <<super, admitRest, pool, op, core>>

-----------------------------------------------------------------------------
\* listener.Close, which only the drain of its hook calls

closeRest == <<super, root, startup, pool, op, core>>
AtHook(at) == run.at = at /\ run.hooks # <<>> /\ Head(run.hooks) = "listener"

ListenerMarks ==
    /\ AtHook("drain")
    /\ lis' = [lis EXCEPT !.closed = TRUE]
    /\ run' = [run EXCEPT !.at = "stop"]
    /\ UNCHANGED <<closeRest, conn>>

ListenerStops ==
    /\ AtHook("stop")
    /\ lis' = [lis EXCEPT !.stopped = TRUE, !.open = FALSE]
    /\ run' = [run EXCEPT !.at = "pending"]
    /\ UNCHANGED <<closeRest, conn>>

ClosePending ==
    /\ AtHook("pending")
    /\ conn' = [c \in Conn |-> IF c \in lis.pending THEN [conn[c] EXCEPT !.carrier = FALSE]
                               ELSE conn[c]]
    /\ run' = [run EXCEPT !.at = "join"]
    /\ UNCHANGED <<closeRest, lis>>

\* l.wg: the accept loop and the admissions.
Admitting(c) ==
    \/ ~conn[c].started /\ conn[c].at \notin {"none", "over"}
    \/ conn[c].publish \in {"publishing", "closing"}

joined == \A c \in Conn : ~Admitting(c)

ListenerJoins ==
    /\ AtHook("join") /\ joined
    /\ lis' = [lis EXCEPT !.drain = lis.sessions, !.sessions = {}]
    /\ run' = [run EXCEPT !.at = "sessions"]
    /\ UNCHANGED <<closeRest, conn>>

CloseSession(c) ==
    /\ AtHook("sessions") /\ lis.current = {} /\ c \in lis.drain
    /\ conn' = [conn EXCEPT ![c].carrier = FALSE]
    /\ lis' = [lis EXCEPT !.current = {c}]
    /\ UNCHANGED <<closeRest, run>>

SessionClosed(c) ==
    /\ AtHook("sessions") /\ lis.current = {c} /\ conn[c].at = "over"
    /\ lis' = [lis EXCEPT !.current = {}, !.drain = @ \ {c}]
    /\ UNCHANGED <<closeRest, run, conn>>

ListenerClosed ==
    /\ AtHook("sessions") /\ lis.current = {} /\ lis.drain = {}
    /\ HookNext
    /\ UNCHANGED <<closeRest, lis, conn>>

-----------------------------------------------------------------------------
Runs ==
    \/ RunReads \/ RunWoken \/ RunTicks \/ RunExpires \/ RunClosing
    \/ Finalize \/ DrainRegistry \/ DrainPool \/ Drained
    \/ ListenerMarks \/ ListenerStops \/ ClosePending \/ ListenerJoins \/ ListenerClosed
    \/ \E c \in Conn : CloseSession(c) \/ SessionClosed(c)

Starts ==
    \/ MainAdmitted \/ MainRefused \/ MainRegistry \/ MainPool \/ MainListens
    \/ MainListener \/ MainReleases \/ MainCommits \/ MainExits

\* The goroutine that carries a connection, but for Accept and the peer.
Serves(c) ==
    \/ TrackPending(c) \/ PreambleEnds(c) \/ AdmitLease(c) \/ AdmitId(c) \/ AdmitPreview(c)
    \/ AdmitCheck(c) \/ UndoPreview(c) \/ UndoId(c) \/ UndoLease(c) \/ Refused(c) \/ Bind(c)
    \/ \E otherBuild \in scene.builds : RegisterEnds(c, otherBuild)
    \/ ReaderEnds(c) \/ CoreCloses(c) \/ CoreDrains(c) \/ CoreRetires(c) \/ CoreReleases(c)
    \/ SlotReleased(c) \/ SessionDone(c)

Publishes(c) == Publish(c) \/ PublishCloses(c)
Guards(c) == GuardLoads(c) \/ GuardAborts(c)
Works(c) == OpEnters(c) \/ OpAdmitted(c) \/ OpReleases(c) \/ OpLeaves(c)

Next ==
    \/ TimerFires \/ RegistryReturns \/ Runs
    \/ Starts \/ MainFails \/ MainStops
    \/ RetireCloses
    \/ \E c \in Conn :
         \/ Accept(c) \/ Deadline(c) \/ PeerLeaves(c) \/ RegisterArrives(c)
         \/ Serves(c) \/ Publishes(c) \/ Guards(c) \/ OpStarts(c) \/ Works(c) \/ OpEnds(c)

\* What goes on without help: the goroutines, the clock, and an operation whose
\* context is cancelled.  Nothing makes a peer connect, register, ask or leave,
\* nor the operator stop the broker.
Proceeds ==
    \/ TimerFires \/ RegistryReturns \/ Runs \/ Starts \/ (MainEnds /\ MainStops) \/ RetireCloses
    \/ \E c \in Conn :
         \/ Deadline(c) \/ Serves(c) \/ Publishes(c) \/ Guards(c) \/ Works(c)
         \/ OpCancelled(c) /\ OpEnds(c)

\* The scheduler runs every goroutine that can go on.  A behaviour has finitely
\* many of these steps, so it is enough to assume that not all of them stop.
Fairness == WF_vars(Proceeds)

Spec == Init /\ [][Next]_vars /\ Fairness

-----------------------------------------------------------------------------
TypeOK ==
    /\ sup \in [closed : BOOLEAN, leases : [LeaseKind -> Nat], timer : Nat, armed : BOOLEAN, arm : Nat]
    /\ tick \subseteq elapsed /\ elapsed \subseteq 1 .. sup.arm
    /\ ids \subseteq Conn \X {"stream", "preview"}
    /\ lis.pending \subseteq Conn

HasIds(c) == conn[c].at \in {"check", "undoPreview", "bind", "serving", "registering", "ending", "closing"}
HasId(c) == HasIds(c) \/ conn[c].at \in {"preview", "undoId", "closeId"}
HasLease(c) == HasId(c) \/ conn[c].at \in {"id", "undoLease", "release"}
HasSlot(c) == conn[c].at \notin {"none", "forget", "over"}
HasOperation(c) == op[c] \in {"running", "release"}
Starting == main \in {"runner", "pool", "listen", "hook", "started", "unwind"}

\* The leases, the pool identities and the slots are those of the goroutines
\* that hold them, on every path of AdmitClient, Close and the operations, and
\* the idle timer is installed exactly while the open broker has no lease
\* ("active exactly when both lease counts are zero").  The startup lease keeps
\* the supervisor open until the listener is registered.
LeasesExact ==
    /\ TypeOK
    /\ sup.leases["client"] = Cardinality({c \in Conn : HasLease(c)})
    /\ sup.leases["operation"] = Cardinality({c \in Conn : HasOperation(c)})
                                  + (IF Starting THEN 1 ELSE 0)
    /\ sup.armed <=> ~sup.closed /\ Unleased(sup)
    /\ sup.timer = IF sup.armed THEN sup.arm ELSE NoTimer
    /\ Starting => ~sup.closed
    /\ ids = {i \in Conn \X {"stream", "preview"} :
                IF i[2] = "preview" THEN HasIds(i[1]) ELSE HasId(i[1])}
    /\ \A c \in Conn : c \in lis.slots => HasSlot(c)
    /\ \A c \in Conn : HasSlot(c) /\ conn[c].at # "refused" => c \in lis.slots

\* The idle shutdown commits only when no lease is held and the whole grace of
\* the current arm went by: a tick of an arm that an admission superseded never
\* stops the broker (tryCommitIdleExpiry).
IdleCommitEarned ==
    [][~sup.closed /\ sup'.closed /\ main' = main
         => Unleased(sup) /\ sup.arm \in elapsed]_vars

\* Shutdown drains the listener before the pool: when the pool closes no
\* connection uses it any more, and when the process exits no goroutine of a
\* connection or of the registry is left and everything it held was given back.
ShutdownJoins ==
    /\ poolClosed => root /\ ids = {} /\ \A c \in Conn : conn[c].at \in {"none", "over"}
    /\ main = "exited" =>
         /\ registry # "running"
         /\ Unleased(sup) /\ ids = {} /\ lis.slots = {} /\ lis.sessions = {}
         /\ \A c \in Conn : conn[c].at \in {"none", "over"} /\ op[c] \in {"none", "over"}
                              /\ ~conn[c].publish \in {"publishing", "closing"}

\* A listener slot pays for both pool identities of its connection: with the
\* pool sized at twice the slots (brokerServePoolLimits) no admission is ever
\* refused for the pool's client limit.
SlotCoversIds ==
    scene.clients = 2 * scene.slots =>
        \A c \in Conn : conn[c].at \in {"id", "preview"} => Cardinality(ids) < scene.clients

\* The client that is told the broker retires is the only one it serves, and no
\* other is served after that (tryRetire, startSession).
RetiresAlone ==
    lis.retiring =>
        Cardinality({c \in Conn : conn[c].started /\ conn[c].at # "over"}) <= 1

\* A connection holds its slot for both of its identities, and a retiring broker
\* serves one client only.
AdmissionConsistent == SlotCoversIds /\ RetiresAlone

\* Leases, pool identities, slots and the idle timer are exactly those of the
\* goroutines that hold them; a slot pays for both identities of its connection,
\* and a retiring broker serves one client only.
ServiceExact == LeasesExact /\ AdmissionConsistent

\* The process is stopping or unused, or a client that is accepted does not
\* register.
Ending ==
    \/ main # "exited" /\ (sup.closed \/ lis.retiring \/ (scene.idle /\ Unleased(sup)))
    \/ \E c \in scene.late : conn[c].at \notin {"none", "over"} /\ ~conn[c].registered

\* What the comment on serverSession.registered says: "a Register that arrives
\* at the deadline boundary is never settled as a peer timeout even if the guard
\* wins the race to the deadline".
RegisterNotTimedOut == \A c \in Conn : conn[c].registered => conn[c].guard # "aborted"
=============================================================================
