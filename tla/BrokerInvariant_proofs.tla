----------------------- MODULE BrokerInvariant_proofs -----------------------
(***************************************************************************)
(* The inductive invariant of BrokerServe, and the steps that keep it      *)
(* without counting: the supervisor's run, the drain, the startup, and the *)
(* steps of a connection or an operation that take or give back nothing.   *)
(*                                                                         *)
(* ServeInv has five parts, and each part has a lemma that says what a     *)
(* step must respect to keep it:                                           *)
(*   ShapeInv   what each variable holds                                   *)
(*   ClockInv   the supervisor's record, its timer, its ticks and the arm  *)
(*              that Supervisor.run looks at                               *)
(*   CountInv   the two lease counters and who holds the leases            *)
(*   TableInv   the slots, the sessions, the identities and the retiring   *)
(*              client                                                     *)
(*   DrainInv   how far the startup and the shutdown went, and what is     *)
(*              quiet by then                                              *)
(* A lemma about a group of actions has one step per action.               *)
(***************************************************************************)
EXTENDS BrokerServe, TLAPS

-----------------------------------------------------------------------------
(* Shapes.                                                                 *)

\* Where a connection can stand, and what it holds there.
IdsAt == {"check", "undoPreview", "bind", "serving", "registering", "ending", "closing"}
IdAt == IdsAt \union {"preview", "undoId", "closeId"}
LeaseAt == IdAt \union {"id", "undoLease", "release"}
ConnAt == LeaseAt \union {"none", "accepted", "preamble", "lease", "refused", "slot", "forget", "over"}

\* Where a connection with a session can stand, and where its operation can run.
SessionAt == {"serving", "registering", "ending", "closing", "closeId", "release", "slot",
              "forget", "over"}
WorkAt == {"serving", "registering", "ending"}

ConnType ==
    [at : ConnAt, late : BOOLEAN, registered : BOOLEAN, carrier : BOOLEAN,
     guard : {"off", "armed", "stopped", "loaded", "aborted"},
     publish : {"no", "publishing", "closing", "done"}, started : BOOLEAN]
OpAt == {"none", "begin", "admit", "running", "release", "leave", "over"}
ListenerType ==
    [open : BOOLEAN, closed : BOOLEAN, retiring : BOOLEAN, stopped : BOOLEAN, pending : SUBSET Conn,
     sessions : SUBSET Conn, slots : SUBSET Conn, drain : SUBSET Conn, current : SUBSET Conn]
SupType ==
    [closed : BOOLEAN, leases : [LeaseKind -> Nat], timer : Nat, armed : BOOLEAN, arm : Nat]

\* Only a session that was started goes through its stages under l.sessions, and
\* only a session that runs has an operation.
Placed(r, o) ==
    /\ r.started => r.at \in SessionAt
    /\ o \notin {"none", "over"} => r.at \in WorkAt

ShapeInv ==
    /\ scene \in Scenes
    /\ conn \in [Conn -> ConnType] /\ op \in [Conn -> OpAt]
    /\ lis \in ListenerType
    /\ root \in BOOLEAN /\ poolClosed \in BOOLEAN
    /\ \A c \in Conn : Placed(conn[c], op[c])

-----------------------------------------------------------------------------
(* The supervisor and its timer.                                           *)

\* The timer is installed exactly while an open supervisor has no lease.
SupOK(s) ==
    /\ s \in SupType
    /\ s.armed <=> (~s.closed /\ Unleased(s))
    /\ s.timer = IF s.armed THEN s.arm ELSE NoTimer

RunAt == {"read", "select", "expired", "finalize", "drain", "stop", "pending", "join",
          "sessions", "stopped"}

\* A tick is of the installed timer, and run looks at an arm that is current or
\* superseded; if it took a tick of the current arm, that arm's grace went by.
ClockInv ==
    /\ SupOK(sup)
    /\ tick \subseteq elapsed /\ elapsed \subseteq {sup.arm} /\ NoTimer \notin elapsed
    /\ tick \subseteq {sup.timer}
    /\ run \in [at : RunAt, timer : Nat, arm : Nat, hooks : {run.hooks}]
    /\ run.timer \in {NoTimer, run.arm} /\ run.arm <= sup.arm
    /\ run.at = "expired" /\ run.arm = sup.arm => run.arm \in elapsed

\* Each counter counts its holders; the startup holds a lease of its own, so the
\* supervisor is open until the startup gives it back.
Leasing == {c \in Conn : HasLease(c)}
Operating == {c \in Conn : HasOperation(c)}

CountInv ==
    /\ sup.leases["client"] = Cardinality(Leasing)
    /\ sup.leases["operation"] = Cardinality(Operating) + (IF Starting THEN 1 ELSE 0)
    /\ Starting => ~sup.closed

-----------------------------------------------------------------------------
(* The listener's tables and the pool's identities.                        *)

Live(c) == conn[c].started /\ conn[c].at # "over"

SlotsInv ==
    /\ \A c \in Conn : c \in lis.slots => HasSlot(c)
    /\ \A c \in Conn : HasSlot(c) /\ conn[c].at # "refused" => c \in lis.slots
    /\ Cardinality(lis.slots) <= scene.slots

IdsInv ==
    /\ ids \subseteq Conn \X {"stream", "preview"}
    /\ \A c \in Conn : <<c, "preview">> \in ids <=> HasIds(c)
    /\ \A c \in Conn : <<c, "stream">> \in ids <=> HasId(c)

\* A live session is in l.sessions or among those Close took from it; the broker
\* retires for one live session.
SessionsInv ==
    /\ \A c \in lis.sessions : Live(c)
    /\ \A c \in Conn : Live(c) => c \in lis.sessions \union lis.drain
    /\ ~lis.closed => lis.drain = {}
    /\ lis.retiring => \A c, d \in Conn : Live(c) /\ Live(d) => c = d

TableInv == SlotsInv /\ IdsInv /\ SessionsInv

-----------------------------------------------------------------------------
(* The startup and the shutdown.                                           *)

Hooks == {<<>>, <<"registry">>, <<"registry", "pool">>, <<"registry", "pool", "listener">>}
AllHooks == <<"registry", "pool", "listener">>
AllDrains == <<"listener", "pool", "registry">>

\* What the startup registered by the time it stands at main.
StartInv ==
    /\ main \in {"lease", "runner", "pool", "listen", "hook", "started", "unwind", "serving",
                 "close", "closing", "exited"}
    /\ hooks \in Hooks
    /\ main \in {"lease", "runner"} => hooks = <<>>
    /\ main = "pool" => hooks = <<"registry">>
    /\ main \in {"listen", "hook"} => hooks = <<"registry", "pool">>
    /\ main \in {"started", "serving"} => hooks = AllHooks
    /\ registry \in {"none", "running", "returned"} /\ (registry = "none" <=> hooks = <<>>)

Stopping == {"drain", "stop", "pending", "join", "sessions", "stopped"}
Closing == {"stop", "pending", "join", "sessions"}

\* finalize walks the hooks from the last to the first.
WalkInv ==
    /\ run.at \in Stopping \union {"finalize"} => sup.closed
    /\ run.at \in Stopping => root
    /\ run.at = "drain" => run.hooks \in {AllDrains, <<"pool", "registry">>, <<"registry">>, <<>>}
    /\ run.at = "drain" /\ run.hooks = AllDrains => hooks = AllHooks
    /\ run.at \in Closing => run.hooks = AllDrains /\ hooks = AllHooks
    /\ (run.at = "drain" /\ run.hooks = <<>>) \/ run.at = "stopped" => registry # "running"

\* The listener's hook is drained, or there was none.
PastListener == run.at = "stopped" \/ (run.at = "drain" /\ run.hooks # AllDrains)

Settled(r) == r.at \in {"none", "over"} /\ r.publish \notin {"publishing", "closing"}

\* Nothing connects before the listener is open or after it stopped; once it is
\* drained every connection is over.
QuietInv ==
    /\ hooks # AllHooks /\ main # "hook" =>
         ~lis.open /\ \A c \in Conn : conn[c] = Idle
    /\ run.at \in {"pending", "join", "sessions"} => ~lis.open
    /\ run.at \in Closing => lis.closed
    /\ run.at = "sessions" => lis.sessions = {} /\ \A c \in Conn : ~Admitting(c)
    /\ PastListener => ~lis.open /\ \A c \in Conn : Settled(conn[c])
    /\ run.at # "sessions" => lis.drain = {}
    /\ poolClosed => PastListener
    /\ main = "exited" => run.at = "stopped"

DrainInv == StartInv /\ WalkInv /\ QuietInv

ServeInv == ShapeInv /\ ClockInv /\ CountInv /\ TableInv /\ DrainInv

-----------------------------------------------------------------------------
(* The supervisor's operators.                                             *)

LEMMA DisarmSup ==
    ASSUME NEW s \in SupType
    PROVE  /\ disarmTimer(s) \in SupType
           /\ disarmTimer(s).leases = s.leases /\ disarmTimer(s).arm = s.arm
           /\ disarmTimer(s).armed = FALSE /\ disarmTimer(s).timer = NoTimer
           /\ disarmTimer(s).closed = s.closed
<1> PICK r : r = [s EXCEPT !.armed = FALSE, !.timer = NoTimer]
  OBVIOUS
<1>1. r \in SupType
  BY DEF SupType, NoTimer
<1>2. r.leases = s.leases /\ r.arm = s.arm /\ r.armed = FALSE /\ r.timer = NoTimer
  BY DEF SupType
<1>3. r.closed = s.closed
  BY DEF SupType
<1>4. disarmTimer(s) = r
  BY DEF disarmTimer
<1> QED BY <1>1, <1>2, <1>3, <1>4

LEMMA CommitSup ==
    ASSUME NEW s, SupOK(s)
    PROVE  /\ SupOK(commit(s)) /\ commit(s).closed
           /\ commit(s).arm = s.arm /\ commit(s).leases = s.leases
<1>1. s \in SupType
  BY DEF SupOK
<1>2. CASE s.closed
  BY <1>2 DEF commit
<1>3. CASE ~s.closed
  <2> DEFINE t == [s EXCEPT !.closed = TRUE]
  <2>1. t \in SupType /\ t.closed = TRUE /\ t.arm = s.arm /\ t.leases = s.leases
    BY <1>1 DEF SupType
  <2>2. commit(s) = disarmTimer(t)
    BY <1>3 DEF commit
  <2> HIDE DEF t
  <2>3. /\ commit(s) \in SupType /\ commit(s).closed = TRUE /\ commit(s).armed = FALSE
        /\ commit(s).timer = NoTimer /\ commit(s).arm = s.arm /\ commit(s).leases = s.leases
    BY <2>1, <2>2, DisarmSup
  <2> QED BY <2>3 DEF SupOK
<1> QED BY <1>1, <1>2, <1>3 DEF SupType

\* A lease counter after a step: one more, one less.
LEMMA AdmitSup ==
    ASSUME NEW s, SupOK(s), ~s.closed, NEW k \in LeaseKind
    PROVE  /\ SupOK(admit(s, k))
           /\ admit(s, k).closed = s.closed /\ admit(s, k).arm = s.arm
           /\ admit(s, k).leases = [s.leases EXCEPT ![k] = @ + 1]
<1> DEFINE t == [s EXCEPT !.leases[k] = @ + 1]
<1> s \in SupType /\ s.leases \in [LeaseKind -> Nat] /\ s.leases[k] \in Nat
  BY DEF SupOK, SupType
<1>1. t \in SupType /\ t.leases = [s.leases EXCEPT ![k] = @ + 1] /\ t.closed = s.closed /\ t.arm = s.arm
  BY DEF SupType
<1>2. admit(s, k) = disarmTimer(t)
  BY DEF admit
<1> HIDE DEF t
<1>3. /\ admit(s, k) \in SupType /\ admit(s, k).leases = [s.leases EXCEPT ![k] = @ + 1]
      /\ admit(s, k).closed = s.closed /\ admit(s, k).arm = s.arm
      /\ admit(s, k).armed = FALSE /\ admit(s, k).timer = NoTimer
  BY <1>1, <1>2, DisarmSup
<1>4. admit(s, k).leases[k] = s.leases[k] + 1
  BY <1>3
<1>5. ~Unleased(admit(s, k))
  BY <1>4 DEF Unleased
<1> QED BY <1>3, <1>5 DEF SupOK

\* Arming a supervisor that is open, unarmed and has no lease.
LEMMA ArmSup ==
    ASSUME NEW s \in SupType, ~s.armed, ~s.closed, Unleased(s)
    PROVE  /\ SupOK(armTimer(s)) /\ ~armTimer(s).closed /\ armTimer(s).leases = s.leases
           /\ armTimer(s).arm = s.arm + 1
<1> armTimer(s) = [s EXCEPT !.timer = s.arm + 1, !.armed = TRUE, !.arm = s.arm + 1]
  BY DEF armTimer
<1>1. /\ armTimer(s) \in SupType /\ armTimer(s).leases = s.leases /\ armTimer(s).closed = s.closed
      /\ armTimer(s).armed /\ armTimer(s).timer = s.arm + 1 /\ armTimer(s).arm = s.arm + 1
  <2>1. s.arm + 1 \in Nat
    BY DEF SupType
  <2>2. armTimer(s) \in SupType
    BY <2>1 DEF SupType
  <2>3. /\ armTimer(s).leases = s.leases /\ armTimer(s).armed = TRUE
        /\ armTimer(s).timer = s.arm + 1 /\ armTimer(s).arm = s.arm + 1
    BY DEF SupType
  <2>4. armTimer(s).closed = s.closed
    BY DEF SupType
  <2> QED BY <2>2, <2>3, <2>4
<1>2. Unleased(armTimer(s))
  BY <1>1 DEF Unleased
<1> QED BY <1>1, <1>2 DEF SupOK

\* Giving back a lease that is held: the timer was not installed.
LEMMA ReleaseSup ==
    ASSUME NEW s, SupOK(s), NEW k \in LeaseKind, s.leases[k] > 0
    PROVE  /\ SupOK(release(s, k))
           /\ release(s, k).closed = s.closed
           /\ release(s, k).arm \in {s.arm, s.arm + 1} /\ s.timer = NoTimer
           /\ release(s, k).leases = [s.leases EXCEPT ![k] = @ - 1]
<1> DEFINE t == [s EXCEPT !.leases[k] = IF @ > 0 THEN @ - 1 ELSE 0]
<1> s \in SupType /\ s.leases \in [LeaseKind -> Nat] /\ s.leases[k] \in Nat
  BY DEF SupOK, SupType
<1>1. ~Unleased(s)
  BY DEF Unleased
<1> ~s.armed /\ s.timer = NoTimer
  BY <1>1 DEF SupOK
<1> /\ t \in SupType /\ t.leases = [s.leases EXCEPT ![k] = @ - 1]
    /\ t.closed = s.closed /\ t.arm = s.arm /\ t.timer = NoTimer /\ ~t.armed
  BY DEF SupType
<1>2. release(s, k) = IF ~t.closed /\ Unleased(t) THEN armTimer(t) ELSE t
  BY DEF release
<1> HIDE DEF t
<1>3. CASE ~t.closed /\ Unleased(t)
  <2> release(s, k) = armTimer(t)
    BY <1>2, <1>3
  <2> /\ SupOK(armTimer(t)) /\ ~armTimer(t).closed /\ armTimer(t).leases = t.leases
      /\ armTimer(t).arm = t.arm + 1
    BY <1>3, ArmSup
  <2>1. release(s, k).closed = s.closed
    <3>1. s.closed \in BOOLEAN /\ release(s, k).closed \in BOOLEAN
      BY DEF SupOK, SupType
    <3> QED BY <1>3, <3>1
  <2>2. release(s, k).leases = [s.leases EXCEPT ![k] = @ - 1] /\ release(s, k).arm = s.arm + 1
    OBVIOUS
  <2> QED BY <2>1, <2>2
<1>4. CASE t.closed \/ ~Unleased(t)
  <2>1. release(s, k) = t
    BY <1>2, <1>4
  <2> QED BY <1>4, <2>1 DEF SupOK
<1> QED BY <1>3, <1>4

\* Both scenes start with no lease and the timer armed; a broker that serves
\* armed it a second time when it gave the startup lease back.
LEMMA BootSup ==
    /\ SupOK(armTimer(newSupervisor)) /\ ~armTimer(newSupervisor).closed
    /\ armTimer(newSupervisor).leases = [k \in LeaseKind |-> 0]
    /\ SupOK(Booted) /\ ~Booted.closed /\ Booted.leases = [k \in LeaseKind |-> 0]
<1>1. newSupervisor \in SupType
  BY DEF newSupervisor, SupType, NoTimer
<1>2. ~newSupervisor.armed /\ ~newSupervisor.closed /\ newSupervisor.leases = [k \in LeaseKind |-> 0]
  BY DEF newSupervisor
<1>3. Unleased(newSupervisor)
  BY <1>2 DEF Unleased
<1>4. SupOK(armTimer(newSupervisor)) /\ ~armTimer(newSupervisor).closed
      /\ armTimer(newSupervisor).leases = [k \in LeaseKind |-> 0]
  BY <1>1, <1>2, <1>3, ArmSup
<1> "operation" \in LeaseKind
  BY DEF LeaseKind
<1> PICK s : s = armTimer(newSupervisor)
  OBVIOUS
<1> SupOK(s) /\ ~s.closed /\ s.leases = [k \in LeaseKind |-> 0]
  BY <1>4
<1> PICK t : t = admit(s, "operation")
  OBVIOUS
<1> SupOK(t) /\ t.closed = s.closed /\ t.leases = [s.leases EXCEPT !["operation"] = @ + 1]
  BY AdmitSup
<1>5. t.leases["operation"] = 1 /\ [t.leases EXCEPT !["operation"] = @ - 1] = [k \in LeaseKind |-> 0]
  OBVIOUS
<1>6. /\ SupOK(release(t, "operation")) /\ release(t, "operation").closed = t.closed
      /\ release(t, "operation").leases = [t.leases EXCEPT !["operation"] = @ - 1]
  BY <1>5, ReleaseSup
<1>7. Booted = release(t, "operation")
  BY DEF Booted
<1> QED BY <1>4, <1>5, <1>6, <1>7

\* An admission and a release leave the supervisor as open as they find it.
LEMMA LeaseKeepsOpen ==
    ASSUME NEW s \in SupType, NEW k \in LeaseKind
    PROVE  admit(s, k).closed = s.closed /\ release(s, k).closed = s.closed
<1>1. admit(s, k).closed = s.closed
  BY DEF admit, disarmTimer, SupType
<1>2. release(s, k).closed = s.closed
  <2> PICK t : t = [s EXCEPT !.leases[k] = IF @ > 0 THEN @ - 1 ELSE 0]
    OBVIOUS
  <2>1. t.closed = s.closed /\ armTimer(t).closed = t.closed
    BY DEF armTimer, SupType
  <2> QED BY <2>1 DEF release
<1> QED BY <1>1, <1>2

\* A step under s.mu keeps the clock in order.
LEMMA SetsClock ==
    ASSUME ClockInv, NEW s, Sets(s), SupOK(s), UNCHANGED run,
           s.arm = sup.arm \/ (s.arm = sup.arm + 1 /\ sup.timer = NoTimer)
    PROVE  ClockInv'
<1> /\ SupOK(sup) /\ tick \subseteq elapsed /\ elapsed \subseteq {sup.arm} /\ NoTimer \notin elapsed
    /\ tick \subseteq {sup.timer}
  BY DEF ClockInv
<1>1. sup.arm \in Nat /\ s.arm \in Nat
  BY DEF SupOK, SupType
<1> /\ sup' = s /\ elapsed' = elapsed \intersect {s.arm}
    /\ tick' = IF s.timer = sup.timer THEN tick ELSE tick \ {sup.timer}
  BY DEF Sets
<1>2. SupOK(sup')
  OBVIOUS
<1>3. CASE s.arm = sup.arm
  <2> elapsed' = elapsed
    BY <1>3
  <2>1. tick' \subseteq elapsed' /\ tick' \subseteq {sup'.timer}
    OBVIOUS
  <2>2. /\ run' \in [at : RunAt, timer : Nat, arm : Nat, hooks : {run'.hooks}]
        /\ run'.timer \in {NoTimer, run'.arm} /\ run'.arm <= sup'.arm
    BY <1>3 DEF ClockInv
  <2>3. run'.at = "expired" /\ run'.arm = sup'.arm => run'.arm \in elapsed'
    BY <1>3 DEF ClockInv
  <2> QED BY <1>2, <1>3, <2>1, <2>2, <2>3 DEF ClockInv
<1>4. CASE s.arm = sup.arm + 1 /\ sup.timer = NoTimer
  <2>1. tick = {}
    BY <1>4
  <2>2. tick' = {} /\ elapsed' = {}
    BY <1>1, <1>4, <2>1
  <2>3. run \in [at : RunAt, timer : Nat, arm : Nat, hooks : {run.hooks}] /\ run.timer \in {NoTimer, run.arm}
    BY DEF ClockInv
  <2>4. run'.arm <= sup'.arm /\ run'.arm # sup'.arm
    <3>1. run.arm \in Nat /\ run.arm <= sup.arm
      BY <2>3 DEF ClockInv
    <3> QED BY <1>1, <1>4, <3>1
  <2> QED BY <1>2, <2>2, <2>3, <2>4 DEF ClockInv
<1> QED BY <1>3, <1>4

LEMMA AdmitsClock ==
    ASSUME ClockInv, NEW k \in LeaseKind, Admits(k), UNCHANGED run
    PROVE  /\ ClockInv' /\ sup'.closed = sup.closed /\ ~sup.closed
           /\ sup'.leases = [sup.leases EXCEPT ![k] = @ + 1]
<1> SupOK(sup) /\ ~sup.closed /\ Sets(admit(sup, k)) /\ sup' = admit(sup, k)
  BY DEF ClockInv, Admits, Sets
<1>1. /\ SupOK(admit(sup, k)) /\ admit(sup, k).arm = sup.arm
      /\ admit(sup, k).closed = sup.closed /\ admit(sup, k).leases = [sup.leases EXCEPT ![k] = @ + 1]
  BY AdmitSup
<1>2. ClockInv'
  BY <1>1, SetsClock
<1> QED BY <1>1, <1>2

LEMMA ReleasesClock ==
    ASSUME ClockInv, NEW k \in LeaseKind, Releases(k), sup.leases[k] > 0, UNCHANGED run
    PROVE  /\ ClockInv' /\ sup'.closed = sup.closed
           /\ sup'.leases = [sup.leases EXCEPT ![k] = @ - 1]
<1> SupOK(sup) /\ Sets(release(sup, k)) /\ sup' = release(sup, k)
  BY DEF ClockInv, Releases, Sets
<1>1. /\ SupOK(release(sup, k)) /\ release(sup, k).arm \in {sup.arm, sup.arm + 1} /\ sup.timer = NoTimer
      /\ release(sup, k).closed = sup.closed /\ release(sup, k).leases = [sup.leases EXCEPT ![k] = @ - 1]
  BY ReleaseSup
<1>2. ClockInv'
  BY <1>1, SetsClock
<1> QED BY <1>1, <1>2

-----------------------------------------------------------------------------
(* The idle shutdown.                                                      *)

\* No step of a connection closes the supervisor.
LEMMA ConnectionsKeepOpen ==
    ASSUME ServeInv, NEW c \in Conn,
           \/ Accept(c) \/ Deadline(c) \/ PeerLeaves(c) \/ RegisterArrives(c)
           \/ Serves(c) \/ Publishes(c) \/ Guards(c) \/ OpStarts(c) \/ Works(c) \/ OpEnds(c)
    PROVE  sup'.closed = sup.closed
<1> sup \in SupType /\ "client" \in LeaseKind /\ "operation" \in LeaseKind
  BY DEF ServeInv, ClockInv, SupOK, LeaseKind
<1>1. \A k \in LeaseKind : Admits(k) \/ Releases(k) => sup'.closed = sup.closed
  BY LeaseKeepsOpen DEF Admits, Releases, Sets
<1>2. CASE Accept(c) \/ Deadline(c) \/ PeerLeaves(c) \/ RegisterArrives(c) \/ OpStarts(c) \/ OpEnds(c)
  BY <1>2 DEF Accept, Deadline, PeerLeaves, RegisterArrives, OpStarts, OpEnds, super
<1>3. CASE Publishes(c) \/ Guards(c)
  BY <1>3 DEF Publishes, Publish, PublishCloses, Guards, GuardLoads, GuardAborts, super
<1>4. CASE Works(c)
  BY <1>1, <1>4 DEF Works, OpEnters, OpAdmitted, OpReleases, OpLeaves, super
<1>5. CASE Serves(c)
  <2>1. CASE TrackPending(c) \/ PreambleEnds(c) \/ Refused(c) \/ Bind(c) \/ SlotReleased(c) \/ SessionDone(c)
    BY <2>1 DEF TrackPending, PreambleEnds, Refused, Bind, SlotReleased, SessionDone, super
  <2>2. CASE AdmitLease(c) \/ UndoLease(c) \/ CoreReleases(c)
    BY <1>1, <2>2 DEF AdmitLease, UndoLease, CoreReleases, super
  <2>3. CASE AdmitId(c) \/ AdmitPreview(c) \/ AdmitCheck(c) \/ UndoPreview(c) \/ UndoId(c)
    BY <2>3 DEF AdmitId, AdmitPreview, AdmitCheck, UndoPreview, UndoId, super
  <2>4. CASE \E otherBuild \in scene.builds : RegisterEnds(c, otherBuild)
    BY <2>4 DEF RegisterEnds, super
  <2>5. CASE ReaderEnds(c) \/ CoreCloses(c) \/ CoreDrains(c) \/ CoreRetires(c)
    BY <2>5 DEF ReaderEnds, CoreCloses, CoreDrains, CoreRetires, super
  <2> QED BY <1>5, <2>1, <2>2, <2>3, <2>4, <2>5 DEF Serves
<1> QED BY <1>2, <1>3, <1>4, <1>5

\* Supervisor.run closes it only for a tick of the current arm, whose grace then
\* went by, and only while nothing is leased.
LEMMA RunEarns ==
    ASSUME ServeInv, Runs
    PROVE  sup'.closed = sup.closed \/ (Unleased(sup) /\ sup.arm \in elapsed)
<1>1. CASE RunExpires
  <2>1. CASE ~expires(sup, run.arm)
    BY <1>1, <2>1 DEF RunExpires
  <2>2. CASE expires(sup, run.arm)
    BY <1>1, <2>2 DEF RunExpires, expires, ServeInv, ClockInv
  <2> QED BY <2>1, <2>2
<1>2. CASE RunReads \/ RunWoken \/ RunTicks \/ RunClosing
  BY <1>2 DEF RunReads, RunWoken, RunTicks, RunClosing, super
<1>3. CASE Finalize \/ DrainRegistry \/ DrainPool \/ Drained
  BY <1>3 DEF Finalize, DrainRegistry, DrainPool, Drained, super
<1>4. CASE ListenerMarks \/ ListenerStops \/ ClosePending \/ ListenerJoins \/ ListenerClosed
  BY <1>4 DEF ListenerMarks, ListenerStops, ClosePending, ListenerJoins, ListenerClosed, closeRest, super
<1>5. CASE \E c \in Conn : CloseSession(c) \/ SessionClosed(c)
  BY <1>5 DEF CloseSession, SessionClosed, closeRest, super
<1> QED BY <1>1, <1>2, <1>3, <1>4, <1>5 DEF Runs

\* Every step of main moves main.
LEMMA MainAdvances ==
    ASSUME Starts \/ MainFails \/ MainStops
    PROVE  main' # main
BY DEF Starts, MainFails, MainStops, MainAdmitted, MainRefused, MainRegistry, MainPool, MainListens,
       MainListener, MainReleases, MainCommits, MainExits, Registers

LEMMA CommitsEarned ==
    ASSUME ServeInv, [Next]_vars
    PROVE  ~sup.closed /\ sup'.closed /\ main' = main => Unleased(sup) /\ sup.arm \in elapsed
<1>1. CASE TimerFires \/ RegistryReturns \/ RetireCloses \/ UNCHANGED vars
  BY <1>1 DEF TimerFires, RegistryReturns, RetireCloses, vars, super
<1>2. CASE Runs
  BY <1>2, RunEarns
<1>3. CASE Starts \/ MainFails \/ MainStops
  BY <1>3, MainAdvances
<1>4. CASE \E c \in Conn :
             \/ Accept(c) \/ Deadline(c) \/ PeerLeaves(c) \/ RegisterArrives(c)
             \/ Serves(c) \/ Publishes(c) \/ Guards(c) \/ OpStarts(c) \/ Works(c) \/ OpEnds(c)
  BY <1>4, ConnectionsKeepOpen
<1> QED BY <1>1, <1>2, <1>3, <1>4 DEF Next

-----------------------------------------------------------------------------
(* Steps that move no connection.                                          *)

LEMMA ClockKept ==
    ASSUME ClockInv, UNCHANGED <<sup, tick, elapsed, run>>
    PROVE  ClockInv'
BY DEF ClockInv

LEMMA ServeStill ==
    ASSUME ServeInv, UNCHANGED vars
    PROVE  ServeInv'
<1> UNCHANGED <<sup, tick, elapsed, wake, root, run, hooks, registry, main, ids, poolClosed, scene,
                lis, conn, op, core>>
  BY DEF vars, super, startup, pool
<1>1. ShapeInv' /\ ClockInv'
  BY DEF ServeInv, ShapeInv, ClockInv
<1>2. CountInv'
  BY DEF ServeInv, CountInv, Leasing, Operating, HasLease, HasId, HasIds, HasOperation, Starting
<1>3. TableInv'
  BY DEF ServeInv, TableInv, SlotsInv, IdsInv, SessionsInv, HasSlot, HasIds, HasId, Live
<1>4. DrainInv'
  <2>1. StartInv'
    BY DEF ServeInv, DrainInv, StartInv
  <2>2. WalkInv'
    BY DEF ServeInv, DrainInv, WalkInv
  <2>3. QuietInv'
    BY DEF ServeInv, DrainInv, QuietInv, PastListener, Admitting
  <2> QED BY <2>1, <2>2, <2>3 DEF DrainInv
<1> QED BY <1>1, <1>2, <1>3, <1>4 DEF ServeInv

\* What every connection holds stays as it is when no connection moves.
LEMMA StillConns ==
    ASSUME ServeInv, UNCHANGED <<conn, op, ids, scene>>, lis' \in ListenerType,
           root' \in BOOLEAN, poolClosed' \in BOOLEAN,
           lis'.slots = lis.slots, lis'.sessions = lis.sessions, lis'.drain = lis.drain,
           lis'.retiring = lis.retiring, lis.closed => lis'.closed
    PROVE  ShapeInv' /\ TableInv' /\ Leasing' = Leasing /\ Operating' = Operating
<1> ShapeInv /\ SlotsInv /\ IdsInv /\ SessionsInv
  BY DEF ServeInv, TableInv
<1>1. ShapeInv'
  BY DEF ShapeInv
<1>2. SlotsInv'
  BY DEF SlotsInv, HasSlot
<1>3. IdsInv'
  BY DEF IdsInv, HasIds, HasId
<1>4. SessionsInv'
  BY DEF SessionsInv, Live
<1>5. Leasing' = Leasing
  BY DEF Leasing, HasLease, HasId, HasIds
<1>6. Operating' = Operating
  BY DEF Operating, HasOperation
<1> QED BY <1>1, <1>2, <1>3, <1>4, <1>5, <1>6 DEF TableInv

LEMMA RetireClosesKeeps ==
    ASSUME ServeInv, RetireCloses
    PROVE  ServeInv'
<1> lis \in ListenerType /\ root \in BOOLEAN /\ poolClosed \in BOOLEAN
  BY DEF ServeInv, ShapeInv
<1>1. lis' = [lis EXCEPT !.open = FALSE]
  BY DEF RetireCloses
<1>2. /\ lis' \in ListenerType /\ lis'.slots = lis.slots /\ lis'.sessions = lis.sessions
      /\ lis'.drain = lis.drain /\ lis'.open = FALSE
  BY <1>1 DEF ListenerType
<1>3. lis'.closed = lis.closed /\ lis'.retiring = lis.retiring
  BY <1>1 DEF ListenerType
<1> UNCHANGED <<sup, tick, elapsed, root, run, hooks, registry, main, ids, poolClosed, scene, conn, op>>
  BY DEF RetireCloses, super, admitRest, startup, pool
<1>4. ShapeInv' /\ TableInv' /\ Leasing' = Leasing /\ Operating' = Operating
  BY <1>2, <1>3, StillConns
<1>5. ClockInv'
  BY ClockKept DEF ServeInv
<1>6. CountInv'
  BY <1>4 DEF ServeInv, CountInv, Starting
<1>7. StartInv' /\ WalkInv'
  BY DEF ServeInv, DrainInv, StartInv, WalkInv
<1>8. QuietInv'
  <2>1. QuietInv
    BY DEF ServeInv, DrainInv
  <2> QED BY <1>2, <1>3, <2>1 DEF QuietInv, PastListener, Admitting
<1> QED BY <1>4, <1>5, <1>6, <1>7, <1>8 DEF ServeInv, DrainInv

\* Fields of run.
LEMMA RunFields ==
    ASSUME ServeInv
    PROVE  /\ run \in [at : RunAt, timer : Nat, arm : Nat, hooks : {run.hooks}]
           /\ run.at \in RunAt /\ run.arm \in Nat /\ run.timer \in {NoTimer, run.arm}
           /\ sup.arm \in Nat /\ run.arm <= sup.arm /\ SupOK(sup) /\ sup \in SupType
<1>1. ClockInv
  BY DEF ServeInv
<1>2. run \in [at : RunAt, timer : Nat, arm : Nat, hooks : {run.hooks}]
  BY <1>1 DEF ClockInv
<1>3. SupOK(sup) /\ sup \in SupType /\ run.timer \in {NoTimer, run.arm} /\ run.arm <= sup.arm
  BY <1>1 DEF ClockInv, SupOK
<1> QED BY <1>2, <1>3 DEF SupType

\* While run watches the timer nothing is drained.
Watching == {"read", "select", "expired"}

LEMMA WatchingRest ==
    ASSUME ServeInv, run.at \in Watching, run'.at \in Watching \union {"finalize"},
           run'.at = "finalize" => sup'.closed,
           UNCHANGED <<root, hooks, registry, main, ids, poolClosed, scene, lis, conn, op>>
    PROVE  /\ ShapeInv' /\ TableInv' /\ DrainInv'
           /\ Leasing' = Leasing /\ Operating' = Operating
<1> ShapeInv /\ StartInv /\ QuietInv /\ lis \in ListenerType /\ root \in BOOLEAN /\ poolClosed \in BOOLEAN
  BY DEF ServeInv, DrainInv, ShapeInv
<1>1. ShapeInv' /\ TableInv' /\ Leasing' = Leasing /\ Operating' = Operating
  BY StillConns
<1>2. StartInv'
  BY DEF StartInv
<1>3. WalkInv'
  BY DEF WalkInv, Watching, Stopping, Closing
<1>4. ~PastListener /\ ~PastListener'
  BY DEF PastListener, Watching
<1>5. ~poolClosed /\ main # "exited"
  BY <1>4 DEF QuietInv, PastListener
<1>6. QuietInv'
  BY <1>4, <1>5 DEF QuietInv, Watching, Closing
<1> QED BY <1>1, <1>2, <1>3, <1>6 DEF DrainInv

\* run goes back to read the timer.
LEMMA RunAgain ==
    ASSUME ServeInv, run.at \in Watching, run' = [run EXCEPT !.at = "read", !.timer = NoTimer, !.arm = 0],
           UNCHANGED <<sup, tick, elapsed, root, startup, pool, lis, conn, op>>
    PROVE  ServeInv'
<1>1. UNCHANGED <<root, hooks, registry, main, ids, poolClosed, scene, lis, conn, op>>
  BY DEF startup, pool
<1> run'.at = "read" /\ run'.timer = NoTimer /\ run'.arm = 0 /\ run'.hooks = run.hooks
  BY RunFields
<1>2. run' \in [at : RunAt, timer : Nat, arm : Nat, hooks : {run.hooks}]
  BY RunFields DEF RunAt, NoTimer
<1>3. run'.arm <= sup'.arm
  BY RunFields
<1>4. ClockInv'
  BY <1>2, <1>3 DEF ServeInv, ClockInv
<1>5. ShapeInv' /\ TableInv' /\ DrainInv' /\ Leasing' = Leasing /\ Operating' = Operating
  BY <1>1, WatchingRest DEF Watching
<1>6. CountInv'
  BY <1>1, <1>5 DEF ServeInv, CountInv, Starting
<1> QED BY <1>4, <1>5, <1>6 DEF ServeInv

\* run moves on and the timer is no longer looked at.
LEMMA RunClock ==
    ASSUME ServeInv, NEW x \in RunAt \ {"expired"}, NEW h,
           run' = [run EXCEPT !.at = x, !.hooks = h], UNCHANGED <<sup, tick, elapsed>>
    PROVE  ClockInv' /\ run'.at = x /\ run'.hooks = h
<1>1. run'.at = x /\ run'.timer = run.timer /\ run'.arm = run.arm /\ run'.hooks = h
  BY RunFields
<1>2. run' \in [at : RunAt, timer : Nat, arm : Nat, hooks : {h}]
  BY RunFields
<1> QED BY <1>1, <1>2 DEF ServeInv, ClockInv

\* run keeps its hooks and goes on.
LEMMA RunGoesOn ==
    ASSUME ServeInv, NEW x \in RunAt \ {"expired"}, run' = [run EXCEPT !.at = x],
           UNCHANGED <<sup, tick, elapsed>>
    PROVE  ClockInv' /\ run'.at = x /\ run'.hooks = run.hooks
<1>1. run' = [run EXCEPT !.at = x, !.hooks = run.hooks]
  BY RunFields
<1> QED BY <1>1, RunClock

\* The clock, and Supervisor.run until the shutdown is committed.
LEMMA WatchSteps ==
    ASSUME ServeInv
    PROVE  (TimerFires \/ RunReads \/ RunWoken \/ RunTicks \/ RunClosing) => ServeInv'
<1>1. ASSUME TimerFires PROVE ServeInv'
  <2> USE <1>1
  <2> UNCHANGED <<sup, root, run, hooks, registry, main, ids, poolClosed, scene, lis, conn, op>>
    BY DEF TimerFires, startup, pool
  <2> ShapeInv /\ DrainInv /\ CountInv /\ lis \in ListenerType /\ root \in BOOLEAN /\ poolClosed \in BOOLEAN
    BY DEF ServeInv, ShapeInv
  <2>1. ShapeInv' /\ TableInv' /\ Leasing' = Leasing /\ Operating' = Operating
    BY StillConns
  <2>2. CountInv'
    BY <2>1 DEF CountInv, Starting
  <2>3. StartInv' /\ WalkInv' /\ QuietInv'
    BY DEF DrainInv, StartInv, WalkInv, QuietInv, PastListener, Admitting
  <2>4. ClockInv'
    <3>1. ClockInv /\ sup.timer = sup.arm /\ sup.timer # NoTimer
      BY DEF ServeInv, ClockInv, SupOK, TimerFires
    <3>2. tick' = tick \union {sup.timer} /\ elapsed' = elapsed \union {sup.timer}
      BY DEF TimerFires
    <3>3. /\ tick' \subseteq elapsed' /\ elapsed' \subseteq {sup'.arm} /\ NoTimer \notin elapsed'
          /\ tick' \subseteq {sup'.timer}
      BY <3>1, <3>2 DEF ClockInv
    <3> QED BY <3>1, <3>2, <3>3 DEF ClockInv
  <2> QED BY <2>1, <2>2, <2>3, <2>4 DEF ServeInv, DrainInv
<1>2. ASSUME RunReads PROVE ServeInv'
  <2> USE <1>2
  <2> UNCHANGED <<sup, tick, elapsed, root, hooks, registry, main, ids, poolClosed, scene, lis, conn, op>>
    BY DEF RunReads, super, startup, pool
  <2> run' = [run EXCEPT !.at = "select", !.timer = sup.timer, !.arm = sup.arm] /\ run.at = "read"
    BY DEF RunReads
  <2>1. sup.arm \in Nat /\ sup.timer \in Nat /\ sup.timer \in {NoTimer, sup.arm}
    BY RunFields DEF SupOK, SupType
  <2>2. run'.at = "select" /\ run'.timer = sup.timer /\ run'.arm = sup.arm /\ run'.hooks = run.hooks
    BY RunFields
  <2>3. run' \in [at : RunAt, timer : Nat, arm : Nat, hooks : {run.hooks}]
    BY <2>1, RunFields DEF RunAt
  <2>4. ClockInv'
    BY <2>1, <2>2, <2>3 DEF ServeInv, ClockInv
  <2>5. ShapeInv' /\ TableInv' /\ DrainInv' /\ Leasing' = Leasing /\ Operating' = Operating
    BY <2>2, WatchingRest DEF Watching
  <2>6. CountInv'
    BY <2>5 DEF ServeInv, CountInv, Starting
  <2> QED BY <2>4, <2>5, <2>6 DEF ServeInv
<1>3. ASSUME RunTicks PROVE ServeInv'
  <2> USE <1>3
  <2> UNCHANGED <<sup, elapsed, root, hooks, registry, main, ids, poolClosed, scene, lis, conn, op>>
    BY DEF RunTicks, startup, pool
  <2> run' = [run EXCEPT !.at = "expired"] /\ run.at = "select" /\ run.timer \in tick /\ tick' = tick \ {run.timer}
    BY DEF RunTicks
  <2> run'.at = "expired" /\ run'.timer = run.timer /\ run'.arm = run.arm /\ run'.hooks = run.hooks
    BY RunFields
  <2>1. run' \in [at : RunAt, timer : Nat, arm : Nat, hooks : {run.hooks}]
    BY RunFields DEF RunAt
  <2> ClockInv
    BY DEF ServeInv
  <2>2. run.timer \in elapsed /\ run.timer = run.arm
    BY DEF ClockInv
  <2>3. /\ tick' \subseteq elapsed' /\ elapsed' \subseteq {sup'.arm} /\ NoTimer \notin elapsed'
        /\ tick' \subseteq {sup'.timer}
    BY DEF ClockInv
  <2>4. run'.timer \in {NoTimer, run'.arm} /\ run'.arm <= sup'.arm /\ run'.arm \in elapsed' /\ SupOK(sup')
    BY <2>2 DEF ClockInv
  <2>5. ClockInv'
    BY <2>1, <2>3, <2>4 DEF ClockInv
  <2>6. ShapeInv' /\ TableInv' /\ DrainInv' /\ Leasing' = Leasing /\ Operating' = Operating
    BY WatchingRest DEF Watching
  <2>7. CountInv'
    BY <2>6 DEF ServeInv, CountInv, Starting
  <2> QED BY <2>5, <2>6, <2>7 DEF ServeInv
<1>4. ASSUME RunWoken PROVE ServeInv'
  BY <1>4, RunAgain DEF RunWoken, Watching
<1>5. ASSUME RunClosing PROVE ServeInv'
  <2> USE <1>5
  <2> UNCHANGED <<sup, tick, elapsed, root, hooks, registry, main, ids, poolClosed, scene, lis, conn, op>>
    BY DEF RunClosing, super, startup, pool
  <2>1. ClockInv' /\ run'.at = "finalize" /\ run.at = "select" /\ sup.closed
    BY RunGoesOn DEF RunClosing, RunAt
  <2>2. ShapeInv' /\ TableInv' /\ DrainInv' /\ Leasing' = Leasing /\ Operating' = Operating
    BY <2>1, WatchingRest DEF Watching
  <2>3. CountInv'
    BY <2>2 DEF ServeInv, CountInv, Starting
  <2> QED BY <2>1, <2>2, <2>3 DEF ServeInv
<1> QED BY <1>1, <1>2, <1>3, <1>4, <1>5

-----------------------------------------------------------------------------
(* Draining the hooks.                                                     *)

\* The four lists differ, and what is first and left in each.
LEMMA DrainLists ==
    /\ AllDrains # <<"pool", "registry">> /\ AllDrains # <<"registry">> /\ AllDrains # <<>>
    /\ <<"pool", "registry">> # <<"registry">> /\ <<"pool", "registry">> # <<>> /\ <<"registry">> # <<>>
    /\ Head(AllDrains) = "listener" /\ Tail(AllDrains) = <<"pool", "registry">>
    /\ Head(<<"pool", "registry">>) = "pool" /\ Tail(<<"pool", "registry">>) = <<"registry">>
    /\ Head(<<"registry">>) = "registry" /\ Tail(<<"registry">>) = <<>>
<1>1. AllDrains # <<"pool", "registry">> /\ AllDrains # <<"registry">> /\ AllDrains # <<>>
  BY DEF AllDrains
<1>2. <<"pool", "registry">> # <<"registry">> /\ <<"pool", "registry">> # <<>> /\ <<"registry">> # <<>>
  OBVIOUS
<1>3. Head(AllDrains) = "listener" /\ Tail(AllDrains) = <<"pool", "registry">>
  BY DEF AllDrains
<1>4. Head(<<"pool", "registry">>) = "pool" /\ Tail(<<"pool", "registry">>) = <<"registry">>
  OBVIOUS
<1>5. Head(<<"registry">>) = "registry" /\ Tail(<<"registry">>) = <<>>
  OBVIOUS
<1> QED BY <1>1, <1>2, <1>3, <1>4, <1>5

\* finalize, and the hooks of the pool and of the registry.
LEMMA DrainSteps ==
    ASSUME ServeInv
    PROVE  (Finalize \/ DrainRegistry \/ DrainPool \/ Drained \/ RegistryReturns) => ServeInv'
\* The order in which finalize drains: the last hook first.
<1> /\ drainOrder(<<>>) = <<>>
    /\ drainOrder(<<"registry">>) = <<"registry">>
    /\ drainOrder(<<"registry", "pool">>) = <<"pool", "registry">>
    /\ drainOrder(AllHooks) = AllDrains
  <2>1. drainOrder(<<>>) = <<>>
    BY DEF drainOrder
  <2>2. drainOrder(<<"registry">>) = <<"registry">>
    BY DEF drainOrder
  <2>3. drainOrder(<<"registry", "pool">>) = <<"pool", "registry">>
    BY DEF drainOrder
  <2>4. drainOrder(AllHooks) = AllDrains
    BY DEF drainOrder, AllHooks, AllDrains
  <2> QED BY <2>1, <2>2, <2>3, <2>4
\* No startup is under way once the supervisor is closed.
<1>1. ASSUME sup.closed
      PROVE  ~Starting /\ main # "hook"
  BY <1>1 DEF ServeInv, CountInv, Starting
<1>2. ASSUME Finalize PROVE ServeInv'
  <2> USE <1>2
  <2> UNCHANGED <<sup, tick, elapsed, hooks, registry, main, ids, poolClosed, scene, lis, conn, op>>
    BY DEF Finalize, super, startup, pool
  <2> /\ run.at = "finalize" /\ root' = TRUE
      /\ run' = [at |-> "drain", timer |-> NoTimer, arm |-> 0, hooks |-> drainOrder(hooks)]
    BY DEF Finalize
  <2> run'.at = "drain" /\ run'.timer = NoTimer /\ run'.arm = 0 /\ run'.hooks = drainOrder(hooks)
    OBVIOUS
  <2> ShapeInv /\ CountInv /\ StartInv /\ WalkInv /\ QuietInv /\ ClockInv
    BY DEF ServeInv, DrainInv
  <2>1. ClockInv'
    <3>1. run' \in [at : RunAt, timer : Nat, arm : Nat, hooks : {run'.hooks}]
      BY DEF RunAt, NoTimer
    <3>2. run'.arm <= sup'.arm
      BY RunFields
    <3> QED BY <3>1, <3>2 DEF ClockInv
  <2>2. ShapeInv' /\ TableInv' /\ Leasing' = Leasing /\ Operating' = Operating
    BY StillConns DEF ShapeInv
  <2>3. CountInv'
    BY <2>2 DEF CountInv, Starting
  <2>4. StartInv'
    BY DEF StartInv
  <2> sup.closed /\ hooks \in Hooks
    BY DEF WalkInv, StartInv
  <2> /\ drainOrder(hooks) \in {AllDrains, <<"pool", "registry">>, <<"registry">>, <<>>}
      /\ drainOrder(hooks) = AllDrains <=> hooks = AllHooks
      /\ drainOrder(hooks) = <<>> => hooks = <<>>
    <3>1. CASE hooks = <<>>
      BY <3>1, DrainLists DEF AllHooks
    <3>2. CASE hooks = <<"registry">>
      BY <3>2, DrainLists DEF AllHooks
    <3>3. CASE hooks = <<"registry", "pool">>
      BY <3>3, DrainLists DEF AllHooks
    <3>4. CASE hooks = AllHooks
      BY <3>4, DrainLists
    <3> QED BY <3>1, <3>2, <3>3, <3>4 DEF Hooks, AllHooks
  <2>5. WalkInv'
    <3>1. run'.hooks = <<>> => registry' # "running"
      BY DEF StartInv
    <3> QED BY <3>1 DEF WalkInv, Closing
  <2>6. QuietInv'
    <3>1. ~poolClosed /\ main # "exited" /\ main # "hook"
      BY <1>1 DEF QuietInv, PastListener
    <3>2. PastListener' => ~lis'.open /\ \A c \in Conn : Settled(conn'[c])
      <4> SUFFICES ASSUME PastListener' PROVE ~lis'.open /\ \A c \in Conn : Settled(conn'[c])
        OBVIOUS
      <4>1. hooks # AllHooks
        BY DEF PastListener
      <4>2. ~lis.open /\ \A c \in Conn : conn[c] = Idle
        BY <3>1, <4>1 DEF QuietInv
      <4> QED BY <4>2 DEF Settled, Idle
    <3>3. lis'.drain = {}
      BY DEF QuietInv
    <3> QED BY <3>1, <3>2, <3>3 DEF QuietInv, Closing
  <2> QED BY <2>1, <2>2, <2>3, <2>4, <2>5, <2>6 DEF ServeInv, DrainInv
\* A hook other than the listener's is drained.
<1>3. ASSUME run.at = "drain", run.hooks # <<>>, Head(run.hooks) # "listener", HookNext,
             Head(run.hooks) = "registry" => registry = "returned",
             poolClosed' \in BOOLEAN,
             UNCHANGED <<super, root, startup, ids, scene, lis, conn, op>>
      PROVE  ServeInv'
  <2> USE <1>3
  <2> UNCHANGED <<sup, tick, elapsed, root, hooks, registry, main, ids, scene, lis, conn, op>>
    BY DEF super, startup
  <2> ShapeInv /\ CountInv /\ StartInv /\ WalkInv /\ QuietInv
    BY DEF ServeInv, DrainInv
  <2>1. run' = [run EXCEPT !.at = "drain", !.hooks = Tail(run.hooks)]
    BY RunFields DEF HookNext
  <2> ClockInv' /\ run'.at = "drain" /\ run'.hooks = Tail(run.hooks)
    BY <2>1, RunClock DEF RunAt
  <2>2. ShapeInv' /\ TableInv' /\ Leasing' = Leasing /\ Operating' = Operating
    BY StillConns DEF ShapeInv
  <2>3. CountInv'
    BY <2>2 DEF CountInv, Starting
  <2>4. StartInv'
    BY DEF StartInv
  <2>5. run.hooks \in {<<"pool", "registry">>, <<"registry">>}
    BY DrainLists DEF WalkInv
  <2>6. PastListener /\ PastListener'
    BY <2>5, DrainLists DEF PastListener
  <2>7. /\ run'.hooks \in {<<"registry">>, <<>>} /\ run'.hooks # AllDrains
        /\ run'.hooks = <<>> => registry # "running"
    BY <2>5, DrainLists
  <2>8. WalkInv'
    <3>1. sup.closed /\ root
      BY DEF WalkInv, Stopping
    <3> QED BY <2>7, <3>1 DEF WalkInv, Closing
  <2>9. QuietInv'
    <3>1. main # "exited" /\ ~lis.open /\ \A c \in Conn : Settled(conn[c])
      BY <2>6 DEF QuietInv
    <3> QED BY <2>6, <3>1 DEF QuietInv, Closing
  <2> QED BY <2>2, <2>3, <2>4, <2>8, <2>9 DEF ServeInv, DrainInv
<1>4. ASSUME DrainRegistry PROVE ServeInv'
  <2> USE <1>4
  <2>1. UNCHANGED <<super, root, startup, ids, scene, lis, conn, op>> /\ poolClosed' \in BOOLEAN
    BY DEF DrainRegistry, pool, ServeInv, ShapeInv
  <2> QED BY <2>1, <1>3 DEF DrainRegistry
<1>5. ASSUME DrainPool PROVE ServeInv'
  BY <1>5, <1>3 DEF DrainPool
<1>6. ASSUME Drained PROVE ServeInv'
  <2> USE <1>6
  <2> UNCHANGED <<sup, tick, elapsed, root, hooks, registry, main, ids, poolClosed, scene, lis, conn, op>>
    BY DEF Drained, super, startup, pool
  <2> ShapeInv /\ CountInv /\ StartInv /\ WalkInv /\ QuietInv
    BY DEF ServeInv, DrainInv
  <2> ClockInv' /\ run'.at = "stopped" /\ run'.hooks = <<>> /\ run.at = "drain" /\ run.hooks = <<>>
    BY RunGoesOn DEF Drained, RunAt
  <2>1. ShapeInv' /\ TableInv' /\ Leasing' = Leasing /\ Operating' = Operating
    BY StillConns DEF ShapeInv
  <2>2. CountInv'
    BY <2>1 DEF CountInv, Starting
  <2>3. StartInv'
    BY DEF StartInv
  <2>4. PastListener /\ PastListener'
    BY DrainLists DEF PastListener
  <2>5. WalkInv'
    BY DEF WalkInv, Stopping, Closing
  <2>6. QuietInv'
    <3>1. ~lis.open /\ \A c \in Conn : Settled(conn[c])
      BY <2>4 DEF QuietInv
    <3> QED BY <2>4, <3>1 DEF QuietInv, Closing
  <2> QED BY <2>1, <2>2, <2>3, <2>5, <2>6 DEF ServeInv, DrainInv
<1>7. ASSUME RegistryReturns PROVE ServeInv'
  <2> USE <1>7
  <2> /\ UNCHANGED <<sup, tick, elapsed, root, run, hooks, main, ids, poolClosed, scene, lis, conn, op>>
      /\ registry = "running" /\ registry' = "returned"
    BY DEF RegistryReturns, super, pool
  <2> ShapeInv /\ CountInv /\ StartInv /\ WalkInv /\ QuietInv
    BY DEF ServeInv, DrainInv
  <2>1. ClockInv'
    BY ClockKept DEF ServeInv
  <2>2. ShapeInv' /\ TableInv' /\ Leasing' = Leasing /\ Operating' = Operating
    BY StillConns DEF ShapeInv
  <2>3. CountInv'
    BY <2>2 DEF CountInv, Starting
  <2>4. StartInv'
    BY DEF StartInv
  <2>5. WalkInv'
    BY DEF WalkInv
  <2>6. QuietInv'
    BY DEF QuietInv, PastListener, Admitting
  <2> QED BY <2>1, <2>2, <2>3, <2>4, <2>5, <2>6 DEF ServeInv, DrainInv
<1> QED BY <1>2, <1>4, <1>5, <1>6, <1>7

\* listener.Close.
LEMMA CloseSteps ==
    ASSUME ServeInv
    PROVE  (\/ ListenerMarks \/ ListenerStops \/ ClosePending \/ ListenerJoins \/ ListenerClosed
            \/ \E d \in Conn : CloseSession(d) \/ SessionClosed(d)) => ServeInv'
\* Where Close stands in the walk over the hooks.
<1>1. ASSUME NEW x \in Closing \union {"drain"}, AtHook(x)
      PROVE  /\ run.at = x /\ run.hooks = AllDrains /\ hooks = AllHooks /\ sup.closed /\ root
             /\ ~PastListener /\ ~poolClosed /\ main # "exited"
  <2> USE <1>1
  <2> WalkInv /\ QuietInv /\ run.at = x /\ Head(run.hooks) = "listener" /\ run.hooks # <<>>
    BY DEF ServeInv, DrainInv, AtHook
  <2> run.hooks = AllDrains
    BY DrainLists DEF WalkInv, Closing
  <2>1. hooks = AllHooks /\ sup.closed /\ root
    BY DEF WalkInv, Closing, Stopping
  <2>2. ~PastListener
    BY DEF PastListener, Closing
  <2> QED BY <2>1, <2>2 DEF QuietInv, Closing
\* Close goes on to x; the rest of the invariant.
<1>2. ASSUME NEW x \in Closing, run.at \in Closing \union {"drain"}, run.hooks = AllDrains,
             hooks = AllHooks, sup.closed, root, ~poolClosed, main # "exited",
             run' = run \/ run' = [run EXCEPT !.at = x], run'.at = x,
             UNCHANGED <<super, root, startup, pool, op>>
      PROVE  ClockInv' /\ StartInv' /\ WalkInv' /\ run'.at = x /\ ~PastListener' /\ ~poolClosed' /\ main' # "exited"
  <2> USE <1>2
  <2> UNCHANGED <<sup, tick, elapsed, root, hooks, registry, main, poolClosed>>
    BY DEF super, startup, pool
  <2>1. x \in RunAt \ {"expired"}
    BY DEF Closing, RunAt
  <2>2. ClockInv' /\ run'.hooks = run.hooks
    <3>1. CASE run' = run
      BY <3>1, ClockKept DEF ServeInv
    <3>2. CASE run' = [run EXCEPT !.at = x]
      BY <2>1, <3>2, RunGoesOn
    <3> QED BY <3>1, <3>2
  <2>3. StartInv'
    BY DEF ServeInv, DrainInv, StartInv
  <2>4. WalkInv'
    BY <2>2 DEF WalkInv, Closing, Stopping
  <2>5. ~PastListener'
    BY DEF PastListener, Closing
  <2> QED BY <2>2, <2>3, <2>4, <2>5
\* Close cuts carriers and takes sessions over; nobody's stage changes.
<1>3. ASSUME conn' \in [Conn -> ConnType], lis' \in ListenerType,
             \A c \in Conn : /\ conn'[c].at = conn[c].at /\ conn'[c].publish = conn[c].publish
                             /\ conn'[c].started = conn[c].started,
             lis'.slots = lis.slots, UNCHANGED <<root, pool, op>>
      PROVE  /\ ShapeInv' /\ SlotsInv' /\ IdsInv'
             /\ Leasing' = Leasing /\ Operating' = Operating
             /\ \A c \in Conn : (Live(c)' <=> Live(c)) /\ (Admitting(c)' <=> Admitting(c))
  <2> USE <1>3
  <2> ShapeInv /\ SlotsInv /\ IdsInv
    BY DEF ServeInv, TableInv
  <2> UNCHANGED <<root, ids, poolClosed, scene, op>>
    BY DEF pool
  <2>1. ShapeInv'
    <3>1. \A c \in Conn : Placed(conn'[c], op'[c])
      BY DEF ShapeInv, Placed
    <3> QED BY <3>1 DEF ShapeInv
  <2>2. SlotsInv'
    BY DEF SlotsInv, HasSlot
  <2>3. \A c \in Conn : /\ HasIds(c)' <=> HasIds(c)
                        /\ HasId(c)' <=> HasId(c)
                        /\ HasLease(c)' <=> HasLease(c)
    BY DEF HasIds, HasId, HasLease
  <2>4. IdsInv'
    BY <2>3 DEF IdsInv
  <2>5. Leasing' = Leasing
    BY <2>3 DEF Leasing
  <2>6. Operating' = Operating
    BY DEF Operating, HasOperation
  <2>7. \A c \in Conn : (Live(c)' <=> Live(c)) /\ (Admitting(c)' <=> Admitting(c))
    BY DEF Live, Admitting
  <2> QED BY <2>1, <2>2, <2>4, <2>5, <2>6, <2>7
\* A step of Close that leaves the connections alone.
<1>4. ASSUME conn' = conn, lis' \in ListenerType, lis'.slots = lis.slots, UNCHANGED <<root, pool, op>>
      PROVE  /\ ShapeInv' /\ SlotsInv' /\ IdsInv'
             /\ Leasing' = Leasing /\ Operating' = Operating
             /\ \A c \in Conn : (Live(c)' <=> Live(c)) /\ (Admitting(c)' <=> Admitting(c))
  BY <1>4, <1>3 DEF ServeInv, ShapeInv
<1>5. ASSUME ListenerMarks PROVE ServeInv'
  <2> USE <1>5
  <2>1. /\ run.at = "drain" /\ run.hooks = AllDrains /\ hooks = AllHooks /\ sup.closed /\ root
        /\ ~PastListener /\ ~poolClosed /\ main # "exited"
    BY <1>1 DEF ListenerMarks
  <2> /\ lis' = [lis EXCEPT !.closed = TRUE] /\ run' = [run EXCEPT !.at = "stop"] /\ conn' = conn
      /\ UNCHANGED <<super, root, startup, pool, op>>
    BY DEF ListenerMarks, closeRest
  <2> lis \in ListenerType /\ SessionsInv /\ QuietInv /\ CountInv
    BY DEF ServeInv, ShapeInv, TableInv, DrainInv
  <2> /\ lis' \in ListenerType /\ lis'.slots = lis.slots /\ lis'.sessions = lis.sessions
      /\ lis'.drain = lis.drain /\ lis'.closed = TRUE
    BY DEF ListenerType
  <2>2. lis'.retiring = lis.retiring
    BY DEF ListenerType
  <2>3. run'.at = "stop"
    BY RunFields
  <2>4. ClockInv' /\ StartInv' /\ WalkInv' /\ ~PastListener' /\ ~poolClosed' /\ main' # "exited"
    BY <2>1, <2>3, <1>2 DEF Closing
  <2> /\ ShapeInv' /\ SlotsInv' /\ IdsInv' /\ Leasing' = Leasing /\ Operating' = Operating
      /\ \A c \in Conn : (Live(c)' <=> Live(c)) /\ (Admitting(c)' <=> Admitting(c))
    BY <1>4
  <2>5. SessionsInv'
    BY <2>2 DEF SessionsInv, ListenerType
  <2>6. CountInv'
    BY DEF CountInv, Starting, super, startup
  <2>7. QuietInv'
    <3>1. lis'.drain = {} /\ hooks' = AllHooks
      BY <2>1 DEF QuietInv, startup
    <3> QED BY <2>3, <2>4, <3>1 DEF QuietInv
  <2> QED BY <2>4, <2>5, <2>6, <2>7 DEF ServeInv, TableInv, DrainInv
<1>6. ASSUME ListenerStops PROVE ServeInv'
  <2> USE <1>6
  <2>1. /\ run.at = "stop" /\ run.hooks = AllDrains /\ hooks = AllHooks /\ sup.closed /\ root
        /\ ~PastListener /\ ~poolClosed /\ main # "exited"
    BY <1>1 DEF ListenerStops, Closing
  <2> /\ lis' = [lis EXCEPT !.stopped = TRUE, !.open = FALSE] /\ run' = [run EXCEPT !.at = "pending"] /\ conn' = conn
      /\ UNCHANGED <<super, root, startup, pool, op>>
    BY DEF ListenerStops, closeRest
  <2> lis \in ListenerType /\ SessionsInv /\ QuietInv /\ CountInv
    BY DEF ServeInv, ShapeInv, TableInv, DrainInv
  <2> /\ lis' \in ListenerType /\ lis'.slots = lis.slots /\ lis'.sessions = lis.sessions
      /\ lis'.drain = lis.drain /\ lis'.open = FALSE
    BY DEF ListenerType
  <2>2. lis'.retiring = lis.retiring /\ lis'.closed = lis.closed
    BY DEF ListenerType
  <2>3. run'.at = "pending"
    BY RunFields
  <2>4. ClockInv' /\ StartInv' /\ WalkInv' /\ ~PastListener' /\ ~poolClosed' /\ main' # "exited"
    BY <2>1, <2>3, <1>2 DEF Closing
  <2> /\ ShapeInv' /\ SlotsInv' /\ IdsInv' /\ Leasing' = Leasing /\ Operating' = Operating
      /\ \A c \in Conn : (Live(c)' <=> Live(c)) /\ (Admitting(c)' <=> Admitting(c))
    BY <1>4
  <2>5. SessionsInv'
    BY <2>2 DEF SessionsInv, ListenerType
  <2>6. CountInv'
    BY DEF CountInv, Starting, super, startup
  <2>7. QuietInv'
    <3>1. lis'.drain = {} /\ hooks' = AllHooks /\ lis'.closed
      BY <2>1, <2>2 DEF QuietInv, startup, Closing
    <3> QED BY <2>3, <2>4, <3>1 DEF QuietInv
  <2> QED BY <2>4, <2>5, <2>6, <2>7 DEF ServeInv, TableInv, DrainInv
<1>7. ASSUME ClosePending PROVE ServeInv'
  <2> USE <1>7
  <2>1. /\ run.at = "pending" /\ run.hooks = AllDrains /\ hooks = AllHooks /\ sup.closed /\ root
        /\ ~PastListener /\ ~poolClosed /\ main # "exited"
    BY <1>1 DEF ClosePending, Closing
  <2> /\ conn' = [c \in Conn |-> IF c \in lis.pending THEN [conn[c] EXCEPT !.carrier = FALSE] ELSE conn[c]]
      /\ run' = [run EXCEPT !.at = "join"] /\ lis' = lis
      /\ UNCHANGED <<super, root, startup, pool, op>>
    BY DEF ClosePending, closeRest
  <2> lis \in ListenerType /\ conn \in [Conn -> ConnType] /\ SessionsInv /\ QuietInv /\ CountInv
    BY DEF ServeInv, ShapeInv, TableInv, DrainInv
  <2>2. run'.at = "join"
    BY RunFields
  <2>3. ClockInv' /\ StartInv' /\ WalkInv' /\ ~PastListener' /\ ~poolClosed' /\ main' # "exited"
    BY <2>1, <2>2, <1>2 DEF Closing
  <2>4. /\ conn' \in [Conn -> ConnType]
        /\ \A c \in Conn : /\ conn'[c].at = conn[c].at /\ conn'[c].publish = conn[c].publish
                           /\ conn'[c].started = conn[c].started
    <3>1. ASSUME NEW r \in ConnType
          PROVE  /\ [r EXCEPT !.carrier = FALSE] \in ConnType /\ [r EXCEPT !.carrier = FALSE].at = r.at
                 /\ [r EXCEPT !.carrier = FALSE].publish = r.publish
                 /\ [r EXCEPT !.carrier = FALSE].started = r.started
      BY DEF ConnType
    <3> QED BY <3>1
  <2> /\ ShapeInv' /\ SlotsInv' /\ IdsInv' /\ Leasing' = Leasing /\ Operating' = Operating
      /\ \A c \in Conn : (Live(c)' <=> Live(c)) /\ (Admitting(c)' <=> Admitting(c))
    BY <2>4, <1>3
  <2>5. SessionsInv'
    BY DEF SessionsInv, ListenerType
  <2>6. CountInv'
    BY DEF CountInv, Starting, super, startup
  <2>7. QuietInv'
    <3>1. lis'.drain = {} /\ hooks' = AllHooks /\ ~lis'.open /\ lis'.closed
      BY <2>1 DEF QuietInv, startup, Closing
    <3> QED BY <2>2, <2>3, <3>1 DEF QuietInv
  <2> QED BY <2>3, <2>5, <2>6, <2>7 DEF ServeInv, TableInv, DrainInv
<1>8. ASSUME ListenerJoins PROVE ServeInv'
  <2> USE <1>8
  <2> /\ run.at = "join" /\ run.hooks = AllDrains /\ hooks = AllHooks /\ sup.closed /\ root
      /\ ~PastListener /\ ~poolClosed /\ main # "exited"
    BY <1>1 DEF ListenerJoins, Closing
  <2> /\ lis' = [lis EXCEPT !.drain = lis.sessions, !.sessions = {}]
      /\ run' = [run EXCEPT !.at = "sessions"] /\ conn' = conn
      /\ UNCHANGED <<super, root, startup, pool, op>>
    BY DEF ListenerJoins, closeRest
  <2> lis \in ListenerType /\ SessionsInv /\ QuietInv /\ CountInv
    BY DEF ServeInv, ShapeInv, TableInv, DrainInv
  <2> /\ lis' \in ListenerType /\ lis'.slots = lis.slots /\ lis'.sessions = {}
      /\ lis'.drain = lis.sessions
    BY DEF ListenerType
  <2>1. lis'.retiring = lis.retiring /\ lis'.closed = lis.closed /\ lis'.open = lis.open
    BY DEF ListenerType
  <2>2. run'.at = "sessions"
    BY RunFields
  <2>3. ClockInv' /\ StartInv' /\ WalkInv' /\ ~PastListener' /\ ~poolClosed' /\ main' # "exited"
    BY <2>2, <1>2 DEF Closing
  <2> /\ ShapeInv' /\ SlotsInv' /\ IdsInv' /\ Leasing' = Leasing /\ Operating' = Operating
      /\ \A c \in Conn : (Live(c)' <=> Live(c)) /\ (Admitting(c)' <=> Admitting(c))
    BY <1>4
  <2>4. lis.drain = {} /\ lis.closed /\ ~lis.open
    BY DEF QuietInv, Closing
  <2>5. SessionsInv'
    BY <2>1, <2>4 DEF SessionsInv, ListenerType
  <2>6. CountInv'
    BY DEF CountInv, Starting, super, startup
  <2>7. QuietInv'
    <3>1. hooks' = AllHooks
      BY DEF startup
    <3>2. \A c \in Conn : ~Admitting(c)'
      BY DEF ListenerJoins, joined
    <3> QED BY <2>1, <2>2, <2>3, <2>4, <3>1, <3>2 DEF QuietInv
  <2> QED BY <2>3, <2>5, <2>6, <2>7 DEF ServeInv, TableInv, DrainInv
<1>9. ASSUME NEW d \in Conn, CloseSession(d)
      PROVE  ServeInv'
  <2> USE <1>9
  <2> /\ run.at = "sessions" /\ run.hooks = AllDrains /\ hooks = AllHooks /\ sup.closed /\ root
      /\ ~PastListener /\ ~poolClosed /\ main # "exited"
    BY <1>1 DEF CloseSession, Closing
  <2> /\ conn' = [conn EXCEPT ![d].carrier = FALSE] /\ lis' = [lis EXCEPT !.current = {d}] /\ run' = run
      /\ UNCHANGED <<super, root, startup, pool, op>>
    BY DEF CloseSession, closeRest
  <2> lis \in ListenerType /\ conn \in [Conn -> ConnType] /\ SessionsInv /\ QuietInv /\ CountInv
    BY DEF ServeInv, ShapeInv, TableInv, DrainInv
  <2> /\ lis' \in ListenerType /\ lis'.slots = lis.slots /\ lis'.sessions = lis.sessions
      /\ lis'.drain = lis.drain
    BY DEF ListenerType
  <2>1. lis'.retiring = lis.retiring /\ lis'.closed = lis.closed /\ lis'.open = lis.open
    BY DEF ListenerType
  <2>2. ClockInv' /\ StartInv' /\ WalkInv' /\ run'.at = "sessions" /\ ~PastListener' /\ ~poolClosed' /\ main' # "exited"
    BY <1>2 DEF Closing
  <2>3. /\ conn' \in [Conn -> ConnType]
        /\ \A c \in Conn : /\ conn'[c].at = conn[c].at /\ conn'[c].publish = conn[c].publish
                           /\ conn'[c].started = conn[c].started
    <3> PICK r : r = [conn[d] EXCEPT !.carrier = FALSE]
      OBVIOUS
    <3>1. conn[d] \in ConnType /\ conn' = [conn EXCEPT ![d] = r]
      OBVIOUS
    <3>2. r \in ConnType /\ r.at = conn[d].at /\ r.publish = conn[d].publish
      BY <3>1 DEF ConnType
    <3>3. r.started = conn[d].started
      BY <3>1 DEF ConnType
    <3> QED BY <3>1, <3>2, <3>3
  <2> /\ ShapeInv' /\ SlotsInv' /\ IdsInv' /\ Leasing' = Leasing /\ Operating' = Operating
      /\ \A c \in Conn : (Live(c)' <=> Live(c)) /\ (Admitting(c)' <=> Admitting(c))
    BY <2>3, <1>3
  <2>4. SessionsInv'
    BY <2>1 DEF SessionsInv, ListenerType
  <2>5. CountInv'
    BY DEF CountInv, Starting, super, startup
  <2>6. QuietInv'
    <3>1. hooks' = AllHooks
      BY DEF startup
    <3>2. lis.sessions = {} /\ lis.closed /\ ~lis.open /\ \A c \in Conn : ~Admitting(c)
      BY DEF QuietInv, Closing
    <3>3. \A c \in Conn : ~Admitting(c)'
      BY <3>2
    <3> QED BY <2>1, <2>2, <3>1, <3>2, <3>3 DEF QuietInv
  <2> QED BY <2>2, <2>4, <2>5, <2>6 DEF ServeInv, TableInv, DrainInv
<1>10. ASSUME NEW d \in Conn, SessionClosed(d)
       PROVE  ServeInv'
  <2> USE <1>10
  <2> /\ run.at = "sessions" /\ run.hooks = AllDrains /\ hooks = AllHooks /\ sup.closed /\ root
      /\ ~PastListener /\ ~poolClosed /\ main # "exited"
    BY <1>1 DEF SessionClosed, Closing
  <2> /\ lis' = [lis EXCEPT !.current = {}, !.drain = @ \ {d}] /\ run' = run /\ conn' = conn
      /\ UNCHANGED <<super, root, startup, pool, op>>
    BY DEF SessionClosed, closeRest
  <2> lis \in ListenerType /\ SessionsInv /\ QuietInv /\ CountInv
    BY DEF ServeInv, ShapeInv, TableInv, DrainInv
  <2> /\ lis' \in ListenerType /\ lis'.slots = lis.slots /\ lis'.sessions = lis.sessions
      /\ lis'.drain = lis.drain \ {d}
    BY DEF ListenerType
  <2>1. lis'.retiring = lis.retiring /\ lis'.closed = lis.closed /\ lis'.open = lis.open
    BY DEF ListenerType
  <2>2. ClockInv' /\ StartInv' /\ WalkInv' /\ run'.at = "sessions" /\ ~PastListener' /\ ~poolClosed' /\ main' # "exited"
    BY <1>2 DEF Closing
  <2> /\ ShapeInv' /\ SlotsInv' /\ IdsInv' /\ Leasing' = Leasing /\ Operating' = Operating
      /\ \A c \in Conn : (Live(c)' <=> Live(c)) /\ (Admitting(c)' <=> Admitting(c))
    BY <1>4
  <2>3. SessionsInv'
    <3>1. ~Live(d)
      BY DEF Live, SessionClosed
    <3> QED BY <2>1, <3>1 DEF SessionsInv, ListenerType
  <2>4. CountInv'
    BY DEF CountInv, Starting, super, startup
  <2>5. QuietInv'
    <3>1. hooks' = AllHooks
      BY DEF startup
    <3>2. lis.sessions = {} /\ lis.closed /\ ~lis.open /\ \A c \in Conn : ~Admitting(c)
      BY DEF QuietInv, Closing
    <3>3. \A c \in Conn : ~Admitting(c)'
      BY <3>2
    <3> QED BY <2>1, <2>2, <3>1, <3>2, <3>3 DEF QuietInv
  <2> QED BY <2>2, <2>3, <2>4, <2>5 DEF ServeInv, TableInv, DrainInv
\* Close took every session, and each ended: nothing is left of the connections.
<1>11. ASSUME ListenerClosed PROVE ServeInv'
  <2> USE <1>11
  <2> /\ run.at = "sessions" /\ run.hooks = AllDrains /\ hooks = AllHooks /\ sup.closed /\ root
      /\ ~PastListener /\ ~poolClosed /\ main # "exited"
    BY <1>1 DEF ListenerClosed, Closing
  <2> /\ HookNext /\ lis.drain = {} /\ lis' = lis /\ conn' = conn
      /\ UNCHANGED <<super, root, startup, pool, op>>
    BY DEF ListenerClosed, closeRest
  <2> UNCHANGED <<sup, tick, elapsed, root, hooks, registry, main, ids, poolClosed, scene, op>>
    BY DEF super, startup, pool
  <2> lis \in ListenerType /\ conn \in [Conn -> ConnType] /\ SessionsInv /\ QuietInv /\ CountInv /\ StartInv
    BY DEF ServeInv, ShapeInv, TableInv, DrainInv
  <2>1. run' = [run EXCEPT !.at = "drain", !.hooks = Tail(run.hooks)]
    BY RunFields DEF HookNext
  <2> ClockInv' /\ run'.at = "drain" /\ run'.hooks = Tail(run.hooks)
    BY <2>1, RunClock DEF RunAt
  <2>2. run'.hooks = <<"pool", "registry">>
    BY DEF AllDrains
  <2>3. ShapeInv' /\ TableInv' /\ Leasing' = Leasing /\ Operating' = Operating
    BY StillConns DEF ServeInv, ShapeInv
  <2>4. CountInv'
    BY <2>3 DEF CountInv, Starting
  <2>5. StartInv'
    BY DEF StartInv
  <2>6. WalkInv'
    <3>1. run'.hooks # AllDrains /\ run'.hooks # <<>> /\ sup'.closed /\ root'
      BY <2>2 DEF AllDrains
    <3>2. run'.at = "drain" /\ run'.hooks = <<"pool", "registry">>
      BY <2>2
    <3> QED BY <3>1, <3>2 DEF WalkInv, Closing, Stopping
  <2>7. \A c \in Conn : Settled(conn[c])
    <3>1. \A c \in Conn : ~Live(c) /\ ~Admitting(c)
      BY DEF SessionsInv, QuietInv
    <3> QED BY <3>1 DEF Live, Admitting, Settled, ConnType
  <2>8. QuietInv'
    <3>1. ~lis.open
      BY DEF QuietInv
    <3> QED BY <2>7, <3>1 DEF QuietInv, Closing
  <2> QED BY <2>3, <2>4, <2>5, <2>6, <2>8 DEF ServeInv, DrainInv
<1> QED BY <1>5, <1>6, <1>7, <1>8, <1>9, <1>10, <1>11

-----------------------------------------------------------------------------
(* The startup.                                                            *)

\* The startup moves on and registers nothing.
LEMMA MainMoves ==
    ASSUME ServeInv, main # "hook", main' \in {"runner", "unwind", "serving", "close", "closing", "exited"},
           main' = "runner" => main = "lease", main' = "serving" => main = "started",
           main' = "exited" => run.at = "stopped",
           sup.closed => sup'.closed,
           UNCHANGED <<root, run, hooks, registry, pool, lis, conn, op>>
    PROVE  ShapeInv' /\ TableInv' /\ DrainInv' /\ Leasing' = Leasing /\ Operating' = Operating
<1> UNCHANGED <<root, run, hooks, registry, ids, poolClosed, scene, lis, conn, op>>
  BY DEF pool
<1> ShapeInv /\ StartInv /\ WalkInv /\ QuietInv
  BY DEF ServeInv, DrainInv
<1>1. ShapeInv' /\ TableInv' /\ Leasing' = Leasing /\ Operating' = Operating
  BY StillConns DEF ShapeInv
<1>2. StartInv'
  BY DEF StartInv
<1>3. WalkInv'
  BY DEF WalkInv
<1>4. QuietInv'
  BY DEF QuietInv, PastListener, Admitting
<1> QED BY <1>1, <1>2, <1>3, <1>4 DEF DrainInv

\* main, when it neither takes a lease nor registers a hook.
LEMMA MainSteps ==
    ASSUME ServeInv
    PROVE  (MainRefused \/ MainFails \/ MainStops \/ MainExits \/ MainCommits) => ServeInv'
\* The startup goes on with the lease it has, or without one.
<1>1. ASSUME main # "hook", main' \in {"unwind", "close", "exited"},
             main' = "exited" => run.at = "stopped", Starting' <=> Starting,
             UNCHANGED <<super, root, run, hooks, registry, pool, lis, conn, op>>
      PROVE  ServeInv'
  <2> USE <1>1
  <2> UNCHANGED <<sup, tick, elapsed, run>>
    BY DEF super
  <2>1. ShapeInv' /\ TableInv' /\ DrainInv' /\ Leasing' = Leasing /\ Operating' = Operating
    BY MainMoves
  <2>2. ClockInv'
    BY ClockKept DEF ServeInv
  <2>3. CountInv'
    BY <2>1 DEF ServeInv, CountInv
  <2> QED BY <2>1, <2>2, <2>3 DEF ServeInv
<1>2. ASSUME MainRefused PROVE ServeInv'
  BY <1>2, <1>1 DEF MainRefused, Starting
<1>3. ASSUME MainFails PROVE ServeInv'
  BY <1>3, <1>1 DEF MainFails, Starting
<1>4. ASSUME MainStops PROVE ServeInv'
  BY <1>4, <1>1 DEF MainStops, Starting
<1>5. ASSUME MainExits PROVE ServeInv'
  BY <1>5, <1>1 DEF MainExits, Starting
<1>6. ASSUME MainCommits PROVE ServeInv'
  <2> USE <1>6
  <2> /\ main = "close" /\ main' = "closing" /\ Sets(commit(sup)) /\ sup' = commit(sup) /\ ClockInv /\ CountInv
      /\ UNCHANGED <<root, run, hooks, registry, pool, lis, conn, op>>
    BY DEF MainCommits, Sets, ServeInv
  <2> SupOK(commit(sup)) /\ commit(sup).closed /\ commit(sup).arm = sup.arm /\ commit(sup).leases = sup.leases
    BY RunFields, CommitSup
  <2>1. ClockInv'
    BY SetsClock
  <2>2. ShapeInv' /\ TableInv' /\ DrainInv' /\ Leasing' = Leasing /\ Operating' = Operating
    BY MainMoves
  <2>3. ~Starting /\ ~Starting'
    BY DEF Starting
  <2>4. CountInv'
    BY <2>2, <2>3 DEF CountInv
  <2> QED BY <2>1, <2>2, <2>4 DEF ServeInv
<1> QED BY <1>2, <1>3, <1>4, <1>5, <1>6

\* Register appends to the hooks.
HookName == {"registry", "pool", "listener"}

\* main, while it composes the broker.
LEMMA StartupSteps ==
    ASSUME ServeInv
    PROVE  (MainRegistry \/ MainPool \/ MainListens \/ MainListener) => ServeInv'
\* While the startup holds its lease, run watches the timer.
<1>1. ASSUME Starting
      PROVE  run.at \in Watching /\ ~sup.closed /\ ~PastListener /\ ~poolClosed /\ main # "exited"
  <2> USE <1>1
  <2>1. ~sup.closed
    BY DEF ServeInv, CountInv
  <2>2. run.at \in Watching
    BY <2>1, RunFields DEF ServeInv, DrainInv, WalkInv, RunAt, Stopping, Watching
  <2>3. ~PastListener
    BY <2>2 DEF PastListener, Watching
  <2> QED BY <2>1, <2>2, <2>3 DEF ServeInv, DrainInv, QuietInv, Starting
\* The startup moves on while run watches.
<1>2. ASSUME Starting, Starting', lis' \in ListenerType,
             lis'.slots = lis.slots, lis'.sessions = lis.sessions, lis'.drain = lis.drain,
             lis'.retiring = lis.retiring, lis'.closed = lis.closed,
             StartInv',
             hooks' # AllHooks /\ main' # "hook" => ~lis'.open /\ \A c \in Conn : conn[c] = Idle,
             UNCHANGED <<super, root, run, pool, conn, op>>
      PROVE  ServeInv'
  <2> USE <1>2
  <2> UNCHANGED <<sup, tick, elapsed, root, run, ids, poolClosed, scene, conn, op>>
    BY DEF super, pool
  <2>1. ShapeInv' /\ TableInv' /\ Leasing' = Leasing /\ Operating' = Operating
    BY StillConns DEF ServeInv, ShapeInv
  <2>2. ClockInv'
    BY ClockKept DEF ServeInv
  <2>3. CountInv'
    BY <2>1 DEF ServeInv, CountInv
  <2> run.at \in Watching /\ ~PastListener /\ ~poolClosed
    BY <1>1
  <2>4. WalkInv'
    BY DEF WalkInv, Watching, Stopping, Closing
  <2>5. QuietInv'
    <3>1. ~PastListener' /\ main' # "exited"
      BY DEF PastListener, Starting
    <3>2. lis'.drain = {}
      BY DEF ServeInv, DrainInv, QuietInv, Watching
    <3> QED BY <3>1, <3>2 DEF QuietInv, Watching, Closing
  <2> QED BY <2>1, <2>2, <2>3, <2>4, <2>5 DEF ServeInv, DrainInv
\* Sequences with the same elements are equal.
<1>3. ASSUME NEW S, NEW s \in Seq(S), NEW t \in Seq(S), Len(s) = Len(t),
             \A i \in 1 .. Len(s) : s[i] = t[i]
      PROVE  s = t
  <2> USE <1>3
  <2>1. s = [i \in 1 .. Len(s) |-> s[i]]
    OBVIOUS
  <2>2. t = [i \in 1 .. Len(s) |-> t[i]]
    OBVIOUS
  <2>3. [i \in 1 .. Len(s) |-> s[i]] = [i \in 1 .. Len(s) |-> t[i]]
    OBVIOUS
  <2> QED BY <2>1, <2>2, <2>3
<1>4. ASSUME NEW S, NEW a \in S, NEW b \in S
      PROVE  Append(<<a>>, b) = <<a, b>>
  <2> USE <1>4
  <2>1. <<a>> \in Seq(S) /\ <<a, b>> \in Seq(S) /\ Append(<<a>>, b) \in Seq(S)
    OBVIOUS
  <2>2. Len(Append(<<a>>, b)) = 2 /\ Len(<<a, b>>) = 2
    OBVIOUS
  <2>3. \A i \in 1 .. 2 : Append(<<a>>, b)[i] = <<a, b>>[i]
    OBVIOUS
  <2> QED BY <2>1, <2>2, <2>3, <1>3
<1>5. ASSUME NEW S, NEW a \in S, NEW b \in S, NEW c \in S
      PROVE  Append(<<a, b>>, c) = <<a, b, c>>
  <2> USE <1>5
  <2>1. <<a, b>> \in Seq(S) /\ <<a, b, c>> \in Seq(S) /\ Append(<<a, b>>, c) \in Seq(S)
    OBVIOUS
  <2>2. Len(Append(<<a, b>>, c)) = 3 /\ Len(<<a, b, c>>) = 3
    OBVIOUS
  <2>3. \A i \in 1 .. 3 : Append(<<a, b>>, c)[i] = <<a, b, c>>[i]
    OBVIOUS
  <2> QED BY <2>1, <2>2, <2>3, <1>3
<1> /\ Append(<<>>, "registry") = <<"registry">>
    /\ Append(<<"registry">>, "pool") = <<"registry", "pool">>
    /\ Append(<<"registry", "pool">>, "listener") = AllHooks
    /\ AllHooks # <<>> /\ AllHooks # <<"registry">> /\ AllHooks # <<"registry", "pool">>
    /\ <<"registry">> # <<>> /\ <<"registry", "pool">> # <<>>
  <2> "registry" \in HookName /\ "pool" \in HookName /\ "listener" \in HookName
    BY DEF HookName
  <2>1. Append(<<>>, "registry") = <<"registry">>
    OBVIOUS
  <2>2. Append(<<"registry">>, "pool") = <<"registry", "pool">>
    BY <1>4
  <2>3. Append(<<"registry", "pool">>, "listener") = AllHooks
    BY <1>5 DEF AllHooks
  <2>4. AllHooks # <<>> /\ AllHooks # <<"registry">> /\ AllHooks # <<"registry", "pool">>
    BY DEF AllHooks
  <2>5. <<"registry">> # <<>> /\ <<"registry", "pool">> # <<>>
    OBVIOUS
  <2> QED BY <2>1, <2>2, <2>3, <2>4, <2>5
<1>6. ASSUME MainRegistry PROVE ServeInv'
  <2> USE <1>6
  <2> /\ main = "runner" /\ main' = "pool" /\ hooks' = Append(hooks, "registry") /\ registry' = "running"
      /\ UNCHANGED <<super, root, run, pool, conn, op, lis>>
    BY DEF MainRegistry, Registers
  <2> StartInv /\ QuietInv /\ lis \in ListenerType
    BY DEF ServeInv, DrainInv, ShapeInv
  <2>1. hooks = <<>> /\ hooks' = <<"registry">>
    BY DEF StartInv
  <2>2. StartInv'
    BY <2>1 DEF StartInv, Hooks
  <2>3. ~lis.open /\ \A c \in Conn : conn[c] = Idle
    BY <2>1 DEF QuietInv
  <2>4. Starting /\ Starting'
    BY DEF Starting
  <2> QED BY <2>2, <2>3, <2>4, <1>2
<1>7. ASSUME MainPool PROVE ServeInv'
  <2> USE <1>7
  <2> /\ main = "pool" /\ main' = "listen" /\ hooks' = Append(hooks, "pool") /\ registry' = registry
      /\ UNCHANGED <<super, root, run, pool, conn, op, lis>>
    BY DEF MainPool, Registers
  <2> StartInv /\ QuietInv /\ lis \in ListenerType
    BY DEF ServeInv, DrainInv, ShapeInv
  <2>1. hooks = <<"registry">> /\ hooks' = <<"registry", "pool">>
    BY DEF StartInv
  <2>2. StartInv'
    BY <2>1 DEF StartInv, Hooks
  <2>3. ~lis.open /\ \A c \in Conn : conn[c] = Idle
    BY <2>1 DEF QuietInv
  <2>4. Starting /\ Starting'
    BY DEF Starting
  <2> QED BY <2>2, <2>3, <2>4, <1>2
<1>8. ASSUME MainListens PROVE ServeInv'
  <2> USE <1>8
  <2> /\ main = "listen" /\ main' = "hook" /\ lis' = [lis EXCEPT !.open = TRUE]
      /\ UNCHANGED <<super, root, run, hooks, registry, pool, conn, op>>
    BY DEF MainListens
  <2> StartInv /\ lis \in ListenerType
    BY DEF ServeInv, DrainInv, ShapeInv
  <2>1. StartInv'
    BY DEF StartInv
  <2>2. /\ lis' \in ListenerType /\ lis'.slots = lis.slots /\ lis'.sessions = lis.sessions /\ lis'.drain = lis.drain
    BY DEF ListenerType
  <2>3. lis'.closed = lis.closed /\ lis'.retiring = lis.retiring
    BY DEF ListenerType
  <2>4. Starting /\ Starting'
    BY DEF Starting
  <2> QED BY <2>1, <2>2, <2>3, <2>4, <1>2
<1>9. ASSUME MainListener PROVE ServeInv'
  <2> USE <1>9
  <2> /\ main = "hook" /\ main' = "started" /\ hooks' = Append(hooks, "listener") /\ registry' = registry
      /\ UNCHANGED <<super, root, run, pool, conn, op, lis>>
    BY DEF MainListener, Registers
  <2> StartInv /\ lis \in ListenerType
    BY DEF ServeInv, DrainInv, ShapeInv
  <2>1. hooks = <<"registry", "pool">> /\ hooks' = AllHooks
    BY DEF StartInv
  <2>2. StartInv'
    BY <2>1 DEF StartInv, Hooks, AllHooks
  <2>3. Starting /\ Starting'
    BY DEF Starting
  <2> QED BY <2>1, <2>2, <2>3, <1>2
<1> QED BY <1>6, <1>7, <1>8, <1>9

-----------------------------------------------------------------------------
(* A step of one connection.                                               *)

\* What a step of connection c respects: it leaves the others, the startup and
\* the shutdown alone, a connection nobody opened stays so once the listener is
\* closed, and a connection that is over stays so.
Moves(c) ==
    /\ conn' \in [Conn -> ConnType] /\ op' \in [Conn -> OpAt] /\ lis' \in ListenerType
    /\ \A d \in Conn \ {c} : conn'[d] = conn[d] /\ op'[d] = op[d]
    /\ Placed(conn'[c], op'[c])
    /\ conn[c] = Idle /\ ~lis.open => conn'[c] = Idle
    /\ Settled(conn[c]) /\ ~lis.open => Settled(conn'[c])
    /\ ~Admitting(c) /\ ~lis.open => ~Admitting(c)'
    /\ lis'.closed = lis.closed /\ (lis'.open => lis.open) /\ lis'.drain = lis.drain
    /\ lis.closed => lis'.sessions \subseteq lis.sessions
    /\ sup'.closed = sup.closed
    /\ UNCHANGED <<root, run, startup, poolClosed, scene>>

LEMMA MovesRest ==
    ASSUME ServeInv, NEW c \in Conn, Moves(c)
    PROVE  ShapeInv' /\ DrainInv'
<1> ShapeInv /\ StartInv /\ WalkInv /\ QuietInv
  BY DEF ServeInv, DrainInv
<1> UNCHANGED <<root, run, hooks, registry, main, poolClosed, scene>>
  BY DEF Moves, startup
<1>1. ShapeInv'
  <2>1. \A d \in Conn : Placed(conn'[d], op'[d])
    BY DEF Moves, ShapeInv
  <2> QED BY <2>1 DEF Moves, ShapeInv
<1>2. StartInv'
  BY DEF StartInv
<1>3. WalkInv'
  <2>1. sup'.closed = sup.closed
    BY DEF Moves
  <2> QED BY <2>1 DEF WalkInv
<1>4. QuietInv'
  <2> lis'.open => lis.open
    BY DEF Moves
  <2>1. hooks' # AllHooks /\ main' # "hook" => ~lis'.open /\ \A d \in Conn : conn'[d] = Idle
    BY DEF QuietInv, Moves
  <2>2. run'.at \in {"pending", "join", "sessions"} => ~lis'.open
    BY DEF QuietInv
  <2>3. run'.at \in Closing => lis'.closed
    BY DEF QuietInv, Moves
  <2>4. run'.at = "sessions" => lis'.sessions = {} /\ \A d \in Conn : ~Admitting(d)'
    <3> SUFFICES ASSUME run'.at = "sessions" PROVE lis'.sessions = {} /\ \A d \in Conn : ~Admitting(d)'
      OBVIOUS
    <3> run.at = "sessions" /\ lis.sessions = {} /\ (\A d \in Conn : ~Admitting(d)) /\ ~lis.open /\ lis.closed
      BY DEF QuietInv, Closing
    <3>1. lis'.sessions = {}
      BY DEF Moves
    <3>2. ~Admitting(c)'
      BY DEF Moves
    <3>3. ASSUME NEW d \in Conn \ {c} PROVE ~Admitting(d)'
      <4>1. conn'[d] = conn[d]
        BY DEF Moves
      <4> QED BY <4>1 DEF Admitting
    <3> QED BY <3>1, <3>2, <3>3
  <2>5. PastListener' => ~lis'.open /\ \A d \in Conn : Settled(conn'[d])
    <3> SUFFICES ASSUME PastListener' PROVE ~lis'.open /\ \A d \in Conn : Settled(conn'[d])
      OBVIOUS
    <3>1. PastListener
      BY DEF PastListener
    <3>2. ~lis.open /\ \A d \in Conn : Settled(conn[d])
      BY <3>1 DEF QuietInv
    <3>3. Settled(conn'[c])
      BY <3>2 DEF Moves
    <3>4. \A d \in Conn \ {c} : conn'[d] = conn[d]
      BY DEF Moves
    <3> QED BY <3>2, <3>3, <3>4
  <2>6. poolClosed' => PastListener'
    BY DEF QuietInv, PastListener
  <2>7. main' = "exited" => run'.at = "stopped"
    BY DEF QuietInv
  <2>8. run'.at # "sessions" => lis'.drain = {}
    BY DEF QuietInv, Moves
  <2> QED BY <2>1, <2>2, <2>3, <2>4, <2>5, <2>6, <2>7, <2>8 DEF QuietInv
<1> QED BY <1>1, <1>2, <1>3, <1>4 DEF DrainInv

\* A connection that is not over goes on to x.
LEMMA ToMoves ==
    ASSUME ShapeInv, NEW c \in Conn, NEW x \in ConnAt, To(c, x),
           conn[c].at # "over", conn[c].at = "none" => lis.open,
           conn[c].started => x \in SessionAt,
           op[c] \notin {"none", "over"} => x \in WorkAt,
           lis' \in ListenerType, lis'.closed = lis.closed, lis'.open = lis.open, lis'.drain = lis.drain,
           lis.closed => lis'.sessions \subseteq lis.sessions,
           sup'.closed = sup.closed,
           UNCHANGED <<root, run, startup, poolClosed, scene, op>>
    PROVE  /\ Moves(c)
           /\ conn'[c].at = x /\ conn'[c].started = conn[c].started
           /\ \A d \in Conn \ {c} : conn'[d] = conn[d]
<1> conn \in [Conn -> ConnType] /\ op \in [Conn -> OpAt] /\ conn[c] \in ConnType
  BY DEF ShapeInv
<1>1. conn' = [conn EXCEPT ![c] = [conn[c] EXCEPT !.at = x]]
  BY DEF To
<1> PICK r : r = [conn[c] EXCEPT !.at = x]
  OBVIOUS
<1>2. r \in ConnType
  BY DEF ConnType
<1> r.at = x /\ r.publish = conn[c].publish
  BY DEF ConnType
<1> r.started = conn[c].started
  BY DEF ConnType
<1> conn' \in [Conn -> ConnType] /\ conn'[c] = r /\ \A d \in Conn \ {c} : conn'[d] = conn[d]
  BY <1>1, <1>2
<1>3. Placed(conn'[c], op'[c])
  BY DEF Placed
<1>4. ~lis.open => conn[c] # Idle /\ ~Settled(conn[c])
  BY DEF Idle, Settled
<1>5. ~Admitting(c) /\ ~lis.open => ~Admitting(c)'
  BY DEF Admitting
<1>6. \A d \in Conn \ {c} : conn'[d] = conn[d] /\ op'[d] = op[d]
  OBVIOUS
<1>7. op' \in [Conn -> OpAt]
  OBVIOUS
<1>8. Moves(c)
  BY <1>3, <1>4, <1>5, <1>6, <1>7 DEF Moves
<1> QED BY <1>8

-----------------------------------------------------------------------------
(* What keeps the counters and the tables as they are.                     *)

LEMMA CountKept ==
    ASSUME CountInv, NEW c \in Conn, Moves(c), sup'.leases = sup.leases,
           HasLease(c)' <=> HasLease(c), HasOperation(c)' <=> HasOperation(c)
    PROVE  CountInv'
<1>1. \A d \in Conn \ {c} : conn'[d] = conn[d] /\ op'[d] = op[d]
  BY DEF Moves
<1>2. \A d \in Conn : HasLease(d)' <=> HasLease(d)
  <2>1. \A d \in Conn \ {c} : HasLease(d)' <=> HasLease(d)
    BY <1>1 DEF HasLease, HasId, HasIds
  <2> QED BY <2>1
<1>3. \A d \in Conn : HasOperation(d)' <=> HasOperation(d)
  <2>1. \A d \in Conn \ {c} : HasOperation(d)' <=> HasOperation(d)
    BY <1>1 DEF HasOperation
  <2> QED BY <2>1
<1>4. Leasing' = Leasing
  BY <1>2 DEF Leasing
<1>5. Operating' = Operating
  BY <1>3 DEF Operating
<1>6. main' = main /\ sup'.closed = sup.closed
  BY DEF Moves, startup
<1>7. Starting' <=> Starting
  BY <1>6 DEF Starting
<1> QED BY <1>4, <1>5, <1>6, <1>7 DEF CountInv

LEMMA SlotsKept ==
    ASSUME SlotsInv, NEW c \in Conn, Moves(c), lis'.slots = lis.slots,
           HasSlot(c)' <=> HasSlot(c), conn[c].at = "refused" => conn'[c].at = "refused"
    PROVE  SlotsInv'
<1> (\A d \in Conn \ {c} : conn'[d] = conn[d]) /\ scene' = scene
  BY DEF Moves
<1>1. \A d \in Conn : HasSlot(d)' <=> HasSlot(d)
  BY DEF HasSlot
<1>2. \A d \in Conn : conn[d].at = "refused" => conn'[d].at = "refused"
  OBVIOUS
<1> QED BY <1>1, <1>2 DEF SlotsInv

LEMMA IdsKept ==
    ASSUME IdsInv, NEW c \in Conn, Moves(c), ids' = ids, HasIds(c)' <=> HasIds(c), HasId(c)' <=> HasId(c)
    PROVE  IdsInv'
<1>1. \A d \in Conn \ {c} : conn'[d] = conn[d]
  BY DEF Moves
<1>2. \A d \in Conn \ {c} : (HasIds(d)' <=> HasIds(d)) /\ (HasId(d)' <=> HasId(d))
  BY <1>1 DEF HasIds, HasId
<1> QED BY <1>2 DEF IdsInv

LEMMA SessionsKept ==
    ASSUME SessionsInv, NEW c \in Conn, Moves(c), Live(c)' <=> Live(c),
           lis'.sessions = lis.sessions, lis'.drain = lis.drain, lis'.retiring = lis.retiring
    PROVE  SessionsInv'
<1>1. \A d \in Conn \ {c} : conn'[d] = conn[d]
  BY DEF Moves
<1> \A d \in Conn : Live(d)' <=> Live(d)
  BY <1>1 DEF Live
<1>2. lis'.closed = lis.closed /\ lis'.sessions \subseteq Conn
  BY DEF Moves, ListenerType
<1>3. \A d \in lis'.sessions : Live(d)'
  BY <1>2 DEF SessionsInv
<1>4. \A d \in Conn : Live(d)' => d \in lis'.sessions \union lis'.drain
  BY DEF SessionsInv
<1>5. ~lis'.closed => lis'.drain = {}
  BY <1>2 DEF SessionsInv
<1>6. lis'.retiring => \A d, e \in Conn : Live(d)' /\ Live(e)' => d = e
  BY DEF SessionsInv
<1> QED BY <1>3, <1>4, <1>5, <1>6 DEF SessionsInv

\* What c holds does not change.
SameHolds(c) ==
    /\ HasLease(c)' <=> HasLease(c)
    /\ HasOperation(c)' <=> HasOperation(c)
    /\ HasSlot(c)' <=> HasSlot(c)
    /\ HasIds(c)' <=> HasIds(c)
    /\ HasId(c)' <=> HasId(c)
    /\ Live(c)' <=> Live(c)
    /\ conn[c].at = "refused" => conn'[c].at = "refused"

\* A step of c that takes and gives back nothing.
LEMMA QuietMove ==
    ASSUME ServeInv, NEW c \in Conn, Moves(c), SameHolds(c), UNCHANGED <<sup, tick, elapsed, ids>>,
           lis'.slots = lis.slots, lis'.sessions = lis.sessions, lis'.drain = lis.drain,
           lis'.retiring = lis.retiring
    PROVE  ServeInv'
<1>1. ShapeInv' /\ DrainInv'
  BY MovesRest
<1>2. ClockInv'
  BY ClockKept DEF Moves, ServeInv
<1>3. CountInv'
  BY CountKept DEF SameHolds, ServeInv
<1>4. SlotsInv'
  BY SlotsKept DEF SameHolds, ServeInv, TableInv
<1>5. IdsInv'
  BY IdsKept DEF SameHolds, ServeInv, TableInv
<1>6. SessionsInv'
  BY SessionsKept DEF SameHolds, ServeInv, TableInv
<1> QED BY <1>1, <1>2, <1>3, <1>4, <1>5, <1>6 DEF ServeInv, TableInv

\* The record of c, field by field.
LEMMA ConnFields ==
    ASSUME ServeInv, NEW c \in Conn
    PROVE  /\ conn[c] \in ConnType /\ conn \in [Conn -> ConnType]
           /\ Placed(conn[c], op[c])
           /\ conn[c].at # "none" \/ conn[c].guard # "off" \/ conn[c].publish # "no" => conn[c] # Idle
BY DEF ServeInv, ShapeInv, Idle

\* What the stage of a connection says about its session and its operation.
LEMMA Stages ==
    ASSUME ServeInv, NEW c \in Conn
    PROVE  /\ conn[c].at \notin SessionAt => ~conn[c].started
           /\ conn[c].at \notin WorkAt => op[c] \in {"none", "over"}
           /\ lis \in ListenerType /\ lis.pending \in SUBSET Conn /\ lis = [lis EXCEPT !.pending = lis.pending]
<1>1. Placed(conn[c], op[c]) /\ lis \in ListenerType
  BY DEF ServeInv, ShapeInv
<1>2. lis.pending \in SUBSET Conn /\ lis = [lis EXCEPT !.pending = lis.pending]
  BY <1>1 DEF ListenerType
<1> QED BY <1>1, <1>2 DEF Placed

\* A session, while it is served.
LEMMA EditSteps ==
    ASSUME ServeInv, NEW c \in Conn
    PROVE  (\/ Deadline(c) \/ PeerLeaves(c) \/ RegisterArrives(c) \/ Publishes(c) \/ Guards(c) \/ ReaderEnds(c)
            \/ \E b \in scene.builds : RegisterEnds(c, b)) => ServeInv'
\* A step that edits the record of c and leaves it where it is, or moves it
\* within the service of its session.
<1>1. ASSUME NEW r \in ConnType, conn' = [conn EXCEPT ![c] = r],
             conn[c] # Idle, r.started = conn[c].started,
             r.at = conn[c].at \/ (r.at \in WorkAt /\ conn[c].at \in WorkAt),
             r.publish \in {"publishing", "closing"} => conn[c].publish \in {"publishing", "closing"},
             UNCHANGED <<super, root, run, startup, pool, lis, op>>
      PROVE  ServeInv'
  <2> USE <1>1
  <2> conn \in [Conn -> ConnType] /\ op \in [Conn -> OpAt] /\ lis \in ListenerType /\ Placed(conn[c], op[c])
    BY DEF ServeInv, ShapeInv
  <2> conn' \in [Conn -> ConnType] /\ conn'[c] = r /\ \A d \in Conn \ {c} : conn'[d] = conn[d]
    OBVIOUS
  <2>1. Placed(conn'[c], op'[c])
    BY DEF Placed, WorkAt, SessionAt
  <2>2. Settled(conn[c]) => Settled(conn'[c])
    BY DEF Settled, WorkAt
  <2>3. ~Admitting(c) => ~Admitting(c)'
    BY DEF Admitting, WorkAt
  <2>4. \A d \in Conn \ {c} : conn'[d] = conn[d] /\ op'[d] = op[d]
    OBVIOUS
  <2>5. UNCHANGED <<sup, tick, elapsed, ids, root, run, startup, poolClosed, scene, lis, op>>
    BY DEF super, pool
  <2>6. Moves(c)
    BY <2>1, <2>2, <2>3, <2>4, <2>5 DEF Moves
  <2>7. SameHolds(c)
    <3> conn'[c].at = conn[c].at \/ (conn'[c].at \in WorkAt /\ conn[c].at \in WorkAt)
      OBVIOUS
    <3>1. conn'[c].started = conn[c].started /\ op'[c] = op[c]
      OBVIOUS
    <3>2. (HasSlot(c)' <=> HasSlot(c)) /\ (conn[c].at = "refused" => conn'[c].at = "refused")
      BY DEF HasSlot, WorkAt
    <3>3. (HasIds(c)' <=> HasIds(c)) /\ (HasId(c)' <=> HasId(c)) /\ (HasLease(c)' <=> HasLease(c))
      BY DEF HasIds, HasId, HasLease, WorkAt
    <3>4. HasOperation(c)' <=> HasOperation(c)
      BY <3>1 DEF HasOperation
    <3>5. Live(c)' <=> Live(c)
      BY <3>1 DEF Live, WorkAt
    <3> QED BY <3>2, <3>3, <3>4, <3>5 DEF SameHolds
  <2> QED BY <2>5, <2>6, <2>7, QuietMove
<1>2. ASSUME Deadline(c) PROVE ServeInv'
  <2> USE <1>2
  <2> PICK r : r = [conn[c] EXCEPT !.late = TRUE]
    OBVIOUS
  <2>1. r \in ConnType /\ r.at = conn[c].at /\ r.publish = conn[c].publish
    BY ConnFields DEF ConnType
  <2>2. r.started = conn[c].started
    BY ConnFields DEF ConnType
  <2>3. conn' = [conn EXCEPT ![c] = r] /\ conn[c] # Idle
    BY ConnFields DEF Deadline
  <2>4. UNCHANGED <<super, root, run, startup, pool, lis, op>>
    BY DEF Deadline, admitRest
  <2> QED BY <2>1, <2>2, <2>3, <2>4, <1>1
<1>3. ASSUME PeerLeaves(c) PROVE ServeInv'
  <2> USE <1>3
  <2> PICK r : r = [conn[c] EXCEPT !.carrier = FALSE]
    OBVIOUS
  <2>1. r \in ConnType /\ r.at = conn[c].at /\ r.publish = conn[c].publish
    BY ConnFields DEF ConnType
  <2>2. r.started = conn[c].started
    BY ConnFields DEF ConnType
  <2>3. conn' = [conn EXCEPT ![c] = r] /\ conn[c] # Idle
    BY ConnFields DEF PeerLeaves
  <2>4. UNCHANGED <<super, root, run, startup, pool, lis, op>>
    BY DEF PeerLeaves, admitRest
  <2> QED BY <2>1, <2>2, <2>3, <2>4, <1>1
<1>4. ASSUME RegisterArrives(c) PROVE ServeInv'
  <2> USE <1>4
  <2> PICK r : r = [conn[c] EXCEPT !.at = "registering", !.registered = TRUE]
    OBVIOUS
  <2>1. r \in ConnType /\ r.at = "registering" /\ r.publish = conn[c].publish
    BY ConnFields DEF ConnType, ConnAt, LeaseAt, IdAt, IdsAt
  <2>2. r.started = conn[c].started
    BY ConnFields DEF ConnType
  <2>3. conn' = [conn EXCEPT ![c] = r] /\ conn[c] # Idle /\ conn[c].at = "serving"
    BY ConnFields DEF RegisterArrives
  <2>4. UNCHANGED <<super, root, run, startup, pool, lis, op>>
    BY DEF RegisterArrives, admitRest
  <2> QED BY <2>1, <2>2, <2>3, <2>4, <1>1 DEF WorkAt
<1>5. ASSUME GuardLoads(c) PROVE ServeInv'
  <2> USE <1>5
  <2> PICK g \in {"stopped", "loaded"} : g = IF conn[c].registered THEN "stopped" ELSE "loaded"
    OBVIOUS
  <2> PICK r : r = [conn[c] EXCEPT !.guard = g]
    OBVIOUS
  <2>1. r \in ConnType /\ r.at = conn[c].at /\ r.publish = conn[c].publish
    BY ConnFields DEF ConnType
  <2>2. r.started = conn[c].started
    BY ConnFields DEF ConnType
  <2>3. conn' = [conn EXCEPT ![c] = r] /\ conn[c] # Idle
    BY ConnFields DEF GuardLoads
  <2>4. UNCHANGED <<super, root, run, startup, pool, lis, op>>
    BY DEF GuardLoads, admitRest
  <2> QED BY <2>1, <2>2, <2>3, <2>4, <1>1
<1>6. ASSUME GuardAborts(c) PROVE ServeInv'
  <2> USE <1>6
  <2> PICK r : r = [conn[c] EXCEPT !.guard = "aborted", !.carrier = FALSE]
    OBVIOUS
  <2>1. r \in ConnType /\ r.at = conn[c].at /\ r.publish = conn[c].publish
    BY ConnFields DEF ConnType
  <2>2. r.started = conn[c].started
    BY ConnFields DEF ConnType
  <2>3. conn' = [conn EXCEPT ![c] = r] /\ conn[c] # Idle
    BY ConnFields DEF GuardAborts
  <2>4. UNCHANGED <<super, root, run, startup, pool, lis, op>>
    BY DEF GuardAborts, admitRest
  <2> QED BY <2>1, <2>2, <2>3, <2>4, <1>1
<1>7. ASSUME Publish(c) PROVE ServeInv'
  <2> USE <1>7
  <2>1. UNCHANGED <<super, root, run, startup, pool, lis, op>>
    BY DEF Publish, admitRest
  <2>2. conn[c] # Idle /\ conn[c].publish = "publishing"
    BY ConnFields DEF Publish
  <2>3. CASE conn' = [conn EXCEPT ![c].publish = "done"]
    <3> PICK r : r = [conn[c] EXCEPT !.publish = "done"]
      OBVIOUS
    <3>1. r \in ConnType /\ r.at = conn[c].at /\ r.publish = "done"
      BY ConnFields DEF ConnType
    <3>2. r.started = conn[c].started
      BY ConnFields DEF ConnType
    <3>3. conn' = [conn EXCEPT ![c] = r]
      BY <2>3
    <3> QED BY <2>1, <2>2, <3>1, <3>2, <3>3, <1>1
  <2>4. CASE conn' = [conn EXCEPT ![c].publish = "closing", ![c].carrier = FALSE]
    <3> PICK r : r = [conn[c] EXCEPT !.publish = "closing", !.carrier = FALSE]
      OBVIOUS
    <3>1. r \in ConnType /\ r.at = conn[c].at /\ r.publish = "closing"
      BY ConnFields DEF ConnType
    <3>2. r.started = conn[c].started
      BY ConnFields DEF ConnType
    <3>3. conn' = [conn EXCEPT ![c] = r]
      BY <2>4, ConnFields
    <3> QED BY <2>1, <2>2, <3>1, <3>2, <3>3, <1>1
  <2> QED BY <2>3, <2>4 DEF Publish
<1>8. ASSUME PublishCloses(c) PROVE ServeInv'
  <2> USE <1>8
  <2> PICK r : r = [conn[c] EXCEPT !.publish = "done"]
    OBVIOUS
  <2>1. r \in ConnType /\ r.at = conn[c].at /\ r.publish = "done"
    BY ConnFields DEF ConnType
  <2>2. r.started = conn[c].started
    BY ConnFields DEF ConnType
  <2>3. conn' = [conn EXCEPT ![c] = r] /\ conn[c] # Idle
    BY ConnFields DEF PublishCloses
  <2>4. UNCHANGED <<super, root, run, startup, pool, lis, op>>
    BY DEF PublishCloses, admitRest
  <2> QED BY <2>1, <2>2, <2>3, <2>4, <1>1
<1>9. ASSUME ReaderEnds(c) PROVE ServeInv'
  <2> USE <1>9
  <2> PICK g : g = IF conn[c].guard = "armed" THEN "stopped" ELSE conn[c].guard
    OBVIOUS
  <2> PICK r : r = [conn[c] EXCEPT !.at = "ending", !.guard = g]
    OBVIOUS
  <2>1. g \in {"off", "armed", "stopped", "loaded", "aborted"}
    BY ConnFields DEF ConnType
  <2>2. r \in ConnType
    <3>1. conn[c] \in ConnType /\ "ending" \in ConnAt
      BY ConnFields DEF ConnAt, LeaseAt, IdAt, IdsAt
    <3> QED BY <2>1, <3>1 DEF ConnType
  <2>3. r.at = "ending" /\ r.publish = conn[c].publish
    BY ConnFields DEF ConnType
  <2>4. r.started = conn[c].started
    BY ConnFields DEF ConnType
  <2>5. conn' = [conn EXCEPT ![c] = r]
    BY ConnFields DEF ReaderEnds, ConnType
  <2>6. conn[c] # Idle /\ conn[c].at = "serving"
    BY ConnFields DEF ReaderEnds
  <2>7. UNCHANGED <<super, root, run, startup, pool, lis, op>>
    BY DEF ReaderEnds, admitRest
  <2> QED BY <2>2, <2>3, <2>4, <2>5, <2>6, <2>7, <1>1 DEF WorkAt
<1>10. ASSUME NEW b, RegisterEnds(c, b)
       PROVE  ServeInv'
  <2> USE <1>10
  <2> PICK g : g = IF conn[c].guard = "aborted" THEN "aborted" ELSE "stopped"
    OBVIOUS
  <2> PICK r : r = [conn[c] EXCEPT !.at = "serving", !.guard = g]
    OBVIOUS
  <2>1. r \in ConnType
    <3>1. "serving" \in ConnAt /\ g \in {"off", "armed", "stopped", "loaded", "aborted"}
      BY DEF ConnAt, LeaseAt, IdAt, IdsAt
    <3> QED BY <3>1, ConnFields DEF ConnType
  <2> r.at = "serving" /\ r.publish = conn[c].publish
    BY ConnFields DEF ConnType
  <2> r.started = conn[c].started
    BY ConnFields DEF ConnType
  <2>2. conn' = [conn EXCEPT ![c] = r]
    BY ConnFields DEF RegisterEnds, ConnType
  <2> conn[c] # Idle /\ conn[c].at = "registering"
    BY ConnFields DEF RegisterEnds
  <2> UNCHANGED <<super, root, run, startup, pool, op>> /\ lis \in ListenerType
    BY Stages DEF RegisterEnds, admitRest
  <2>3. CASE ~(b /\ tryRetire(c))
    <3>1. lis' = [lis EXCEPT !.retiring = lis.retiring]
      BY <2>3 DEF RegisterEnds, ListenerType
    <3>2. lis' = lis
      BY <3>1 DEF ListenerType
    <3> QED BY <2>1, <2>2, <3>2, <1>1 DEF WorkAt
  <2>4. CASE b /\ tryRetire(c)
    <3> lis' = [lis EXCEPT !.retiring = TRUE] /\ ~lis.closed /\ lis.sessions = {c}
      BY <2>4 DEF RegisterEnds, tryRetire, ListenerType
    <3> lis' \in ListenerType /\ lis'.slots = lis.slots /\ lis'.sessions = lis.sessions /\ lis'.drain = lis.drain
      BY DEF ListenerType
    <3>1. lis'.closed = lis.closed /\ lis'.open = lis.open
      BY DEF ListenerType
    <3> conn' \in [Conn -> ConnType] /\ conn'[c] = r /\ \A d \in Conn \ {c} : conn'[d] = conn[d]
      BY <2>1, <2>2, ConnFields
    <3> UNCHANGED <<sup, tick, elapsed, ids, root, run, startup, poolClosed, scene, op>>
      BY DEF super, pool
    <3> SessionsInv /\ Placed(conn[c], op[c]) /\ op \in [Conn -> OpAt]
      BY DEF ServeInv, TableInv, ShapeInv
    <3>2. Live(c)
      BY DEF SessionsInv
    <3> Moves(c)
      <4>1. Placed(conn'[c], op'[c])
        BY DEF Placed, SessionAt, WorkAt
      <4>2. conn[c] # Idle /\ ~Settled(conn[c])
        BY DEF Settled
      <4>3. ~Admitting(c) => ~Admitting(c)'
        BY DEF Admitting
      <4> QED BY <3>1, <4>1, <4>2, <4>3 DEF Moves
    <3>3. ShapeInv' /\ DrainInv'
      BY MovesRest
    <3>4. ClockInv'
      BY ClockKept DEF ServeInv
    <3>5. HasLease(c)' /\ HasLease(c) /\ HasIds(c)' /\ HasIds(c) /\ HasId(c)' /\ HasId(c)
      BY DEF HasLease, HasId, HasIds
    <3>6. CountInv'
      <4>1. HasOperation(c)' <=> HasOperation(c)
        BY DEF HasOperation
      <4> QED BY <3>5, <4>1, CountKept DEF ServeInv
    <3>7. SlotsInv'
      <4>1. HasSlot(c)' /\ HasSlot(c)
        BY DEF HasSlot
      <4> QED BY <4>1, SlotsKept DEF ServeInv, TableInv
    <3>8. IdsInv'
      BY <3>5, IdsKept DEF ServeInv, TableInv
    <3>9. SessionsInv'
      <4>1. \A d \in Conn : Live(d) => d = c
        BY DEF SessionsInv
      <4>2. Live(c)'
        BY <3>2 DEF Live
      <4>3. \A d \in Conn \ {c} : Live(d)' <=> Live(d)
        BY DEF Live
      <4>4. \A d \in Conn : Live(d)' => d = c
        BY <4>1, <4>3
      <4>5. lis'.sessions = {c} /\ lis'.drain = {}
        BY DEF SessionsInv
      <4> QED BY <4>2, <4>4, <4>5 DEF SessionsInv
    <3> QED BY <3>3, <3>4, <3>6, <3>7, <3>8, <3>9 DEF ServeInv, TableInv
  <2> QED BY <2>3, <2>4
<1> QED BY <1>2, <1>3, <1>4, <1>5, <1>6, <1>7, <1>8, <1>9, <1>10
        DEF Publishes, Guards

\* A step from one stage to another at which c holds the same.
LEMMA QuietTo ==
    ASSUME ServeInv, NEW c \in Conn, NEW x \in ConnAt, To(c, x), NEW p \in SUBSET Conn,
           lis' = [lis EXCEPT !.pending = p],
           conn[c].at \notin {"none", "over", "refused", "forget"}, x \notin {"none", "over", "forget"},
           conn[c].started => x \in SessionAt,
           op[c] \notin {"none", "over"} => x \in WorkAt,
           x \in IdsAt <=> conn[c].at \in IdsAt,
           x \in IdAt <=> conn[c].at \in IdAt,
           x \in LeaseAt <=> conn[c].at \in LeaseAt,
           UNCHANGED <<super, admitRest, pool, op>>
    PROVE  ServeInv'
<1> ShapeInv /\ lis \in ListenerType
  BY DEF ServeInv, ShapeInv
<1>1. /\ lis' \in ListenerType /\ lis'.slots = lis.slots /\ lis'.sessions = lis.sessions
      /\ lis'.drain = lis.drain
  BY DEF ListenerType
<1>2. lis'.closed = lis.closed /\ lis'.open = lis.open /\ lis'.retiring = lis.retiring
  BY DEF ListenerType
<1> UNCHANGED <<sup, tick, elapsed, ids, root, run, startup, poolClosed, scene, op>>
  BY DEF super, pool, admitRest
<1> Moves(c) /\ conn'[c].at = x /\ conn'[c].started = conn[c].started
  BY <1>1, <1>2, ToMoves
<1>3. SameHolds(c)
  <2>1. (HasSlot(c)' <=> HasSlot(c)) /\ (conn[c].at = "refused" => conn'[c].at = "refused")
    BY DEF HasSlot
  <2>2. (HasIds(c)' <=> HasIds(c)) /\ (HasId(c)' <=> HasId(c)) /\ (HasLease(c)' <=> HasLease(c))
    BY DEF HasIds, HasId, HasLease, IdsAt, IdAt, LeaseAt
  <2>3. HasOperation(c)' <=> HasOperation(c)
    BY DEF HasOperation
  <2>4. Live(c)' <=> Live(c)
    BY DEF Live
  <2> QED BY <2>1, <2>2, <2>3, <2>4 DEF SameHolds
<1> QED BY <1>1, <1>2, <1>3, QuietMove

\* A connection that goes on with what it holds.
LEMMA StageSteps ==
    ASSUME ServeInv, NEW c \in Conn
    PROVE  (TrackPending(c) \/ PreambleEnds(c) \/ AdmitCheck(c) \/ CoreCloses(c) \/ Bind(c)) => ServeInv'
<1>1. ASSUME TrackPending(c) PROVE ServeInv'
  <2> USE <1>1
  <2>1. ~conn[c].started /\ op[c] \in {"none", "over"} /\ lis.pending \union {c} \in SUBSET Conn
    BY Stages DEF TrackPending, SessionAt, WorkAt
  <2>2. lis' = [lis EXCEPT !.pending = lis.pending \union {c}] /\ To(c, "preamble")
    BY DEF TrackPending
  <2>3. conn[c].at = "accepted" /\ UNCHANGED <<super, admitRest, pool, op>>
    BY DEF TrackPending
  <2>4. {"preamble", "accepted"} \subseteq ConnAt \ LeaseAt /\ {"preamble", "accepted"} \intersect IdAt = {}
    BY DEF ConnAt, LeaseAt, IdAt, IdsAt
  <2>5. {"preamble", "accepted"} \intersect IdsAt = {}
    BY <2>4 DEF IdAt
  <2> QED BY <2>1, <2>2, <2>3, <2>4, <2>5, QuietTo
<1>2. ASSUME PreambleEnds(c) PROVE ServeInv'
  <2> USE <1>2
  <2>1. /\ ~conn[c].started /\ op[c] \in {"none", "over"}
        /\ lis.pending \in SUBSET Conn /\ lis = [lis EXCEPT !.pending = lis.pending]
    BY Stages DEF PreambleEnds, SessionAt, WorkAt
  <2>2. PICK x \in {"lease", "refused"} : To(c, x)
    BY DEF PreambleEnds
  <2>3. conn[c].at = "preamble" /\ UNCHANGED <<super, admitRest, pool, op>> /\ lis' = lis
    BY DEF PreambleEnds
  <2>4. {"lease", "refused"} \subseteq ConnAt /\ {"lease", "refused", "preamble"} \intersect LeaseAt = {}
    BY DEF ConnAt, LeaseAt, IdAt, IdsAt
  <2>5. IdsAt \subseteq LeaseAt /\ IdAt \subseteq LeaseAt
    BY DEF LeaseAt, IdAt
  <2> QED BY <2>1, <2>2, <2>3, <2>4, <2>5, QuietTo
<1>3. ASSUME AdmitCheck(c) PROVE ServeInv'
  <2> USE <1>3
  <2>1. /\ ~conn[c].started /\ op[c] \in {"none", "over"}
        /\ lis.pending \in SUBSET Conn /\ lis = [lis EXCEPT !.pending = lis.pending]
    BY Stages DEF AdmitCheck, SessionAt, WorkAt
  <2>2. PICK x \in {"bind", "undoPreview"} : To(c, x)
    BY DEF AdmitCheck
  <2>3. conn[c].at = "check" /\ UNCHANGED <<super, admitRest, pool, op>> /\ lis' = lis
    BY DEF AdmitCheck
  <2>4. {"bind", "undoPreview", "check"} \subseteq IdsAt
    BY DEF IdsAt
  <2>5. IdsAt \subseteq IdAt /\ IdAt \subseteq LeaseAt /\ LeaseAt \subseteq ConnAt
    BY DEF ConnAt, LeaseAt, IdAt
  <2> QED BY <2>1, <2>2, <2>3, <2>4, <2>5, QuietTo
<1>4. ASSUME CoreCloses(c) PROVE ServeInv'
  <2> USE <1>4
  <2>1. op[c] \in {"none", "over"} /\ lis.pending \in SUBSET Conn /\ lis = [lis EXCEPT !.pending = lis.pending]
    BY Stages DEF CoreCloses, WorkersJoined
  <2>2. To(c, "closing") /\ conn[c].at = "ending"
    BY DEF CoreCloses
  <2>3. UNCHANGED <<super, admitRest, pool, op>> /\ lis' = lis
    BY DEF CoreCloses
  <2>4. {"closing", "ending"} \subseteq IdsAt /\ "closing" \in SessionAt
    BY DEF IdsAt, SessionAt
  <2>5. IdsAt \subseteq IdAt /\ IdAt \subseteq LeaseAt /\ LeaseAt \subseteq ConnAt
    BY DEF ConnAt, LeaseAt, IdAt
  <2> QED BY <2>1, <2>2, <2>3, <2>4, <2>5, QuietTo
<1>5. ASSUME Bind(c) PROVE ServeInv'
  <2> USE <1>5
  <2> /\ ~conn[c].started /\ op[c] \in {"none", "over"} /\ conn[c].at = "bind" /\ lis \in ListenerType
      /\ lis.pending \in SUBSET Conn /\ lis = [lis EXCEPT !.pending = lis.pending]
    BY Stages DEF Bind, SessionAt, WorkAt
  <2>1. UNCHANGED <<super, admitRest, pool, op>>
    BY DEF Bind
  <2>2. CASE To(c, "ending") /\ lis' = lis
    <3>1. {"bind", "ending"} \subseteq IdsAt
      BY DEF IdsAt
    <3>2. IdsAt \subseteq IdAt /\ IdAt \subseteq LeaseAt /\ LeaseAt \subseteq ConnAt
      BY DEF ConnAt, LeaseAt, IdAt
    <3> QED BY <2>1, <2>2, <3>1, <3>2, QuietTo
  <2>3. CASE /\ ~lis.closed /\ ~lis.retiring
             /\ lis' = [lis EXCEPT !.pending = @ \ {c}, !.sessions = @ \union {c}]
             /\ conn' = [conn EXCEPT ![c].at = "serving", ![c].guard = "armed",
                                     ![c].publish = "publishing", ![c].started = TRUE]
    <3> PICK r : r = [conn[c] EXCEPT !.at = "serving", !.guard = "armed", !.publish = "publishing",
                                     !.started = TRUE]
      OBVIOUS
    <3>1. r \in ConnType
      <4>1. "serving" \in ConnAt
        BY DEF ConnAt, LeaseAt, IdAt, IdsAt
      <4>2. conn[c] \in ConnType
        BY ConnFields
      <4> QED BY <4>1, <4>2 DEF ConnType
    <3> r.at = "serving" /\ r.started = TRUE
      BY ConnFields DEF ConnType
    <3>2. conn' = [conn EXCEPT ![c] = r]
      BY <2>3, ConnFields
    <3> conn' \in [Conn -> ConnType] /\ conn'[c] = r /\ \A d \in Conn \ {c} : conn'[d] = conn[d]
      BY <3>1, <3>2, ConnFields
    <3>3. lis' = [lis EXCEPT !.pending = lis.pending \ {c}, !.sessions = lis.sessions \union {c}]
      BY <2>3 DEF ListenerType
    <3> /\ lis' \in ListenerType /\ lis'.slots = lis.slots /\ lis'.sessions = lis.sessions \union {c}
        /\ lis'.drain = lis.drain
      BY <3>3 DEF ListenerType
    <3> lis'.closed = lis.closed /\ lis'.open = lis.open /\ lis'.retiring = lis.retiring
      BY <3>3 DEF ListenerType
    <3> UNCHANGED <<sup, tick, elapsed, ids, root, run, startup, poolClosed, scene, op>>
      BY <2>1 DEF super, pool, admitRest
    <3> Moves(c)
      <4>1. Placed(conn'[c], op'[c])
        BY DEF Placed, SessionAt
      <4>2. conn[c] # Idle /\ ~Settled(conn[c]) /\ Admitting(c)
        BY DEF Idle, Settled, Admitting
      <4>3. op' \in [Conn -> OpAt]
        BY DEF ServeInv, ShapeInv
      <4> QED BY <2>3, <4>1, <4>2, <4>3 DEF Moves
    <3>4. ShapeInv' /\ DrainInv'
      BY MovesRest
    <3>5. ClockInv'
      BY ClockKept DEF ServeInv
    <3>6. CountInv'
      <4>1. HasLease(c)' /\ HasLease(c)
        BY DEF HasLease, HasId, HasIds
      <4>2. HasOperation(c)' <=> HasOperation(c)
        BY DEF HasOperation
      <4> QED BY <4>1, <4>2, CountKept DEF ServeInv
    <3>7. SlotsInv'
      <4>1. HasSlot(c)' /\ HasSlot(c)
        BY DEF HasSlot
      <4> QED BY <4>1, SlotsKept DEF ServeInv, TableInv
    <3>8. IdsInv'
      <4>1. HasIds(c)' /\ HasIds(c) /\ HasId(c)' /\ HasId(c)
        BY DEF HasIds, HasId
      <4> QED BY <4>1, IdsKept DEF ServeInv, TableInv
    <3>9. SessionsInv'
      <4> SessionsInv
        BY DEF ServeInv, TableInv
      <4>1. Live(c)'
        BY DEF Live
      <4>2. \A d \in Conn \ {c} : Live(d)' <=> Live(d)
        BY DEF Live
      <4>3. \A d \in lis'.sessions : Live(d)'
        BY <4>1, <4>2 DEF SessionsInv, ListenerType
      <4>4. \A d \in Conn : Live(d)' => d \in lis'.sessions \union lis'.drain
        BY <4>2 DEF SessionsInv
      <4>5. ~lis'.retiring
        BY <2>3
      <4> QED BY <4>3, <4>4, <4>5 DEF SessionsInv
    <3> QED BY <3>4, <3>5, <3>6, <3>7, <3>8, <3>9 DEF ServeInv, TableInv
  <2> QED BY <2>2, <2>3 DEF Bind
<1> QED BY <1>1, <1>2, <1>3, <1>4, <1>5
-----------------------------------------------------------------------------
(* Operations.                                                             *)

\* A step of the operation of c.
LEMMA OpMoves ==
    ASSUME ServeInv, NEW c \in Conn, NEW o \in OpAt, op' = [op EXCEPT ![c] = o],
           o \notin {"none", "over"} => conn[c].at \in WorkAt,
           sup'.closed = sup.closed,
           UNCHANGED <<root, run, startup, pool, lis, conn>>
    PROVE  /\ Moves(c) /\ op'[c] = o
           /\ HasLease(c)' <=> HasLease(c)
           /\ HasSlot(c)' <=> HasSlot(c)
           /\ HasIds(c)' <=> HasIds(c)
           /\ HasId(c)' <=> HasId(c)
           /\ Live(c)' <=> Live(c)
<1> conn \in [Conn -> ConnType] /\ op \in [Conn -> OpAt] /\ lis \in ListenerType /\ Placed(conn[c], op[c])
  BY DEF ServeInv, ShapeInv
<1> op' \in [Conn -> OpAt] /\ op'[c] = o /\ \A d \in Conn \ {c} : op'[d] = op[d]
  OBVIOUS
<1>1. Placed(conn'[c], op'[c])
  BY DEF Placed
<1> UNCHANGED <<root, run, startup, poolClosed, scene, lis, conn>>
  BY DEF pool
<1>2. ~Admitting(c) => ~Admitting(c)'
  BY DEF Admitting
<1>3. Moves(c)
  BY <1>1, <1>2 DEF Moves
<1>4. (HasSlot(c)' <=> HasSlot(c)) /\ (Live(c)' <=> Live(c))
  BY DEF HasSlot, Live
<1>5. (HasIds(c)' <=> HasIds(c)) /\ (HasId(c)' <=> HasId(c)) /\ (HasLease(c)' <=> HasLease(c))
  BY DEF HasIds, HasId, HasLease
<1> QED BY <1>3, <1>4, <1>5

\* A step of the operation of c that takes and gives back no lease.
LEMMA QuietOp ==
    ASSUME ServeInv, NEW c \in Conn, NEW o \in OpAt, op' = [op EXCEPT ![c] = o],
           o \notin {"none", "over"} => conn[c].at \in WorkAt,
           o \in {"running", "release"} <=> op[c] \in {"running", "release"},
           UNCHANGED <<super, root, run, startup, pool, lis, conn>>
    PROVE  ServeInv'
<1> UNCHANGED <<sup, tick, elapsed, ids, root, run, startup, pool, lis, conn>>
  BY DEF super, pool
<1> /\ Moves(c) /\ op'[c] = o /\ (HasLease(c)' <=> HasLease(c)) /\ (HasSlot(c)' <=> HasSlot(c))
    /\ (HasIds(c)' <=> HasIds(c)) /\ (HasId(c)' <=> HasId(c)) /\ (Live(c)' <=> Live(c))
  BY OpMoves
<1>1. HasOperation(c)' <=> HasOperation(c)
  BY DEF HasOperation
<1>2. SameHolds(c)
  BY <1>1 DEF SameHolds
<1> QED BY <1>2, QuietMove

\* An operation, when it neither takes nor gives back a lease.
LEMMA OperationSteps ==
    ASSUME ServeInv, NEW c \in Conn
    PROVE  (OpStarts(c) \/ OpEnters(c) \/ OpEnds(c) \/ OpLeaves(c)) => ServeInv'
<1>1. ASSUME OpStarts(c) PROVE ServeInv'
  <2> USE <1>1
  <2>1. op' = [op EXCEPT ![c] = "begin"] /\ conn[c].at = "serving" /\ op[c] = "none"
    BY DEF OpStarts
  <2>2. UNCHANGED <<super, root, run, startup, pool, lis, conn>>
    BY DEF OpStarts, admitRest
  <2> QED BY <2>1, <2>2, QuietOp DEF OpAt, WorkAt
<1>2. ASSUME OpEnters(c) PROVE ServeInv'
  <2> USE <1>2
  <2>1. PICK o \in {"over", "admit"} : op' = [op EXCEPT ![c] = o]
    BY DEF OpEnters
  <2>2. op[c] = "begin" /\ conn[c].at \in WorkAt
    BY Stages DEF OpEnters
  <2>3. UNCHANGED <<super, root, run, startup, pool, lis, conn>>
    BY DEF OpEnters, admitRest
  <2> QED BY <2>1, <2>2, <2>3, QuietOp DEF OpAt
<1>3. ASSUME OpEnds(c) PROVE ServeInv'
  <2> USE <1>3
  <2>1. op' = [op EXCEPT ![c] = "release"] /\ op[c] = "running" /\ conn[c].at \in WorkAt
    BY Stages DEF OpEnds
  <2>2. UNCHANGED <<super, root, run, startup, pool, lis, conn>>
    BY DEF OpEnds, admitRest
  <2> QED BY <2>1, <2>2, QuietOp DEF OpAt
<1>4. ASSUME OpLeaves(c) PROVE ServeInv'
  <2> USE <1>4
  <2>1. op' = [op EXCEPT ![c] = "over"] /\ op[c] = "leave"
    BY DEF OpLeaves
  <2>2. UNCHANGED <<super, root, run, startup, pool, lis, conn>>
    BY DEF OpLeaves, admitRest
  <2> QED BY <2>1, <2>2, QuietOp DEF OpAt
<1> QED BY <1>1, <1>2, <1>3, <1>4

=============================================================================
