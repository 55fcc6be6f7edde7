---------------------------- MODULE ResumeParking ----------------------------
(***************************************************************************)
(* The life of one resume credential in the daemon: an attachment whose    *)
(* connection is lost is parked for a while and a reconnecting client      *)
(* resumes it with the token its last Welcome carried.                     *)
(*                                                                         *)
(* The tasks are goroutines: a connection teardown (client_transport_      *)
(* errors.go), a resuming handshake (daemon.go, resume.go), the expiry of  *)
(* a parked entry, a session kill (session.go) and the daemon's shutdown.  *)
(* Each action is one section under Daemon.mu, or one freeze or drain of   *)
(* the attachment's effect gate; between two of them anything may happen.  *)
(* One attachment and one session are enough: tokens of other attachments  *)
(* are different and meet these registries only under their own key.       *)
(***************************************************************************)
EXTENDS Integers, FiniteSets

CONSTANTS Losses,       \* teardown goroutines, one loss or detach each
          Hellos,       \* resuming handshakes; each is also its transport
          Scenes        \* bounds: the tasks and events a behaviour may have

(* What the environment may do besides losing connections and resuming.    *)
Events == {"early",      \* a first paint fails and starts a teardown
           "timeout",    \* the cleanup of a failed send reaches its deadline
           "fail",       \* a handshake fails (deadline, send error)
           "expire",     \* a parked entry expires
           "kill",       \* the session is killed
           "reap",       \* the session is reaped when empty
           "shutdown"}   \* the daemon shuts down

ASSUME ConstantsAssumption ==
  /\ Losses \cap Hellos = {}
  /\ Hellos \subseteq Nat \ {0, 1}
  /\ Scenes \subseteq [tasks : SUBSET (Losses \cup Hellos), may : SUBSET Events]

VARIABLES
  scene,     \* the tasks and events of this behaviour
  alive,     \* d.sessions still holds the session
  closing,   \* d.closing
  ac,        \* the attachment: membership, transport, token, claim, gate
  cred,      \* d.resume: parked entries and parking markers
  issued,    \* the last token issued
  job,       \* the teardowns and handshakes
  killer,    \* the session kill
  known,     \* tokens a client has read in a Welcome
  kept,      \* no explicit detach, expiry or purge ended the credential
  panicked   \* a retirement met an active capability

core == <<alive, closing, ac, cred, issued, job, killer, known, kept, panicked>>
vars == <<scene, core>>

Tasks == Losses \cup Hellos
Transports == {0, 1} \cup Hellos

-----------------------------------------------------------------------------
(* resumeCredentials. Parked entries and parking markers are pointers in   *)
(* the code; a stamp tells two of the same token apart.                    *)

ParkedFor(c, t) == {e \in c.parked : e.tok = t}
ParkingFor(c, t) == {m \in c.parking : m.tok = t}

RetainsSession(c) == c.parked # {} \/ c.parking # {}

MarkParking(c, t) ==
  IF t = 0 \/ ParkingFor(c, t) # {} THEN c
  ELSE [c EXCEPT !.parking = @ \cup {[tok |-> t, stamp |-> c.stamp + 1]},
                 !.stamp = @ + 1]

ClearParking(c, t) == [c EXCEPT !.parking = @ \ ParkingFor(c, t)]

PurgeParking(c) == [c EXCEPT !.parking = {}]


PublishParked(c, t) ==
  LET entry == [tok |-> t, stamp |-> c.stamp + 1, claimed |-> FALSE]
  IN  ClearParking([c EXCEPT !.parked = (@ \ ParkedFor(c, t)) \cup {entry},
                             !.stamp = @ + 1], t)

TakeParked(c, e) == [c EXCEPT !.parked = @ \ {e}]

(* A token the attachment already has, or a fresh one.                     *)
TokenOr(t) == IF t = 0 THEN issued + 1 ELSE t

(* The entry a claim of the attachment holds, as commit and abort look it  *)
(* up: by the claim token, and only while it is claimed.                   *)
ClaimedEntry == {e \in ParkedFor(cred, ac.claim) : ac.claim # 0 /\ e.claimed}

-----------------------------------------------------------------------------
NoJob == [pc |-> "idle", kind |-> "none", exp |-> 0, tok |-> 0, mark |-> 0, entry |-> 0]
NoKill == [pc |-> "idle", empty |-> FALSE, reg |-> FALSE, tr |-> 0]

Init ==
  /\ scene \in Scenes
  /\ alive = TRUE /\ closing = FALSE /\ panicked = FALSE /\ kept = TRUE
  /\ ac = [reg |-> TRUE, cap |-> TRUE, tr |-> 1, token |-> 1, claim |-> 0,
           inFlight |-> 0, frozen |-> FALSE]
  /\ cred = [parked |-> {}, parking |-> {}, stamp |-> 0]
  /\ issued = 1 /\ known = {1}
  /\ job = [j \in Tasks |-> NoJob]
  /\ killer = NoKill

May(event) == event \in scene.may
At(j, p) == ~panicked /\ job[j].pc = p
Goto(j, p) == job' = [job EXCEPT ![j].pc = p]
Finish(j, p) == job' = [job EXCEPT ![j] = [NoJob EXCEPT !.pc = p]]
Handshake(j) == job[j].kind = "resume"

(* The capability of transport r is the attachment's current one.          *)
Owns(r) == ac.reg /\ ac.cap /\ ac.tr = r

-----------------------------------------------------------------------------
(* Connection teardown: clientGone after a read error or detachOnSendError *)
(* after a failed send ("drop"), the client's own detach ("leave"). A      *)
(* handshake that finds the old connection still attached runs the same    *)
(* steps. Before a claim commits only its first paint sends on the link.   *)

Lose(j) ==
  /\ At(j, "idle") /\ ac.reg /\ ac.tr # 0
  /\ \/ ac.claim = 0
     \/ May("early") /\ ac.tr \in Hellos /\ job[ac.tr].pc = "paint"
  /\ job' = [job EXCEPT ![j] = [NoJob EXCEPT !.pc = "mark", !.kind = "drop", !.exp = ac.tr]]
  /\ UNCHANGED <<alive, closing, ac, cred, issued, killer, known, kept, panicked>>

Leave(j) ==
  /\ At(j, "idle") /\ ac.reg /\ ac.tr # 0 /\ ac.claim = 0
  /\ job' = [job EXCEPT ![j] = [NoJob EXCEPT !.pc = "freeze", !.kind = "leave", !.exp = ac.tr]]
  /\ UNCHANGED <<alive, closing, ac, cred, issued, killer, known, kept, panicked>>

MarkAfterDetach(j) ==
  /\ At(j, "mark") /\ Goto(j, "freeze")
  /\ UNCHANGED <<alive, closing, ac, cred, issued, killer, known, kept, panicked>>

MarkParkingInFlight(j) ==
  /\ At(j, "mark")
  /\ \E advertise \in {~closing /\ alive /\ ac.reg} :
     \E t \in {TokenOr(ac.token)} :
       IF advertise
       THEN /\ cred' = MarkParking(cred, t)
            /\ ac' = [ac EXCEPT !.token = t]
            /\ issued' = IF ac.token = 0 THEN t ELSE issued
            /\ job' = [job EXCEPT ![j].pc = "freeze", ![j].mark = t]
       ELSE Goto(j, "freeze") /\ UNCHANGED <<ac, cred, issued>>
  /\ UNCHANGED <<alive, closing, killer, known, kept, panicked>>

Freeze(j) ==
  /\ ~ac.frozen
  /\ ac' = [ac EXCEPT !.frozen = TRUE]
  /\ \/ At(j, "freeze") /\ Goto(j, "drain")
     \/ At(j, "joinFreeze") /\ Goto(j, "joinDrain")
     \/ At(j, "abortFreeze") /\ Goto(j, "abortDrain")
  /\ UNCHANGED <<alive, closing, cred, issued, killer, known, kept, panicked>>

(* detachIfCurrentTransport under the drained freeze.                      *)
DetachIfCurrentTransport(j) ==
  /\ At(j, "drain") /\ ac.inFlight = 0
  /\ \E current \in {Owns(job[j].exp)} :
       /\ ac' = [ac EXCEPT !.frozen = FALSE,
                           !.reg = @ /\ ~current, !.cap = @ /\ ~current]
       /\ kept' = (kept /\ ~(current /\ job[j].kind = "leave"))
       /\ Goto(j, CASE ~current -> "abandon"
                    [] job[j].kind = "leave" -> "clear"
                    [] OTHER -> "prepare")
  /\ UNCHANGED <<alive, closing, cred, issued, killer, known, panicked>>

(* The cleanup of a failed send stops waiting at its drain deadline.       *)
DrainDeadline(j) ==
  /\ May("timeout") /\ job[j].kind = "drop"
  /\ At(j, "freeze") \/ At(j, "drain")
  /\ ac' = [ac EXCEPT !.frozen = @ /\ job[j].pc = "freeze"]
  /\ Goto(j, "abandon")
  /\ UNCHANGED <<alive, closing, cred, issued, killer, known, kept, panicked>>

AfterTeardown(j, next) ==
  IF Handshake(j) THEN Goto(j, next) ELSE Finish(j, "done")

ClearParkingInFlightIfAbandoned(j) ==
  /\ At(j, "abandon")
  /\ cred' = IF job[j].mark # 0 /\ ParkedFor(cred, job[j].mark) = {} /\ ac.reg
             THEN ClearParking(cred, job[j].mark) ELSE cred
  /\ AfterTeardown(j, "wait")
  /\ UNCHANGED <<alive, closing, ac, issued, killer, known, kept, panicked>>

PrepareParkAttachment(j) ==
  /\ At(j, "prepare")
  /\ IF closing THEN Goto(j, "clear") /\ UNCHANGED <<ac, issued>>
     ELSE /\ Goto(j, "publish")
          /\ ac' = [ac EXCEPT !.token = TokenOr(@)]
          /\ issued' = IF ac.token = 0 THEN issued + 1 ELSE issued
  /\ UNCHANGED <<alive, closing, cred, killer, known, kept, panicked>>

ParkAttachment(j) ==
  /\ At(j, "publish")
  /\ IF closing \/ ~alive
     THEN cred' = ClearParking(cred, ac.token) /\ Goto(j, "clear")
     ELSE cred' = PublishParked(cred, ac.token) /\ AfterTeardown(j, "lookup")
  /\ UNCHANGED <<alive, closing, ac, issued, killer, known, kept, panicked>>

(* The teardown that did not park drops the marker of the current token.   *)
ClearParkingInFlight(j) ==
  /\ At(j, "clear")
  /\ cred' = ClearParking(cred, ac.token)
  /\ Finish(j, "done")
  /\ UNCHANGED <<alive, closing, ac, issued, killer, known, kept, panicked>>

-----------------------------------------------------------------------------
(* The resuming handshake: route, recovery of a still live attachment, the *)
(* wait for a park in flight, and the claim of the parked entry.           *)

RouteResume(r) ==
  /\ At(r, "idle")
  /\ \E t \in known :
       job' = [job EXCEPT ![r] = [NoJob EXCEPT !.kind = "resume", !.tok = t,
                 !.pc = IF ParkedFor(cred, t) # {} THEN "lookup" ELSE "live"]]
  /\ UNCHANGED <<alive, closing, ac, cred, issued, killer, known, kept, panicked>>

ResumeLiveAttachment(r) ==
  /\ At(r, "live")
  /\ \E t \in {job[r].tok} :
       IF closing THEN Finish(r, "done")
       ELSE IF ParkedFor(cred, t) # {} THEN Goto(r, "lookup")
       ELSE IF alive /\ ac.reg /\ ac.token = t /\ ac.tr # 0
            THEN job' = [job EXCEPT ![r].pc = "mark", ![r].exp = ac.tr]
       ELSE Goto(r, "wait")
  /\ UNCHANGED <<alive, closing, ac, cred, issued, killer, known, kept, panicked>>

WaitParkingInFlight(r) ==
  /\ At(r, "wait")
  /\ \/ ParkingFor(cred, job[r].tok) = {} /\ Goto(r, "lookup")
     \/ \E m \in ParkingFor(cred, job[r].tok) :
          job' = [job EXCEPT ![r].pc = "waiting", ![r].entry = m.stamp]
  /\ UNCHANGED <<alive, closing, ac, cred, issued, killer, known, kept, panicked>>

(* The marker's done channel is closed when the marker is removed.         *)
ParkingDone(r) ==
  /\ At(r, "waiting")
  /\ \A m \in cred.parking : m.stamp # job[r].entry
  /\ job' = [job EXCEPT ![r].pc = "lookup", ![r].entry = 0]
  /\ UNCHANGED <<alive, closing, ac, cred, issued, killer, known, kept, panicked>>

ResumeParked(r) ==
  /\ At(r, "lookup")
  /\ \/ ParkedFor(cred, job[r].tok) = {} /\ Finish(r, "done")
     \/ \E e \in ParkedFor(cred, job[r].tok) :
          job' = [job EXCEPT ![r].pc = "claim", ![r].entry = e.stamp]
  /\ UNCHANGED <<alive, closing, ac, cred, issued, killer, known, kept, panicked>>

Claim(r, entries) ==
  /\ At(r, "claim")
  /\ IF closing \/ entries = {}
     THEN Finish(r, "done") /\ UNCHANGED <<ac, cred, issued>>
     ELSE \E e \in entries :
          IF ~alive
          THEN /\ cred' = TakeParked(cred, e)
               /\ ac' = [ac EXCEPT !.token = 0]
               /\ Finish(r, "done") /\ UNCHANGED issued
          ELSE /\ cred' = [cred EXCEPT !.parked = (@ \ {e}) \cup {[e EXCEPT !.claimed = TRUE]}]
               /\ ac' = [ac EXCEPT !.claim = e.tok, !.tr = r, !.token = issued + 1]
               /\ issued' = issued + 1
               /\ job' = [job EXCEPT ![r].pc = "join", ![r].entry = 0]
  /\ UNCHANGED <<alive, closing, killer, known, kept, panicked>>

ClaimUnchecked(r) ==
  Claim(r, {e \in ParkedFor(cred, job[r].tok) : e.stamp = job[r].entry})

(* resumeParkedLocked: the entry looked up must still be there, unclaimed. *)
ResumeParkedLocked(r) ==
  Claim(r, {e \in ParkedFor(cred, job[r].tok) : e.stamp = job[r].entry /\ ~e.claimed})

(* transitionAttachment, without the locks: capture the transport and the  *)
(* target, freeze, drain, publish the membership.                          *)
Join(r) ==
  /\ At(r, "join")
  /\ job' = [job EXCEPT ![r].exp = ac.tr,
                        ![r].pc = IF closing \/ ~alive THEN "abort" ELSE "joinFreeze"]
  /\ UNCHANGED <<alive, closing, ac, cred, issued, killer, known, kept, panicked>>

PublishMembership(r) ==
  /\ At(r, "joinDrain") /\ ac.inFlight = 0
  /\ \E valid \in {~closing /\ alive /\ ac.tr = job[r].exp} :
       /\ ac' = [ac EXCEPT !.frozen = FALSE, !.reg = @ \/ valid, !.cap = @ \/ valid]
       /\ Goto(r, IF valid THEN "welcome" ELSE "abort")
  /\ UNCHANGED <<alive, closing, cred, issued, killer, known, kept, panicked>>

-----------------------------------------------------------------------------
(* The rest of the handshake: Welcome and first paint as effects of the    *)
(* attachment, then the claim commits.                                     *)

BeginWelcome(r) ==
  /\ At(r, "welcome")
  /\ IF Owns(r) /\ ~ac.frozen
     THEN ac' = [ac EXCEPT !.inFlight = @ + 1] /\ Goto(r, "sending")
     ELSE Goto(r, "fail") /\ UNCHANGED ac
  /\ UNCHANGED <<alive, closing, cred, issued, killer, known, kept, panicked>>

SendWelcome(r) ==
  /\ At(r, "sending")
  /\ ac' = [ac EXCEPT !.inFlight = @ - 1]
  /\ \/ Goto(r, "post") /\ known' = known \cup ({ac.token} \ {0})
     \/ /\ May("fail") /\ Goto(r, "fail")
        /\ known' \in {known, known \cup ({ac.token} \ {0})}
  /\ UNCHANGED <<alive, closing, cred, issued, killer, kept, panicked>>

(* beginCurrentAttachmentEffectContext waits for a freeze to end; the      *)
(* handshake deadline ends the wait.                                       *)
BeginFirstPaint(r) ==
  /\ At(r, "post")
  /\ \/ ~ac.frozen /\ Owns(r) /\ ac' = [ac EXCEPT !.inFlight = @ + 1] /\ Goto(r, "paint")
     \/ ~ac.frozen /\ ~Owns(r) /\ Goto(r, "fail") /\ UNCHANGED ac
     \/ May("fail") /\ Goto(r, "fail") /\ UNCHANGED ac
  /\ UNCHANGED <<alive, closing, cred, issued, killer, known, kept, panicked>>

FailFirstPaint(r) ==
  /\ May("fail") /\ At(r, "paint")
  /\ ac' = [ac EXCEPT !.inFlight = @ - 1] /\ Goto(r, "fail")
  /\ UNCHANGED <<alive, closing, cred, issued, killer, known, kept, panicked>>

CommitResumeClaim(r) ==
  /\ At(r, "paint")
  /\ IF ac.claim # 0 /\ ClaimedEntry = {}
     THEN /\ ac' = [ac EXCEPT !.inFlight = @ - 1]
          /\ Goto(r, "fail") /\ UNCHANGED cred
     ELSE /\ ac' = [ac EXCEPT !.inFlight = @ - 1, !.claim = 0]
          /\ cred' = [cred EXCEPT !.parked = @ \ ClaimedEntry]
          /\ Finish(r, "loop")
  /\ UNCHANGED <<alive, closing, issued, killer, known, kept, panicked>>

(* failHandshakeAttachment: abort the claim, or detach what the handshake  *)
(* attached. A route that failed ("abort") only aborts the claim.          *)
GiveUpClaim(r) ==
  IF job[r].pc = "abort" \/ job[r].kind = "route" \/ ac.tr # r
  THEN Finish(r, "done")
  ELSE job' = [job EXCEPT ![r] = [NoJob EXCEPT !.pc = "freeze", !.kind = "leave", !.exp = r]]

AbortResumeClaim(r) ==
  /\ At(r, "fail") \/ At(r, "abort")
  /\ \/ /\ ClaimedEntry = {} /\ GiveUpClaim(r)
     \/ \E e \in ClaimedEntry :
          job' = [job EXCEPT ![r].entry = e.stamp, ![r].mark = e.tok,
                    ![r].pc = "abortFreeze",
                    ![r].kind = IF job[r].pc = "abort" THEN "route" ELSE "resume"]
  /\ UNCHANGED <<alive, closing, ac, cred, issued, killer, known, kept, panicked>>

Restore(r, e) ==
  /\ cred' = PublishParked(cred, e.tok)
  /\ ac' = [ac EXCEPT !.frozen = FALSE, !.claim = 0, !.token = e.tok, !.tr = 0,
                      !.reg = FALSE, !.cap = FALSE]
  /\ Finish(r, "done")

RestoreClaim(r) ==
  /\ At(r, "abortDrain") /\ ac.inFlight = 0
  /\ \E held \in {{e \in ClaimedEntry : e.stamp = job[r].entry /\ e.tok = job[r].mark}} :
       \/ \E e \in held : Restore(r, e)
       \/ /\ held = {} /\ ac' = [ac EXCEPT !.frozen = FALSE] /\ UNCHANGED cred
          /\ GiveUpClaim(r)
  /\ UNCHANGED <<alive, closing, issued, killer, known, kept, panicked>>

(* A client without a credential attaches anew, once nothing is left of    *)
(* the old attachment.                                                     *)
Attach(r) ==
  /\ At(r, "idle") /\ alive /\ ~closing /\ ~ac.reg /\ ~RetainsSession(cred)
  /\ \A j \in Tasks : job[j].pc \in {"idle", "loop", "done"}
  /\ ac' = [ac EXCEPT !.reg = TRUE, !.cap = TRUE, !.tr = r, !.token = issued + 1, !.claim = 0]
  /\ issued' = issued + 1 /\ known' = {issued + 1} /\ kept' = TRUE
  /\ Finish(r, "loop")
  /\ UNCHANGED <<alive, closing, cred, killer, panicked>>

-----------------------------------------------------------------------------
(* Expiry, session kill and shutdown.                                      *)

ExpireClaimed ==
  /\ May("expire") /\ ~panicked
  /\ \E e \in cred.parked :
       /\ cred' = TakeParked(cred, e)
       /\ ac' = [ac EXCEPT !.token = 0]
  /\ kept' = FALSE
  /\ UNCHANGED <<alive, closing, issued, job, killer, known, panicked>>

ExpireParked ==
  /\ May("expire") /\ ~panicked
  /\ \E e \in cred.parked :
       /\ ~e.claimed
       /\ cred' = TakeParked(cred, e)
       /\ ac' = [ac EXCEPT !.token = 0]
  /\ kept' = FALSE
  /\ UNCHANGED <<alive, closing, issued, job, killer, known, panicked>>

(* retireParkedAttachmentLocked of every entry: the attachment loses its   *)
(* token and its capability; an admitted effect at a stable gate panics.   *)
(* The transport is revoked after the locks, before or after another task  *)
(* compares it.                                                            *)
Retired(a, tr) == IF cred.parked = {} THEN a ELSE [a EXCEPT !.token = 0, !.cap = FALSE, !.tr = tr]
RetirePanics == cred.parked # {} /\ ~ac.frozen /\ ac.inFlight # 0

StartKill ==
  /\ ~panicked /\ alive /\ killer.pc = "idle"
  /\ \E empty \in BOOLEAN :
       /\ IF empty THEN May("reap") /\ ~ac.reg /\ ~RetainsSession(cred)
                   ELSE May("kill") \/ closing
       /\ killer' = [pc |-> IF ac.reg THEN "freeze" ELSE "publish",
                     empty |-> empty, reg |-> ac.reg, tr |-> ac.tr]
  /\ UNCHANGED <<alive, closing, ac, cred, issued, job, known, kept, panicked>>

KillFreeze ==
  /\ ~panicked /\ killer.pc = "freeze" /\ ~ac.frozen
  /\ ac' = [ac EXCEPT !.frozen = TRUE]
  /\ killer' = [killer EXCEPT !.pc = "drain"]
  /\ UNCHANGED <<alive, closing, cred, issued, job, known, kept, panicked>>

(* Drained, or the drain deadline passed: the kill goes on either way.     *)
KillDrained ==
  /\ ~panicked /\ killer.pc = "drain"
  /\ killer' = [killer EXCEPT !.pc = "publish"]
  /\ UNCHANGED <<alive, closing, ac, cred, issued, job, known, kept, panicked>>

ParticipantsCurrent ==
  ac.reg = killer.reg /\ (ac.reg => ac.tr = killer.tr)

PublishKill ==
  /\ ~panicked /\ killer.pc = "publish"
  /\ killer' = NoKill
  /\ IF ParticipantsCurrent
     THEN /\ alive' = FALSE /\ kept' = FALSE
          /\ cred' = [PurgeParking(cred) EXCEPT !.parked = {}]
          /\ \E tr \in {0, ac.tr} :
               ac' = [Retired(ac, tr) EXCEPT !.reg = FALSE, !.cap = @ /\ ~ac.reg,
                                             !.frozen = @ /\ ~killer.reg]
          /\ panicked' = RetirePanics
     ELSE /\ ac' = [ac EXCEPT !.frozen = @ /\ ~killer.reg]
          /\ UNCHANGED <<alive, cred, kept, panicked>>
  /\ UNCHANGED <<closing, issued, job, known>>

Shutdown ==
  /\ May("shutdown") /\ ~panicked /\ ~closing
  /\ closing' = TRUE /\ kept' = FALSE
  /\ cred' = [PurgeParking(cred) EXCEPT !.parked = {}]
  /\ \E tr \in {0, ac.tr} : ac' = Retired(ac, tr)
  /\ panicked' = RetirePanics
  /\ UNCHANGED <<alive, issued, job, killer, known>>

-----------------------------------------------------------------------------
TeardownStep(j) ==
  \/ MarkParkingInFlight(j) \/ Freeze(j) \/ DetachIfCurrentTransport(j)
  \/ DrainDeadline(j) \/ ClearParkingInFlightIfAbandoned(j)
  \/ PrepareParkAttachment(j) \/ ParkAttachment(j) \/ ClearParkingInFlight(j)

ResumeStep(r) ==
  \/ ResumeLiveAttachment(r) \/ WaitParkingInFlight(r) \/ ParkingDone(r)
  \/ ResumeParked(r) \/ ResumeParkedLocked(r) \/ Join(r) \/ PublishMembership(r)
  \/ BeginWelcome(r) \/ SendWelcome(r) \/ BeginFirstPaint(r) \/ FailFirstPaint(r)
  \/ CommitResumeClaim(r) \/ AbortResumeClaim(r) \/ RestoreClaim(r)

KillStep == KillFreeze \/ KillDrained \/ PublishKill

Next ==
  /\ \/ \E j \in Losses \cap scene.tasks : Lose(j) \/ Leave(j)
     \/ \E j \in scene.tasks : TeardownStep(j)
     \/ \E r \in Hellos \cap scene.tasks : RouteResume(r) \/ ResumeStep(r) \/ Attach(r)
     \/ ExpireParked \/ StartKill \/ KillStep \/ Shutdown
  /\ UNCHANGED scene

Spec == Init /\ [][Next]_vars

-----------------------------------------------------------------------------
Claiming == {"join", "joinFreeze", "joinDrain", "welcome", "sending", "post", "paint",
             "fail", "abort", "abortFreeze", "abortDrain"}

(* Every registry, job and gate holds a value of its type, and a Welcome   *)
(* or first paint is in flight exactly while a handshake is in it.         *)
TypeOK ==
  /\ alive \in BOOLEAN /\ closing \in BOOLEAN /\ kept \in BOOLEAN /\ panicked \in BOOLEAN
  /\ issued \in Nat /\ known \subseteq 1..issued
  /\ ac.reg \in BOOLEAN /\ ac.cap \in BOOLEAN /\ ac.frozen \in BOOLEAN
  /\ ac.tr \in Transports /\ {ac.token, ac.claim} \subseteq 0..issued
  /\ ac.inFlight = Cardinality({r \in Hellos : job[r].pc \in {"sending", "paint"}})
  /\ \A e \in cred.parked : e.tok \in 0..issued /\ e.stamp \in 1..cred.stamp
  /\ \A m \in cred.parking : m.tok \in 1..issued /\ m.stamp \in 1..cred.stamp
  /\ killer.pc \in {"idle", "freeze", "drain", "publish"}

(* "resume never observes both registries empty for a still-valid          *)
(* credential" (markParkingInFlight): while one teardown and one handshake *)
(* race, the session lives and nothing has ended the credential, the token *)
(* that resumes the attachment is held by the live seat, by a parking      *)
(* marker or by a parked entry.                                            *)
CredentialHeld ==
  alive /\ ~closing /\ kept /\ Cardinality(scene.tasks) <= 2 /\ ~May("timeout") =>
    \E t \in {IF ac.claim # 0 THEN ac.claim ELSE ac.token} :
      \/ ac.reg /\ ac.token = t
      \/ ParkingFor(cred, t) # {}
      \/ ParkedFor(cred, t) # {}

(* "another resume sees claimed and loses atomically" (resumeParkedLocked): *)
(* of the handshakes that present one token, at most one holds the claim.   *)
OneWinnerPerToken ==
  \A t \in known :
    Cardinality({r \in Hellos : job[r].tok = t /\ job[r].pc \in Claiming}) <= 1

(* "a racing resume cannot acquire the same parked attachment"             *)
(* (commitResumeClaim): at most one handshake is between its claim and the *)
(* end of that claim.                                                      *)
OneClaimant == Cardinality({r \in Hellos : job[r].pc \in Claiming}) <= 1

(* A claimed entry leaves the registry only by the commit of a handshake   *)
(* whose first paint was in flight, by the abort that puts the credential  *)
(* back unclaimed, or with the session or the daemon: an expiry or a       *)
(* second handshake never takes it away.                                   *)
ClaimSettledByItsHandshake ==
  [][\A e \in cred.parked :
       e.claimed /\ e \notin cred'.parked =>
         \/ ~alive' \/ closing'
         \/ \E r \in Hellos : job[r].pc = "paint" /\ job'[r].pc = "loop"
         \/ \E f \in cred'.parked : f.tok = e.tok /\ ~f.claimed /\ ac'.token = e.tok]_vars

(* A retirement of parked entries finds the gate frozen or without         *)
(* admitted effects: invalidateRetiredAttachmentCapability does not panic. *)
NoPanic == ~panicked

(* A kill or a reap freezes the gate of every attachment it retires, and    *)
(* one whose snapshot is stale retires none: only a shutdown can meet an    *)
(* active capability at a stable gate.                                      *)
KillRetiresFrozen == panicked => closing

(* "any live, suspended, parked, or parking attachment ... keeps it"       *)
(* (reapAbandonedEphemeral): a kill that requires an empty session does    *)
(* not end one that retains a credential.                                  *)
ReapSparesCredentials ==
  [][killer.empty /\ alive /\ ~alive' => ~ac.reg /\ ~RetainsSession(cred)]_vars

(* A teardown or a handshake is under way, in a scene where no handshake   *)
(* fails after its claim.                                                  *)
Handling ==
  /\ ~May("fail") /\ ~panicked
  /\ \E j \in Tasks : job[j].pc \notin {"idle", "done", "loop"}

(* The scheduler runs every goroutine that can proceed; the environment    *)
(* owes no loss, no Hello, no expiry, no kill and no shutdown.             *)
FairSpec ==
  /\ Spec
  /\ \A j \in Losses : WF_core(TeardownStep(j))
  /\ \A r \in Hellos : WF_core(TeardownStep(r) \/ ResumeStep(r))
  /\ WF_core(KillStep)

(* One handshake wins a token, effects in flight are accounted for, and no *)
(* kill retires a capability that an effect still holds.                   *)
RegistryConsistent == TypeOK /\ OneWinnerPerToken /\ KillRetiresFrozen

(* Nobody waits for ever: "same-token waiters fail closed instead of        *)
(* hanging" (purgeParking), and every teardown and handshake ends, so that  *)
(* Serve can join them.                                                     *)
NobodyHangs == Handling ~> ~Handling
=============================================================================
