---------------------- MODULE AttachmentFreeze_proofs -----------------------
(***************************************************************************)
(* The inductive invariant of the effect gate, what a step of one job that *)
(* leaves the identities alone does to it, the freeze (no start, no        *)
(* acquisition, drain, deadline, release or reservation breaks it) and the *)
(* publications for one client under a freeze: attach, switch, detach,     *)
(* suspend and expiry.                                                     *)
(***************************************************************************)
EXTENDS AttachmentGate, TLAPS

Jobs == Workers \cup Clients

PCs == {"idle", "acquire", "drain", "frozen", "unfreeze", "identity", "sending", "acking",
        "activating", "own", "teardown", "reserve", "admit", "done"}

Activities == {"active", "suspended", "activating"}

IsGate(g) == g \in [frozen : BOOLEAN, gen : Nat, cap : Capabilities, inFlight : Nat, activity : Activities]

IsWork(w) ==
    /\ w \in [pc : PCs, job : {w.job}, cap : Capabilities, todo : SUBSET Clients, held : SUBSET Clients,
              parts : SUBSET Clients, waiting : BOOLEAN, drained : BOOLEAN,
              next : {"done", "identity", "detach", "closed"}]
    /\ IsJob(w.job)

\* What a goroutine's own record says at each point of its job: which gates it
\* is after, what kind of job can be there, and that only a bounded one is past
\* an unfinished drain.
Local(w) ==
    /\ w.pc \in {"idle", "identity", "sending", "reserve", "admit", "done"} => w.held = {}
    /\ w.pc # "acquire" => w.todo = {}
    /\ w.waiting => w.pc \in {"acquire", "drain"}
    /\ w.pc \in {"acquire", "drain", "frozen"} => w.job.kind # "none"
    /\ w.pc = "acking" => w.job.kind = "suspend"
    /\ w.pc = "activating" => w.job.kind = "activate"
    /\ w.pc \in {"own", "teardown"} => w.job.kind = "kill"
    /\ w.pc \in {"reserve", "admit"} => w.job.kind = "move"
    /\ w.pc \in {"identity", "sending"} => w.job.kind = "transition"
    /\ w.pc = "unfreeze" /\ w.next = "identity" => w.job.c \in Clients /\ w.cap.sess \in Sessions
    /\ w.pc = "unfreeze" /\ w.next = "detach" => w.job.c \in Clients
    /\ w.pc = "frozen" /\ ~Bounded(w.job) => w.drained
    /\ w.pc \in {"acquire", "drain"} => ~w.drained

\* The gates a freeze is for.
Wanted(j, parts) ==
    IF j.kind = "kill" THEN parts \cup ({j.by} \ {NoClient})
    ELSE IF j.kind = "move" THEN IF j.retire THEN parts ELSE {j.c} \ {NoClient}
    ELSE {j.c}

Holds(w) ==
    w.pc \in {"acquire", "drain", "frozen", "acking", "activating", "own", "teardown"} =>
        w.held \cup w.todo = Wanted(w.job, w.parts)

Shapes ==
    /\ gate = [c \in Clients |-> gate[c]] /\ \A c \in Clients : IsGate(gate[c])
    /\ member \in [Clients -> Sessions \cup {NoSession}]
    /\ alive \subseteq Sessions /\ dispatch \subseteq Sessions
    /\ fence \in [Sessions -> [active : BOOLEAN, moves : Nat]]
    /\ retention \in [Clients -> Capabilities]
    /\ eff \in [Effects -> [pc : {"idle", "captured", "admitted"}, c : Clients \cup {NoClient}, cap : Capabilities]]
    /\ \A e \in Effects : eff[e].pc # "idle" => eff[e].c \in Clients
    /\ work = [i \in Jobs |-> work[i]] /\ \A i \in Jobs : IsWork(work[i])

Locals == \A i \in Jobs : Local(work[i]) /\ Holds(work[i])

\* A frozen gate has one owner, an open one has none.
Owners ==
    /\ \A i \in Jobs : \A c \in work[i].held : gate[c].frozen
    /\ \A i, k \in Jobs : \A c \in work[i].held : c \in work[k].held => i = k
    /\ \A c \in Clients : gate[c].frozen => \E i \in Jobs : c \in work[i].held

\* A gate's inFlight counts the effects admitted at it: those of the effect
\* goroutines, the identity sends and the activations.
Admitted(c) == {e \in Effects : eff[e].pc = "admitted" /\ eff[e].c = c}
Sends(w, c) == w.pc \in {"sending", "activating"} /\ w.job.c = c
Sending(c) == {i \in Jobs : Sends(work[i], c)}
Counted == \A c \in Clients : gate[c].inFlight = Cardinality(Admitted(c)) + Cardinality(Sending(c))

\* So a gate with nothing in flight has no admitted effect.
Seen == \A e \in Effects : eff[e].pc = "admitted" => gate[eff[e].c].inFlight # 0

\* A drained freeze stays drained.
Quiet ==
    \A i \in Jobs : work[i].pc = "frozen" /\ work[i].drained =>
        \A c \in work[i].held : gate[c].inFlight = 0

\* The published capability is the registered one, at a frozen gate too.
Published == \A c \in Clients : gate[c].cap = IF member[c] = NoSession THEN Retired ELSE Capability(c)

\* A suspension that waits for its acknowledgement is still one, and so is an
\* activation that has not painted.
Acking ==
    \A i \in Jobs :
        LET c == work[i].job.c IN
        /\ work[i].pc = "acking" => gate[c].activity = "suspended" /\ member[c] # NoSession
        /\ work[i].pc = "activating" => gate[c].activity = "activating"

\* At most one move is under way in a session, and it is the reservation.
Dispatching(w) == w.job.kind = "move" /\ w.pc \in {"reserve", "admit", "acquire", "drain", "frozen", "unfreeze"}
Reserved(w) == w.job.kind = "move" /\ w.pc \in {"admit", "acquire", "drain", "frozen", "unfreeze"}
Ends(w) == {w.job.src, w.job.dst}

Dispatch ==
    /\ \A i \in Jobs : Dispatching(work[i]) => Ends(work[i]) \subseteq dispatch
    /\ \A i, k \in Jobs : Dispatching(work[i]) /\ Dispatching(work[k]) /\ i # k =>
          Ends(work[i]) \cap Ends(work[k]) = {}
    /\ \A s \in Sessions : fence[s].moves =
          IF \E i \in Jobs : Reserved(work[i]) /\ s \in Ends(work[i]) THEN 1 ELSE 0

GateInv ==
    /\ Shapes /\ Locals /\ Owners /\ Counted /\ Quiet /\ Published /\ Acking /\ Dispatch
    /\ RegisteredInLiveSession /\ ReservationExcludesTeardown /\ ExpiryPinsSuspension
    /\ EffectsKeepAuthority
-----------------------------------------------------------------------------
(* What one step of one goroutine leaves as it was *)

\* The goroutine i goes on with the record w, the others stay.
Moved(i, w) ==
    /\ IsWork(w) /\ Local(w) /\ Holds(w)
    /\ work' = [k \in Jobs |-> work'[k]] /\ work'[i] = w
    /\ \A k \in Jobs : k # i => work'[k] = work[k]

\* The goroutine i writes its record.
LEMMA WorkMoved ==
    ASSUME Shapes, NEW i \in Jobs, NEW w, IsWork(w), Local(w), Holds(w), work' = [work EXCEPT ![i] = w]
    PROVE  Moved(i, w)
BY DEF Shapes, Moved

\* The records keep their shape, and say what their place in the job implies.
LEMMA LocalsKept ==
    ASSUME Shapes, Locals, NEW i \in Jobs, NEW w, Moved(i, w)
    PROVE  Locals' /\ \A k \in Jobs : IsWork(work[k])'
BY DEF Locals, Moved, Shapes

\* Nobody takes or releases a gate.
LEMMA OwnersKept ==
    ASSUME Shapes, Owners, NEW i \in Jobs, NEW w, Moved(i, w), w.held = work[i].held,
           \A c \in Clients : gate'[c].frozen = gate[c].frozen
    PROVE  Owners'
<1>1. \A k \in Jobs : work'[k].held = work[k].held /\ work[k].held \subseteq Clients
  BY DEF Moved, Shapes, IsWork
<1> QED
  BY <1>1 DEF Owners

\* No effect begins or ends.
LEMMA CountKept ==
    ASSUME Counted, NEW i \in Jobs, NEW w, Moved(i, w), UNCHANGED eff,
           \A c \in Clients : gate'[c].inFlight = gate[c].inFlight,
           \A c \in Clients : Sends(w, c) <=> Sends(work[i], c)
    PROVE  Counted'
<1>1. \A c \in Clients : Sending(c)' = Sending(c) /\ Admitted(c)' = Admitted(c)
  BY DEF Moved, Sending, Admitted, Sends
<1> QED
  BY <1>1 DEF Counted

\* No effect begins at a gate that is another's.
LEMMA QuietKept ==
    ASSUME Shapes, Owners, Quiet, NEW i \in Jobs, NEW w, Moved(i, w),
           w.pc = "frozen" /\ w.drained => \A c \in w.held : gate'[c].inFlight = 0,
           \A c \in Clients : gate[c].frozen /\ gate[c].inFlight = 0 /\ c \notin work[i].held =>
                                 gate'[c].inFlight = 0
    PROVE  Quiet'
<1> SUFFICES ASSUME NEW k \in Jobs, work'[k].pc = "frozen", work'[k].drained, NEW c \in work'[k].held
             PROVE  gate'[c].inFlight = 0
  BY DEF Quiet
<1>1. CASE k = i
  BY <1>1 DEF Moved
<1>2. CASE k # i
  <2>1. work'[k] = work[k] /\ c \in Clients
    BY <1>2 DEF Moved, Shapes, IsWork
  <2>2. gate[c].frozen /\ gate[c].inFlight = 0 /\ c \notin work[i].held
    BY <1>2, <2>1 DEF Owners, Quiet
  <2> QED
    BY <2>1, <2>2
<1> QED
  BY <1>1, <1>2

\* A suspension that is being acknowledged holds its gate.
LEMMA AckingHolds ==
    ASSUME Shapes, Locals, NEW i \in Jobs, work[i].pc \in {"acking", "activating"}
    PROVE  work[i].held = {work[i].job.c} /\ work[i].job.c \in Clients
BY DEF Shapes, Locals, Local, Holds, Wanted, IsWork, IsJob

\* Nobody resumes or detaches another's suspension.
LEMMA AckingKept ==
    ASSUME Shapes, Locals, Owners, Acking, NEW i \in Jobs, NEW w, Moved(i, w),
           w.pc = "acking" => gate'[w.job.c].activity = "suspended" /\ member'[w.job.c] # NoSession,
           w.pc = "activating" => gate'[w.job.c].activity = "activating",
           \A c \in Clients : c \notin work[i].held => /\ gate'[c].activity = gate[c].activity
                                                       /\ member'[c] = member[c]
    PROVE  Acking'
<1> SUFFICES ASSUME NEW k \in Jobs, work'[k].pc \in {"acking", "activating"}
             PROVE  /\ work'[k].pc = "acking" =>
                          gate'[work'[k].job.c].activity = "suspended" /\ member'[work'[k].job.c] # NoSession
                    /\ work'[k].pc = "activating" => gate'[work'[k].job.c].activity = "activating"
  BY DEF Acking
<1>1. CASE k = i
  BY <1>1 DEF Moved
<1>2. CASE k # i
  <2>1. work'[k] = work[k]
    BY <1>2 DEF Moved
  <2>2. work[k].held = {work[k].job.c} /\ work[k].job.c \in Clients
    BY <2>1, AckingHolds
  <2>3. work[k].job.c \notin work[i].held
    BY <1>2, <2>2 DEF Owners
  <2> QED
    BY <2>1, <2>2, <2>3 DEF Acking
<1> QED
  BY <1>1, <1>2

\* No move begins, ends or is given its reservation.
LEMMA DispatchKept ==
    ASSUME Dispatch, NEW i \in Jobs, NEW w, Moved(i, w), UNCHANGED dispatch,
           \A s \in Sessions : fence'[s].moves = fence[s].moves,
           Dispatching(w) <=> Dispatching(work[i]), Reserved(w) <=> Reserved(work[i]),
           Dispatching(w) => Ends(w) = Ends(work[i])
    PROVE  Dispatch'
<1>1. \A k \in Jobs : /\ Dispatching(work'[k]) <=> Dispatching(work[k])
                      /\ Reserved(work'[k]) <=> Reserved(work[k])
                      /\ Dispatching(work[k]) => Ends(work'[k]) = Ends(work[k])
  BY DEF Moved
<1>2. \A k \in Jobs : Reserved(work[k]) => Dispatching(work[k])
  BY DEF Reserved, Dispatching
<1>3. \A s \in Sessions : (\E k \in Jobs : Reserved(work'[k]) /\ s \in Ends(work'[k])) <=>
                             (\E k \in Jobs : Reserved(work[k]) /\ s \in Ends(work[k]))
  BY <1>1, <1>2
<1> QED
  BY <1>1, <1>3 DEF Dispatch

\* No identity, registration or suspension changes.
LEMMA IdentityKept ==
    ASSUME Shapes, Published, RegisteredInLiveSession, ExpiryPinsSuspension, EffectsKeepAuthority,
           UNCHANGED <<member, alive, retention, eff>>,
           \A c \in Clients : /\ gate'[c].cap = gate[c].cap /\ gate'[c].gen = gate[c].gen
                              /\ gate'[c].activity = gate[c].activity
    PROVE  Published' /\ RegisteredInLiveSession' /\ ExpiryPinsSuspension' /\ EffectsKeepAuthority'
<1>1. \A c \in Clients : Capability(c)' = Capability(c)
  BY DEF Capability
<1>2. Published'
  BY <1>1 DEF Published
<1>3. RegisteredInLiveSession'
  BY DEF RegisteredInLiveSession
<1>4. ExpiryPinsSuspension'
  BY <1>1 DEF ExpiryPinsSuspension, Current
<1>5. \A e \in Effects : eff[e].pc = "admitted" => eff[e].c \in Clients
  BY DEF Shapes
<1>6. EffectsKeepAuthority'
  BY <1>5 DEF EffectsKeepAuthority
<1> QED
  BY <1>2, <1>3, <1>4, <1>6

\* A step that leaves the gates alone and touches only the move reservations
\* and the teardown fences.
LEMMA FenceStep ==
    ASSUME GateInv, NEW i \in Jobs, NEW w, Moved(i, w), w.held = work[i].held,
           UNCHANGED <<gate, member, alive, retention, eff>>,
           w.pc \notin {"acking", "sending", "activating"}, work[i].pc \notin {"sending", "activating"},
           w.pc = "frozen" /\ w.drained => \A c \in w.held : gate[c].inFlight = 0,
           dispatch' \subseteq Sessions, fence' \in [Sessions -> [active : BOOLEAN, moves : Nat]],
           Dispatch', ReservationExcludesTeardown'
    PROVE  GateInv'
<1> USE DEF GateInv
<1>1. Locals' /\ \A k \in Jobs : IsWork(work[k])'
  BY LocalsKept
<1>2. Shapes'
  BY <1>1 DEF Shapes, Moved
<1>3. Owners'
  BY OwnersKept
<1>4. \A c \in Clients : Sends(w, c) <=> Sends(work[i], c)
  BY DEF Sends
<1>5. Counted'
  BY <1>4, CountKept
<1>6. Quiet'
  BY QuietKept
<1>7. Acking'
  BY AckingKept
<1>8. Published' /\ RegisteredInLiveSession' /\ ExpiryPinsSuspension' /\ EffectsKeepAuthority'
  BY IdentityKept
<1> QED
  BY <1>1, <1>2, <1>3, <1>5, <1>6, <1>7, <1>8

\* A step of one goroutine that only moves it on in its job.
LEMMA GoesOn ==
    ASSUME GateInv, NEW i \in Jobs, NEW w, Moved(i, w), w.held = work[i].held,
           UNCHANGED <<gate, member, alive, fence, dispatch, retention, eff>>,
           w.pc \notin {"acking", "sending", "activating"}, work[i].pc \notin {"sending", "activating"},
           w.pc = "frozen" /\ w.drained => \A c \in w.held : gate[c].inFlight = 0,
           Dispatching(w) <=> Dispatching(work[i]), Reserved(w) <=> Reserved(work[i]),
           Dispatching(w) => Ends(w) = Ends(work[i])
    PROVE  GateInv'
<1>1. Dispatch' /\ ReservationExcludesTeardown'
  BY DispatchKept DEF GateInv, ReservationExcludesTeardown
<1> QED
  BY <1>1, FenceStep DEF GateInv, Shapes

-----------------------------------------------------------------------------
(* The freeze *)

\* A freeze begins for the gates its job is about.
LEMMA FreezeBegins ==
    ASSUME GateInv, NEW i \in Jobs, NEW cap \in Capabilities, NEW todo \in SUBSET Clients,
           NEW parts \in SUBSET Clients, Freezing(i, cap, todo, parts),
           work[i].pc \in {"idle", "admit"}, work[i].job.kind # "none",
           work[i].pc = "idle" => work[i].job.kind # "move",
           todo = Wanted(work[i].job, parts),
           UNCHANGED <<gate, member, alive, fence, dispatch, retention, eff>>
    PROVE  GateInv'
<1>1. IsWork(work[i]) /\ Local(work[i])
  BY DEF GateInv, Shapes, Locals
<1> DEFINE w == [work[i] EXCEPT !.pc = "acquire", !.cap = cap, !.todo = todo, !.parts = parts,
                                !.waiting = FALSE, !.drained = FALSE, !.next = "done"]
<1>2. /\ IsWork(w) /\ w.held = {} /\ w.held = work[i].held /\ w.todo = todo /\ w.parts = parts
      /\ w.pc = "acquire" /\ w.job = work[i].job /\ ~w.waiting /\ ~w.drained
  BY <1>1 DEF IsWork, PCs, Local
<1>3. work' = [work EXCEPT ![i] = w]
  BY DEF Freezing
<1> HIDE DEF w
<1>4. Local(w) /\ Holds(w)
  BY <1>2 DEF Local, Holds
<1>5. Moved(i, w)
  BY <1>2, <1>3, <1>4, WorkMoved DEF GateInv
<1>6. /\ Dispatching(w) <=> Dispatching(work[i])
      /\ Reserved(w) <=> Reserved(work[i])
      /\ Ends(w) = Ends(work[i])
  BY <1>1, <1>2 DEF Dispatching, Reserved, Ends, Local
<1> QED
  BY <1>2, <1>5, <1>6, GoesOn

\* A captured capability is a capability.
LEMMA CapabilityType ==
    ASSUME Shapes, NEW c \in Clients
    PROVE  Capability(c) \in Capabilities
BY DEF Shapes, Capability, Capabilities, IsGate

\* The retired capability is a capability.
LEMMA RetiredType == Retired \in Capabilities
BY DEF Retired, Capabilities

\* transitionAttachment captures the capability and begins its freeze.
LEMMA StartTransitionKeeps ==
    ASSUME GateInv, NEW i \in Jobs, StartTransition(i)
    PROVE  GateInv'
<1>1. work[i].pc = "idle" /\ work[i].job.kind = "transition" /\ work[i].job.c \in Clients
  BY DEF StartTransition, GateInv, Shapes, IsWork, IsJob
<1>2. Capability(work[i].job.c) \in Capabilities /\ {work[i].job.c} = Wanted(work[i].job, {})
  BY <1>1, CapabilityType DEF GateInv, Wanted
<1>3. /\ Freezing(i, Capability(work[i].job.c), {work[i].job.c}, {})
      /\ UNCHANGED <<gate, member, alive, fence, dispatch, retention, eff>>
  BY DEF StartTransition
<1> QED
  BY <1>1, <1>2, <1>3, FreezeBegins

\* A detach begins its freeze.
LEMMA StartDetachKeeps ==
    ASSUME GateInv, NEW i \in Jobs, StartDetach(i)
    PROVE  GateInv'
<1>1. work[i].pc = "idle" /\ work[i].job.kind \in {"detach", "drop"} /\ work[i].job.c \in Clients
  BY DEF StartDetach, GateInv, Shapes, IsWork, IsJob
<1>2. Capability(work[i].job.c) \in Capabilities /\ {work[i].job.c} = Wanted(work[i].job, {})
  BY <1>1, CapabilityType DEF GateInv, Wanted
<1> QED
  BY <1>1, <1>2, FreezeBegins DEF StartDetach

\* A suspension or an activation begins its freeze.
LEMMA StartSuspensionKeeps ==
    ASSUME GateInv, NEW i \in Jobs, StartSuspension(i)
    PROVE  GateInv'
<1>1. work[i].pc = "idle" /\ work[i].job.kind \in {"suspend", "activate"} /\ work[i].job.c \in Clients
  BY DEF StartSuspension, GateInv, Shapes, IsWork, IsJob
<1>2. Capability(work[i].job.c) \in Capabilities /\ {work[i].job.c} = Wanted(work[i].job, {})
  BY <1>1, CapabilityType DEF GateInv, Wanted
<1> QED
  BY <1>1, <1>2, FreezeBegins DEF StartSuspension

\* A kill begins its freeze, of the participants it snapshots.
LEMMA StartKillKeeps ==
    ASSUME GateInv, NEW i \in Jobs, StartKill(i)
    PROVE  GateInv'
<1> DEFINE j == work[i].job
           cap == IF j.by = NoClient THEN Retired ELSE Capability(j.by)
           todo == Members(j.s) \cup ({j.by} \ {NoClient})
<1>1. work[i].pc = "idle" /\ j.kind = "kill" /\ j.by \in Clients \cup {NoClient}
  BY DEF StartKill, GateInv, Shapes, IsWork, IsJob
<1>2. cap \in Capabilities /\ todo = Wanted(j, Members(j.s))
  BY <1>1, CapabilityType, RetiredType DEF GateInv, Wanted
<1>3. Members(j.s) \in SUBSET Clients /\ todo \in SUBSET Clients
  BY <1>1 DEF Members
<1>4. Freezing(i, cap, todo, Members(j.s)) /\ UNCHANGED <<gate, member, alive, fence, dispatch, retention, eff>>
  BY DEF StartKill
<1> QED
  BY <1>1, <1>2, <1>3, <1>4, FreezeBegins

\* The job leaves the frozen section, for the unfreeze.
LEMMA LeaveMoves ==
    ASSUME GateInv, NEW i \in Jobs, NEW next \in {"done", "closed", "detach"}, Leave(i, next),
           work[i].pc # "acquire", next = "detach" => work[i].job.c \in Clients, ~work[i].waiting
    PROVE  \E w : /\ Moved(i, w) /\ w.pc = "unfreeze" /\ w.held = work[i].held
                  /\ w.job = work[i].job /\ w.next = next
<1>1. IsWork(work[i]) /\ Local(work[i])
  BY DEF GateInv, Shapes, Locals
<1> DEFINE w == [work[i] EXCEPT !.pc = "unfreeze", !.next = next]
<1>2. /\ IsWork(w) /\ w.pc = "unfreeze" /\ w.held = work[i].held /\ w.todo = work[i].todo
      /\ w.job = work[i].job /\ w.next = next /\ w.waiting = work[i].waiting
  BY <1>1 DEF IsWork, PCs
<1>3. work' = [work EXCEPT ![i] = w]
  BY DEF Leave
<1> HIDE DEF w
<1>4. Local(w) /\ Holds(w)
  BY <1>1, <1>2 DEF Local, Holds
<1>5. Moved(i, w)
  BY <1>2, <1>3, <1>4, WorkMoved DEF GateInv
<1> QED
  BY <1>2, <1>5

\* A move is admitted and begins its freeze, or ends.
LEMMA AdmitMoveKeeps ==
    ASSUME GateInv, NEW i \in Jobs, AdmitMove(i)
    PROVE  GateInv'
<1> DEFINE j == work[i].job
           cap == IF j.c = NoClient THEN Retired ELSE Capability(j.c)
           todo == IF j.retire THEN Members(j.src) ELSE {j.c} \ {NoClient}
<1>1. /\ work[i].pc = "admit" /\ j.kind = "move" /\ j.c \in Clients \cup {NoClient}
      /\ ~work[i].waiting /\ work[i].held = {}
  BY DEF AdmitMove, GateInv, Shapes, Locals, Local, IsWork, IsJob
<1>2. cap \in Capabilities /\ todo = Wanted(j, Members(j.src))
  BY <1>1, CapabilityType, RetiredType DEF GateInv, Wanted
<1>3. Members(j.src) \in SUBSET Clients /\ todo \in SUBSET Clients
  BY <1>1 DEF Members
<1>4. UNCHANGED <<gate, member, alive, fence, dispatch, retention, eff>>
  BY DEF AdmitMove
<1>5. CASE Freezing(i, cap, todo, Members(j.src))
  BY <1>1, <1>2, <1>3, <1>4, <1>5, FreezeBegins
<1>6. CASE Leave(i, "done")
  <2>1. PICK w : /\ Moved(i, w) /\ w.pc = "unfreeze" /\ w.held = work[i].held
                 /\ w.job = work[i].job /\ w.next = "done"
    BY <1>1, <1>6, LeaveMoves
  <2>2. /\ Dispatching(w) <=> Dispatching(work[i])
        /\ Reserved(w) <=> Reserved(work[i])
        /\ Ends(w) = Ends(work[i])
    BY <1>1, <2>1 DEF Dispatching, Reserved, Ends
  <2> QED
    BY <1>1, <1>4, <2>1, <2>2, GoesOn
<1> QED
  BY <1>5, <1>6 DEF AdmitMove

\* A step within the freeze: the gates held and the job stay.
LEMMA WithinFreeze ==
    ASSUME GateInv, NEW i \in Jobs, NEW w, Moved(i, w), w.held = work[i].held, w.job = work[i].job,
           work[i].pc \in {"acquire", "drain"}, w.pc \in {"acquire", "drain", "frozen", "unfreeze"},
           w.pc = "frozen" /\ w.drained => \A c \in w.held : gate[c].inFlight = 0,
           UNCHANGED <<gate, member, alive, fence, dispatch, retention, eff>>
    PROVE  GateInv'
<1>1. /\ Dispatching(w) <=> Dispatching(work[i])
      /\ Reserved(w) <=> Reserved(work[i])
      /\ Ends(w) = Ends(work[i])
  BY DEF Dispatching, Reserved, Ends
<1> QED
  BY <1>1, GoesOn

\* An acquisition that is given up, by a refusal or at the deadline.
LEMMA GiveUpKeeps ==
    ASSUME GateInv, NEW i \in Jobs, work[i].pc = "acquire", GiveUp(i),
           UNCHANGED <<gate, member, alive, fence, dispatch, retention, eff>>
    PROVE  GateInv'
<1>1. IsWork(work[i]) /\ Local(work[i])
  BY DEF GateInv, Shapes, Locals
<1> DEFINE w == [work[i] EXCEPT !.pc = "unfreeze", !.waiting = FALSE, !.todo = {},
                    !.next = IF work[i].job.kind \in {"suspend", "activate"} THEN "detach" ELSE "done"]
<1>2. /\ IsWork(w) /\ w.pc = "unfreeze" /\ w.held = work[i].held /\ w.todo = {} /\ ~w.waiting
      /\ w.job = work[i].job
      /\ w.next = IF work[i].job.kind \in {"suspend", "activate"} THEN "detach" ELSE "done"
  BY <1>1 DEF IsWork, PCs
<1>3. work' = [work EXCEPT ![i] = w]
  BY DEF GiveUp
<1> HIDE DEF w
<1>4. Local(w) /\ Holds(w)
  BY <1>1, <1>2 DEF Local, Holds, IsWork, IsJob
<1>5. Moved(i, w)
  BY <1>2, <1>3, <1>4, WorkMoved DEF GateInv
<1> QED
  BY <1>2, <1>5, WithinFreeze

\* The next gate is another's: wait, or back out.
LEMMA BlockedKeeps ==
    ASSUME GateInv, NEW i \in Jobs, Blocked(i)
    PROVE  GateInv'
<1>1. IsWork(work[i]) /\ Local(work[i]) /\ Holds(work[i]) /\ work[i].pc = "acquire"
  BY DEF GateInv, Shapes, Locals, Blocked
<1>2. UNCHANGED <<gate, member, alive, fence, dispatch, retention, eff>>
  BY DEF Blocked
<1> DEFINE w == [work[i] EXCEPT !.waiting = TRUE]
<1>3. CASE work' = [work EXCEPT ![i].waiting = TRUE]
  <2>1. /\ IsWork(w) /\ w.pc = "acquire" /\ w.held = work[i].held /\ w.todo = work[i].todo
        /\ w.job = work[i].job /\ w.parts = work[i].parts /\ w.drained = work[i].drained
    BY <1>1 DEF IsWork
  <2>2. work' = [work EXCEPT ![i] = w]
    BY <1>3
  <2> HIDE DEF w
  <2>3. Local(w) /\ Holds(w)
    BY <1>1, <2>1 DEF Local, Holds
  <2>4. Moved(i, w)
    BY <2>1, <2>2, <2>3, WorkMoved DEF GateInv
  <2> QED
    BY <1>1, <1>2, <2>1, <2>4, WithinFreeze
<1>4. CASE GiveUp(i)
  BY <1>1, <1>2, <1>4, GiveUpKeeps
<1> QED
  BY <1>3, <1>4 DEF Blocked

\* Every gate is taken: the drain begins.
LEMMA AcquiredKeeps ==
    ASSUME GateInv, NEW i \in Jobs, Acquired(i)
    PROVE  GateInv'
<1>1. IsWork(work[i]) /\ Local(work[i]) /\ Holds(work[i]) /\ work[i].pc = "acquire" /\ work[i].todo = {}
  BY DEF GateInv, Shapes, Locals, Acquired
<1> DEFINE w == [work[i] EXCEPT !.pc = "drain"]
<1>2. /\ IsWork(w) /\ w.pc = "drain" /\ w.held = work[i].held /\ w.todo = {}
      /\ w.job = work[i].job /\ w.parts = work[i].parts /\ w.drained = work[i].drained
  BY <1>1 DEF IsWork, PCs
<1>3. work' = [work EXCEPT ![i] = w] /\ UNCHANGED <<gate, member, alive, fence, dispatch, retention, eff>>
  BY DEF Acquired
<1> HIDE DEF w
<1>4. Local(w) /\ Holds(w)
  BY <1>1, <1>2 DEF Local, Holds
<1>5. Moved(i, w)
  BY <1>2, <1>3, <1>4, WorkMoved DEF GateInv
<1> QED
  BY <1>1, <1>2, <1>3, <1>5, WithinFreeze

\* No admitted effect is left at the held gates.
LEMMA DrainedKeeps ==
    ASSUME GateInv, NEW i \in Jobs, Drained(i)
    PROVE  GateInv'
<1>1. IsWork(work[i]) /\ Local(work[i]) /\ Holds(work[i]) /\ work[i].pc = "drain"
  BY DEF GateInv, Shapes, Locals, Drained
<1> DEFINE w == [work[i] EXCEPT !.pc = "frozen", !.waiting = FALSE, !.drained = TRUE]
<1>2. /\ IsWork(w) /\ w.pc = "frozen" /\ w.held = work[i].held /\ w.todo = work[i].todo /\ ~w.waiting
      /\ w.job = work[i].job /\ w.parts = work[i].parts /\ w.drained
  BY <1>1 DEF IsWork, PCs
<1>3. work' = [work EXCEPT ![i] = w] /\ UNCHANGED <<gate, member, alive, fence, dispatch, retention, eff>>
  BY DEF Drained
<1> HIDE DEF w
<1>4. Local(w) /\ Holds(w)
  BY <1>1, <1>2 DEF Local, Holds
<1>5. Moved(i, w)
  BY <1>2, <1>3, <1>4, WorkMoved DEF GateInv
<1>6. \A c \in w.held : gate[c].inFlight = 0
  BY <1>2 DEF Drained, Busy
<1> QED
  BY <1>1, <1>2, <1>3, <1>5, <1>6, WithinFreeze

\* An admitted effect is waited for.
LEMMA DrainWaitsKeeps ==
    ASSUME GateInv, NEW i \in Jobs, DrainWaits(i)
    PROVE  GateInv'
<1>1. IsWork(work[i]) /\ Local(work[i]) /\ Holds(work[i]) /\ work[i].pc = "drain"
  BY DEF GateInv, Shapes, Locals, DrainWaits
<1> DEFINE w == [work[i] EXCEPT !.waiting = TRUE]
<1>2. /\ IsWork(w) /\ w.pc = "drain" /\ w.held = work[i].held /\ w.todo = work[i].todo
      /\ w.job = work[i].job /\ w.parts = work[i].parts /\ w.drained = work[i].drained
  BY <1>1 DEF IsWork
<1>3. work' = [work EXCEPT ![i] = w] /\ UNCHANGED <<gate, member, alive, fence, dispatch, retention, eff>>
  BY DEF DrainWaits
<1> HIDE DEF w
<1>4. Local(w) /\ Holds(w)
  BY <1>1, <1>2 DEF Local, Holds
<1>5. Moved(i, w)
  BY <1>2, <1>3, <1>4, WorkMoved DEF GateInv
<1> QED
  BY <1>1, <1>2, <1>3, <1>5, WithinFreeze

\* The deadline of a wait: the acquisition is given up, or the drain ends with
\* the gates frozen and effects still under way.
LEMMA DeadlineKeeps ==
    ASSUME GateInv, NEW i \in Jobs, Deadline(i)
    PROVE  GateInv'
<1>1. /\ IsWork(work[i]) /\ Local(work[i]) /\ Holds(work[i]) /\ work[i].waiting /\ Bounded(work[i].job)
      /\ work[i].pc \in {"acquire", "drain"}
  BY DEF GateInv, Shapes, Locals, Local, Deadline
<1>2. UNCHANGED <<gate, member, alive, fence, dispatch, retention, eff>>
  BY DEF Deadline
<1>3. CASE work[i].pc = "acquire"
  BY <1>2, <1>3, GiveUpKeeps DEF Deadline
<1>4. CASE work[i].pc = "drain"
  <2> DEFINE w == [work[i] EXCEPT !.pc = "frozen", !.waiting = FALSE]
  <2>1. /\ IsWork(w) /\ w.pc = "frozen" /\ w.held = work[i].held /\ w.todo = work[i].todo /\ ~w.waiting
        /\ w.job = work[i].job /\ w.parts = work[i].parts /\ ~w.drained
    BY <1>1, <1>4 DEF IsWork, PCs, Local
  <2>2. work' = [work EXCEPT ![i] = w]
    BY <1>4 DEF Deadline
  <2> HIDE DEF w
  <2>3. Local(w) /\ Holds(w)
    BY <1>1, <1>4, <2>1 DEF Local, Holds
  <2>4. Moved(i, w)
    BY <2>1, <2>2, <2>3, WorkMoved DEF GateInv
  <2> QED
    BY <1>1, <1>2, <2>1, <2>4, WithinFreeze
<1> QED
  BY <1>1, <1>3, <1>4

\* One gate changes.
LEMMA GateChanged ==
    ASSUME Shapes, NEW c \in Clients, NEW g, IsGate(g), gate' = [gate EXCEPT ![c] = g]
    PROVE  /\ gate' = [x \in Clients |-> gate'[x]] /\ gate'[c] = g
           /\ \A x \in Clients : x # c => gate'[x] = gate[x]
           /\ \A x \in Clients : IsGate(gate'[x])
BY DEF Shapes

\* The next gate is open, so nobody owns it: it is taken.
LEMMA AcquireKeeps ==
    ASSUME GateInv, NEW i \in Jobs, Acquire(i)
    PROVE  GateInv'
<1> USE DEF GateInv
<1>1. IsWork(work[i]) /\ Local(work[i]) /\ Holds(work[i]) /\ work[i].pc = "acquire"
  BY DEF Shapes, Locals, Acquire
<1>2. PICK c \in work[i].todo :
         /\ ~gate[c].frozen /\ gate' = [gate EXCEPT ![c].frozen = TRUE]
         /\ work' = [work EXCEPT ![i] = [@ EXCEPT !.todo = work[i].todo \ {c},
                                         !.held = work[i].held \cup {c}, !.waiting = FALSE]]
  BY DEF Acquire
<1>3. UNCHANGED <<member, alive, fence, dispatch, retention, eff>>
  BY DEF Acquire
<1>4. c \in Clients
  BY <1>1 DEF IsWork
<1> DEFINE w == [work[i] EXCEPT !.todo = work[i].todo \ {c}, !.held = work[i].held \cup {c}, !.waiting = FALSE]
           g == [gate[c] EXCEPT !.frozen = TRUE]
<1>5. /\ IsWork(w) /\ w.pc = "acquire" /\ w.held = work[i].held \cup {c} /\ w.todo = work[i].todo \ {c}
      /\ ~w.waiting /\ w.job = work[i].job /\ w.parts = work[i].parts /\ w.drained = work[i].drained
  BY <1>1, <1>4 DEF IsWork
<1>6. /\ IsGate(g) /\ g.frozen /\ g.inFlight = gate[c].inFlight /\ g.activity = gate[c].activity
      /\ g.cap = gate[c].cap /\ g.gen = gate[c].gen
  BY <1>4 DEF Shapes, IsGate
<1>7. work' = [work EXCEPT ![i] = w] /\ gate' = [gate EXCEPT ![c] = g]
  BY <1>2
<1> HIDE DEF w, g
<1>8. Local(w) /\ Holds(w)
  BY <1>1, <1>5 DEF Local, Holds
<1>9. Moved(i, w)
  BY <1>5, <1>7, <1>8, WorkMoved
<1>10. /\ gate' = [x \in Clients |-> gate'[x]] /\ gate'[c] = g
       /\ \A x \in Clients : x # c => gate'[x] = gate[x]
       /\ \A x \in Clients : IsGate(gate'[x])
  BY <1>4, <1>6, <1>7, GateChanged
<1>11. \A x \in Clients : /\ gate'[x].inFlight = gate[x].inFlight /\ gate'[x].activity = gate[x].activity
                          /\ gate'[x].cap = gate[x].cap /\ gate'[x].gen = gate[x].gen
  BY <1>6, <1>10
<1>12. Locals' /\ \A k \in Jobs : IsWork(work[k])'
  BY <1>9, LocalsKept
<1>13. Shapes'
  BY <1>3, <1>9, <1>10, <1>12 DEF Shapes, Moved
<1>14. Owners'
  <2>1. \A k \in Jobs : c \notin work[k].held /\ work[k].held \subseteq Clients
    BY <1>2 DEF Owners, Shapes, IsWork
  <2>2. \A k \in Jobs : work'[k].held = IF k = i THEN work[k].held \cup {c} ELSE work[k].held
    BY <1>5, <1>9 DEF Moved
  <2>3. \A k \in Jobs : \A x \in work'[k].held : gate'[x].frozen
    <3> TAKE k \in Jobs
    <3> TAKE x \in work'[k].held
    <3>1. CASE x = c
      BY <1>6, <1>10, <3>1
    <3>2. CASE x # c
      <4>1. x \in work[k].held /\ x \in Clients
        BY <2>1, <2>2, <3>2
      <4> QED
        BY <1>10, <3>2, <4>1 DEF Owners
    <3> QED
      BY <3>1, <3>2
  <2>4. \A k, l \in Jobs : \A x \in work'[k].held : x \in work'[l].held => k = l
    <3> TAKE k \in Jobs, l \in Jobs
    <3> TAKE x \in work'[k].held
    <3>1. CASE x = c
      BY <2>1, <2>2, <3>1
    <3>2. CASE x # c
      <4>1. x \in work[k].held /\ (x \in work'[l].held => x \in work[l].held)
        BY <2>2, <3>2
      <4> QED
        BY <4>1 DEF Owners
    <3> QED
      BY <3>1, <3>2
  <2>5. \A x \in Clients : gate'[x].frozen => \E k \in Jobs : x \in work'[k].held
    <3> TAKE x \in Clients
    <3>1. CASE x = c
      BY <2>2, <3>1
    <3>2. CASE x # c
      BY <1>10, <2>2, <3>2 DEF Owners
    <3> QED
      BY <3>1, <3>2
  <2> QED
    BY <2>3, <2>4, <2>5 DEF Owners
<1>15. Counted'
  <2>1. \A x \in Clients : Sends(w, x) <=> Sends(work[i], x)
    BY <1>1, <1>5 DEF Sends
  <2> QED
    BY <1>3, <1>9, <1>11, <2>1, CountKept
<1>16. Quiet'
  BY <1>5, <1>9, <1>11, QuietKept
<1>17. Acking'
  BY <1>3, <1>5, <1>9, <1>11, AckingKept
<1>18. Dispatch'
  <2>1. /\ Dispatching(w) <=> Dispatching(work[i])
        /\ Reserved(w) <=> Reserved(work[i])
        /\ Ends(w) = Ends(work[i])
    BY <1>1, <1>5 DEF Dispatching, Reserved, Ends
  <2> QED
    BY <1>3, <1>9, <2>1, DispatchKept
<1>19. Published' /\ RegisteredInLiveSession' /\ ExpiryPinsSuspension' /\ EffectsKeepAuthority'
  BY <1>3, <1>11, IdentityKept
<1>20. ReservationExcludesTeardown'
  BY <1>3 DEF ReservationExcludesTeardown
<1> QED
  BY <1>12, <1>13, <1>14, <1>15, <1>16, <1>17, <1>18, <1>19, <1>20

\* The last gate is opened again.
LEMMA UnfreezeKeeps ==
    ASSUME GateInv, NEW i \in Jobs, Unfreeze(i)
    PROVE  GateInv'
<1> USE DEF GateInv
<1>1. IsWork(work[i]) /\ Local(work[i]) /\ Holds(work[i]) /\ work[i].pc = "unfreeze"
  BY DEF Shapes, Locals, Unfreeze
<1>2. PICK c \in work[i].held :
         /\ gate' = [gate EXCEPT ![c].frozen = FALSE]
         /\ work' = [work EXCEPT ![i].held = @ \ {c}]
  BY DEF Unfreeze
<1>3. UNCHANGED <<member, alive, fence, dispatch, retention, eff>>
  BY DEF Unfreeze
<1>4. c \in Clients
  BY <1>1 DEF IsWork
<1> DEFINE w == [work[i] EXCEPT !.held = @ \ {c}]
           g == [gate[c] EXCEPT !.frozen = FALSE]
<1>5. /\ IsWork(w) /\ w.pc = "unfreeze" /\ w.held = work[i].held \ {c} /\ w.todo = work[i].todo
      /\ w.waiting = work[i].waiting /\ w.job = work[i].job /\ w.cap = work[i].cap /\ w.next = work[i].next
  BY <1>1, <1>4 DEF IsWork
<1>6. /\ IsGate(g) /\ ~g.frozen /\ g.inFlight = gate[c].inFlight /\ g.activity = gate[c].activity
      /\ g.cap = gate[c].cap /\ g.gen = gate[c].gen
  BY <1>4 DEF Shapes, IsGate
<1>7. work' = [work EXCEPT ![i] = w] /\ gate' = [gate EXCEPT ![c] = g]
  BY <1>2
<1> HIDE DEF w, g
<1>8. Local(w) /\ Holds(w)
  BY <1>1, <1>5 DEF Local, Holds
<1>9. Moved(i, w)
  BY <1>5, <1>7, <1>8, WorkMoved
<1>10. /\ gate' = [x \in Clients |-> gate'[x]] /\ gate'[c] = g
       /\ \A x \in Clients : x # c => gate'[x] = gate[x]
       /\ \A x \in Clients : IsGate(gate'[x])
  BY <1>4, <1>6, <1>7, GateChanged
<1>11. \A x \in Clients : /\ gate'[x].inFlight = gate[x].inFlight /\ gate'[x].activity = gate[x].activity
                          /\ gate'[x].cap = gate[x].cap /\ gate'[x].gen = gate[x].gen
  BY <1>6, <1>10
<1>12. Locals' /\ \A k \in Jobs : IsWork(work[k])'
  BY <1>9, LocalsKept
<1>13. Shapes'
  BY <1>3, <1>9, <1>10, <1>12 DEF Shapes, Moved
<1>14. Owners'
  <2>1. \A k \in Jobs : k # i => c \notin work[k].held
    BY <1>2 DEF Owners
  <2>2. \A k \in Jobs : /\ work'[k].held = IF k = i THEN work[k].held \ {c} ELSE work[k].held
                        /\ work[k].held \subseteq Clients
    BY <1>5, <1>9 DEF Moved, Shapes, IsWork
  <2>3. \A k \in Jobs : \A x \in work'[k].held : gate'[x].frozen
    BY <1>10, <2>1, <2>2 DEF Owners
  <2>4. \A k, l \in Jobs : \A x \in work'[k].held : x \in work'[l].held => k = l
    BY <2>2 DEF Owners
  <2>5. \A x \in Clients : gate'[x].frozen => \E k \in Jobs : x \in work'[k].held
    BY <1>6, <1>10, <2>2 DEF Owners
  <2> QED
    BY <2>3, <2>4, <2>5 DEF Owners
<1>15. Counted'
  <2>1. \A x \in Clients : Sends(w, x) <=> Sends(work[i], x)
    BY <1>1, <1>5 DEF Sends
  <2> QED
    BY <1>3, <1>9, <1>11, <2>1, CountKept
<1>16. Quiet'
  BY <1>5, <1>9, <1>11, QuietKept
<1>17. Acking'
  BY <1>3, <1>5, <1>9, <1>11, AckingKept
<1>18. Dispatch'
  <2>1. /\ Dispatching(w) <=> Dispatching(work[i])
        /\ Reserved(w) <=> Reserved(work[i])
        /\ Ends(w) = Ends(work[i])
    BY <1>1, <1>5 DEF Dispatching, Reserved, Ends
  <2> QED
    BY <1>3, <1>9, <2>1, DispatchKept
<1>19. Published' /\ RegisteredInLiveSession' /\ ExpiryPinsSuspension' /\ EffectsKeepAuthority'
  BY <1>3, <1>11, IdentityKept
<1>20. ReservationExcludesTeardown'
  BY <1>3 DEF ReservationExcludesTeardown
<1> QED
  BY <1>12, <1>13, <1>14, <1>15, <1>16, <1>17, <1>18, <1>19, <1>20

-----------------------------------------------------------------------------
(* Between two freezes, and the move reservations *)

\* The record of a goroutine between jobs.
LEMMA IdleWork ==
    /\ IsWork(Idle) /\ Local(Idle) /\ Holds(Idle)
    /\ Idle.pc = "idle" /\ Idle.held = {} /\ Idle.todo = {} /\ Idle.job.kind = "none" /\ ~Idle.waiting
<1>1. IsJob([kind |-> "none"])
  BY DEF IsJob
<1>2. /\ IsWork(Idle) /\ Idle.pc = "idle" /\ Idle.held = {} /\ Idle.todo = {}
      /\ Idle.job.kind = "none" /\ ~Idle.waiting
  BY <1>1, RetiredType DEF Idle, IsWork, PCs
<1> QED
  BY <1>2 DEF Local, Holds

\* The record of a goroutine that has run its job.
LEMMA DoneWork ==
    ASSUME NEW j, IsJob(j), NEW w,
           w = [Idle EXCEPT !.pc = "done", !.job = j] \/ w = [Idle EXCEPT !.pc = "done"]
    PROVE  IsWork(w) /\ Local(w) /\ Holds(w) /\ w.pc = "done" /\ w.held = {}
<1>1. IsWork(w) /\ w.pc = "done" /\ w.held = {} /\ w.todo = {} /\ ~w.waiting
  BY IdleWork DEF IsWork, PCs
<1> QED
  BY <1>1 DEF Local, Holds

\* A move ends: its reservation and its dispatch lock are given back together.
LEMMA DispatchReleased ==
    ASSUME Dispatch, NEW i \in Jobs, NEW w, Moved(i, w), Dispatching(work[i]), ~Dispatching(w),
           dispatch' = dispatch \ Ends(work[i]),
           \A s \in Sessions : fence'[s].moves =
               IF Reserved(work[i]) /\ s \in Ends(work[i]) THEN 0 ELSE fence[s].moves
    PROVE  Dispatch'
<1>1. \A k \in Jobs : Dispatching(work'[k]) => k # i /\ work'[k] = work[k] /\ Dispatching(work[k])
  BY DEF Moved
<1>2. \A k \in Jobs : Dispatching(work'[k]) => Ends(work'[k]) \subseteq dispatch'
  <2> SUFFICES ASSUME NEW k \in Jobs, Dispatching(work'[k])
               PROVE  Ends(work[k]) \subseteq dispatch \ Ends(work[i])
    BY <1>1
  <2> QED
    BY <1>1 DEF Dispatch
<1>3. \A k, l \in Jobs : Dispatching(work'[k]) /\ Dispatching(work'[l]) /\ k # l =>
          Ends(work'[k]) \cap Ends(work'[l]) = {}
  BY <1>1 DEF Dispatch
<1>4. \A k \in Jobs : /\ Reserved(work[k]) => Dispatching(work[k])
                      /\ Reserved(work'[k]) => Dispatching(work'[k])
  BY DEF Reserved, Dispatching
<1>5. ASSUME NEW s \in Sessions
      PROVE  fence'[s].moves = IF \E k \in Jobs : Reserved(work'[k]) /\ s \in Ends(work'[k]) THEN 1 ELSE 0
  <2>1. CASE Reserved(work[i]) /\ s \in Ends(work[i])
    <3>1. \A k \in Jobs : ~(Reserved(work'[k]) /\ s \in Ends(work'[k]))
      BY <1>1, <1>4, <2>1 DEF Dispatch
    <3> QED
      BY <2>1, <3>1
  <2>2. CASE ~(Reserved(work[i]) /\ s \in Ends(work[i]))
    <3>1. (\E k \in Jobs : Reserved(work'[k]) /\ s \in Ends(work'[k])) <=>
             (\E k \in Jobs : Reserved(work[k]) /\ s \in Ends(work[k]))
      BY <1>1, <1>4, <2>2 DEF Moved
    <3>2. fence'[s].moves = fence[s].moves
      BY <2>2
    <3> QED
      BY <3>1, <3>2 DEF Dispatch
  <2> QED
    BY <2>1, <2>2
<1> QED
  BY <1>2, <1>3, <1>5 DEF Dispatch

\* What follows the unfreeze: the next record of the goroutine is one its job
\* can be at, holds no gate and is not a move's.
LEMMA ContinueMoves ==
    ASSUME GateInv, NEW i \in Jobs, Continue(i)
    PROVE  \E w : /\ Moved(i, w) /\ w.held = {} /\ w.pc \in {"identity", "acquire", "idle", "done"}
                  /\ w.job.kind # "move" \/ w.pc = "done"
<1>1. /\ IsWork(work[i]) /\ Local(work[i]) /\ work[i].pc = "unfreeze" /\ work[i].held = {}
      /\ work[i].todo = {} /\ ~work[i].waiting
  BY DEF GateInv, Shapes, Locals, Local, Continue
<1>2. CASE work[i].next = "identity"
  <2> DEFINE j == [kind |-> "transition", c |-> work[i].job.c, s |-> work[i].cap.sess]
             w == [work[i] EXCEPT !.pc = "identity", !.job = j]
  <2>1. IsJob(j) /\ j.kind = "transition"
    BY <1>1, <1>2 DEF Local, IsJob
  <2>2. work' = [work EXCEPT ![i] = w]
    BY <1>2 DEF Continue
  <2> HIDE DEF j
  <2>3. IsWork(w) /\ w.held = {} /\ w.pc = "identity" /\ w.job = j /\ w.todo = {} /\ ~w.waiting
    BY <1>1, <2>1 DEF IsWork, PCs
  <2> HIDE DEF w
  <2>4. Local(w) /\ Holds(w)
    BY <2>1, <2>3 DEF Local, Holds
  <2> QED
    BY <2>1, <2>2, <2>3, <2>4, WorkMoved DEF GateInv
<1>3. CASE work[i].next = "detach"
  <2> DEFINE j == [kind |-> "detach", c |-> work[i].job.c]
             w == [work[i] EXCEPT !.pc = "acquire", !.todo = {work[i].job.c}, !.drained = FALSE,
                                  !.job = j, !.next = "done"]
  <2>1. IsJob(j) /\ j.kind = "detach" /\ j.c = work[i].job.c /\ j.c \in Clients
    BY <1>1, <1>3 DEF Local, IsJob
  <2>2. work' = [work EXCEPT ![i] = w]
    BY <1>3 DEF Continue
  <2> HIDE DEF j
  <2>3. /\ IsWork(w) /\ w.held = {} /\ w.pc = "acquire" /\ w.job = j /\ w.todo = {j.c}
        /\ ~w.waiting /\ ~w.drained
    BY <1>1, <2>1 DEF IsWork, PCs
  <2> HIDE DEF w
  <2>4. Local(w) /\ Holds(w)
    BY <2>1, <2>3 DEF Local, Holds, Wanted
  <2> QED
    BY <2>1, <2>2, <2>3, <2>4, WorkMoved DEF GateInv
<1>4. CASE work[i].next \notin {"identity", "detach"}
  <2>1. PICK w : /\ w = Idle \/ w = [Idle EXCEPT !.pc = "done"]
                 /\ work' = [work EXCEPT ![i] = w]
    BY <1>4 DEF Continue
  <2>2. IsWork(w) /\ Local(w) /\ Holds(w) /\ w.pc \in {"idle", "done"} /\ w.held = {}
    BY <1>1, <2>1, IdleWork, DoneWork DEF IsWork
  <2>3. w.pc = "idle" => w.job.kind = "none"
    BY <1>1, <2>1, IdleWork, DoneWork DEF IsWork
  <2> QED
    BY <2>1, <2>2, <2>3, WorkMoved DEF GateInv
<1> QED
  BY <1>2, <1>3, <1>4

\* The caller goes on: identity, detach, or the end of the job and what it reserved.
LEMMA ContinueKeeps ==
    ASSUME GateInv, NEW i \in Jobs, Continue(i)
    PROVE  GateInv'
<1>1. PICK w : /\ Moved(i, w) /\ w.held = {} /\ w.pc \in {"identity", "acquire", "idle", "done"}
               /\ w.job.kind # "move" \/ w.pc = "done"
  BY ContinueMoves
<1>2. /\ work[i].pc = "unfreeze" /\ work[i].held = {}
      /\ UNCHANGED <<gate, member, alive, retention, eff>> /\ IsWork(work[i])
  BY DEF Continue, GateInv, Shapes
<1>3. ~Dispatching(w) /\ ~Reserved(w)
  BY <1>1 DEF Dispatching, Reserved
<1>4. fence \in [Sessions -> [active : BOOLEAN, moves : Nat]] /\ dispatch \subseteq Sessions
  BY DEF GateInv, Shapes
<1>5. CASE work[i].job.kind = "move"
  <2>1. Dispatching(work[i]) /\ Reserved(work[i]) /\ dispatch' = dispatch \ Ends(work[i])
    BY <1>2, <1>5 DEF Continue, Dispatching, Reserved, Ends
  <2>2. fence' = [s \in Sessions |-> IF s \in Ends(work[i]) THEN [fence[s] EXCEPT !.moves = @ - 1] ELSE fence[s]]
    BY <1>5 DEF Continue, Ends
  <2>3. \A s \in Ends(work[i]) : s \in Sessions => fence[s].moves = 1
    BY <2>1 DEF GateInv, Dispatch
  <2>4. \A s \in Sessions : /\ fence'[s] \in [active : BOOLEAN, moves : Nat]
                            /\ fence'[s].active = fence[s].active
                            /\ fence'[s].moves = IF s \in Ends(work[i]) THEN 0 ELSE fence[s].moves
    BY <1>4, <2>2, <2>3
  <2>5. Dispatch'
    BY <1>1, <1>3, <2>1, <2>4, DispatchReleased DEF GateInv
  <2>6. ReservationExcludesTeardown'
    BY <2>4 DEF GateInv, ReservationExcludesTeardown
  <2>7. fence' \in [Sessions -> [active : BOOLEAN, moves : Nat]] /\ dispatch' \subseteq Sessions
    BY <1>4, <2>1, <2>2, <2>4
  <2> QED
    BY <1>1, <1>2, <2>5, <2>6, <2>7, FenceStep
<1>6. CASE work[i].job.kind # "move"
  <2>1. ~Dispatching(work[i]) /\ ~Reserved(work[i]) /\ dispatch' = dispatch
    BY <1>6 DEF Continue, Dispatching, Reserved
  <2>2. /\ fence' \in [Sessions -> [active : BOOLEAN, moves : Nat]]
        /\ \A s \in Sessions : fence'[s].moves = fence[s].moves /\ (fence'[s].active => fence[s].active)
    <3>1. CASE work[i].job.kind = "kill" /\ work[i].next = "closed"
      <4>1. fence' = [fence EXCEPT ![work[i].job.s].active = FALSE]
        BY <1>6, <3>1 DEF Continue
      <4> QED
        BY <1>4, <4>1
    <3>2. CASE ~(work[i].job.kind = "kill" /\ work[i].next = "closed")
      <4>1. fence' = fence
        BY <1>6, <3>2 DEF Continue
      <4> QED
        BY <1>4, <4>1
    <3> QED
      BY <3>1, <3>2
  <2>3. Dispatch'
    BY <1>1, <1>3, <2>1, <2>2, DispatchKept DEF GateInv
  <2>4. ReservationExcludesTeardown'
    BY <2>2 DEF GateInv, ReservationExcludesTeardown
  <2> QED
    BY <1>1, <1>2, <1>4, <2>1, <2>2, <2>3, <2>4, FenceStep
<1> QED
  BY <1>5, <1>6

\* lockMoveDispatch: the move is the only one in either session.
LEMMA StartMoveKeeps ==
    ASSUME GateInv, NEW i \in Jobs, StartMove(i)
    PROVE  GateInv'
<1>1. /\ IsWork(work[i]) /\ Local(work[i]) /\ work[i].pc = "idle" /\ work[i].job.kind = "move"
      /\ Ends(work[i]) \cap dispatch = {} /\ dispatch' = dispatch \cup Ends(work[i])
      /\ Ends(work[i]) \subseteq Sessions
  BY DEF GateInv, Shapes, Locals, StartMove, Ends, IsWork, IsJob
<1>2. UNCHANGED <<gate, member, alive, fence, retention, eff>>
  BY DEF StartMove
<1> DEFINE w == [work[i] EXCEPT !.pc = "reserve"]
<1>3. /\ IsWork(w) /\ w.pc = "reserve" /\ w.held = work[i].held /\ w.job = work[i].job /\ w.held = {}
      /\ w.todo = {} /\ ~w.waiting
  BY <1>1 DEF IsWork, PCs, Local
<1>4. work' = [work EXCEPT ![i] = w]
  BY DEF StartMove
<1> HIDE DEF w
<1>5. Local(w) /\ Holds(w)
  BY <1>1, <1>3 DEF Local, Holds
<1>6. Moved(i, w)
  BY <1>3, <1>4, <1>5, WorkMoved DEF GateInv
<1>7. Dispatch'
  <2>1. Ends(w) = Ends(work[i]) /\ ~Reserved(w) /\ ~Reserved(work[i])
    BY <1>1, <1>3 DEF Ends, Reserved
  <2>2. \A k \in Jobs : Dispatching(work'[k]) /\ k # i => /\ work'[k] = work[k]
                                                          /\ Ends(work[k]) \subseteq dispatch
    BY <1>6 DEF Moved, GateInv, Dispatch
  <2>3. work'[i] = w
    BY <1>6 DEF Moved
  <2>4. \A k \in Jobs : Dispatching(work'[k]) => Ends(work'[k]) \subseteq dispatch'
    BY <1>1, <2>1, <2>2, <2>3
  <2>5. \A k, l \in Jobs : Dispatching(work'[k]) /\ Dispatching(work'[l]) /\ k # l =>
            Ends(work'[k]) \cap Ends(work'[l]) = {}
    <3> TAKE k \in Jobs, l \in Jobs
    <3>1. CASE k = i
      BY <1>1, <2>1, <2>2, <2>3, <3>1
    <3>2. CASE l = i
      BY <1>1, <2>1, <2>2, <2>3, <3>2
    <3>3. CASE k # i /\ l # i
      BY <2>2, <3>3 DEF GateInv, Dispatch
    <3> QED
      BY <3>1, <3>2, <3>3
  <2>6. \A s \in Sessions : (\E k \in Jobs : Reserved(work'[k]) /\ s \in Ends(work'[k])) <=>
                               (\E k \in Jobs : Reserved(work[k]) /\ s \in Ends(work[k]))
    BY <1>6, <2>1 DEF Moved
  <2> QED
    BY <1>2, <2>4, <2>5, <2>6 DEF GateInv, Dispatch
<1>8. ReservationExcludesTeardown' /\ dispatch' \subseteq Sessions
  BY <1>1, <1>2 DEF GateInv, ReservationExcludesTeardown, Shapes
<1> QED
  BY <1>1, <1>2, <1>3, <1>6, <1>7, <1>8, FenceStep DEF GateInv, Shapes

\* reserveMoveLifecycles: under the dispatch lock the reservation is the only
\* one, so the counters are zero or one.
LEMMA ReserveMoveKeeps ==
    ASSUME GateInv, NEW i \in Jobs, ReserveMove(i)
    PROVE  GateInv'
<1>1. /\ IsWork(work[i]) /\ Local(work[i]) /\ work[i].pc = "reserve" /\ work[i].job.kind = "move"
      /\ work[i].held = {} /\ work[i].todo = {} /\ ~work[i].waiting
      /\ UNCHANGED <<gate, member, alive, retention, eff>>
  BY DEF GateInv, Shapes, Locals, Local, ReserveMove
<1>2. fence \in [Sessions -> [active : BOOLEAN, moves : Nat]] /\ dispatch \subseteq Sessions
  BY DEF GateInv, Shapes
<1>3. Dispatching(work[i]) /\ ~Reserved(work[i])
  BY <1>1 DEF Dispatching, Reserved
<1>4. CASE \E s \in Ends(work[i]) : fence[s].active
  <2>1. PICK w : w = [Idle EXCEPT !.pc = "done", !.job = work[i].job] /\ work' = [work EXCEPT ![i] = w]
    BY <1>4 DEF ReserveMove, Ends
  <2>2. dispatch' = dispatch \ Ends(work[i]) /\ UNCHANGED fence
    BY <1>4 DEF ReserveMove, Ends
  <2>3. IsWork(w) /\ Local(w) /\ Holds(w) /\ w.pc = "done" /\ w.held = {}
    BY <1>1, <2>1, DoneWork DEF IsWork
  <2>4. Moved(i, w) /\ ~Dispatching(w)
    BY <2>1, <2>3, WorkMoved DEF GateInv, Dispatching
  <2>5. Dispatch'
    BY <1>3, <2>2, <2>4, DispatchReleased DEF GateInv
  <2>6. ReservationExcludesTeardown'
    BY <2>2 DEF GateInv, ReservationExcludesTeardown
  <2> QED
    BY <1>1, <1>2, <2>2, <2>3, <2>4, <2>5, <2>6, FenceStep
<1>5. CASE ~\E s \in Ends(work[i]) : fence[s].active
  <2> DEFINE w == [work[i] EXCEPT !.pc = "admit"]
  <2>1. work' = [work EXCEPT ![i] = w] /\ UNCHANGED dispatch
    BY <1>5 DEF ReserveMove, Ends
  <2>2. fence' = [s \in Sessions |-> IF s \in Ends(work[i]) THEN [fence[s] EXCEPT !.moves = @ + 1] ELSE fence[s]]
    BY <1>5 DEF ReserveMove, Ends
  <2>3. /\ IsWork(w) /\ w.pc = "admit" /\ w.held = {} /\ w.todo = {} /\ w.job = work[i].job /\ ~w.waiting
    BY <1>1 DEF IsWork, PCs
  <2> HIDE DEF w
  <2>4. Local(w) /\ Holds(w)
    BY <1>1, <2>3 DEF Local, Holds
  <2>5. Moved(i, w) /\ Dispatching(w) /\ Reserved(w) /\ Ends(w) = Ends(work[i])
    BY <1>1, <2>1, <2>3, <2>4, WorkMoved DEF GateInv, Dispatching, Reserved, Ends
  <2>6. \A k \in Jobs : /\ Dispatching(work'[k]) <=> Dispatching(work[k])
                        /\ Reserved(work[k]) => Dispatching(work[k])
                        /\ Ends(work'[k]) = Ends(work[k])
                        /\ Reserved(work'[k]) <=> Reserved(work[k]) \/ k = i
    BY <1>3, <2>5 DEF Moved, Dispatching, Reserved
  <2>7. \A s \in Sessions : /\ fence'[s] \in [active : BOOLEAN, moves : Nat]
                            /\ fence'[s].active = fence[s].active
                            /\ fence'[s].moves = IF s \in Ends(work[i]) THEN fence[s].moves + 1 ELSE fence[s].moves
    BY <1>2, <2>2
  <2>8. ASSUME NEW s \in Sessions
        PROVE  fence'[s].moves = IF \E k \in Jobs : Reserved(work'[k]) /\ s \in Ends(work'[k]) THEN 1 ELSE 0
    <3>1. CASE s \in Ends(work[i])
      <4>1. \A k \in Jobs : ~(Reserved(work[k]) /\ s \in Ends(work[k]))
        BY <1>3, <2>6, <3>1 DEF GateInv, Dispatch
      <4>2. fence[s].moves = 0
        BY <4>1 DEF GateInv, Dispatch
      <4> QED
        BY <2>6, <2>7, <3>1, <4>2
    <3>2. CASE s \notin Ends(work[i])
      <4>1. (\E k \in Jobs : Reserved(work'[k]) /\ s \in Ends(work'[k])) <=>
               (\E k \in Jobs : Reserved(work[k]) /\ s \in Ends(work[k]))
        BY <2>6, <3>2
      <4> QED
        BY <2>7, <3>2, <4>1 DEF GateInv, Dispatch
    <3> QED
      BY <3>1, <3>2
  <2>9. Dispatch'
    BY <2>1, <2>6, <2>8 DEF GateInv, Dispatch
  <2>10. ReservationExcludesTeardown'
    BY <1>5, <2>7 DEF GateInv, ReservationExcludesTeardown
  <2>11. fence' \in [Sessions -> [active : BOOLEAN, moves : Nat]]
    BY <2>2, <2>7
  <2> QED
    BY <1>1, <1>2, <2>1, <2>3, <2>5, <2>9, <2>10, <2>11, FenceStep
<1> QED
  BY <1>4, <1>5

\* The expiry watcher starts its freeze.
LEMMA ExpiryFiresKeeps ==
    ASSUME GateInv, NEW c \in Clients, ExpiryFires(c)
    PROVE  GateInv'
<1> DEFINE j == [kind |-> "expire", c |-> c]
           w == [Idle EXCEPT !.pc = "acquire", !.todo = {c}, !.cap = retention[c], !.job = j]
<1>1. c \in Jobs /\ IsWork(work[c]) /\ Local(work[c]) /\ work[c].pc = "idle" /\ work[c].held = {}
  BY DEF GateInv, Shapes, Locals, Local, ExpiryFires, Jobs
<1>2. work' = [work EXCEPT ![c] = w] /\ UNCHANGED <<gate, member, alive, fence, dispatch, retention, eff>>
  BY DEF ExpiryFires
<1>3. IsJob(j) /\ j.kind = "expire" /\ j.c = c
  BY DEF IsJob
<1> HIDE DEF j
<1>4. /\ IsWork(w) /\ w.held = {} /\ w.todo = {c} /\ w.job = j /\ w.pc = "acquire" /\ ~w.waiting /\ ~w.drained
  <2>1. retention[c] \in Capabilities
    BY DEF GateInv, Shapes
  <2> QED
    BY <1>3, <2>1, IdleWork DEF IsWork, PCs, Idle
<1> HIDE DEF w
<1>5. Local(w) /\ Holds(w)
  BY <1>3, <1>4 DEF Local, Holds, Wanted
<1>6. Moved(c, w)
  BY <1>1, <1>2, <1>4, <1>5, WorkMoved DEF GateInv
<1>7. ~Dispatching(w) /\ ~Dispatching(work[c]) /\ ~Reserved(w) /\ ~Reserved(work[c])
  BY <1>1, <1>3, <1>4 DEF Dispatching, Reserved
<1> QED
  BY <1>1, <1>2, <1>4, <1>6, <1>7, GoesOn

-----------------------------------------------------------------------------
(* The kill up to its publication, and the acknowledgement of a suspension *)

\* The kill compares its snapshot before it asks for the teardown.
LEMMA KillFrozenKeeps ==
    ASSUME GateInv, NEW i \in Jobs, KillFrozen(i)
    PROVE  GateInv'
<1>1. /\ IsWork(work[i]) /\ Local(work[i]) /\ Holds(work[i]) /\ work[i].pc = "frozen"
      /\ work[i].job.kind = "kill" /\ ~work[i].waiting /\ work[i].todo = {}
      /\ UNCHANGED <<gate, member, alive, fence, dispatch, retention, eff>>
  BY DEF GateInv, Shapes, Locals, Local, KillFrozen
<1>2. PICK w : /\ Moved(i, w) /\ w.pc \in {"own", "unfreeze"} /\ w.held = work[i].held /\ w.job = work[i].job
  <2>1. CASE work' = [work EXCEPT ![i].pc = "own"]
    <3> DEFINE w == [work[i] EXCEPT !.pc = "own"]
    <3>1. /\ IsWork(w) /\ w.pc = "own" /\ w.held = work[i].held /\ w.job = work[i].job /\ w.todo = {}
          /\ w.parts = work[i].parts /\ ~w.waiting
      BY <1>1 DEF IsWork, PCs
    <3>2. work' = [work EXCEPT ![i] = w]
      BY <2>1
    <3> HIDE DEF w
    <3>3. Local(w) /\ Holds(w)
      BY <1>1, <3>1 DEF Local, Holds
    <3> QED
      BY <3>1, <3>2, <3>3, WorkMoved DEF GateInv
  <2>2. CASE Leave(i, "done")
    BY <1>1, <2>2, LeaveMoves
  <2> QED
    BY <2>1, <2>2 DEF KillFrozen
<1>3. ~Dispatching(w) /\ ~Dispatching(work[i]) /\ ~Reserved(w) /\ ~Reserved(work[i])
  BY <1>1, <1>2 DEF Dispatching, Reserved
<1> QED
  BY <1>1, <1>2, <1>3, GoesOn

\* The teardown owns the session only when no move has reserved it.
LEMMA OwnTeardownKeeps ==
    ASSUME GateInv, NEW i \in Jobs, OwnTeardown(i)
    PROVE  GateInv'
<1>1. /\ IsWork(work[i]) /\ Local(work[i]) /\ Holds(work[i]) /\ work[i].pc = "own"
      /\ work[i].job.kind = "kill" /\ ~work[i].waiting /\ work[i].todo = {} /\ work[i].job.s \in Sessions
      /\ UNCHANGED <<gate, member, alive, dispatch, retention, eff>>
      /\ fence[work[i].job.s].moves = 0 /\ fence' = [fence EXCEPT ![work[i].job.s].active = TRUE]
  BY DEF GateInv, Shapes, Locals, Local, OwnTeardown, IsWork, IsJob
<1> DEFINE w == [work[i] EXCEPT !.pc = "teardown"]
<1>2. /\ IsWork(w) /\ w.pc = "teardown" /\ w.held = work[i].held /\ w.job = work[i].job /\ w.todo = {}
      /\ w.parts = work[i].parts /\ ~w.waiting
  BY <1>1 DEF IsWork, PCs
<1>3. work' = [work EXCEPT ![i] = w]
  BY DEF OwnTeardown
<1> HIDE DEF w
<1>4. Local(w) /\ Holds(w)
  BY <1>1, <1>2 DEF Local, Holds
<1>5. Moved(i, w)
  BY <1>2, <1>3, <1>4, WorkMoved DEF GateInv
<1>6. fence \in [Sessions -> [active : BOOLEAN, moves : Nat]] /\ dispatch \subseteq Sessions
  BY DEF GateInv, Shapes
<1>7. /\ fence' \in [Sessions -> [active : BOOLEAN, moves : Nat]]
      /\ \A s \in Sessions : /\ fence'[s].moves = fence[s].moves
                             /\ s # work[i].job.s => fence'[s] = fence[s]
  BY <1>1, <1>6
<1>8. ~Dispatching(w) /\ ~Dispatching(work[i]) /\ ~Reserved(w) /\ ~Reserved(work[i])
  BY <1>1, <1>2 DEF Dispatching, Reserved
<1>9. Dispatch'
  BY <1>1, <1>5, <1>7, <1>8, DispatchKept DEF GateInv
<1>10. ReservationExcludesTeardown'
  BY <1>1, <1>7 DEF GateInv, ReservationExcludesTeardown
<1> QED
  BY <1>1, <1>2, <1>5, <1>6, <1>7, <1>9, <1>10, FenceStep

\* The safety expiry is armed with the capability of the suspension, whose gate
\* the suspension still holds; or the acknowledgement fails.
LEMMA AckSuspendKeeps ==
    ASSUME GateInv, NEW i \in Jobs, AckSuspend(i)
    PROVE  GateInv'
<1> DEFINE c == work[i].job.c
<1>1. /\ work[i].pc = "acking" /\ ~work[i].waiting
      /\ UNCHANGED <<gate, member, alive, fence, dispatch, eff>>
      /\ work[i].job.kind = "suspend" /\ c \in Clients
  BY DEF GateInv, Shapes, Locals, Local, AckSuspend, IsWork, IsJob
<1>2. gate[c].activity = "suspended" /\ member[c] # NoSession
  BY <1>1 DEF GateInv, Acking
<1>3. PICK w : Moved(i, w) /\ w.pc = "unfreeze" /\ w.held = work[i].held /\ w.job = work[i].job
  <2>1. Leave(i, "done") \/ Leave(i, "detach")
    BY DEF AckSuspend
  <2> QED
    BY <1>1, <2>1, LeaveMoves
<1>4. retention' = [retention EXCEPT ![c] = Capability(c)] \/ retention' = retention
  BY DEF AckSuspend
<1>5. /\ retention' \in [Clients -> Capabilities]
      /\ \A x \in Clients : retention'[x] = retention[x] \/ (x = c /\ retention'[x] = Capability(c))
  BY <1>1, <1>4, CapabilityType DEF GateInv, Shapes
<1> HIDE DEF c
<1> USE DEF GateInv
<1>6. Locals' /\ \A k \in Jobs : IsWork(work[k])'
  BY <1>3, LocalsKept
<1>7. Shapes'
  BY <1>1, <1>3, <1>5, <1>6 DEF Shapes, Moved
<1>8. Owners'
  BY <1>1, <1>3, OwnersKept
<1>9. Counted'
  <2>1. \A x \in Clients : Sends(w, x) <=> Sends(work[i], x)
    BY <1>1, <1>3 DEF Sends
  <2> QED
    BY <1>1, <1>3, <2>1, CountKept
<1>10. Quiet'
  BY <1>1, <1>3, QuietKept
<1>11. Acking'
  BY <1>1, <1>3, AckingKept
<1>12. Dispatch' /\ ReservationExcludesTeardown'
  <2>1. ~Dispatching(w) /\ ~Dispatching(work[i]) /\ ~Reserved(w) /\ ~Reserved(work[i])
    BY <1>1, <1>3 DEF Dispatching, Reserved
  <2> QED
    BY <1>1, <1>3, <2>1, DispatchKept DEF ReservationExcludesTeardown
<1>13. ExpiryPinsSuspension'
  <2>1. Capability(c).sess = member[c] /\ \A x \in Clients : Capability(x)' = Capability(x)
    BY <1>1 DEF Capability
  <2> QED
    BY <1>1, <1>2, <1>5, <2>1 DEF ExpiryPinsSuspension, Current
<1>14. Published' /\ RegisteredInLiveSession' /\ EffectsKeepAuthority'
  BY <1>1 DEF Published, RegisteredInLiveSession, EffectsKeepAuthority, Capability
<1> QED
  BY <1>6, <1>7, <1>8, <1>9, <1>10, <1>11, <1>12, <1>13, <1>14

-----------------------------------------------------------------------------
(* Publication *)

\* What a publication does to the gates.
LEMMA PublishGate ==
    ASSUME NEW g, g = [x \in Clients |-> g[x]], \A x \in Clients : IsGate(g[x]),
           NEW c \in Clients, NEW s \in Sessions, NEW h, h = Publish(g, c, s)
    PROVE  /\ h = [x \in Clients |-> h[x]] /\ \A x \in Clients : IsGate(h[x])
           /\ \A x \in Clients : x # c => h[x] = g[x]
           /\ h[c].gen = g[c].gen + 1 /\ h[c].cap = [sess |-> s, gen |-> g[c].gen + 1]
           /\ h[c].frozen = g[c].frozen /\ h[c].inFlight = g[c].inFlight /\ h[c].activity = g[c].activity
<1>1. PICK n, cap, a : n = g[c].gen + 1 /\ cap = [sess |-> s, gen |-> n] /\ a = g[c]
  OBVIOUS
<1>2. n \in Nat /\ cap \in Capabilities /\ IsGate(a)
  BY <1>1 DEF IsGate, Capabilities
<1>3. PICK r : r = [a EXCEPT !.gen = n, !.cap = cap]
  OBVIOUS
<1>4. /\ IsGate(r) /\ r.gen = n /\ r.cap = cap
      /\ r.frozen = a.frozen /\ r.inFlight = a.inFlight /\ r.activity = a.activity
  BY <1>2, <1>3 DEF IsGate
<1>5. h = [g EXCEPT ![c] = r]
  BY <1>1, <1>3 DEF Publish
<1> QED
  BY <1>1, <1>4, <1>5

\* What an invalidation does to them.
LEMMA InvalidateGates ==
    ASSUME NEW g, \A x \in Clients : IsGate(g[x]), NEW cs, NEW h, h = Invalidate(g, cs)
    PROVE  /\ h = [x \in Clients |-> h[x]] /\ \A x \in Clients : IsGate(h[x])
           /\ \A x \in Clients : x \notin cs => h[x] = g[x]
           /\ \A x \in Clients \cap cs :
                 /\ h[x].gen = g[x].gen + 1 /\ h[x].cap = Retired
                 /\ h[x].frozen = g[x].frozen /\ h[x].inFlight = g[x].inFlight /\ h[x].activity = g[x].activity
<1>1. ASSUME NEW x \in Clients, NEW r, r = [g[x] EXCEPT !.gen = @ + 1, !.cap = Retired]
      PROVE  /\ IsGate(r) /\ r.gen = g[x].gen + 1 /\ r.cap = Retired
             /\ r.frozen = g[x].frozen /\ r.inFlight = g[x].inFlight /\ r.activity = g[x].activity
  <2>1. PICK a, n : a = g[x] /\ n = g[x].gen + 1
    OBVIOUS
  <2>2. IsGate(a) /\ n \in Nat /\ r = [a EXCEPT !.gen = n, !.cap = Retired]
    BY <1>1, <2>1 DEF IsGate
  <2> QED
    BY <2>1, <2>2, RetiredType DEF IsGate
<1>2. h = [x \in Clients |-> h[x]] /\ \A x \in Clients : x \notin cs => h[x] = g[x]
  BY DEF Invalidate
<1>3. \A x \in Clients \cap cs : h[x] = [g[x] EXCEPT !.gen = @ + 1, !.cap = Retired]
  BY DEF Invalidate
<1>4. ASSUME NEW x \in Clients \cap cs
      PROVE  /\ IsGate(h[x]) /\ h[x].gen = g[x].gen + 1 /\ h[x].cap = Retired
             /\ h[x].frozen = g[x].frozen /\ h[x].inFlight = g[x].inFlight /\ h[x].activity = g[x].activity
  BY <1>1, <1>3, <1>4
<1> QED
  BY <1>2, <1>4

\* Each capability is as it was, or is the one just registered.
LEMMA PublishedKept ==
    ASSUME Published,
           \A x \in Clients :
               \/ gate'[x].cap = gate[x].cap /\ gate'[x].gen = gate[x].gen /\ member'[x] = member[x]
               \/ gate'[x].cap = IF member'[x] = NoSession THEN Retired
                                 ELSE [sess |-> member'[x], gen |-> gate'[x].gen]
    PROVE  Published'
BY DEF Published, Capability

\* Each expiry is cleared, or its suspension is as it was.
LEMMA ExpiryKept ==
    ASSUME ExpiryPinsSuspension,
           \A x \in Clients :
               \/ retention'[x] = Retired
               \/ /\ retention'[x] = retention[x] /\ gate'[x].activity = gate[x].activity
                  /\ gate'[x].gen = gate[x].gen /\ member'[x] = member[x]
    PROVE  ExpiryPinsSuspension'
BY DEF ExpiryPinsSuspension, Current, Capability

\* A gate whose drain finished has no admitted effect to take authority from.
LEMMA AuthorityKept ==
    ASSUME Shapes, Seen, EffectsKeepAuthority, UNCHANGED eff, alive' \subseteq alive,
           \A c \in Clients : gate'[c].cap = gate[c].cap \/ gate[c].inFlight = 0
    PROVE  EffectsKeepAuthority'
<1> SUFFICES ASSUME NEW e \in Effects, eff[e].pc = "admitted"
             PROVE  \/ gate'[eff[e].c].cap = eff[e].cap
                    \/ gate'[eff[e].c].cap = Retired /\ eff[e].cap.sess \notin alive'
  BY DEF EffectsKeepAuthority
<1>1. PICK c \in Clients : c = eff[e].c
  BY DEF Shapes
<1>2. gate'[c].cap = gate[c].cap
  BY <1>1 DEF Seen
<1> QED
  BY <1>1, <1>2 DEF EffectsKeepAuthority

\* A step that publishes at gates its job holds.
LEMMA PublicationStep ==
    ASSUME GateInv, NEW i \in Jobs, NEW w, Moved(i, w), w.held = work[i].held, w.pc # "frozen",
           w.pc = "acking" => gate'[w.job.c].activity = "suspended" /\ member'[w.job.c] # NoSession,
           w.pc = "activating" => gate'[w.job.c].activity = "activating",
           UNCHANGED eff, gate' = [c \in Clients |-> gate'[c]],
           \A c \in Clients :
               /\ IsGate(gate'[c]) /\ gate'[c].frozen = gate[c].frozen
               /\ c \notin work[i].held => gate'[c] = gate[c] /\ member'[c] = member[c],
           member' \in [Clients -> Sessions \cup {NoSession}], alive' \subseteq alive,
           retention' \in [Clients -> Capabilities],
           dispatch' \subseteq Sessions, fence' \in [Sessions -> [active : BOOLEAN, moves : Nat]],
           Counted', Dispatch', ReservationExcludesTeardown',
           Published', RegisteredInLiveSession', ExpiryPinsSuspension', EffectsKeepAuthority'
    PROVE  GateInv'
<1> USE DEF GateInv
<1>1. Locals' /\ \A k \in Jobs : IsWork(work[k])'
  BY LocalsKept
<1>2. Shapes'
  BY <1>1 DEF Shapes, Moved
<1>3. Owners'
  BY OwnersKept
<1>4. Quiet'
  BY QuietKept
<1>5. Acking'
  BY AckingKept
<1> QED
  BY <1>1, <1>2, <1>3, <1>4, <1>5

\* A job that may not publish leaves everything as it was.
LEMMA LeaveKeeps ==
    ASSUME GateInv, NEW i \in Jobs, NEW next \in {"done", "detach"}, Leave(i, next),
           work[i].pc = "frozen", next = "detach" => work[i].job.c \in Clients,
           UNCHANGED <<gate, member, alive, fence, dispatch, retention, eff>>
    PROVE  GateInv'
<1>1. ~work[i].waiting
  BY DEF GateInv, Locals, Local
<1>2. PICK w : Moved(i, w) /\ w.pc = "unfreeze" /\ w.held = work[i].held /\ w.job = work[i].job
  BY <1>1, LeaveMoves
<1>3. /\ Dispatching(w) <=> Dispatching(work[i])
      /\ Reserved(w) <=> Reserved(work[i])
      /\ Ends(w) = Ends(work[i])
  BY <1>2 DEF Dispatching, Reserved, Ends
<1> QED
  BY <1>2, <1>3, GoesOn

\* What a job holds once it is frozen.
LEMMA FrozenHolds ==
    ASSUME GateInv, NEW i \in Jobs, work[i].pc = "frozen", work[i].job.kind \notin {"none", "kill", "move"}
    PROVE  /\ work[i].job.c \in Clients /\ work[i].held = {work[i].job.c} /\ work[i].todo = {}
           /\ ~work[i].waiting /\ IsWork(work[i]) /\ Local(work[i])
           /\ work[i].drained => gate[work[i].job.c].inFlight = 0
<1>1. /\ work[i].job.c \in Clients /\ ~work[i].waiting /\ IsWork(work[i]) /\ Local(work[i])
      /\ work[i].todo = {}
  BY DEF GateInv, Shapes, Locals, Local, IsWork, IsJob
<1>2. work[i].held = {work[i].job.c}
  BY <1>1 DEF GateInv, Locals, Holds, Wanted
<1> QED
  BY <1>1, <1>2 DEF GateInv, Quiet

\* attach, rebind and session switch: the drained gate publishes the next
\* capability with the registration in a live session.
LEMMA PublishTransitionKeeps ==
    ASSUME GateInv, Seen, NEW i \in Jobs, PublishTransition(i)
    PROVE  GateInv'
<1>0. PICK c, s : c = work[i].job.c /\ s = work[i].job.s
  OBVIOUS
<1>1. /\ work[i].pc = "frozen" /\ work[i].job.kind = "transition"
      /\ UNCHANGED <<alive, fence, dispatch, retention, eff>>
  BY DEF PublishTransition
<1>2. /\ c \in Clients /\ work[i].held = {c} /\ work[i].todo = {} /\ ~work[i].waiting
      /\ IsWork(work[i]) /\ Local(work[i])
  BY <1>0, <1>1, FrozenHolds
<1>3. gate[c].inFlight = 0
  BY <1>0, <1>1, <1>2, FrozenHolds DEF Local, Bounded
<1>4. /\ \A x \in Clients : IsGate(gate[x])
      /\ gate = [x \in Clients |-> gate[x]] /\ member \in [Clients -> Sessions \cup {NoSession}]
  BY DEF GateInv, Shapes
<1> DEFINE ok == /\ gate[c].activity = "active" /\ s \in alive
                 /\ work[i].cap.sess # NoSession => Current(c, work[i].cap)
<1>5. PICK cap, next : /\ cap = (IF ok THEN [sess |-> s, gen |-> gate[c].gen + 1] ELSE work[i].cap)
                       /\ next = (IF ok /\ work[i].cap.sess # NoSession THEN "identity" ELSE "done")
  OBVIOUS
<1>6. PICK w : w = [work[i] EXCEPT !.pc = "unfreeze", !.cap = cap, !.next = next]
  OBVIOUS
<1>7. work' = [work EXCEPT ![i] = w]
  BY <1>0, <1>5, <1>6 DEF PublishTransition
<1>8. /\ gate' = IF ok THEN Publish(gate, c, s) ELSE gate
      /\ member' = IF ok THEN [member EXCEPT ![c] = s] ELSE member
  BY <1>0 DEF PublishTransition
<1>9. ok => s \in Sessions /\ s # NoSession /\ gate[c].activity = "active" /\ s \in alive
  BY ConstantsAssumption DEF GateInv, Shapes
<1> HIDE DEF ok
<1>10. cap \in Capabilities /\ next \in {"done", "identity"} /\ (next = "identity" => cap.sess \in Sessions)
  BY <1>2, <1>4, <1>5, <1>9 DEF IsWork, IsGate, Capabilities
<1>11. /\ IsWork(w) /\ w.pc = "unfreeze" /\ w.cap = cap /\ w.next = next /\ w.job = work[i].job
       /\ w.held = work[i].held /\ w.todo = {} /\ ~w.waiting
  BY <1>2, <1>6, <1>10 DEF IsWork, PCs
<1>12. Local(w) /\ Holds(w)
  BY <1>0, <1>2, <1>10, <1>11 DEF Local, Holds
<1>13. Moved(i, w)
  BY <1>7, <1>11, <1>12, WorkMoved DEF GateInv
<1>14. ~Dispatching(w) /\ ~Dispatching(work[i]) /\ ~Reserved(w) /\ ~Reserved(work[i])
  BY <1>1, <1>11 DEF Dispatching, Reserved
<1>15. CASE ~ok
  BY <1>1, <1>8, <1>11, <1>13, <1>14, <1>15, GoesOn
<1>16. CASE ok
  <2>1. /\ gate' = [x \in Clients |-> gate'[x]] /\ \A x \in Clients : IsGate(gate'[x])
        /\ \A x \in Clients : x # c => gate'[x] = gate[x]
        /\ gate'[c].gen = gate[c].gen + 1 /\ gate'[c].cap = [sess |-> s, gen |-> gate[c].gen + 1]
        /\ gate'[c].frozen = gate[c].frozen /\ gate'[c].inFlight = gate[c].inFlight
        /\ gate'[c].activity = gate[c].activity
    BY <1>2, <1>4, <1>8, <1>9, <1>16, PublishGate
  <2>2. /\ member' \in [Clients -> Sessions \cup {NoSession}] /\ member'[c] = s
        /\ \A x \in Clients : x # c => member'[x] = member[x]
    BY <1>2, <1>4, <1>8, <1>9, <1>16
  <2>3. \A x \in Clients : ~Sends(w, x) /\ ~Sends(work[i], x)
    BY <1>1, <1>11 DEF Sends
  <2>4. \A x \in Clients : gate'[x].inFlight = gate[x].inFlight /\ gate'[x].frozen = gate[x].frozen
    BY <2>1
  <2>5. Counted'
    BY <1>1, <1>13, <2>3, <2>4, CountKept DEF GateInv
  <2>6. Dispatch' /\ ReservationExcludesTeardown'
    BY <1>1, <1>13, <1>14, DispatchKept DEF GateInv, ReservationExcludesTeardown
  <2>7. Published'
    BY <1>9, <1>16, <2>1, <2>2, PublishedKept DEF GateInv
  <2>8. RegisteredInLiveSession'
    BY <1>1, <1>9, <1>16, <2>2 DEF GateInv, RegisteredInLiveSession
  <2>9. retention[c] = Retired
    BY <1>2, <1>9, <1>16 DEF GateInv, ExpiryPinsSuspension
  <2>10. ExpiryPinsSuspension'
    BY <1>1, <2>1, <2>2, <2>9, ExpiryKept DEF GateInv
  <2>11. EffectsKeepAuthority'
    BY <1>1, <1>3, <2>1, AuthorityKept DEF GateInv
  <2> QED
    BY <1>1, <1>2, <1>11, <1>13, <2>1, <2>2, <2>4, <2>5, <2>6, <2>7, <2>8, <2>10, <2>11, PublicationStep
       DEF GateInv, Shapes
<1> QED
  BY <1>15, <1>16

\* One attachment loses its registration, capability and expiry together.
Detached(c) ==
    /\ gate' = Invalidate(gate, {c}) /\ member' = [member EXCEPT ![c] = NoSession]
    /\ retention' = [retention EXCEPT ![c] = Retired]

\* The gate is drained, so no admitted effect loses its capability.
LEMMA DetachStep ==
    ASSUME GateInv, Seen, NEW i \in Jobs, NEW c, c = work[i].job.c, work[i].pc = "frozen", work[i].drained,
           work[i].job.kind \notin {"none", "kill", "move"}, Leave(i, "done"),
           Detached(c), UNCHANGED <<alive, fence, dispatch, eff>>
    PROVE  GateInv'
<1>1. c \in Clients /\ work[i].held = {c} /\ ~work[i].waiting /\ gate[c].inFlight = 0
  BY FrozenHolds
<1>2. /\ \A x \in Clients : IsGate(gate[x])
      /\ member \in [Clients -> Sessions \cup {NoSession}]
      /\ retention \in [Clients -> Capabilities]
      /\ dispatch' \subseteq Sessions /\ fence' \in [Sessions -> [active : BOOLEAN, moves : Nat]]
  BY DEF GateInv, Shapes
<1>3. PICK w : Moved(i, w) /\ w.pc = "unfreeze" /\ w.held = work[i].held /\ w.job = work[i].job
  BY <1>1, LeaveMoves
<1>4. /\ gate' = [x \in Clients |-> gate'[x]] /\ \A x \in Clients : IsGate(gate'[x])
      /\ \A x \in Clients : x # c => gate'[x] = gate[x]
      /\ gate'[c].cap = Retired /\ gate'[c].frozen = gate[c].frozen /\ gate'[c].inFlight = gate[c].inFlight
  <2>1. PICK cs : cs = {c}
    OBVIOUS
  <2>2. PICK h : h = Invalidate(gate, cs)
    OBVIOUS
  <2>3. /\ h = [x \in Clients |-> h[x]] /\ \A x \in Clients : IsGate(h[x])
        /\ \A x \in Clients : x \notin cs => h[x] = gate[x]
        /\ \A x \in Clients \cap cs :
              h[x].cap = Retired /\ h[x].frozen = gate[x].frozen /\ h[x].inFlight = gate[x].inFlight
    BY <1>2, <2>2, InvalidateGates
  <2>4. gate' = h
    BY <2>1, <2>2 DEF Detached
  <2> QED
    BY <1>1, <2>1, <2>3, <2>4
<1>5. /\ member' \in [Clients -> Sessions \cup {NoSession}] /\ member'[c] = NoSession
      /\ \A x \in Clients : x # c => member'[x] = member[x]
      /\ retention' \in [Clients -> Capabilities] /\ retention'[c] = Retired
      /\ \A x \in Clients : x # c => retention'[x] = retention[x]
  BY <1>1, <1>2, RetiredType DEF Detached
<1>6. \A x \in Clients : ~Sends(w, x) /\ ~Sends(work[i], x)
  BY <1>3 DEF Sends
<1>7. \A x \in Clients : gate'[x].inFlight = gate[x].inFlight /\ gate'[x].frozen = gate[x].frozen
  BY <1>4
<1>8. Counted'
  BY <1>3, <1>6, <1>7, CountKept DEF GateInv
<1>9. ~Dispatching(w) /\ ~Dispatching(work[i]) /\ ~Reserved(w) /\ ~Reserved(work[i])
  BY <1>3 DEF Dispatching, Reserved
<1>10. Dispatch' /\ ReservationExcludesTeardown'
  BY <1>3, <1>9, DispatchKept DEF GateInv, ReservationExcludesTeardown
<1>11. Published'
  BY <1>4, <1>5, PublishedKept DEF GateInv
<1>12. RegisteredInLiveSession'
  BY <1>5 DEF GateInv, RegisteredInLiveSession
<1>13. ExpiryPinsSuspension'
  BY <1>4, <1>5, ExpiryKept DEF GateInv
<1>14. EffectsKeepAuthority'
  BY <1>1, <1>4, AuthorityKept DEF GateInv
<1> QED
  BY <1>1, <1>2, <1>3, <1>4, <1>5, <1>7, <1>8, <1>10, <1>11, <1>12, <1>13, <1>14, PublicationStep

\* A detach whose drain ran out is refused; the other kind cannot run out.
LEMMA DetachFrozenKeeps ==
    ASSUME GateInv, Seen, NEW i \in Jobs, DetachFrozen(i)
    PROVE  GateInv'
<1> DEFINE j == work[i].job
           ok == IF j.kind = "detach" THEN member[j.c] = work[i].cap.sess /\ member[j.c] # NoSession
                 ELSE work[i].drained /\ Current(j.c, work[i].cap) /\ work[i].cap.sess \in alive
<1>1. /\ work[i].pc = "frozen" /\ j.kind \in {"detach", "drop"} /\ Leave(i, "done")
      /\ UNCHANGED <<alive, fence, dispatch, eff>>
  BY DEF DetachFrozen
<1>2. /\ gate' = IF ok THEN Invalidate(gate, {j.c}) ELSE gate
      /\ member' = IF ok THEN [member EXCEPT ![j.c] = NoSession] ELSE member
      /\ retention' = IF ok THEN [retention EXCEPT ![j.c] = Retired] ELSE retention
  BY DEF DetachFrozen
<1>3. j.kind = "detach" => work[i].drained
  BY <1>1, FrozenHolds DEF Local, Bounded
<1>4. ok => work[i].drained
  BY <1>1, <1>3
<1> HIDE DEF ok
<1>5. CASE ok
  BY <1>1, <1>2, <1>4, <1>5, DetachStep DEF Detached
<1>6. CASE ~ok
  BY <1>1, <1>2, <1>6, LeaveKeeps
<1> QED
  BY <1>5, <1>6

\* The expiry of the very suspension that armed it detaches.
LEMMA ExpireFrozenKeeps ==
    ASSUME GateInv, Seen, NEW i \in Jobs, ExpireFrozen(i)
    PROVE  GateInv'
<1> DEFINE c == work[i].job.c
           ok == /\ retention[c] = work[i].cap /\ member[c] \in alive
                 /\ Current(c, work[i].cap) /\ gate[c].activity = "suspended"
<1>1. /\ work[i].pc = "frozen" /\ work[i].job.kind = "expire" /\ Leave(i, "done")
      /\ UNCHANGED <<alive, fence, dispatch, eff>>
  BY DEF ExpireFrozen
<1>2. /\ gate' = IF ok THEN Invalidate(gate, {c}) ELSE gate
      /\ member' = IF ok THEN [member EXCEPT ![c] = NoSession] ELSE member
      /\ retention' = IF ok THEN [retention EXCEPT ![c] = Retired] ELSE retention
  BY DEF ExpireFrozen
<1>3. work[i].drained
  BY <1>1, FrozenHolds DEF Local, Bounded
<1> HIDE DEF ok
<1>4. CASE ok
  BY <1>1, <1>2, <1>3, <1>4, DetachStep DEF Detached
<1>5. CASE ~ok
  BY <1>1, <1>2, <1>5, LeaveKeeps
<1> QED
  BY <1>4, <1>5

\* The suspension publishes a capability of its own; an attachment that was
\* active has no expiry armed.
LEMMA SuspendFrozenKeeps ==
    ASSUME GateInv, Seen, NEW i \in Jobs, SuspendFrozen(i)
    PROVE  GateInv'
<1>0. PICK c : c = work[i].job.c
  OBVIOUS
<1>1. /\ work[i].pc = "frozen" /\ work[i].job.kind = "suspend"
      /\ UNCHANGED <<member, alive, fence, dispatch, retention, eff>>
  BY DEF SuspendFrozen
<1>2. /\ c \in Clients /\ work[i].held = {c} /\ work[i].todo = {} /\ ~work[i].waiting
      /\ IsWork(work[i]) /\ Local(work[i]) /\ (work[i].drained => gate[c].inFlight = 0)
  BY <1>0, <1>1, FrozenHolds
<1>3. /\ \A x \in Clients : IsGate(gate[x])
      /\ gate = [x \in Clients |-> gate[x]] /\ alive \subseteq Sessions
      /\ member' \in [Clients -> Sessions \cup {NoSession}] /\ retention' \in [Clients -> Capabilities]
      /\ dispatch' \subseteq Sessions /\ fence' \in [Sessions -> [active : BOOLEAN, moves : Nat]]
  BY <1>1 DEF GateInv, Shapes
<1> DEFINE ok == /\ work[i].drained /\ Current(c, work[i].cap)
                 /\ gate[c].activity = "active" /\ member[c] \in alive
<1>4. CASE ~ok
  <2>1. Leave(i, "detach") /\ UNCHANGED gate
    BY <1>0, <1>4 DEF SuspendFrozen
  <2> QED
    BY <1>0, <1>1, <1>2, <2>1, LeaveKeeps
<1>5. CASE ok
  <2>1. PICK s, h : s = member[c] /\ h = Publish(gate, c, s)
    OBVIOUS
  <2>2. s \in Sessions /\ s # NoSession
    BY <1>3, <1>5, <2>1, ConstantsAssumption
  <2>3. /\ h = [x \in Clients |-> h[x]] /\ \A x \in Clients : IsGate(h[x])
        /\ \A x \in Clients : x # c => h[x] = gate[x]
        /\ h[c].gen = gate[c].gen + 1 /\ h[c].cap = [sess |-> s, gen |-> gate[c].gen + 1]
        /\ h[c].frozen = gate[c].frozen /\ h[c].inFlight = gate[c].inFlight
    <3>1. PICK a : a = gate
      OBVIOUS
    <3>2. a = [x \in Clients |-> a[x]] /\ \A x \in Clients : IsGate(a[x])
      BY <1>3, <3>1
    <3> QED
      BY <1>2, <2>1, <2>2, <3>1, <3>2, PublishGate
  <2>4. PICK g : g = [h[c] EXCEPT !.activity = "suspended"]
    OBVIOUS
  <2>5. /\ IsGate(g) /\ g.gen = h[c].gen /\ g.cap = h[c].cap /\ g.frozen = h[c].frozen
        /\ g.inFlight = h[c].inFlight /\ g.activity = "suspended"
    BY <1>2, <2>3, <2>4 DEF IsGate, Activities
  <2>6. gate' = [h EXCEPT ![c] = g] /\ work' = [work EXCEPT ![i].pc = "acking"]
    BY <1>0, <1>5, <2>1, <2>4 DEF SuspendFrozen
  <2>7. /\ gate' = [x \in Clients |-> gate'[x]] /\ \A x \in Clients : IsGate(gate'[x])
        /\ \A x \in Clients : x # c => gate'[x] = gate[x]
        /\ gate'[c].gen = gate[c].gen + 1 /\ gate'[c].cap = [sess |-> s, gen |-> gate[c].gen + 1]
        /\ gate'[c].frozen = gate[c].frozen /\ gate'[c].inFlight = gate[c].inFlight
        /\ gate'[c].activity = "suspended"
    BY <1>2, <2>3, <2>5, <2>6
  <2>8. PICK w : w = [work[i] EXCEPT !.pc = "acking"]
    OBVIOUS
  <2>9. /\ IsWork(w) /\ w.pc = "acking" /\ w.held = work[i].held /\ w.todo = {} /\ ~w.waiting
        /\ w.job = work[i].job /\ w.parts = work[i].parts
    BY <1>2, <2>8 DEF IsWork, PCs
  <2>10. Local(w) /\ Holds(w)
    BY <1>0, <1>1, <1>2, <2>9 DEF Local, Holds, Wanted
  <2>11. Moved(i, w)
    BY <2>6, <2>8, <2>9, <2>10, WorkMoved DEF GateInv
  <2>12. \A x \in Clients : ~Sends(w, x) /\ ~Sends(work[i], x)
    BY <1>1, <2>9 DEF Sends
  <2>13. \A x \in Clients : gate'[x].inFlight = gate[x].inFlight /\ gate'[x].frozen = gate[x].frozen
    BY <2>7
  <2>14. Counted'
    BY <1>1, <2>11, <2>12, <2>13, CountKept DEF GateInv
  <2>15. ~Dispatching(w) /\ ~Dispatching(work[i]) /\ ~Reserved(w) /\ ~Reserved(work[i])
    BY <1>1, <2>9 DEF Dispatching, Reserved
  <2>16. Dispatch' /\ ReservationExcludesTeardown'
    BY <1>1, <2>11, <2>15, DispatchKept DEF GateInv, ReservationExcludesTeardown
  <2>17. Published'
    BY <1>1, <2>1, <2>2, <2>7, PublishedKept DEF GateInv
  <2>18. RegisteredInLiveSession'
    BY <1>1 DEF GateInv, RegisteredInLiveSession
  <2>19. retention[c] = Retired
    BY <1>2, <1>5 DEF GateInv, ExpiryPinsSuspension
  <2>20. ExpiryPinsSuspension'
    BY <1>1, <2>7, <2>19, ExpiryKept DEF GateInv
  <2>21. EffectsKeepAuthority'
    BY <1>1, <1>2, <1>5, <2>7, AuthorityKept DEF GateInv
  <2>22. gate'[w.job.c].activity = "suspended" /\ member'[w.job.c] # NoSession
    BY <1>0, <1>1, <2>1, <2>2, <2>7, <2>9
  <2> QED
    BY <1>1, <1>2, <1>3, <2>7, <2>9, <2>11, <2>13, <2>14, <2>16, <2>17, <2>18, <2>20, <2>21, <2>22,
       PublicationStep
<1> QED
  BY <1>4, <1>5

=============================================================================
