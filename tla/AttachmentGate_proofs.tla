----------------------- MODULE AttachmentGate_proofs ------------------------
(***************************************************************************)
(* Proofs about the effect gate: for any finite sets of clients, workers   *)
(* and effect goroutines and any jobs, gates, membership, capabilities,    *)
(* reservations and expiries stay consistent, an admitted effect keeps its *)
(* authority, and an identity changes only under a freeze.  First the      *)
(* publications that end a session for everyone, kill and move, and what a *)
(* step may do to an identity; then the effects and the theorems.          *)
(***************************************************************************)
EXTENDS AttachmentFreeze_proofs, FiniteSetTheorems

-----------------------------------------------------------------------------
(* The end of a session *)

\* A session leaves the registry with the expiries of its attachments: every
\* other expiry is as it was.
LEMMA ExpiriesCleared ==
    ASSUME GateInv, NEW s \in Sessions, retention' = ClearedFor(s),
           \A x \in Clients : member[x] # s =>
               \/ retention[x] = Retired
               \/ /\ gate'[x].activity = gate[x].activity /\ gate'[x].gen = gate[x].gen
                  /\ member'[x] = member[x]
    PROVE  ExpiryPinsSuspension' /\ retention' \in [Clients -> Capabilities]
<1>1. retention \in [Clients -> Capabilities]
  BY DEF GateInv, Shapes
<1>2. /\ retention' \in [Clients -> Capabilities]
      /\ \A x \in Clients : retention'[x] = IF retention[x].sess = s THEN Retired ELSE retention[x]
  BY <1>1, RetiredType DEF ClearedFor
<1>3. \A x \in Clients : member[x] = s => retention[x] = Retired \/ retention[x].sess = s
  <2>1. ExpiryPinsSuspension
    BY DEF GateInv
  <2>2. \A x \in Clients : Capability(x).sess = member[x]
    BY DEF Capability
  <2> QED
    BY <2>1, <2>2 DEF ExpiryPinsSuspension, Current
<1> QED
  BY <1>2, <1>3, ExpiryKept DEF GateInv

\* The kill's publication: a drain that ran out leaves an admitted effect only
\* the capability of a session that is gone.
LEMMA PublishKillKeeps ==
    ASSUME GateInv, NEW i \in Jobs, PublishKill(i)
    PROVE  GateInv'
<1>0. PICK s, cs : s = work[i].job.s /\ cs = Members(s)
  OBVIOUS
<1>1. /\ work[i].pc = "teardown" /\ work[i].job.kind = "kill" /\ ~work[i].waiting /\ work[i].todo = {}
      /\ s \in Sessions /\ UNCHANGED <<dispatch, eff>>
  BY <1>0 DEF PublishKill, GateInv, Shapes, Locals, Local, IsWork, IsJob
<1>2. /\ gate = [x \in Clients |-> gate[x]] /\ \A x \in Clients : IsGate(gate[x])
      /\ member \in [Clients -> Sessions \cup {NoSession}] /\ alive \subseteq Sessions
      /\ dispatch \subseteq Sessions /\ fence \in [Sessions -> [active : BOOLEAN, moves : Nat]]
  BY DEF GateInv, Shapes
<1>3. work[i].parts \subseteq work[i].held
  BY <1>1 DEF GateInv, Locals, Holds, Wanted
<1>4. PICK next \in {"done", "closed"} : Leave(i, next)
  BY DEF PublishKill
<1>5. PICK w : Moved(i, w) /\ w.pc = "unfreeze" /\ w.held = work[i].held /\ w.job = work[i].job
  BY <1>1, <1>4, LeaveMoves
<1>6. ~Dispatching(w) /\ ~Dispatching(work[i]) /\ ~Reserved(w) /\ ~Reserved(work[i])
  BY <1>1, <1>5 DEF Dispatching, Reserved
<1>7. CASE ~ParticipantsCurrent(work[i])
  <2>1. fence' = [fence EXCEPT ![s].active = FALSE] /\ UNCHANGED <<alive, gate, member, retention>>
    BY <1>0, <1>7 DEF PublishKill
  <2>2. PICK f : f = [fence[s] EXCEPT !.active = FALSE]
    OBVIOUS
  <2>3. f \in [active : BOOLEAN, moves : Nat] /\ f.moves = fence[s].moves /\ f.active = FALSE
    BY <1>1, <1>2, <2>2
  <2>4. fence' = [fence EXCEPT ![s] = f]
    BY <2>1, <2>2
  <2>5. /\ fence' \in [Sessions -> [active : BOOLEAN, moves : Nat]] /\ fence'[s] = f
        /\ \A t \in Sessions : t # s => fence'[t] = fence[t]
    BY <1>1, <1>2, <2>3, <2>4
  <2>6. Dispatch'
    BY <1>1, <1>5, <1>6, <2>3, <2>5, DispatchKept DEF GateInv
  <2>7. ReservationExcludesTeardown'
    BY <2>3, <2>5 DEF GateInv, ReservationExcludesTeardown
  <2> QED
    BY <1>1, <1>2, <1>5, <2>1, <2>5, <2>6, <2>7, FenceStep
<1>8. CASE ParticipantsCurrent(work[i])
  <2>1. /\ alive' = alive \ {s} /\ gate' = Invalidate(gate, cs) /\ retention' = ClearedFor(s)
        /\ member' = [x \in Clients |-> IF member[x] = s THEN NoSession ELSE member[x]]
        /\ UNCHANGED fence
    BY <1>0, <1>8 DEF PublishKill
  <2>2. s \in alive /\ cs \subseteq work[i].held /\ s # NoSession
    BY <1>0, <1>1, <1>3, <1>8, ConstantsAssumption DEF ParticipantsCurrent
  <2>3. cs \subseteq Clients /\ \A x \in Clients : x \in cs <=> member[x] = s
    BY <1>0 DEF Members
  <2>4. PICK h : h = Invalidate(gate, cs)
    OBVIOUS
  <2>5. /\ h = [x \in Clients |-> h[x]] /\ \A x \in Clients : IsGate(h[x])
        /\ \A x \in Clients : x \notin cs => h[x] = gate[x]
        /\ \A x \in Clients \cap cs :
              h[x].cap = Retired /\ h[x].frozen = gate[x].frozen /\ h[x].inFlight = gate[x].inFlight
    BY <1>2, <2>4, InvalidateGates
  <2>6. gate' = h
    BY <2>1, <2>4
  <2>7. /\ gate' = [x \in Clients |-> gate'[x]] /\ \A x \in Clients : IsGate(gate'[x])
        /\ \A x \in Clients : x \notin cs => gate'[x] = gate[x]
        /\ \A x \in cs : gate'[x].cap = Retired
        /\ \A x \in Clients : gate'[x].frozen = gate[x].frozen /\ gate'[x].inFlight = gate[x].inFlight
    BY <2>3, <2>5, <2>6
  <2>8. /\ member' \in [Clients -> Sessions \cup {NoSession}] /\ \A x \in cs : member'[x] = NoSession
        /\ \A x \in Clients : x \notin cs => member'[x] = member[x]
    BY <1>2, <2>1, <2>3
  <2>9. \A x \in Clients : ~Sends(w, x) /\ ~Sends(work[i], x)
    BY <1>1, <1>5 DEF Sends
  <2>10. Counted'
    BY <1>1, <1>5, <2>7, <2>9, CountKept DEF GateInv
  <2>11. Dispatch' /\ ReservationExcludesTeardown'
    BY <1>1, <1>5, <1>6, <2>1, DispatchKept DEF GateInv, ReservationExcludesTeardown
  <2>12. Published'
    BY <2>3, <2>7, <2>8, PublishedKept DEF GateInv
  <2>13. RegisteredInLiveSession'
    BY <2>1, <2>3, <2>8 DEF GateInv, RegisteredInLiveSession
  <2>14. ExpiryPinsSuspension' /\ retention' \in [Clients -> Capabilities]
    BY <1>1, <2>1, <2>3, <2>7, <2>8, ExpiriesCleared
  <2>15. EffectsKeepAuthority'
    <3> SUFFICES ASSUME NEW e \in Effects, eff[e].pc = "admitted"
                 PROVE  \/ gate'[eff[e].c].cap = eff[e].cap
                        \/ gate'[eff[e].c].cap = Retired /\ eff[e].cap.sess \notin alive'
      BY <1>1 DEF EffectsKeepAuthority
    <3>1. PICK c \in Clients : c = eff[e].c
      BY DEF GateInv, Shapes
    <3>2. gate[c].cap = eff[e].cap \/ (gate[c].cap = Retired /\ eff[e].cap.sess \notin alive)
      <4>1. EffectsKeepAuthority
        BY DEF GateInv
      <4> QED
        BY <3>1, <4>1 DEF EffectsKeepAuthority
    <3>3. CASE c \notin cs
      BY <2>1, <2>7, <3>1, <3>2, <3>3
    <3>4. CASE c \in cs
      <4>1. gate[c].cap.sess = s
        <5>1. Published /\ Capability(c).sess = member[c]
          BY DEF GateInv, Capability
        <5> QED
          BY <2>2, <2>3, <3>4, <5>1 DEF Published
      <4>2. gate[c].cap # Retired
        BY <2>2, <4>1 DEF Retired
      <4> QED
        BY <2>1, <2>7, <3>1, <3>2, <3>4, <4>1, <4>2
    <3> QED
      BY <3>3, <3>4
  <2>16. \A x \in Clients : x \notin work[i].held => gate'[x] = gate[x] /\ member'[x] = member[x]
    BY <2>2, <2>7, <2>8
  <2> QED
    BY <1>1, <1>2, <1>5, <2>1, <2>7, <2>8, <2>10, <2>11, <2>12, <2>13, <2>14, <2>15, <2>16, PublicationStep
<1> QED
  BY <1>7, <1>8

\* A move that retires its source takes the followed attachment to the
\* destination and every other one out, all of them frozen and drained.
LEMMA PublishMoveKeeps ==
    ASSUME GateInv, Seen, NEW i \in Jobs, PublishMove(i)
    PROVE  GateInv'
<1>0. PICK j, c : j = work[i].job /\ c = j.c
  OBVIOUS
<1>1. /\ work[i].pc = "frozen" /\ j.kind = "move" /\ UNCHANGED <<fence, dispatch, eff>>
  BY <1>0 DEF PublishMove
<1>2. /\ IsWork(work[i]) /\ Local(work[i]) /\ work[i].todo = {} /\ ~work[i].waiting /\ work[i].drained
      /\ j.src \in Sessions /\ j.dst \in Sessions /\ c \in Clients \cup {NoClient}
      /\ j.retire \in BOOLEAN /\ (j.retire => j.src # j.dst)
  BY <1>0, <1>1 DEF GateInv, Shapes, Locals, Local, Bounded, IsWork, IsJob
<1>3. /\ gate = [x \in Clients |-> gate[x]] /\ \A x \in Clients : IsGate(gate[x])
      /\ member \in [Clients -> Sessions \cup {NoSession}] /\ alive \subseteq Sessions
      /\ retention \in [Clients -> Capabilities]
      /\ dispatch' \subseteq Sessions /\ fence' \in [Sessions -> [active : BOOLEAN, moves : Nat]]
  BY <1>1 DEF GateInv, Shapes
<1>4. work[i].held = IF j.retire THEN work[i].parts ELSE {c} \ {NoClient}
  BY <1>0, <1>1, <1>2 DEF GateInv, Locals, Holds, Wanted
<1>5. \A x \in work[i].held : gate[x].inFlight = 0
  BY <1>1, <1>2 DEF GateInv, Quiet
<1>6. NoClient \notin Clients /\ NoSession \notin Sessions
  BY ConstantsAssumption
<1> DEFINE ok == /\ {j.src, j.dst} \subseteq alive /\ MoveAuthority(j, work[i].cap)
                 /\ j.retire => Members(j.src) = work[i].parts
                 /\ j.c # NoClient => gate[j.c].activity = "active"
<1>7. CASE ~ok
  <2>1. Leave(i, "done") /\ UNCHANGED <<gate, member, alive, retention>>
    BY <1>0, <1>7 DEF PublishMove
  <2> QED
    BY <1>1, <2>1, LeaveKeeps
<1>8. CASE ok
  <2>1. PICK f, left : /\ f = (IF c = NoClient THEN gate ELSE Publish(gate, c, j.dst))
                       /\ left = IF j.retire THEN Members(j.src) \ {c} ELSE {}
    OBVIOUS
  <2>2. /\ gate' = Invalidate(f, left)
        /\ member' = [x \in Clients |-> IF x \in left THEN NoSession ELSE IF x = c THEN j.dst ELSE member[x]]
        /\ alive' = IF j.retire THEN alive \ {j.src} ELSE alive
        /\ retention' = IF j.retire THEN ClearedFor(j.src) ELSE retention
        /\ work' = [work EXCEPT ![i] = [@ EXCEPT !.pc = "unfreeze",
                       !.cap = IF c = NoClient THEN work[i].cap ELSE f[c].cap,
                       !.next = IF c = NoClient THEN "done" ELSE "identity"]]
    <3>1. gate' = Invalidate(f, left) /\ alive' = IF j.retire THEN alive \ {j.src} ELSE alive
      BY <1>0, <1>8, <2>1 DEF PublishMove
    <3>2. member' = [x \in Clients |-> IF x \in left THEN NoSession ELSE IF x = c THEN j.dst ELSE member[x]]
      <4>1. member' = [x \in Clients |-> member'[x]]
        BY <1>0, <1>8 DEF PublishMove
      <4>2. ASSUME NEW x \in Clients
            PROVE  member'[x] = IF x \in left THEN NoSession ELSE IF x = c THEN j.dst ELSE member[x]
        <5>1. member'[x] = IF j.retire /\ x \in Members(j.src) /\ x # j.c THEN NoSession
                           ELSE IF x = j.c THEN j.dst ELSE member[x]
          BY <1>0, <1>8 DEF PublishMove
        <5>2. x \in left <=> j.retire /\ x \in Members(j.src) /\ x # j.c
          BY <1>0, <2>1
        <5> QED
          BY <1>0, <5>1, <5>2
      <4> HIDE DEF ok
      <4> QED
        BY <4>1, <4>2
    <3>3. retention' = IF j.retire THEN ClearedFor(j.src) ELSE retention
      BY <1>0, <1>8, <2>1 DEF PublishMove
    <3>4. work' = [work EXCEPT ![i] = [@ EXCEPT !.pc = "unfreeze",
                      !.cap = IF c = NoClient THEN work[i].cap ELSE f[c].cap,
                      !.next = IF c = NoClient THEN "done" ELSE "identity"]]
      BY <1>0, <1>8, <2>1 DEF PublishMove
    <3> QED
      BY <3>1, <3>2, <3>3, <3>4
  <2>3. /\ j.src \in alive /\ j.dst \in alive /\ (j.retire => Members(j.src) = work[i].parts)
        /\ (c # NoClient => member[c] = j.src /\ gate[c].activity = "active")
    BY <1>0, <1>8 DEF MoveAuthority
  <2> HIDE DEF ok
  <2>4. /\ left \subseteq Clients /\ c \notin left /\ \A x \in left : member[x] = j.src
        /\ \A x \in Clients : member[x] = j.src /\ j.retire => x \in left \/ x = c
        /\ (~j.retire => left = {})
    BY <2>1 DEF Members
  <2>5. \A x \in Clients : x \in left \/ x = c => x \in work[i].held
    BY <1>2, <1>4, <1>6, <2>1, <2>3 DEF Members
  <2>6. /\ f = [x \in Clients |-> f[x]] /\ \A x \in Clients : IsGate(f[x])
        /\ \A x \in Clients : /\ x # c => f[x] = gate[x]
                              /\ f[x].frozen = gate[x].frozen /\ f[x].inFlight = gate[x].inFlight
        /\ c # NoClient => f[c].gen = gate[c].gen + 1 /\ f[c].cap = [sess |-> j.dst, gen |-> gate[c].gen + 1]
    <3>1. CASE c = NoClient
      BY <1>3, <2>1, <3>1
    <3>2. CASE c # NoClient
      <4>1. c \in Clients /\ f = Publish(gate, c, j.dst)
        BY <1>2, <2>1, <3>2
      <4>2. PICK a, s : a = gate /\ s = j.dst
        OBVIOUS
      <4>3. a = [x \in Clients |-> a[x]] /\ (\A x \in Clients : IsGate(a[x])) /\ s \in Sessions
        BY <1>2, <1>3, <4>2
      <4>4. /\ f = [x \in Clients |-> f[x]] /\ \A x \in Clients : IsGate(f[x])
            /\ \A x \in Clients : x # c => f[x] = a[x]
            /\ f[c].gen = a[c].gen + 1 /\ f[c].cap = [sess |-> s, gen |-> a[c].gen + 1]
            /\ f[c].frozen = a[c].frozen /\ f[c].inFlight = a[c].inFlight
        BY <4>1, <4>2, <4>3, PublishGate
      <4> QED
        BY <4>2, <4>4
    <3> QED
      BY <3>1, <3>2
  <2>7. PICK h : h = Invalidate(f, left)
    OBVIOUS
  <2>8. /\ h = [x \in Clients |-> h[x]] /\ \A x \in Clients : IsGate(h[x])
        /\ \A x \in Clients : x \notin left => h[x] = f[x]
        /\ \A x \in Clients \cap left :
              h[x].cap = Retired /\ h[x].frozen = f[x].frozen /\ h[x].inFlight = f[x].inFlight
    BY <2>6, <2>7, InvalidateGates
  <2>9. gate' = h
    BY <2>2, <2>7
  <2>10. /\ gate' = [x \in Clients |-> gate'[x]] /\ \A x \in Clients : IsGate(gate'[x])
         /\ \A x \in Clients : x \notin left /\ x # c => gate'[x] = gate[x]
         /\ \A x \in left : gate'[x].cap = Retired
         /\ \A x \in Clients : gate'[x].frozen = gate[x].frozen /\ gate'[x].inFlight = gate[x].inFlight
         /\ c # NoClient => gate'[c].gen = gate[c].gen + 1 /\ gate'[c].cap = [sess |-> j.dst, gen |-> gate[c].gen + 1]
    BY <1>2, <2>4, <2>6, <2>8, <2>9
  <2>11. /\ member' \in [Clients -> Sessions \cup {NoSession}] /\ \A x \in left : member'[x] = NoSession
         /\ \A x \in Clients : x \notin left /\ x # c => member'[x] = member[x]
         /\ c # NoClient => member'[c] = j.dst
    BY <1>2, <1>3, <2>2, <2>4
  <2>12. PICK cap, next : /\ cap = (IF c = NoClient THEN work[i].cap ELSE f[c].cap)
                          /\ next = IF c = NoClient THEN "done" ELSE "identity"
    OBVIOUS
  <2>13. PICK w : w = [work[i] EXCEPT !.pc = "unfreeze", !.cap = cap, !.next = next]
    OBVIOUS
  <2>14. /\ cap \in Capabilities /\ next \in {"done", "identity"}
         /\ (next = "identity" => c \in Clients /\ cap.sess \in Sessions)
    BY <1>2, <1>3, <2>6, <2>12 DEF IsWork, IsGate, Capabilities
  <2>15. /\ IsWork(w) /\ w.pc = "unfreeze" /\ w.cap = cap /\ w.next = next /\ w.job = j
         /\ w.held = work[i].held /\ w.todo = {} /\ ~w.waiting
    BY <1>0, <1>2, <2>13, <2>14 DEF IsWork, PCs
  <2>16. Local(w) /\ Holds(w)
    BY <1>0, <2>14, <2>15 DEF Local, Holds
  <2>17. work' = [work EXCEPT ![i] = w]
    BY <2>2, <2>12, <2>13
  <2>18. Moved(i, w)
    BY <2>15, <2>16, <2>17, WorkMoved DEF GateInv
  <2>19. \A x \in Clients : ~Sends(w, x) /\ ~Sends(work[i], x)
    BY <1>1, <2>15 DEF Sends
  <2>20. Counted'
    BY <1>1, <2>10, <2>18, <2>19, CountKept DEF GateInv
  <2>21. /\ Dispatching(w) /\ Dispatching(work[i]) /\ Reserved(w) /\ Reserved(work[i])
         /\ Ends(w) = Ends(work[i])
    BY <1>0, <1>1, <2>15 DEF Dispatching, Reserved, Ends
  <2>22. Dispatch' /\ ReservationExcludesTeardown'
    BY <1>1, <2>18, <2>21, DispatchKept DEF GateInv, ReservationExcludesTeardown
  <2>23. Published'
    <3>1. \A x \in Clients :
             \/ gate'[x].cap = gate[x].cap /\ gate'[x].gen = gate[x].gen /\ member'[x] = member[x]
             \/ gate'[x].cap = IF member'[x] = NoSession THEN Retired
                               ELSE [sess |-> member'[x], gen |-> gate'[x].gen]
      BY <1>2, <1>6, <2>10, <2>11
    <3> QED
      BY <3>1, PublishedKept DEF GateInv
  <2>24. RegisteredInLiveSession'
    <3> SUFFICES ASSUME NEW x \in Clients
                 PROVE  member'[x] \in alive' \cup {NoSession}
      BY DEF RegisteredInLiveSession
    <3>1. member[x] \in alive \cup {NoSession}
      BY DEF GateInv, RegisteredInLiveSession
    <3>2. CASE x \in left
      BY <2>11, <3>2
    <3>3. CASE x = c
      BY <1>2, <1>6, <2>2, <2>3, <2>11, <3>3
    <3>4. CASE x \notin left /\ x # c
      BY <2>2, <2>4, <2>11, <3>1, <3>4
    <3> QED
      BY <3>2, <3>3, <3>4
  <2>25. ExpiryPinsSuspension' /\ retention' \in [Clients -> Capabilities]
    <3>1. CASE j.retire
      BY <1>2, <1>6, <2>2, <2>3, <2>4, <2>10, <2>11, <3>1, ExpiriesCleared
    <3>2. CASE ~j.retire
      <4>1. retention' = retention /\ left = {}
        BY <2>2, <2>4, <3>2
      <4>2. c # NoClient => retention[c] = Retired
        BY <1>2, <2>3 DEF GateInv, ExpiryPinsSuspension
      <4> QED
        BY <1>3, <1>6, <2>10, <2>11, <4>1, <4>2, ExpiryKept DEF GateInv
    <3> QED
      BY <3>1, <3>2
  <2>26. alive' \subseteq alive
    BY <2>2
  <2>27. \A x \in Clients : x \notin work[i].held => gate'[x] = gate[x] /\ member'[x] = member[x]
    BY <2>5, <2>10, <2>11
  <2>28. EffectsKeepAuthority'
    BY <1>1, <1>5, <2>26, <2>27, AuthorityKept DEF GateInv
  <2> QED
    BY <1>1, <1>3, <2>10, <2>11, <2>15, <2>18, <2>20, <2>22, <2>23, <2>24, <2>25, <2>26, <2>27, <2>28,
       PublicationStep
<1> QED
  BY <1>7, <1>8

-----------------------------------------------------------------------------
(* Identities change under a freeze *)

\* What IdentityUnderFreeze says of one step.
IdentityFrozen == \A c \in Clients : gate'[c].cap # gate[c].cap => gate[c].frozen

\* A gate's freeze and its count are no identity.
LEMMA CapabilityKept ==
    ASSUME Shapes, NEW c, NEW r, NEW a,
           \/ gate' = gate
           \/ gate' = [gate EXCEPT ![c].frozen = r]
           \/ gate' = [gate EXCEPT ![c].inFlight = r]
           \/ gate' = [gate EXCEPT ![c].inFlight = r, ![c].activity = a]
    PROVE  IdentityFrozen
<1>1. gate = [x \in Clients |-> gate[x]] /\ \A x \in Clients : IsGate(gate[x])
  BY DEF Shapes
<1>2. ASSUME NEW x \in Clients
      PROVE  gate'[x].cap = gate[x].cap
  <2>1. CASE x # c
    BY <1>1, <2>1
  <2>2. CASE x = c
    <3>1. PICK g : g = gate[c] /\ IsGate(g)
      BY <1>1, <2>2
    <3>2. \/ gate'[c] = g
          \/ gate'[c] = [g EXCEPT !.frozen = r]
          \/ gate'[c] = [g EXCEPT !.inFlight = r]
          \/ gate'[c] = [g EXCEPT !.inFlight = r, !.activity = a]
      BY <1>1, <2>2, <3>1
    <3>3. gate'[c].cap = g.cap
      BY <3>1, <3>2 DEF IsGate
    <3> QED
      BY <2>2, <3>1, <3>3
  <2> QED
    BY <2>1, <2>2
<1> QED
  BY <1>2 DEF IdentityFrozen

\* Opening, closing and counting steps.
LEMMA GatesKeepIdentity ==
    ASSUME Shapes, NEW i \in Jobs, Gates(i)
    PROVE  IdentityFrozen
<1>1. CASE Acquire(i)
  <2>1. PICK c : gate' = [gate EXCEPT ![c].frozen = TRUE]
    BY <1>1 DEF Acquire
  <2> QED
    BY <2>1, CapabilityKept
<1>2. CASE Unfreeze(i)
  <2>1. PICK c : gate' = [gate EXCEPT ![c].frozen = FALSE]
    BY <1>2 DEF Unfreeze
  <2> QED
    BY <2>1, CapabilityKept
<1>3. CASE Blocked(i) \/ Acquired(i) \/ Drained(i) \/ DrainWaits(i) \/ Continue(i)
  <2>1. gate' = gate
    BY <1>3 DEF Blocked, Acquired, Drained, DrainWaits, Continue
  <2> QED
    BY <2>1, CapabilityKept
<1> QED
  BY <1>1, <1>2, <1>3 DEF Gates

\* Effects of every kind only count themselves.
LEMMA EffectsKeepIdentity ==
    ASSUME Shapes,
           \/ \E e \in Effects : BeginEffect(e) \/ EndEffect(e) \/ \E c \in Clients : CaptureEffect(e, c)
           \/ \E i \in Jobs : AdmitIdentity(i) \/ EndIdentity(i) \/ FinishActivation(i)
    PROVE  IdentityFrozen
<1>1. ASSUME NEW e \in Effects, BeginEffect(e) \/ EndEffect(e) \/ \E c \in Clients : CaptureEffect(e, c)
      PROVE  IdentityFrozen
  <2>1. PICK c : c = eff[e].c
    OBVIOUS
  <2>2. PICK n, m : n = gate[c].inFlight + 1 /\ m = gate[c].inFlight - 1
    OBVIOUS
  <2>3. \/ gate' = gate
        \/ gate' = [gate EXCEPT ![c].inFlight = n]
        \/ gate' = [gate EXCEPT ![c].inFlight = m]
    BY <1>1, <2>1, <2>2 DEF BeginEffect, EndEffect, CaptureEffect
  <2> QED
    BY <2>3, CapabilityKept
<1>2. ASSUME NEW i \in Jobs, AdmitIdentity(i) \/ EndIdentity(i) \/ FinishActivation(i)
      PROVE  IdentityFrozen
  <2>1. PICK c : c = work[i].job.c
    OBVIOUS
  <2>2. PICK n, m : n = gate[c].inFlight + 1 /\ m = gate[c].inFlight - 1
    OBVIOUS
  <2>3. \/ gate' = gate
        \/ gate' = [gate EXCEPT ![c].inFlight = n]
        \/ gate' = [gate EXCEPT ![c].inFlight = m]
        \/ gate' = [gate EXCEPT ![c].inFlight = m, ![c].activity = "active"]
    BY <1>2, <2>1, <2>2 DEF AdmitIdentity, EndIdentity, FinishActivation
  <2> QED
    BY <2>3, CapabilityKept
<1> QED
  BY <1>1, <1>2

\* What a job holds is frozen.
LEMMA HeldFrozen ==
    ASSUME GateInv, NEW i \in Jobs, \A c \in Clients : c \notin work[i].held => gate'[c].cap = gate[c].cap
    PROVE  IdentityFrozen
BY DEF GateInv, Owners, IdentityFrozen

\* Publication for one attachment: by its own frozen gate.
LEMMA OneIdentity ==
    ASSUME GateInv, NEW i \in Jobs, work[i].pc = "frozen", work[i].job.kind \notin {"none", "kill", "move"},
           NEW c, c = work[i].job.c, \A x \in Clients : x # c => gate'[x] = gate[x]
    PROVE  IdentityFrozen
<1>1. work[i].held = {c}
  BY FrozenHolds
<1> QED
  BY <1>1, HeldFrozen

\* A kill retires the capabilities of its participants, a move those of the
\* attachments that follow or leave.
LEMMA SessionIdentities ==
    ASSUME GateInv, NEW i \in Jobs, PublishKill(i) \/ PublishMove(i)
    PROVE  IdentityFrozen
<1>1. /\ gate = [x \in Clients |-> gate[x]] /\ IsWork(work[i]) /\ Local(work[i]) /\ Holds(work[i])
  BY DEF GateInv, Shapes, Locals
<1>2. CASE PublishKill(i)
  <2>1. CASE ~ParticipantsCurrent(work[i])
    BY <1>2, <2>1 DEF PublishKill, IdentityFrozen
  <2>2. CASE ParticipantsCurrent(work[i])
    <3>1. gate' = Invalidate(gate, Members(work[i].job.s)) /\ work[i].pc = "teardown"
      BY <1>2, <2>2 DEF PublishKill
    <3>2. Members(work[i].job.s) \subseteq work[i].held
      BY <1>1, <2>2, <3>1 DEF ParticipantsCurrent, Local, Holds, Wanted
    <3>3. \A x \in Clients : x \notin work[i].held => gate'[x] = gate[x]
      BY <3>1, <3>2 DEF Invalidate
    <3> QED
      BY <3>3, HeldFrozen
  <2> QED
    BY <2>1, <2>2
<1>3. CASE PublishMove(i)
  <2>1. PICK j, c : j = work[i].job /\ c = j.c
    OBVIOUS
  <2>2. /\ work[i].pc = "frozen" /\ j.kind = "move" /\ work[i].todo = {}
        /\ c \in Clients \cup {NoClient} /\ NoClient \notin Clients
    BY <1>1, <1>3, <2>1, ConstantsAssumption DEF PublishMove, Local, IsWork, IsJob
  <2>3. work[i].held = IF j.retire THEN work[i].parts ELSE {c} \ {NoClient}
    BY <1>1, <2>1, <2>2 DEF Holds, Wanted
  <2>4. PICK f, left : /\ f = (IF c = NoClient THEN gate ELSE Publish(gate, c, j.dst))
                       /\ left = IF j.retire THEN Members(j.src) \ {c} ELSE {}
    OBVIOUS
  <2>5. CASE gate' = gate
    BY <2>5 DEF IdentityFrozen
  <2>6. CASE gate' # gate
    <3>1. /\ gate' = Invalidate(f, left) /\ MoveAuthority(j, work[i].cap)
          /\ j.retire => Members(j.src) = work[i].parts
      BY <1>3, <2>1, <2>4, <2>6 DEF PublishMove
    <3>2. \A x \in Clients : x \in left \/ x = c => x \in work[i].held
      BY <2>1, <2>2, <2>3, <2>4, <3>1 DEF Members, MoveAuthority
    <3>3. \A x \in Clients : x # c => f[x] = gate[x]
      BY <1>1, <2>4 DEF Publish
    <3>4. \A x \in Clients : x \notin work[i].held => gate'[x] = gate[x]
      BY <3>1, <3>2, <3>3 DEF Invalidate
    <3> QED
      BY <3>4, HeldFrozen
  <2> QED
    BY <2>5, <2>6
<1> QED
  BY <1>2, <1>3

\* The other steps of the jobs.
LEMMA JobsChangeIdentityFrozen ==
    ASSUME GateInv, NEW i \in Jobs, Job(i)
    PROVE  IdentityFrozen
<1>1. CASE \/ StartTransition(i) \/ StartDetach(i) \/ StartSuspension(i) \/ AckSuspend(i) \/ StartKill(i)
           \/ KillFrozen(i) \/ OwnTeardown(i) \/ StartMove(i) \/ ReserveMove(i) \/ AdmitMove(i)
  BY <1>1 DEF StartTransition, StartDetach, StartSuspension, AckSuspend, StartKill, KillFrozen, OwnTeardown,
              StartMove, ReserveMove, AdmitMove, IdentityFrozen
<1>2. CASE AdmitIdentity(i) \/ EndIdentity(i) \/ FinishActivation(i)
  BY <1>2, EffectsKeepIdentity DEF GateInv
<1>3. CASE PublishKill(i) \/ PublishMove(i)
  BY <1>3, SessionIdentities
<1>4. CASE PublishTransition(i) \/ DetachFrozen(i) \/ SuspendFrozen(i) \/ ActivateFrozen(i) \/ ExpireFrozen(i)
  <2>1. PICK c, s, t : c = work[i].job.c /\ s = work[i].job.s /\ t = member[c]
    OBVIOUS
  <2>2. work[i].pc = "frozen" /\ work[i].job.kind \in {"transition", "detach", "drop", "suspend", "activate", "expire"}
    BY <1>4 DEF PublishTransition, DetachFrozen, SuspendFrozen, ActivateFrozen, ExpireFrozen
  <2>3. gate = [x \in Clients |-> gate[x]]
    BY DEF GateInv, Shapes
  <2>4. \A x \in Clients : x # c => gate'[x] = gate[x]
    <3>1. CASE PublishTransition(i) \/ DetachFrozen(i) \/ ExpireFrozen(i)
      <4>1. gate' = gate \/ gate' = Publish(gate, c, s) \/ gate' = Invalidate(gate, {c})
        BY <2>1, <3>1 DEF PublishTransition, DetachFrozen, ExpireFrozen
      <4> QED
        BY <2>3, <4>1 DEF Publish, Invalidate
    <3>2. CASE SuspendFrozen(i)
      <4>1. gate' = gate \/ gate' = [Publish(gate, c, t) EXCEPT ![c].activity = "suspended"]
        BY <2>1, <3>2 DEF SuspendFrozen
      <4> QED
        BY <2>3, <4>1 DEF Publish
    <3>3. CASE ActivateFrozen(i)
      <4>1. \/ gate' = gate
            \/ gate' = [Publish(gate, c, t) EXCEPT ![c].activity = "activating", ![c].inFlight = @ + 1]
        BY <2>1, <3>3 DEF ActivateFrozen
      <4> QED
        BY <2>3, <4>1 DEF Publish
    <3> QED
      BY <1>4, <3>1, <3>2, <3>3
  <2> QED
    BY <2>1, <2>2, <2>4, OneIdentity
<1> QED
  BY <1>1, <1>2, <1>3, <1>4 DEF Job


-----------------------------------------------------------------------------
(* Effects that begin and end *)

\* The effects at a gate can be counted.
LEMMA FiniteCounts ==
    \A c : IsFiniteSet(Admitted(c)) /\ IsFiniteSet(Sending(c))
<1>1. IsFiniteSet(Effects) /\ IsFiniteSet(Jobs)
  BY ConstantsAssumption, FS_Union DEF Jobs
<1>2. \A c : Admitted(c) \in SUBSET Effects /\ Sending(c) \in SUBSET Jobs
  BY DEF Admitted, Sending
<1> QED
  BY <1>1, <1>2, FS_Subset

\* The counts are numbers, and a member is counted.
LEMMA Counts ==
    ASSUME NEW S, IsFiniteSet(S)
    PROVE  /\ Cardinality(S) \in Nat
           /\ \A x : x \notin S => Cardinality(S \cup {x}) = Cardinality(S) + 1
           /\ \A x : x \in S => Cardinality(S \ {x}) = Cardinality(S) - 1 /\ Cardinality(S) # 0
BY FS_CardinalityType, FS_AddElement, FS_RemoveElement, FS_EmptySet

\* An admitted effect is counted at its gate.
LEMMA EffectsSeen ==
    ASSUME GateInv
    PROVE  Seen
<1> SUFFICES ASSUME NEW e \in Effects, eff[e].pc = "admitted"
             PROVE  gate[eff[e].c].inFlight # 0
  BY DEF Seen
<1>1. PICK c \in Clients : c = eff[e].c
  BY DEF GateInv, Shapes
<1>2. e \in Admitted(c)
  BY <1>1 DEF Admitted
<1>3. Cardinality(Admitted(c)) # 0 /\ Cardinality(Admitted(c)) \in Nat /\ Cardinality(Sending(c)) \in Nat
  BY <1>2, FiniteCounts, Counts
<1> QED
  BY <1>1, <1>3 DEF GateInv, Counted

\* The step of an effect goroutine: no job moves, no identity changes, and no
\* effect begins at a frozen gate.
LEMMA EffectStep ==
    ASSUME GateInv, UNCHANGED <<member, alive, fence, dispatch, retention, work>>,
           gate' = [c \in Clients |-> gate'[c]],
           \A c \in Clients :
               /\ IsGate(gate'[c])
               /\ gate'[c].frozen = gate[c].frozen /\ gate'[c].activity = gate[c].activity
               /\ gate'[c].cap = gate[c].cap /\ gate'[c].gen = gate[c].gen
               /\ gate[c].frozen /\ gate[c].inFlight = 0 => gate'[c].inFlight = 0,
           eff' \in [Effects -> [pc : {"idle", "captured", "admitted"}, c : Clients \cup {NoClient}, cap : Capabilities]],
           \A e \in Effects : eff'[e].pc # "idle" => eff'[e].c \in Clients,
           Counted', EffectsKeepAuthority'
    PROVE  GateInv'
<1> USE DEF GateInv
<1>1. Shapes'
  BY DEF Shapes
<1>2. Locals' /\ Dispatch' /\ ReservationExcludesTeardown' /\ RegisteredInLiveSession'
  BY DEF Locals, Dispatch, ReservationExcludesTeardown, RegisteredInLiveSession
<1>3. \A i \in Jobs : work[i].held \subseteq Clients
  BY DEF Shapes, IsWork
<1>4. Owners'
  BY <1>3 DEF Owners
<1>5. Quiet'
  BY <1>3 DEF Quiet, Owners
<1>6. \A c \in Clients : Capability(c)' = Capability(c)
  BY DEF Capability
<1>7. Published'
  BY <1>6 DEF Published
<1>8. ExpiryPinsSuspension'
  BY <1>6 DEF ExpiryPinsSuspension, Current
<1>9. Acking'
  BY AckingHolds, SMTT(30) DEF Acking
<1> QED
  BY <1>1, <1>2, <1>4, <1>5, <1>7, <1>8, <1>9

\* An effect captures what it will be admitted under.
LEMMA CaptureEffectKeeps ==
    ASSUME GateInv, NEW e \in Effects, NEW c \in Clients, CaptureEffect(e, c)
    PROVE  GateInv'
<1>1. /\ eff[e].pc = "idle" /\ UNCHANGED <<gate, member, alive, fence, dispatch, retention, work>>
      /\ eff' = [eff EXCEPT ![e] = [pc |-> "captured", c |-> c, cap |-> Capability(c)]]
  BY DEF CaptureEffect
<1>2. eff \in [Effects -> [pc : {"idle", "captured", "admitted"}, c : Clients \cup {NoClient}, cap : Capabilities]]
  BY DEF GateInv, Shapes
<1>3. /\ eff' \in [Effects -> [pc : {"idle", "captured", "admitted"}, c : Clients \cup {NoClient}, cap : Capabilities]]
      /\ eff'[e].pc = "captured" /\ eff'[e].c = c
      /\ \A x \in Effects : x # e => eff'[x] = eff[x]
  BY <1>1, <1>2, CapabilityType DEF GateInv
<1>4. \A x \in Effects : eff'[x].pc # "idle" => eff'[x].c \in Clients
  BY <1>3 DEF GateInv, Shapes
<1>5. \A x \in Clients : Admitted(x)' = Admitted(x) /\ Sending(x)' = Sending(x)
  BY <1>1, <1>3 DEF Admitted, Sending
<1>6. Counted'
  BY <1>1, <1>5 DEF GateInv, Counted
<1>7. EffectsKeepAuthority'
  BY <1>1, <1>3 DEF GateInv, EffectsKeepAuthority
<1> QED
  BY <1>1, <1>3, <1>4, <1>6, <1>7, EffectStep DEF GateInv, Shapes

\* An effect begins only at an open gate that publishes its capability.
LEMMA BeginEffectKeeps ==
    ASSUME GateInv, NEW e \in Effects, BeginEffect(e)
    PROVE  GateInv'
<1>0. PICK c : c = eff[e].c
  OBVIOUS
<1> DEFINE E == [pc : {"idle", "captured", "admitted"}, c : Clients \cup {NoClient}, cap : Capabilities]
<1>1. eff[e].pc = "captured" /\ c \in Clients /\ UNCHANGED <<member, alive, fence, dispatch, retention, work>>
  BY <1>0 DEF BeginEffect, GateInv, Shapes
<1>2. eff \in [Effects -> E] /\ \A x \in Effects : eff[x].pc # "idle" => eff[x].c \in Clients
  BY DEF GateInv, Shapes
<1>3. CASE Admissible(c, eff[e].cap)
  <2> DEFINE g == [gate[c] EXCEPT !.inFlight = @ + 1]
  <2>1. gate' = [gate EXCEPT ![c] = g] /\ eff' = [eff EXCEPT ![e].pc = "admitted"]
    BY <1>0, <1>3 DEF BeginEffect
  <2>2. IsGate(gate[c]) /\ ~gate[c].frozen /\ gate[c].cap = eff[e].cap
    BY <1>1, <1>3 DEF Admissible, GateInv, Shapes
  <2>3. /\ IsGate(g) /\ g.inFlight = gate[c].inFlight + 1 /\ g.frozen = gate[c].frozen
        /\ g.activity = gate[c].activity /\ g.cap = gate[c].cap /\ g.gen = gate[c].gen
    BY <2>2 DEF IsGate
  <2> HIDE DEF g
  <2>4. /\ gate' = [x \in Clients |-> gate'[x]] /\ gate'[c] = g
        /\ \A x \in Clients : x # c => gate'[x] = gate[x]
        /\ \A x \in Clients : IsGate(gate'[x])
    BY <1>1, <2>1, <2>3, GateChanged DEF GateInv
  <2>5. /\ eff' \in [Effects -> E] /\ eff'[e].pc = "admitted" /\ eff'[e].c = c /\ eff'[e].cap = eff[e].cap
        /\ \A x \in Effects : x # e => eff'[x] = eff[x]
    BY <1>0, <1>2, <2>1
  <2>6. \A x \in Effects : eff'[x].pc # "idle" => eff'[x].c \in Clients
    BY <1>1, <1>2, <2>5
  <2>7. \A x \in Clients : Sending(x)' = Sending(x)
    BY <1>1 DEF Sending
  <2>8. \A x \in Clients : x # c => Admitted(x)' = Admitted(x)
    BY <1>0, <2>5 DEF Admitted
  <2>9. Admitted(c)' = Admitted(c) \cup {e} /\ e \notin Admitted(c)
    BY <1>0, <1>1, <2>5 DEF Admitted
  <2>10. Cardinality(Admitted(c)') = Cardinality(Admitted(c)) + 1
    BY <2>9, FiniteCounts, Counts
  <2>11. Cardinality(Admitted(c)) \in Nat /\ Cardinality(Sending(c)) \in Nat
    BY FiniteCounts, Counts
  <2>12. Counted'
    BY <1>1, <2>3, <2>4, <2>7, <2>8, <2>10, <2>11 DEF GateInv, Counted
  <2>13. EffectsKeepAuthority'
    BY <1>1, <1>2, <2>2, <2>3, <2>4, <2>5 DEF GateInv, EffectsKeepAuthority
  <2> QED
    BY <1>1, <2>2, <2>3, <2>4, <2>5, <2>6, <2>12, <2>13, EffectStep
<1>4. CASE ~Admissible(c, eff[e].cap)
  <2>1. gate' = gate /\ eff' = [eff EXCEPT ![e] = [pc |-> "idle", c |-> NoClient, cap |-> Retired]]
    BY <1>0, <1>4 DEF BeginEffect
  <2>2. eff' \in [Effects -> E] /\ eff'[e].pc = "idle" /\ \A x \in Effects : x # e => eff'[x] = eff[x]
    BY <1>2, <2>1, RetiredType
  <2>3. \A x \in Clients : Admitted(x)' = Admitted(x) /\ Sending(x)' = Sending(x)
    BY <1>1, <2>2 DEF Admitted, Sending
  <2>4. Counted'
    BY <2>1, <2>3 DEF GateInv, Counted
  <2>5. EffectsKeepAuthority'
    BY <1>1, <2>1, <2>2 DEF GateInv, EffectsKeepAuthority
  <2>6. \A x \in Effects : eff'[x].pc # "idle" => eff'[x].c \in Clients
    BY <1>2, <2>2
  <2> QED
    BY <1>1, <2>1, <2>2, <2>4, <2>5, <2>6, EffectStep DEF GateInv, Shapes
<1> QED
  BY <1>3, <1>4

\* The effect that ends is one of those counted.
LEMMA EndEffectKeeps ==
    ASSUME GateInv, NEW e \in Effects, EndEffect(e)
    PROVE  GateInv'
<1>0. PICK c : c = eff[e].c
  OBVIOUS
<1> DEFINE E == [pc : {"idle", "captured", "admitted"}, c : Clients \cup {NoClient}, cap : Capabilities]
           g == [gate[c] EXCEPT !.inFlight = @ - 1]
<1>1. eff[e].pc = "admitted" /\ c \in Clients /\ UNCHANGED <<member, alive, fence, dispatch, retention, work>>
  BY <1>0 DEF EndEffect, GateInv, Shapes
<1>2. eff \in [Effects -> E] /\ \A x \in Effects : eff[x].pc # "idle" => eff[x].c \in Clients
  BY DEF GateInv, Shapes
<1>3. /\ gate' = [gate EXCEPT ![c] = g]
      /\ eff' = [eff EXCEPT ![e] = [pc |-> "idle", c |-> NoClient, cap |-> Retired]]
  BY <1>0 DEF EndEffect
<1>4. eff' \in [Effects -> E] /\ eff'[e].pc = "idle" /\ \A x \in Effects : x # e => eff'[x] = eff[x]
  BY <1>2, <1>3, RetiredType
<1>5. \A x \in Clients : x # c => Admitted(x)' = Admitted(x)
  BY <1>0, <1>4 DEF Admitted
<1>6. Admitted(c)' = Admitted(c) \ {e} /\ e \in Admitted(c)
  BY <1>0, <1>1, <1>4 DEF Admitted
<1>7. Cardinality(Admitted(c)') = Cardinality(Admitted(c)) - 1 /\ Cardinality(Admitted(c)) # 0
  BY <1>6, FiniteCounts, Counts
<1>8. Cardinality(Admitted(c)) \in Nat /\ Cardinality(Sending(c)) \in Nat
  BY FiniteCounts, Counts
<1>9. IsGate(gate[c]) /\ gate[c].inFlight # 0
  BY <1>1, <1>7, <1>8 DEF GateInv, Shapes, Counted
<1>10. /\ IsGate(g) /\ g.inFlight = gate[c].inFlight - 1 /\ g.frozen = gate[c].frozen
       /\ g.activity = gate[c].activity /\ g.cap = gate[c].cap /\ g.gen = gate[c].gen
  BY <1>9 DEF IsGate
<1> HIDE DEF g
<1>11. /\ gate' = [x \in Clients |-> gate'[x]] /\ gate'[c] = g
       /\ \A x \in Clients : x # c => gate'[x] = gate[x]
       /\ \A x \in Clients : IsGate(gate'[x])
  BY <1>1, <1>3, <1>10, GateChanged DEF GateInv
<1>12. \A x \in Clients : Sending(x)' = Sending(x)
  BY <1>1 DEF Sending
<1>13. Counted'
  BY <1>1, <1>5, <1>7, <1>8, <1>10, <1>11, <1>12 DEF GateInv, Counted
<1>14. EffectsKeepAuthority'
  BY <1>1, <1>2, <1>4, <1>10, <1>11 DEF GateInv, EffectsKeepAuthority
<1>15. \A x \in Effects : eff'[x].pc # "idle" => eff'[x].c \in Clients
  BY <1>2, <1>4
<1> QED
  BY <1>1, <1>4, <1>9, <1>10, <1>11, <1>13, <1>14, <1>15, EffectStep

\* A job begins its effect at c.
LEMMA SendBegins ==
    ASSUME Counted, NEW i \in Jobs, NEW w, Moved(i, w), UNCHANGED eff, NEW c \in Clients,
           \A x \in Clients : ~Sends(work[i], x), \A x \in Clients : Sends(w, x) <=> x = c,
           gate'[c].inFlight = gate[c].inFlight + 1,
           \A x \in Clients : x # c => gate'[x].inFlight = gate[x].inFlight
    PROVE  Counted'
<1>1. \A x \in Clients : Admitted(x)' = Admitted(x)
  BY DEF Admitted
<1>2. \A x \in Clients : x # c => Sending(x)' = Sending(x)
  BY DEF Moved, Sending
<1>3. Sending(c)' = Sending(c) \cup {i} /\ i \notin Sending(c)
  BY DEF Moved, Sending
<1>4. Cardinality(Sending(c)') = Cardinality(Sending(c)) + 1
  BY <1>3, FiniteCounts, Counts
<1>5. Cardinality(Admitted(c)) \in Nat /\ Cardinality(Sending(c)) \in Nat
  BY FiniteCounts, Counts
<1> QED
  BY <1>1, <1>2, <1>4, <1>5, SMTT(30) DEF Counted

\* A job whose effect at c is under way is counted.
LEMMA SendCounted ==
    ASSUME Counted, NEW i \in Jobs, NEW c \in Clients, Sends(work[i], c)
    PROVE  gate[c].inFlight # 0
<1>1. i \in Sending(c)
  BY DEF Sending
<1>2. Cardinality(Sending(c)) # 0 /\ Cardinality(Admitted(c)) \in Nat /\ Cardinality(Sending(c)) \in Nat
  BY <1>1, FiniteCounts, Counts
<1> QED
  BY <1>2 DEF Counted

\* A job ends its effect at c.
LEMMA SendEnds ==
    ASSUME Counted, NEW i \in Jobs, NEW w, Moved(i, w), UNCHANGED eff, NEW c \in Clients,
           \A x \in Clients : ~Sends(w, x), \A x \in Clients : Sends(work[i], x) <=> x = c,
           gate'[c].inFlight = gate[c].inFlight - 1,
           \A x \in Clients : x # c => gate'[x].inFlight = gate[x].inFlight
    PROVE  Counted'
<1>1. \A x \in Clients : Admitted(x)' = Admitted(x)
  BY DEF Admitted
<1>2. \A x \in Clients : x # c => Sending(x)' = Sending(x)
  BY DEF Moved, Sending
<1>3. Sending(c)' = Sending(c) \ {i} /\ i \in Sending(c)
  BY DEF Moved, Sending
<1>4. Cardinality(Sending(c)') = Cardinality(Sending(c)) - 1
  BY <1>3, FiniteCounts, Counts
<1>5. Cardinality(Admitted(c)) \in Nat /\ Cardinality(Sending(c)) \in Nat
  BY FiniteCounts, Counts
<1> QED
  BY <1>1, <1>2, <1>4, <1>5, SMTT(30) DEF Counted

\* A job begins or ends its effect, and changes no identity.
LEMMA SendStep ==
    ASSUME GateInv, NEW i \in Jobs, NEW w, Moved(i, w), w.held = work[i].held,
           UNCHANGED <<member, alive, fence, dispatch, retention, eff>>,
           gate' = [c \in Clients |-> gate'[c]],
           \A c \in Clients :
               /\ IsGate(gate'[c])
               /\ gate'[c].frozen = gate[c].frozen /\ gate'[c].activity = gate[c].activity
               /\ gate'[c].cap = gate[c].cap /\ gate'[c].gen = gate[c].gen
               /\ gate[c].frozen /\ gate[c].inFlight = 0 => gate'[c].inFlight = 0,
           w.pc \notin {"acking", "activating", "frozen"}, w.job.kind # "move", work[i].job.kind # "move",
           Counted'
    PROVE  GateInv'
<1> USE DEF GateInv
<1>1. Locals' /\ \A k \in Jobs : IsWork(work[k])'
  BY LocalsKept
<1>2. Shapes'
  BY <1>1 DEF Shapes, Moved
<1>3. Owners'
  BY OwnersKept
<1>4. Quiet'
  BY QuietKept
<1>5. Acking'
  BY AckingKept
<1>6. ~Dispatching(w) /\ ~Dispatching(work[i]) /\ ~Reserved(w) /\ ~Reserved(work[i])
  BY DEF Dispatching, Reserved
<1>7. Dispatch' /\ ReservationExcludesTeardown'
  BY <1>6, DispatchKept DEF ReservationExcludesTeardown
<1>8. Published' /\ RegisteredInLiveSession' /\ ExpiryPinsSuspension' /\ EffectsKeepAuthority'
  BY IdentityKept
<1> QED
  BY <1>1, <1>2, <1>3, <1>4, <1>5, <1>7, <1>8

\* finishAttachmentTransition admits its effect like any other, at an open gate.
LEMMA AdmitIdentityKeeps ==
    ASSUME GateInv, NEW i \in Jobs, AdmitIdentity(i)
    PROVE  GateInv'
<1>0. PICK c : c = work[i].job.c
  OBVIOUS
<1>1. /\ IsWork(work[i]) /\ Local(work[i]) /\ work[i].pc = "identity" /\ work[i].job.kind = "transition"
      /\ work[i].held = {} /\ work[i].todo = {} /\ ~work[i].waiting /\ c \in Clients
      /\ UNCHANGED <<member, alive, fence, dispatch, retention, eff>>
  BY <1>0 DEF GateInv, Shapes, Locals, Local, AdmitIdentity, IsWork, IsJob
<1>2. CASE Admissible(c, Capability(c))
  <2> DEFINE w == [work[i] EXCEPT !.pc = "sending", !.cap = Capability(c)]
             g == [gate[c] EXCEPT !.inFlight = @ + 1]
  <2>1. gate' = [gate EXCEPT ![c] = g] /\ work' = [work EXCEPT ![i] = w]
    BY <1>0, <1>2 DEF AdmitIdentity
  <2>2. IsGate(gate[c]) /\ ~gate[c].frozen
    BY <1>1, <1>2 DEF Admissible, GateInv, Shapes
  <2>3. /\ IsGate(g) /\ g.inFlight = gate[c].inFlight + 1 /\ g.frozen = gate[c].frozen
        /\ g.activity = gate[c].activity /\ g.cap = gate[c].cap /\ g.gen = gate[c].gen
    BY <2>2 DEF IsGate
  <2>4. IsWork(w) /\ w.pc = "sending" /\ w.held = {} /\ w.todo = {} /\ ~w.waiting /\ w.job = work[i].job
    BY <1>1, CapabilityType DEF GateInv, IsWork, PCs
  <2> HIDE DEF g, w
  <2>5. Local(w) /\ Holds(w)
    BY <1>1, <2>4 DEF Local, Holds
  <2>6. Moved(i, w)
    BY <2>1, <2>4, <2>5, WorkMoved DEF GateInv
  <2>7. /\ gate' = [x \in Clients |-> gate'[x]] /\ gate'[c] = g
        /\ \A x \in Clients : x # c => gate'[x] = gate[x]
        /\ \A x \in Clients : IsGate(gate'[x])
    BY <1>1, <2>1, <2>3, GateChanged DEF GateInv
  <2>8. \A x \in Clients : ~Sends(work[i], x) /\ (Sends(w, x) <=> x = c)
    BY <1>0, <1>1, <2>4 DEF Sends
  <2>9. Counted'
    BY <1>1, <2>3, <2>6, <2>7, <2>8, SendBegins DEF GateInv
  <2> QED
    BY <1>1, <2>2, <2>3, <2>4, <2>6, <2>7, <2>9, SendStep
<1>3. CASE ~Admissible(c, Capability(c))
  <2>1. Leave(i, "detach") /\ UNCHANGED gate
    BY <1>0, <1>3 DEF AdmitIdentity
  <2>2. PICK w : Moved(i, w) /\ w.pc = "unfreeze" /\ w.held = work[i].held /\ w.job = work[i].job
    BY <1>0, <1>1, <2>1, LeaveMoves
  <2>3. ~Dispatching(w) /\ ~Dispatching(work[i]) /\ ~Reserved(w) /\ ~Reserved(work[i])
    BY <1>1, <2>2 DEF Dispatching, Reserved
  <2> QED
    BY <1>1, <2>1, <2>2, <2>3, GoesOn
<1> QED
  BY <1>2, <1>3

\* The route identity is sent, or refused.
LEMMA EndIdentityKeeps ==
    ASSUME GateInv, NEW i \in Jobs, EndIdentity(i)
    PROVE  GateInv'
<1>0. PICK c : c = work[i].job.c
  OBVIOUS
<1>1. /\ work[i].pc = "sending" /\ work[i].job.kind = "transition" /\ ~work[i].waiting /\ c \in Clients
      /\ UNCHANGED <<member, alive, fence, dispatch, retention, eff>> /\ IsGate(gate[c])
  BY <1>0 DEF GateInv, Shapes, Locals, Local, EndIdentity, IsWork, IsJob
<1>2. PICK w : Moved(i, w) /\ w.pc = "unfreeze" /\ w.held = work[i].held /\ w.job = work[i].job
  BY <1>0, <1>1, LeaveMoves DEF EndIdentity
<1> DEFINE g == [gate[c] EXCEPT !.inFlight = @ - 1]
<1>3. gate' = [gate EXCEPT ![c] = g]
  BY <1>0 DEF EndIdentity
<1>4. \A x \in Clients : ~Sends(w, x) /\ (Sends(work[i], x) <=> x = c)
  BY <1>0, <1>1, <1>2 DEF Sends
<1>5. gate[c].inFlight # 0
  BY <1>1, <1>4, SendCounted DEF GateInv
<1>6. /\ IsGate(g) /\ g.inFlight = gate[c].inFlight - 1 /\ g.frozen = gate[c].frozen
      /\ g.activity = gate[c].activity /\ g.cap = gate[c].cap /\ g.gen = gate[c].gen
  BY <1>1, <1>5 DEF IsGate
<1> HIDE DEF g
<1>7. /\ gate' = [x \in Clients |-> gate'[x]] /\ gate'[c] = g
      /\ \A x \in Clients : x # c => gate'[x] = gate[x]
      /\ \A x \in Clients : IsGate(gate'[x])
  BY <1>1, <1>3, <1>6, GateChanged DEF GateInv
<1>8. Counted'
  BY <1>1, <1>2, <1>4, <1>6, <1>7, SendEnds DEF GateInv
<1> QED
  BY <1>1, <1>2, <1>5, <1>6, <1>7, <1>8, SendStep

-----------------------------------------------------------------------------
(* Activation *)

\* The activation is the one effect at its frozen gate, and disarms the expiry.
LEMMA ActivateFrozenKeeps ==
    ASSUME GateInv, Seen, NEW i \in Jobs, ActivateFrozen(i)
    PROVE  GateInv'
<1>0. PICK c : c = work[i].job.c
  OBVIOUS
<1>1. /\ work[i].pc = "frozen" /\ work[i].job.kind = "activate"
      /\ UNCHANGED <<member, alive, fence, dispatch, eff>>
  BY DEF ActivateFrozen
<1>2. /\ c \in Clients /\ work[i].held = {c} /\ work[i].todo = {} /\ ~work[i].waiting
      /\ IsWork(work[i]) /\ Local(work[i]) /\ (work[i].drained => gate[c].inFlight = 0)
  BY <1>0, <1>1, FrozenHolds
<1>3. /\ \A x \in Clients : IsGate(gate[x])
      /\ gate = [x \in Clients |-> gate[x]] /\ alive \subseteq Sessions
      /\ member' \in [Clients -> Sessions \cup {NoSession}] /\ retention \in [Clients -> Capabilities]
      /\ dispatch' \subseteq Sessions /\ fence' \in [Sessions -> [active : BOOLEAN, moves : Nat]]
  BY <1>1 DEF GateInv, Shapes
<1> DEFINE ok == /\ work[i].drained /\ gate[c].activity = "suspended"
                 /\ member[c] \in alive /\ member[c] = work[i].cap.sess
<1>4. CASE ~ok
  <2>1. Leave(i, "detach") /\ UNCHANGED <<gate, retention>>
    BY <1>0, <1>4 DEF ActivateFrozen
  <2> QED
    BY <1>0, <1>1, <1>2, <2>1, LeaveKeeps
<1>5. CASE ok
  <2>1. PICK s, h : s = member[c] /\ h = Publish(gate, c, s)
    OBVIOUS
  <2>2. s \in Sessions /\ s # NoSession
    BY <1>3, <1>5, <2>1, ConstantsAssumption
  <2>3. /\ h = [x \in Clients |-> h[x]] /\ \A x \in Clients : IsGate(h[x])
        /\ \A x \in Clients : x # c => h[x] = gate[x]
        /\ h[c].gen = gate[c].gen + 1 /\ h[c].cap = [sess |-> s, gen |-> gate[c].gen + 1]
        /\ h[c].frozen = gate[c].frozen /\ h[c].inFlight = gate[c].inFlight
    <3>1. PICK a : a = gate
      OBVIOUS
    <3>2. a = [x \in Clients |-> a[x]] /\ \A x \in Clients : IsGate(a[x])
      BY <1>3, <3>1
    <3> QED
      BY <1>2, <2>1, <2>2, <3>1, <3>2, PublishGate, SMTT(30)
  <2>4. PICK g : g = [h[c] EXCEPT !.activity = "activating", !.inFlight = @ + 1]
    OBVIOUS
  <2>5. /\ IsGate(g) /\ g.gen = h[c].gen /\ g.cap = h[c].cap /\ g.frozen = h[c].frozen
        /\ g.inFlight = h[c].inFlight + 1 /\ g.activity = "activating"
    <3>1. PICK n \in Nat : n = h[c].inFlight + 1
      BY <1>2, <2>3 DEF IsGate
    <3>2. g = [h[c] EXCEPT !.activity = "activating", !.inFlight = n]
      BY <2>4, <3>1
    <3> QED
      BY <1>2, <2>3, <3>1, <3>2 DEF IsGate, Activities
  <2>6. /\ gate' = [h EXCEPT ![c] = g] /\ work' = [work EXCEPT ![i].pc = "activating"]
        /\ retention' = [retention EXCEPT ![c] = Retired]
    <3>1. /\ gate' = [Publish(gate, c, member[c]) EXCEPT ![c].activity = "activating", ![c].inFlight = @ + 1]
          /\ work' = [work EXCEPT ![i].pc = "activating"]
          /\ retention' = [retention EXCEPT ![c] = Retired]
      BY <1>0, <1>5, Zenon DEF ActivateFrozen
    <3>2. gate' = [h EXCEPT ![c].activity = "activating", ![c].inFlight = @ + 1]
      BY <2>1, <3>1, Zenon
    <3>3. gate' = [h EXCEPT ![c] = g]
      BY <1>2, <2>3, <2>4, <3>2
    <3> QED
      BY <3>1, <3>3
  <2>7. /\ gate' = [x \in Clients |-> gate'[x]] /\ \A x \in Clients : IsGate(gate'[x])
        /\ \A x \in Clients : x # c => gate'[x] = gate[x]
        /\ gate'[c].gen = gate[c].gen + 1 /\ gate'[c].cap = [sess |-> s, gen |-> gate[c].gen + 1]
        /\ gate'[c].frozen = gate[c].frozen /\ gate'[c].inFlight = gate[c].inFlight + 1
        /\ gate'[c].activity = "activating"
    BY <1>2, <2>3, <2>5, <2>6
  <2>8. PICK w : w = [work[i] EXCEPT !.pc = "activating"]
    OBVIOUS
  <2>9. /\ IsWork(w) /\ w.pc = "activating" /\ w.held = work[i].held /\ w.todo = {} /\ ~w.waiting
        /\ w.job = work[i].job /\ w.parts = work[i].parts
    BY <1>2, <2>8 DEF IsWork, PCs
  <2>10. Local(w) /\ Holds(w)
    BY <1>0, <1>1, <1>2, <2>9 DEF Local, Holds, Wanted
  <2>11. Moved(i, w)
    BY <2>6, <2>8, <2>9, <2>10, WorkMoved DEF GateInv
  <2>12. \A x \in Clients : ~Sends(work[i], x) /\ (Sends(w, x) <=> x = c)
    BY <1>0, <1>1, <2>9 DEF Sends
  <2>13. /\ retention' \in [Clients -> Capabilities] /\ retention'[c] = Retired
         /\ \A x \in Clients : x # c => retention'[x] = retention[x]
    BY <1>2, <1>3, <2>6, RetiredType
  <2>14. Counted'
    BY <1>1, <1>2, <2>7, <2>11, <2>12, SendBegins DEF GateInv
  <2>15. ~Dispatching(w) /\ ~Dispatching(work[i]) /\ ~Reserved(w) /\ ~Reserved(work[i])
    BY <1>1, <2>9 DEF Dispatching, Reserved
  <2>16. Dispatch' /\ ReservationExcludesTeardown'
    BY <1>1, <2>11, <2>15, DispatchKept DEF GateInv, ReservationExcludesTeardown
  <2>17. Published'
    BY <1>1, <2>1, <2>2, <2>7, PublishedKept DEF GateInv
  <2>18. RegisteredInLiveSession'
    BY <1>1 DEF GateInv, RegisteredInLiveSession
  <2>19. ExpiryPinsSuspension'
    BY <1>1, <2>7, <2>13, ExpiryKept DEF GateInv
  <2>20. EffectsKeepAuthority'
    BY <1>1, <1>2, <1>5, <2>7, AuthorityKept DEF GateInv
  <2>21. gate'[w.job.c].activity = "activating"
    BY <1>0, <2>7, <2>9
  <2>22. \A x \in Clients : gate'[x].frozen = gate[x].frozen
    BY <2>7
  <2> QED
    BY <1>1, <1>2, <1>3, <2>7, <2>9, <2>11, <2>13, <2>14, <2>16, <2>17, <2>18, <2>19, <2>20, <2>21, <2>22,
       PublicationStep
<1> QED
  BY <1>4, <1>5

\* First paint done or refused: the activation's effect ends; no expiry is armed.
LEMMA FinishActivationKeeps ==
    ASSUME GateInv, Seen, NEW i \in Jobs, FinishActivation(i)
    PROVE  GateInv'
<1>0. PICK c : c = work[i].job.c
  OBVIOUS
<1>1. /\ work[i].pc = "activating" /\ work[i].job.kind = "activate" /\ ~work[i].waiting
      /\ UNCHANGED <<member, alive, fence, dispatch, retention, eff>>
  BY DEF FinishActivation, GateInv, Locals, Local
<1>2. c \in Clients /\ work[i].held = {c}
  BY <1>0, <1>1, AckingHolds DEF GateInv
<1>3. /\ gate = [x \in Clients |-> gate[x]] /\ \A x \in Clients : IsGate(gate[x])
      /\ member' \in [Clients -> Sessions \cup {NoSession}] /\ retention' \in [Clients -> Capabilities]
      /\ dispatch' \subseteq Sessions /\ fence' \in [Sessions -> [active : BOOLEAN, moves : Nat]]
  BY <1>1 DEF GateInv, Shapes
<1>4. PICK w : Moved(i, w) /\ w.pc = "unfreeze" /\ w.held = work[i].held /\ w.job = work[i].job
  <2>1. Leave(i, "done") \/ Leave(i, "detach")
    BY DEF FinishActivation
  <2> QED
    BY <1>0, <1>1, <1>2, <2>1, LeaveMoves
<1>5. \A x \in Clients : ~Sends(w, x) /\ (Sends(work[i], x) <=> x = c)
  BY <1>0, <1>1, <1>4 DEF Sends
<1>6. PICK n : n = gate[c].inFlight - 1
  OBVIOUS
<1>7. n \in Nat
  <2>1. gate[c].inFlight # 0
    BY <1>2, <1>5, SendCounted DEF GateInv
  <2>2. gate[c].inFlight \in Nat
    BY <1>2, <1>3 DEF IsGate
  <2> QED
    BY <1>6, <2>1, <2>2
<1>8. PICK a \in Activities : gate' = [gate EXCEPT ![c].inFlight = n, ![c].activity = a]
  <2>1. CASE gate' = [gate EXCEPT ![c].inFlight = @ - 1, ![c].activity = "active"]
    BY <1>6, <2>1 DEF Activities
  <2>2. CASE gate' = [gate EXCEPT ![c].inFlight = @ - 1]
    <3>1. gate' = [gate EXCEPT ![c].inFlight = n, ![c].activity = gate[c].activity]
      BY <1>2, <1>3, <1>6, <2>2 DEF IsGate
    <3> QED
      BY <1>2, <1>3, <3>1 DEF IsGate
  <2> QED
    BY <1>0, <2>1, <2>2 DEF FinishActivation
<1>9. PICK g : g = [gate[c] EXCEPT !.inFlight = n, !.activity = a]
  OBVIOUS
<1>10. /\ IsGate(g) /\ g.gen = gate[c].gen /\ g.cap = gate[c].cap /\ g.frozen = gate[c].frozen
       /\ g.inFlight = n
  BY <1>2, <1>3, <1>7, <1>9 DEF IsGate
<1>11. gate' = [gate EXCEPT ![c] = g]
  BY <1>8, <1>9
<1>12. /\ gate' = [x \in Clients |-> gate'[x]] /\ \A x \in Clients : IsGate(gate'[x])
       /\ \A x \in Clients : x # c => gate'[x] = gate[x]
       /\ gate'[c] = g
  BY <1>2, <1>3, <1>10, <1>11
<1>13. Counted'
  BY <1>1, <1>2, <1>4, <1>5, <1>6, <1>10, <1>12, SendEnds DEF GateInv
<1>14. ~Dispatching(w) /\ ~Dispatching(work[i]) /\ ~Reserved(w) /\ ~Reserved(work[i])
  BY <1>1, <1>4 DEF Dispatching, Reserved
<1>15. Dispatch' /\ ReservationExcludesTeardown'
  BY <1>1, <1>4, <1>14, DispatchKept DEF GateInv, ReservationExcludesTeardown
<1>16. Published'
  BY <1>1, <1>10, <1>12, PublishedKept DEF GateInv
<1>17. RegisteredInLiveSession'
  BY <1>1 DEF GateInv, RegisteredInLiveSession
<1>18. retention[c] = Retired
  BY <1>0, <1>1, <1>2 DEF GateInv, ExpiryPinsSuspension, Acking
<1>19. ExpiryPinsSuspension'
  BY <1>1, <1>12, <1>18, ExpiryKept DEF GateInv
<1>20. EffectsKeepAuthority'
  BY <1>1, <1>10, <1>12, AuthorityKept DEF GateInv
<1>21. \A x \in Clients : gate'[x].frozen = gate[x].frozen
  BY <1>10, <1>12
<1> QED
  BY <1>1, <1>2, <1>3, <1>4, <1>12, <1>13, <1>15, <1>16, <1>17, <1>19, <1>20, <1>21, PublicationStep

-----------------------------------------------------------------------------
(* The invariant *)

\* The gates open, nobody at work.
LEMMA GateInit == Init => GateInv
<1> SUFFICES ASSUME Init
             PROVE  GateInv
  OBVIOUS
<1>1. PICK given \in Workloads :
         /\ member = given.member
         /\ work = [i \in Jobs |-> IF i \in Workers THEN [Idle EXCEPT !.job = given.job[i]] ELSE Idle]
  BY DEF Init, Jobs
<1>2. /\ member \in [Clients -> Sessions \cup {NoSession}]
      /\ \A i \in Workers : IsJob(given.job[i])
  BY <1>1, ConstantsAssumption
<1>3. \A c \in Clients : \E n \in Nat :
         /\ n = IF member[c] = NoSession THEN 0 ELSE 1
         /\ gate[c] = [frozen |-> FALSE, gen |-> n, cap |-> [sess |-> member[c], gen |-> n],
                       inFlight |-> 0, activity |-> "active"]
  BY DEF Init
<1>4. /\ gate = [c \in Clients |-> gate[c]]
      /\ \A c \in Clients : /\ IsGate(gate[c]) /\ ~gate[c].frozen /\ gate[c].inFlight = 0
                            /\ gate[c].cap = IF member[c] = NoSession THEN Retired ELSE Capability(c)
  <2>1. gate = [c \in Clients |-> gate[c]]
    BY DEF Init
  <2>2. ASSUME NEW c \in Clients
        PROVE  /\ IsGate(gate[c]) /\ ~gate[c].frozen /\ gate[c].inFlight = 0
               /\ gate[c].cap = IF member[c] = NoSession THEN Retired ELSE Capability(c)
    <3>1. PICK n \in Nat :
             /\ n = IF member[c] = NoSession THEN 0 ELSE 1
             /\ gate[c] = [frozen |-> FALSE, gen |-> n, cap |-> [sess |-> member[c], gen |-> n],
                           inFlight |-> 0, activity |-> "active"]
      BY <1>3, <2>2
    <3>2. [sess |-> member[c], gen |-> n] \in Capabilities
      BY <1>2, <2>2 DEF Capabilities
    <3> QED
      BY <3>1, <3>2, SMTT(30) DEF IsGate, Activities, Retired, Capability
  <2> QED
    BY <2>1, <2>2
<1>5. /\ alive = Sessions /\ fence = [s \in Sessions |-> [active |-> FALSE, moves |-> 0]] /\ dispatch = {}
      /\ retention = [c \in Clients |-> Retired]
      /\ eff = [e \in Effects |-> [pc |-> "idle", c |-> NoClient, cap |-> Retired]]
  BY DEF Init
<1>6. ASSUME NEW j, IsJob(j), NEW w, w = [Idle EXCEPT !.job = j]
      PROVE  IsWork(w) /\ w.pc = "idle" /\ w.held = {} /\ w.todo = {} /\ ~w.waiting
  BY <1>6, RetiredType DEF Idle, IsWork, PCs
<1>7. /\ IsWork(Idle) /\ Idle.pc = "idle" /\ Idle.held = {} /\ Idle.todo = {} /\ ~Idle.waiting
  BY IdleWork, RetiredType DEF Idle, IsWork, PCs, IsJob
<1>8. /\ work = [i \in Jobs |-> work[i]]
      /\ \A i \in Jobs : /\ IsWork(work[i]) /\ work[i].pc = "idle" /\ work[i].held = {}
                         /\ work[i].todo = {} /\ ~work[i].waiting
  BY <1>1, <1>2, <1>6, <1>7
<1>9. Shapes
  BY <1>2, <1>4, <1>5, <1>8, RetiredType DEF Shapes
<1>10. Locals /\ Owners /\ Quiet /\ Acking
  BY <1>4, <1>8 DEF Locals, Local, Holds, Owners, Quiet, Acking
<1>11. Counted
  <2>1. \A c \in Clients : Admitted(c) = {} /\ Sending(c) = {}
    BY <1>5, <1>8 DEF Admitted, Sending, Sends
  <2> QED
    BY <1>4, <2>1, FS_EmptySet DEF Counted
<1>12. Published /\ RegisteredInLiveSession
  BY <1>2, <1>4, <1>5 DEF Published, RegisteredInLiveSession
<1>13. Dispatch
  BY <1>5, <1>8 DEF Dispatch, Dispatching, Reserved
<1>14. ReservationExcludesTeardown /\ ExpiryPinsSuspension /\ EffectsKeepAuthority
  BY <1>5 DEF ReservationExcludesTeardown, ExpiryPinsSuspension, EffectsKeepAuthority
<1> QED
  BY <1>9, <1>10, <1>11, <1>12, <1>13, <1>14 DEF GateInv

\* Nothing happens.
LEMMA GateStutter ==
    ASSUME GateInv, UNCHANGED vars
    PROVE  GateInv'
<1> USE DEF GateInv, vars
<1>1. Shapes'
  BY DEF Shapes
<1>2. Locals' /\ Owners' /\ Quiet' /\ Acking'
  BY DEF Locals, Owners, Quiet, Acking
<1>3. Counted'
  BY DEF Counted, Admitted, Sending
<1>4. Published' /\ RegisteredInLiveSession' /\ ExpiryPinsSuspension' /\ EffectsKeepAuthority'
  BY DEF Published, Capability, RegisteredInLiveSession, ExpiryPinsSuspension, Current, EffectsKeepAuthority
<1>5. Dispatch' /\ ReservationExcludesTeardown'
  BY DEF Dispatch, ReservationExcludesTeardown
<1> QED
  BY <1>1, <1>2, <1>3, <1>4, <1>5

\* Every step of the gates, the jobs, the effects and the timers keeps it.
LEMMA GateStep == GateInv /\ [Next]_vars => GateInv'
<1> SUFFICES ASSUME GateInv, [Next]_vars
             PROVE  GateInv'
  OBVIOUS
<1>0. Seen
  BY EffectsSeen
<1>1. CASE UNCHANGED vars
  BY <1>1, GateStutter
<1>2. ASSUME NEW e \in Effects, BeginEffect(e) \/ EndEffect(e) \/ \E c \in Clients : CaptureEffect(e, c)
      PROVE  GateInv'
  BY <1>2, BeginEffectKeeps, EndEffectKeeps, CaptureEffectKeeps
<1>3. ASSUME NEW i \in Jobs, Gates(i)
      PROVE  GateInv'
  BY <1>3, AcquireKeeps, BlockedKeeps, AcquiredKeeps, DrainedKeeps, DrainWaitsKeeps, UnfreezeKeeps,
     ContinueKeeps DEF Gates
<1>4. ASSUME NEW i \in Jobs, Deadline(i)
      PROVE  GateInv'
  BY <1>4, DeadlineKeeps
<1>5. ASSUME NEW c \in Clients, ExpiryFires(c)
      PROVE  GateInv'
  BY <1>5, ExpiryFiresKeeps
<1>6. ASSUME NEW i \in Jobs, Job(i)
      PROVE  GateInv'
  <2>1. CASE StartTransition(i) \/ PublishTransition(i) \/ AdmitIdentity(i) \/ EndIdentity(i)
    BY <1>0, <2>1, StartTransitionKeeps, PublishTransitionKeeps, AdmitIdentityKeeps, EndIdentityKeeps
  <2>2. CASE StartDetach(i) \/ DetachFrozen(i)
    BY <1>0, <2>2, StartDetachKeeps, DetachFrozenKeeps
  <2>3. CASE \/ StartSuspension(i) \/ SuspendFrozen(i) \/ AckSuspend(i)
             \/ ActivateFrozen(i) \/ FinishActivation(i) \/ ExpireFrozen(i)
    BY <1>0, <2>3, StartSuspensionKeeps, SuspendFrozenKeeps, AckSuspendKeeps, ActivateFrozenKeeps,
       FinishActivationKeeps, ExpireFrozenKeeps
  <2>4. CASE StartKill(i) \/ KillFrozen(i) \/ OwnTeardown(i) \/ PublishKill(i)
    BY <2>4, StartKillKeeps, KillFrozenKeeps, OwnTeardownKeeps, PublishKillKeeps
  <2>5. CASE StartMove(i) \/ ReserveMove(i) \/ AdmitMove(i) \/ PublishMove(i)
    BY <1>0, <2>5, StartMoveKeeps, ReserveMoveKeeps, AdmitMoveKeeps, PublishMoveKeeps
  <2> QED
    BY <1>6, <2>1, <2>2, <2>3, <2>4, <2>5 DEF Job
<1> QED
  BY <1>1, <1>2, <1>3, <1>4, <1>5, <1>6 DEF Next, Jobs

\* The inductive invariant holds for ever.
THEOREM GateAlways == Spec => []GateInv
BY GateInit, GateStep, PTL DEF Spec

\* What the run asks of the gates follows from it.
LEMMA GateInvConsistent == GateInv => GateConsistent
<1> SUFFICES ASSUME GateInv
             PROVE  GateConsistent
  OBVIOUS
<1>1. TypeOK
  BY DEF GateInv, Shapes, TypeOK, IsGate, Activities, IsWork, Jobs
<1>2. GateHasOneOwner
  <2> SUFFICES ASSUME NEW c \in Clients
               PROVE  Cardinality({i \in Jobs : c \in work[i].held}) = IF gate[c].frozen THEN 1 ELSE 0
    BY DEF GateHasOneOwner, Jobs
  <2>1. CASE gate[c].frozen
    <3>1. PICK i \in Jobs : c \in work[i].held
      BY <2>1 DEF GateInv, Owners
    <3>2. {k \in Jobs : c \in work[k].held} = {i}
      BY <3>1 DEF GateInv, Owners
    <3> QED
      BY <2>1, <3>2, FS_Singleton
  <2>2. CASE ~gate[c].frozen
    <3>1. {k \in Jobs : c \in work[k].held} = {}
      BY <2>2 DEF GateInv, Owners
    <3> QED
      BY <2>2, <3>1, FS_EmptySet
  <2> QED
    BY <2>1, <2>2
<1>3. StableMeansPublished
  BY DEF GateInv, Published, StableMeansPublished
<1> QED
  BY <1>1, <1>2, <1>3 DEF GateInv, GateConsistent

\* For any finite sets of clients, workers and effects and any jobs: a gate has
\* one owner exactly while it is frozen, an open gate publishes the registered
\* capability, nobody is registered in a removed session, a reserved session is
\* not torn down, and an expiry belongs to its suspension
\* (acquireAttachmentEffectGates, publishFrozenAttachmentCapability and
\* invalidateFrozenAttachmentCapability under the architecture locks).
THEOREM GateAlwaysConsistent == Spec => []GateConsistent
BY GateAlways, GateInvConsistent, PTL

\* An admitted effect keeps its authority until endEffect, whoever freezes,
\* detaches, suspends, moves or kills meanwhile: the drain counts it.
THEOREM EffectsAlwaysKeepAuthority == Spec => []EffectsKeepAuthority
<1>1. GateInv => EffectsKeepAuthority
  BY DEF GateInv
<1> QED
  BY <1>1, GateAlways, PTL

\* A capability is published or retired only at a gate that was frozen before
\* the step: the panics of publishFrozenAttachmentCapability and
\* invalidateFrozenAttachmentCapability are out of reach.
THEOREM IdentityAlwaysUnderFreeze == Spec => IdentityUnderFreeze
<1>1. GateInv /\ [Next]_vars => [IdentityFrozen]_vars
  <2> SUFFICES ASSUME GateInv, Next
               PROVE  IdentityFrozen
    OBVIOUS
  <2>1. Shapes
    BY DEF GateInv
  <2>2. ASSUME NEW i \in Jobs, Gates(i) \/ Job(i) \/ Deadline(i)
        PROVE  IdentityFrozen
    BY <2>1, <2>2, GatesKeepIdentity, JobsChangeIdentityFrozen DEF Deadline, IdentityFrozen
  <2>3. ASSUME NEW c \in Clients, ExpiryFires(c)
        PROVE  IdentityFrozen
    BY <2>3 DEF ExpiryFires, IdentityFrozen
  <2> QED
    BY <2>1, <2>2, <2>3, EffectsKeepIdentity DEF Next, Jobs
<1> QED
  BY <1>1, GateAlways, PTL DEF Spec, IdentityUnderFreeze, IdentityFrozen

=============================================================================
