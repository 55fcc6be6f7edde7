------------------------- MODULE BrokerServe_proofs -------------------------
(***************************************************************************)
(* Proofs about BrokerServe: every lease, pool identity and slot has its   *)
(* holder (ServiceExact), shutdown joins everything it started             *)
(* (ShutdownJoins), and only a grace that really elapsed stops the broker  *)
(* (IdleCommitEarned).                                                     *)
(*                                                                         *)
(* The steps that take or give back a lease, an identity or a slot keep    *)
(* the invariant of BrokerInvariant_proofs by counting their holders: the  *)
(* connections are finitely many.                                          *)
(***************************************************************************)
EXTENDS BrokerInvariant_proofs, FiniteSetTheorems

\* Registering and closing the pool identities.
LEMMA IdentitySteps ==
    ASSUME ServeInv, NEW c \in Conn
    PROVE  (\/ AdmitId(c) \/ AdmitPreview(c)
            \/ UndoPreview(c) \/ UndoId(c) \/ CoreDrains(c) \/ CoreRetires(c)) => ServeInv'
\* A step of c that changes which of its identities the pool knows.
<1>1. ASSUME NEW x \in LeaseAt, To(c, x),
             conn[c].at \in LeaseAt,
             conn[c].started => x \in SessionAt,
             op[c] \in {"none", "over"},
             ids' \subseteq Conn \X {"stream", "preview"},
             \A d \in Conn \ {c} : /\ <<d, "preview">> \in ids' <=> <<d, "preview">> \in ids
                                   /\ <<d, "stream">> \in ids' <=> <<d, "stream">> \in ids,
             <<c, "preview">> \in ids' <=> x \in IdsAt,
             <<c, "stream">> \in ids' <=> x \in IdAt,
             UNCHANGED <<super, admitRest, poolClosed, scene, lis, op>>
      PROVE  ServeInv'
  <2> USE <1>1
  <2> ShapeInv /\ lis \in ListenerType /\ TableInv /\ CountInv /\ ClockInv
    BY DEF ServeInv, ShapeInv
  <2> UNCHANGED <<sup, tick, elapsed, root, run, startup, poolClosed, scene, op, lis>>
    BY DEF super, admitRest
  <2> x \in ConnAt /\ x \notin {"none", "over", "forget", "refused"} /\ conn[c].at \notin {"none", "over", "forget", "refused"}
    BY DEF ConnAt, LeaseAt, IdAt, IdsAt
  <2> /\ Moves(c) /\ conn'[c].at = x /\ conn'[c].started = conn[c].started
      /\ \A d \in Conn \ {c} : conn'[d] = conn[d]
    BY ToMoves
  <2>1. ShapeInv' /\ DrainInv'
    BY MovesRest
  <2>2. ClockInv'
    BY ClockKept
  <2>3. CountInv'
    <3>1. HasLease(c)' /\ HasLease(c)
      BY DEF HasLease, HasId, HasIds, LeaseAt, IdAt, IdsAt
    <3>2. HasOperation(c)' <=> HasOperation(c)
      BY DEF HasOperation
    <3> QED BY <3>1, <3>2, CountKept
  <2>4. SlotsInv'
    <3>1. (HasSlot(c)' <=> HasSlot(c)) /\ (conn[c].at = "refused" => conn'[c].at = "refused")
      BY DEF HasSlot
    <3> QED BY <3>1, SlotsKept DEF TableInv
  <2>5. SessionsInv'
    <3>1. Live(c)' <=> Live(c)
      BY DEF Live
    <3> QED BY <3>1, SessionsKept DEF TableInv
  <2>6. IdsInv'
    <3>1. IdsInv
      BY DEF TableInv
    <3>2. (HasIds(c)' <=> x \in IdsAt) /\ (HasId(c)' <=> x \in IdAt)
      BY DEF HasIds, HasId, IdsAt, IdAt
    <3>3. \A d \in Conn \ {c} : (HasIds(d)' <=> HasIds(d)) /\ (HasId(d)' <=> HasId(d))
      BY DEF HasIds, HasId
    <3>4. \A d \in Conn : <<d, "preview">> \in ids' <=> HasIds(d)'
      BY <3>1, <3>2, <3>3 DEF IdsInv
    <3>5. \A d \in Conn : <<d, "stream">> \in ids' <=> HasId(d)'
      BY <3>1, <3>2, <3>3 DEF IdsInv
    <3> QED BY <3>4, <3>5 DEF IdsInv
  <2> QED BY <2>1, <2>2, <2>3, <2>4, <2>5, <2>6 DEF ServeInv, TableInv
\* The identities that the stage of c says it has.
<1> /\ ids \subseteq Conn \X {"stream", "preview"}
    /\ <<c, "preview">> \in ids <=> conn[c].at \in IdsAt
    /\ <<c, "stream">> \in ids <=> conn[c].at \in IdAt
  BY DEF ServeInv, TableInv, IdsInv, HasIds, HasId, IdsAt, IdAt
<1>2. ASSUME AdmitId(c) PROVE ServeInv'
  <2> USE <1>2
  <2> /\ ~conn[c].started /\ op[c] \in {"none", "over"} /\ conn[c].at = "id"
      /\ lis.pending \in SUBSET Conn /\ lis = [lis EXCEPT !.pending = lis.pending]
    BY Stages DEF AdmitId, SessionAt, WorkAt
  <2> UNCHANGED <<super, admitRest, poolClosed, scene, lis, op>>
    BY DEF AdmitId
  <2>1. CASE To(c, "undoLease") /\ ids' = ids
    <3>1. UNCHANGED pool
      BY <2>1 DEF pool
    <3>2. /\ "undoLease" \in ConnAt /\ "undoLease" \in LeaseAt /\ "id" \in LeaseAt
          /\ {"undoLease", "id"} \intersect (IdAt \union IdsAt) = {}
      BY DEF ConnAt, LeaseAt, IdAt, IdsAt
    <3> QED BY <2>1, <3>1, <3>2, QuietTo
  <2>2. CASE To(c, "preview") /\ ids' = ids \union {<<c, "stream">>}
    <3>1. ~(<<c, "preview">> \in ids) /\ ids \subseteq Conn \X {"stream", "preview"}
      BY DEF IdsAt
    <3>2. ids' \subseteq Conn \X {"stream", "preview"}
      BY <2>2, <3>1
    <3>3. \A d \in Conn \ {c} : /\ <<d, "preview">> \in ids' <=> <<d, "preview">> \in ids
                                /\ <<d, "stream">> \in ids' <=> <<d, "stream">> \in ids
      BY <2>2
    <3>4. ~(<<c, "preview">> \in ids') /\ <<c, "stream">> \in ids'
      BY <2>2, <3>1
    <3>5. "preview" \in LeaseAt /\ "preview" \in IdAt /\ "preview" \notin IdsAt /\ conn[c].at \in LeaseAt
      BY DEF LeaseAt, IdAt, IdsAt
    <3> QED BY <2>2, <3>2, <3>3, <3>4, <3>5, <1>1
  <2> QED BY <2>1, <2>2 DEF AdmitId, RegisterClient
<1>3. ASSUME AdmitPreview(c) PROVE ServeInv'
  <2> USE <1>3
  <2> /\ ~conn[c].started /\ op[c] \in {"none", "over"} /\ conn[c].at = "preview"
      /\ lis.pending \in SUBSET Conn /\ lis = [lis EXCEPT !.pending = lis.pending]
    BY Stages DEF AdmitPreview, SessionAt, WorkAt
  <2> UNCHANGED <<super, admitRest, poolClosed, scene, lis, op>>
    BY DEF AdmitPreview
  <2>1. CASE To(c, "undoId") /\ ids' = ids
    <3>1. UNCHANGED pool
      BY <2>1 DEF pool
    <3>2. /\ "undoId" \in ConnAt /\ {"undoId", "preview"} \subseteq LeaseAt \intersect IdAt
          /\ {"undoId", "preview"} \intersect IdsAt = {}
      BY DEF ConnAt, LeaseAt, IdAt, IdsAt
    <3> QED BY <2>1, <3>1, <3>2, QuietTo
  <2>2. CASE To(c, "check") /\ ids' = ids \union {<<c, "preview">>}
    <3>1. <<c, "stream">> \in ids /\ ids \subseteq Conn \X {"stream", "preview"}
      BY DEF IdAt
    <3>2. ids' \subseteq Conn \X {"stream", "preview"}
      BY <2>2, <3>1
    <3>3. \A d \in Conn \ {c} : /\ <<d, "preview">> \in ids' <=> <<d, "preview">> \in ids
                                /\ <<d, "stream">> \in ids' <=> <<d, "stream">> \in ids
      BY <2>2
    <3>4. <<c, "preview">> \in ids' /\ <<c, "stream">> \in ids'
      BY <2>2, <3>1
    <3>5. "check" \in LeaseAt /\ "check" \in IdAt /\ "check" \in IdsAt /\ conn[c].at \in LeaseAt
      BY DEF LeaseAt, IdAt, IdsAt
    <3> QED BY <2>2, <3>2, <3>3, <3>4, <3>5, <1>1
  <2> QED BY <2>1, <2>2 DEF AdmitPreview, RegisterClient
\* CloseClient for the preview identity, then for the stream identity.
<1>4. ASSUME NEW x \in {"undoId", "closeId"}, To(c, x), CloseClient(c, "preview"),
             conn[c].at \in {"undoPreview", "closing"}, conn[c].started => x = "closeId",
             UNCHANGED <<super, admitRest, lis, op>>
      PROVE  ServeInv'
  <2> USE <1>4
  <2>1. op[c] \in {"none", "over"} /\ conn[c].at \in LeaseAt /\ conn[c].at \in IdAt
    BY Stages DEF WorkAt, LeaseAt, IdAt, IdsAt
  <2> ids' = ids \ {<<c, "preview">>} /\ UNCHANGED <<super, admitRest, poolClosed, scene, lis, op>>
    BY DEF CloseClient
  <2>2. <<c, "stream">> \in ids /\ ids \subseteq Conn \X {"stream", "preview"}
    BY <2>1
  <2>3. ids' \subseteq Conn \X {"stream", "preview"}
    BY <2>2
  <2>4. \A d \in Conn \ {c} : /\ <<d, "preview">> \in ids' <=> <<d, "preview">> \in ids
                              /\ <<d, "stream">> \in ids' <=> <<d, "stream">> \in ids
    OBVIOUS
  <2>5. ~(<<c, "preview">> \in ids') /\ <<c, "stream">> \in ids'
    BY <2>2
  <2>6. x \in LeaseAt /\ x \in IdAt /\ x \notin IdsAt
    BY DEF LeaseAt, IdAt, IdsAt
  <2>7. conn[c].started => x \in SessionAt
    BY DEF SessionAt
  <2> QED BY <2>1, <2>3, <2>4, <2>5, <2>6, <2>7, <1>1
<1>5. ASSUME NEW x \in {"undoLease", "release"}, To(c, x), CloseClient(c, "stream"),
             conn[c].at \in {"undoId", "closeId"}, conn[c].started => x = "release",
             UNCHANGED <<super, admitRest, lis, op>>
      PROVE  ServeInv'
  <2> USE <1>5
  <2>1. op[c] \in {"none", "over"} /\ conn[c].at \in LeaseAt /\ conn[c].at \notin IdsAt
    BY Stages DEF WorkAt, LeaseAt, IdAt, IdsAt
  <2> ids' = ids \ {<<c, "stream">>} /\ UNCHANGED <<super, admitRest, poolClosed, scene, lis, op>>
    BY DEF CloseClient
  <2>2. ~(<<c, "preview">> \in ids) /\ ids \subseteq Conn \X {"stream", "preview"}
    BY <2>1
  <2>3. ids' \subseteq Conn \X {"stream", "preview"}
    BY <2>2
  <2>4. \A d \in Conn \ {c} : /\ <<d, "preview">> \in ids' <=> <<d, "preview">> \in ids
                              /\ <<d, "stream">> \in ids' <=> <<d, "stream">> \in ids
    OBVIOUS
  <2>5. ~(<<c, "preview">> \in ids') /\ ~(<<c, "stream">> \in ids')
    BY <2>2
  <2>6. x \in LeaseAt /\ x \notin IdAt /\ x \notin IdsAt
    BY DEF LeaseAt, IdAt, IdsAt
  <2>7. conn[c].started => x \in SessionAt
    BY DEF SessionAt
  <2> QED BY <2>1, <2>3, <2>4, <2>5, <2>6, <2>7, <1>1
<1>6. ASSUME UndoPreview(c) PROVE ServeInv'
  <2> USE <1>6
  <2>1. ~conn[c].started
    BY Stages DEF UndoPreview, SessionAt
  <2> QED BY <2>1, <1>4 DEF UndoPreview
<1>7. ASSUME CoreDrains(c) PROVE ServeInv'
  BY <1>7, <1>4 DEF CoreDrains
<1>8. ASSUME UndoId(c) PROVE ServeInv'
  <2> USE <1>8
  <2>1. ~conn[c].started
    BY Stages DEF UndoId, SessionAt
  <2> QED BY <2>1, <1>5 DEF UndoId
<1>9. ASSUME CoreRetires(c) PROVE ServeInv'
  BY <1>9, <1>5 DEF CoreRetires
<1> QED BY <1>2, <1>3, <1>6, <1>7, <1>8, <1>9

-----------------------------------------------------------------------------
(* Taking and giving back leases.                                          *)

LEMMA FiniteConns ==
    ASSUME NEW S, S \subseteq Conn
    PROVE  IsFiniteSet(S) /\ Cardinality(S) \in Nat
BY ServeAssumption, FS_Subset, FS_CardinalityType

LEMMA RunExpiresKeeps ==
    ASSUME ServeInv, RunExpires
    PROVE  ServeInv'
<1> UNCHANGED <<root, hooks, registry, main, ids, poolClosed, scene, lis, conn, op>> /\ run.at = "expired"
  BY DEF RunExpires, startup, pool
<1>1. CASE /\ run' = [run EXCEPT !.at = "read", !.timer = NoTimer, !.arm = 0]
           /\ UNCHANGED <<sup, tick, elapsed>>
  <2>1. UNCHANGED <<sup, tick, elapsed, root, startup, pool, lis, conn, op>>
    BY <1>1 DEF RunExpires
  <2> QED BY <1>1, <2>1, RunAgain DEF Watching
<1>2. CASE /\ expires(sup, run.arm)
           /\ Sets(commit(sup))
           /\ run' = [run EXCEPT !.at = "finalize"]
  <2> ClockInv /\ CountInv
    BY DEF ServeInv
  <2> /\ SupOK(commit(sup)) /\ commit(sup).closed /\ commit(sup).arm = sup.arm /\ commit(sup).leases = sup.leases
    BY RunFields, CommitSup
  <2> /\ sup' = commit(sup) /\ elapsed' = elapsed \intersect {commit(sup).arm}
      /\ tick' = IF commit(sup).timer = sup.timer THEN tick ELSE tick \ {sup.timer}
    BY <1>2 DEF Sets
  <2> run'.at = "finalize" /\ run'.timer = run.timer /\ run'.arm = run.arm /\ run'.hooks = run.hooks
    BY <1>2, RunFields
  <2>1. run' \in [at : RunAt, timer : Nat, arm : Nat, hooks : {run.hooks}]
    BY <1>2, RunFields DEF RunAt
  <2>2. ClockInv'
    <3>1. elapsed' = elapsed
      BY DEF ClockInv
    <3>2. /\ tick' \subseteq elapsed' /\ elapsed' \subseteq {sup'.arm} /\ NoTimer \notin elapsed'
          /\ tick' \subseteq {sup'.timer}
      BY <3>1 DEF ClockInv
    <3>3. run'.timer \in {NoTimer, run'.arm} /\ run'.arm <= sup'.arm /\ SupOK(sup')
      BY DEF ClockInv
    <3> QED BY <2>1, <3>2, <3>3 DEF ClockInv
  <2>3. ShapeInv' /\ TableInv' /\ DrainInv' /\ Leasing' = Leasing /\ Operating' = Operating
    BY WatchingRest DEF Watching
  <2>4. ~Starting
    <3>1. sup.leases["operation"] = 0
      BY <1>2 DEF expires, Unleased, LeaseKind
    <3>2. Cardinality(Operating) \in Nat
      BY FiniteConns DEF Operating
    <3> QED BY <3>1, <3>2 DEF CountInv
  <2>5. CountInv'
    BY <2>3, <2>4 DEF CountInv, Starting
  <2> QED BY <2>2, <2>3, <2>5 DEF ServeInv
<1> QED BY <1>1, <1>2 DEF RunExpires

LEMMA MainAdmittedKeeps ==
    ASSUME ServeInv, MainAdmitted
    PROVE  ServeInv'
<1> /\ main = "lease" /\ main' = "runner" /\ Admits("operation") /\ ClockInv /\ CountInv
    /\ UNCHANGED <<root, run, hooks, registry, pool, lis, conn, op>>
  BY DEF MainAdmitted, ServeInv
<1> ClockInv' /\ sup'.closed = sup.closed /\ ~sup.closed /\ sup'.leases = [sup.leases EXCEPT !["operation"] = @ + 1]
  BY AdmitsClock DEF LeaseKind
<1>1. ShapeInv' /\ TableInv' /\ DrainInv' /\ Leasing' = Leasing /\ Operating' = Operating
  BY MainMoves
<1>2. CountInv'
  <2>1. sup.leases \in [LeaseKind -> Nat]
    BY RunFields DEF SupType
  <2>2. sup'.leases["operation"] = sup.leases["operation"] + 1 /\ sup'.leases["client"] = sup.leases["client"]
    BY <2>1 DEF LeaseKind
  <2>3. ~Starting /\ Starting'
    BY DEF Starting
  <2>4. Cardinality(Operating) \in Nat
    BY FiniteConns DEF Operating
  <2> QED BY <1>1, <2>2, <2>3, <2>4 DEF CountInv
<1> QED BY <1>1, <1>2 DEF ServeInv

LEMMA MainReleasesKeeps ==
    ASSUME ServeInv, MainReleases
    PROVE  ServeInv'
<1> /\ main \in {"started", "unwind"} /\ main' \in {"serving", "close"} /\ (main' = "serving" => main = "started")
    /\ Releases("operation") /\ ClockInv /\ CountInv
    /\ UNCHANGED <<root, run, hooks, registry, pool, lis, conn, op>>
  BY DEF MainReleases, ServeInv
<1>1. Starting /\ ~Starting'
  BY DEF Starting
<1> sup.leases \in [LeaseKind -> Nat] /\ Cardinality(Operating) \in Nat
  BY RunFields, FiniteConns DEF SupType, Operating
<1>2. sup.leases["operation"] = Cardinality(Operating) + 1
  BY <1>1 DEF CountInv
<1>3. sup.leases["operation"] > 0
  BY <1>2
<1> ClockInv' /\ sup'.closed = sup.closed /\ sup'.leases = [sup.leases EXCEPT !["operation"] = @ - 1]
  BY <1>3, ReleasesClock DEF LeaseKind
<1>4. ShapeInv' /\ TableInv' /\ DrainInv' /\ Leasing' = Leasing /\ Operating' = Operating
  BY MainMoves
<1>5. CountInv'
  <2>1. sup'.leases["operation"] = sup.leases["operation"] - 1 /\ sup'.leases["client"] = sup.leases["client"]
    BY DEF LeaseKind
  <2> QED BY <1>1, <1>2, <1>4, <2>1 DEF CountInv
<1> QED BY <1>4, <1>5 DEF ServeInv

\* Each counter follows its holders.
LEMMA LeaseSteps ==
    ASSUME ServeInv, NEW c \in Conn
    PROVE  (AdmitLease(c) \/ UndoLease(c) \/ CoreReleases(c) \/ OpAdmitted(c) \/ OpReleases(c)) => ServeInv'
\* The holders of a lease after c took or gave back one.
<1>1. ASSUME Moves(c)
      PROVE  /\ HasLease(c)' => Leasing' = Leasing \union {c}
             /\ ~HasLease(c)' => Leasing' = Leasing \ {c}
             /\ HasOperation(c)' => Operating' = Operating \union {c}
             /\ ~HasOperation(c)' => Operating' = Operating \ {c}
             /\ Starting' <=> Starting
             /\ sup'.closed = sup.closed
  <2> USE <1>1
  <2>1. \A d \in Conn \ {c} : conn'[d] = conn[d] /\ op'[d] = op[d]
    BY DEF Moves
  <2>2. \A d \in Conn \ {c} : HasLease(d)' <=> HasLease(d)
    BY <2>1 DEF HasLease, HasId, HasIds
  <2>3. \A d \in Conn \ {c} : HasOperation(d)' <=> HasOperation(d)
    BY <2>1 DEF HasOperation
  <2>4. main' = main /\ sup'.closed = sup.closed
    BY DEF Moves, startup
  <2>5. HasLease(c)' => Leasing' = Leasing \union {c}
    BY <2>2 DEF Leasing
  <2>6. ~HasLease(c)' => Leasing' = Leasing \ {c}
    BY <2>2 DEF Leasing
  <2>7. HasOperation(c)' => Operating' = Operating \union {c}
    BY <2>3 DEF Operating
  <2>8. ~HasOperation(c)' => Operating' = Operating \ {c}
    BY <2>3 DEF Operating
  <2> QED BY <2>4, <2>5, <2>6, <2>7, <2>8 DEF Starting
<1>2. ASSUME CountInv, Moves(c), sup.leases \in [LeaseKind -> Nat],
             sup'.leases = [sup.leases EXCEPT !["client"] = @ + 1],
             ~HasLease(c), HasLease(c)', HasOperation(c)' <=> HasOperation(c)
      PROVE  CountInv'
  <2> USE <1>2
  <2>1. Leasing' = Leasing \union {c} /\ c \notin Leasing /\ Leasing \subseteq Conn
    BY <1>1 DEF Leasing
  <2>2. Operating' = Operating
    BY <1>1 DEF Operating
  <2>3. Cardinality(Leasing') = Cardinality(Leasing) + 1
    BY <2>1, FiniteConns, FS_AddElement
  <2>4. sup'.leases["client"] = sup.leases["client"] + 1 /\ sup'.leases["operation"] = sup.leases["operation"]
    BY DEF LeaseKind
  <2> QED BY <2>2, <2>3, <2>4, <1>1 DEF CountInv
<1>3. ASSUME CountInv, Moves(c), sup.leases \in [LeaseKind -> Nat],
             sup'.leases = [sup.leases EXCEPT !["client"] = @ - 1],
             HasLease(c), ~HasLease(c)', HasOperation(c)' <=> HasOperation(c)
      PROVE  CountInv'
  <2> USE <1>3
  <2>1. Leasing' = Leasing \ {c} /\ c \in Leasing /\ Leasing \subseteq Conn
    BY <1>1 DEF Leasing
  <2>2. Operating' = Operating
    BY <1>1 DEF Operating
  <2>3. Cardinality(Leasing') = Cardinality(Leasing) - 1
    BY <2>1, FiniteConns, FS_RemoveElement
  <2>4. sup'.leases["client"] = sup.leases["client"] - 1 /\ sup'.leases["operation"] = sup.leases["operation"]
    BY DEF LeaseKind
  <2> QED BY <2>2, <2>3, <2>4, <1>1 DEF CountInv
<1>4. ASSUME CountInv, Moves(c), sup.leases \in [LeaseKind -> Nat],
             sup'.leases = [sup.leases EXCEPT !["operation"] = @ + 1],
             ~HasOperation(c), HasOperation(c)', HasLease(c)' <=> HasLease(c)
      PROVE  CountInv'
  <2> USE <1>4
  <2>1. Operating' = Operating \union {c} /\ c \notin Operating /\ Operating \subseteq Conn
    BY <1>1 DEF Operating
  <2>2. Leasing' = Leasing
    BY <1>1 DEF Leasing
  <2>3. Cardinality(Operating') = Cardinality(Operating) + 1 /\ Cardinality(Operating) \in Nat
    BY <2>1, FiniteConns, FS_AddElement
  <2>4. sup'.leases["operation"] = sup.leases["operation"] + 1 /\ sup'.leases["client"] = sup.leases["client"]
    BY DEF LeaseKind
  <2> QED BY <2>2, <2>3, <2>4, <1>1 DEF CountInv
<1>5. ASSUME CountInv, Moves(c), sup.leases \in [LeaseKind -> Nat],
             sup'.leases = [sup.leases EXCEPT !["operation"] = @ - 1],
             HasOperation(c), ~HasOperation(c)', HasLease(c)' <=> HasLease(c)
      PROVE  CountInv'
  <2> USE <1>5
  <2>1. Operating' = Operating \ {c} /\ c \in Operating /\ Operating \subseteq Conn
    BY <1>1 DEF Operating
  <2>2. Leasing' = Leasing
    BY <1>1 DEF Leasing
  <2>3. Cardinality(Operating') = Cardinality(Operating) - 1 /\ Cardinality(Operating) \in Nat
    BY <2>1, FiniteConns, FS_RemoveElement
  <2>4. sup'.leases["operation"] = sup.leases["operation"] - 1 /\ sup'.leases["client"] = sup.leases["client"]
    BY DEF LeaseKind
  <2> QED BY <2>2, <2>3, <2>4, <1>1 DEF CountInv
\* A holder is counted.
<1> /\ HasLease(c) => sup.leases["client"] > 0
    /\ HasOperation(c) => sup.leases["operation"] > 0
    /\ sup.leases \in [LeaseKind -> Nat]
  <2>1. sup.leases \in [LeaseKind -> Nat]
    BY DEF ServeInv, ClockInv, SupOK, SupType
  <2> /\ IsFiniteSet(Leasing) /\ Cardinality(Leasing) \in Nat
      /\ IsFiniteSet(Operating) /\ Cardinality(Operating) \in Nat
    BY FiniteConns DEF Leasing, Operating
  <2>2. HasLease(c) => Cardinality(Leasing) # 0
    BY FS_EmptySet DEF Leasing
  <2>3. HasOperation(c) => Cardinality(Operating) # 0
    BY FS_EmptySet DEF Operating
  <2> QED BY <2>1, <2>2, <2>3 DEF ServeInv, CountInv
\* A step of c between two stages with the same tables.
<1>6. ASSUME NEW x \in ConnAt, To(c, x),
             conn[c].at \notin {"none", "over", "refused", "forget"}, x \notin {"none", "over", "forget"},
             conn[c].started => x \in SessionAt,
             op[c] \in {"none", "over"},
             x \in IdsAt <=> conn[c].at \in IdsAt,
             x \in IdAt <=> conn[c].at \in IdAt,
             sup'.closed = sup.closed,
             UNCHANGED <<admitRest, pool, lis, op>>
      PROVE  /\ Moves(c) /\ conn'[c].at = x /\ ShapeInv' /\ DrainInv' /\ TableInv'
             /\ HasOperation(c)' <=> HasOperation(c)
  <2> USE <1>6
  <2> ShapeInv /\ lis \in ListenerType /\ TableInv
    BY DEF ServeInv, ShapeInv
  <2> UNCHANGED <<ids, root, run, startup, poolClosed, scene, op, lis>>
    BY DEF pool, admitRest
  <2> Moves(c) /\ conn'[c].at = x /\ conn'[c].started = conn[c].started
    BY ToMoves
  <2>1. ShapeInv' /\ DrainInv'
    BY MovesRest
  <2>2. SlotsInv'
    <3>1. (HasSlot(c)' <=> HasSlot(c)) /\ (conn[c].at = "refused" => conn'[c].at = "refused")
      BY DEF HasSlot
    <3> QED BY <3>1, SlotsKept DEF TableInv
  <2>3. IdsInv'
    <3>1. (HasIds(c)' <=> HasIds(c)) /\ (HasId(c)' <=> HasId(c))
      BY DEF HasIds, HasId, IdsAt, IdAt
    <3> QED BY <3>1, IdsKept DEF TableInv
  <2>4. SessionsInv'
    <3>1. Live(c)' <=> Live(c)
      BY DEF Live
    <3> QED BY <3>1, SessionsKept DEF TableInv
  <2>5. HasOperation(c)' <=> HasOperation(c)
    BY DEF HasOperation
  <2> QED BY <2>1, <2>2, <2>3, <2>4, <2>5 DEF TableInv
<1>7. ASSUME AdmitLease(c) PROVE ServeInv'
  <2> USE <1>7
  <2> /\ ~conn[c].started /\ op[c] \in {"none", "over"} /\ conn[c].at = "lease"
      /\ lis.pending \in SUBSET Conn /\ lis = [lis EXCEPT !.pending = lis.pending]
    BY Stages DEF AdmitLease, SessionAt, WorkAt
  <2> UNCHANGED <<admitRest, pool, lis, op, run>> /\ ClockInv /\ CountInv
    BY DEF AdmitLease, admitRest, ServeInv
  <2>1. CASE sup.closed /\ To(c, "refused") /\ UNCHANGED super
    <3>1. /\ "refused" \in ConnAt
          /\ {"refused", "lease"} \intersect (LeaseAt \union IdAt \union IdsAt) = {}
      BY DEF ConnAt, LeaseAt, IdAt, IdsAt
    <3> QED BY <2>1, <3>1, QuietTo
  <2>2. CASE Admits("client") /\ To(c, "id")
    <3> ClockInv' /\ sup'.closed = sup.closed /\ sup'.leases = [sup.leases EXCEPT !["client"] = @ + 1]
      BY <2>2, AdmitsClock DEF LeaseKind
    <3> /\ Moves(c) /\ conn'[c].at = "id" /\ ShapeInv' /\ DrainInv' /\ TableInv'
        /\ HasOperation(c)' <=> HasOperation(c)
      BY <2>2, <1>6 DEF ConnAt, LeaseAt, IdAt, IdsAt
    <3>1. ~HasLease(c) /\ HasLease(c)'
      BY DEF HasLease, HasId, HasIds
    <3>2. CountInv'
      BY <3>1, <1>2
    <3> QED BY <3>2 DEF ServeInv
  <2> QED BY <2>1, <2>2 DEF AdmitLease
\* The two ways a client gives its lease back.
<1>8. ASSUME NEW x \in {"refused", "slot"}, Releases("client"), To(c, x),
             conn[c].at \in {"undoLease", "release"}, conn[c].started => x = "slot",
             UNCHANGED <<admitRest, pool, lis, op>>
      PROVE  ServeInv'
  <2> USE <1>8
  <2> op[c] \in {"none", "over"} /\ HasLease(c)
    BY Stages DEF WorkAt, HasLease
  <2>1. UNCHANGED run /\ ClockInv /\ CountInv
    BY DEF admitRest, ServeInv
  <2> ClockInv' /\ sup'.closed = sup.closed /\ sup'.leases = [sup.leases EXCEPT !["client"] = @ - 1]
    BY <2>1, ReleasesClock DEF LeaseKind
  <2>2. conn[c].at \notin IdAt /\ conn[c].at \notin IdsAt /\ x \notin IdAt /\ x \notin IdsAt /\ x \in ConnAt
    BY DEF IdAt, IdsAt, ConnAt
  <2>3. conn[c].started => x \in SessionAt
    BY DEF SessionAt
  <2> /\ Moves(c) /\ conn'[c].at = x /\ ShapeInv' /\ DrainInv' /\ TableInv'
      /\ HasOperation(c)' <=> HasOperation(c)
    BY <2>2, <2>3, <1>6
  <2>4. ~HasLease(c)'
    BY DEF HasLease, HasId, HasIds
  <2>5. CountInv'
    BY <2>1, <2>4, <1>3
  <2> QED BY <2>5 DEF ServeInv
<1>9. ASSUME UndoLease(c) PROVE ServeInv'
  <2> USE <1>9
  <2>1. ~conn[c].started
    BY Stages DEF UndoLease, SessionAt
  <2> QED BY <2>1, <1>8 DEF UndoLease
<1>10. ASSUME CoreReleases(c) PROVE ServeInv'
  BY <1>10, <1>8 DEF CoreReleases
<1>11. ASSUME OpAdmitted(c) PROVE ServeInv'
  <2> USE <1>11
  <2> op[c] = "admit" /\ conn[c].at \in WorkAt
    BY Stages DEF OpAdmitted
  <2> UNCHANGED <<root, run, startup, pool, lis, conn>> /\ ClockInv /\ CountInv
    BY DEF OpAdmitted, admitRest, ServeInv
  <2>1. CASE sup.closed /\ op' = [op EXCEPT ![c] = "leave"] /\ UNCHANGED super
    BY <2>1, QuietOp DEF OpAt
  <2>2. CASE Admits("operation") /\ op' = [op EXCEPT ![c] = "running"]
    <3> ClockInv' /\ sup'.closed = sup.closed /\ sup'.leases = [sup.leases EXCEPT !["operation"] = @ + 1]
      BY <2>2, AdmitsClock DEF LeaseKind
    <3> /\ Moves(c) /\ op'[c] = "running" /\ (HasLease(c)' <=> HasLease(c)) /\ (HasSlot(c)' <=> HasSlot(c))
        /\ (HasIds(c)' <=> HasIds(c)) /\ (HasId(c)' <=> HasId(c)) /\ (Live(c)' <=> Live(c))
      BY <2>2, OpMoves DEF OpAt
    <3>1. ~HasOperation(c) /\ HasOperation(c)'
      BY DEF HasOperation
    <3>2. CountInv'
      BY <3>1, <1>4
    <3>3. ShapeInv' /\ DrainInv'
      BY MovesRest
    <3>4. ids' = ids /\ conn' = conn /\ lis' = lis
      BY DEF pool
    <3>5. SlotsInv' /\ IdsInv' /\ SessionsInv'
      BY <3>4, SlotsKept, IdsKept, SessionsKept DEF ServeInv, TableInv
    <3> QED BY <3>2, <3>3, <3>5 DEF ServeInv, TableInv
  <2> QED BY <2>1, <2>2 DEF OpAdmitted
<1>12. ASSUME OpReleases(c) PROVE ServeInv'
  <2> USE <1>12
  <2> op[c] = "release" /\ conn[c].at \in WorkAt /\ HasOperation(c) /\ op' = [op EXCEPT ![c] = "leave"]
    BY Stages DEF OpReleases, HasOperation
  <2> UNCHANGED <<root, run, startup, pool, lis, conn>> /\ ClockInv /\ CountInv /\ Releases("operation")
    BY DEF OpReleases, admitRest, ServeInv
  <2> ClockInv' /\ sup'.closed = sup.closed /\ sup'.leases = [sup.leases EXCEPT !["operation"] = @ - 1]
    BY ReleasesClock DEF LeaseKind
  <2> /\ Moves(c) /\ op'[c] = "leave" /\ (HasLease(c)' <=> HasLease(c)) /\ (HasSlot(c)' <=> HasSlot(c))
      /\ (HasIds(c)' <=> HasIds(c)) /\ (HasId(c)' <=> HasId(c)) /\ (Live(c)' <=> Live(c))
    BY OpMoves DEF OpAt
  <2>1. ~HasOperation(c)'
    BY DEF HasOperation
  <2>2. CountInv'
    BY <2>1, <1>5
  <2>3. ShapeInv' /\ DrainInv'
    BY MovesRest
  <2>4. ids' = ids /\ conn' = conn /\ lis' = lis
    BY DEF pool
  <2>5. SlotsInv' /\ IdsInv' /\ SessionsInv'
    BY <2>4, SlotsKept, IdsKept, SessionsKept DEF ServeInv, TableInv
  <2> QED BY <2>2, <2>3, <2>5 DEF ServeInv, TableInv
<1> QED BY <1>7, <1>9, <1>10, <1>11, <1>12

-----------------------------------------------------------------------------
(* Slots and sessions.                                                     *)

\* Taking a slot and giving it back, and the end of a session.
LEMMA SlotSteps ==
    ASSUME ServeInv, NEW c \in Conn
    PROVE  (Accept(c) \/ Refused(c) \/ SlotReleased(c) \/ SessionDone(c)) => ServeInv'
\* A step of c between two stages without a lease.
<1>1. ASSUME NEW x \in ConnAt \ LeaseAt, To(c, x),
             conn[c].at \notin LeaseAt, conn[c].at # "over", conn[c].at = "none" => lis.open,
             conn[c].started => x \in SessionAt,
             lis' \in ListenerType, lis'.closed = lis.closed, lis'.open = lis.open, lis'.drain = lis.drain,
             lis'.sessions \subseteq lis.sessions,
             UNCHANGED <<super, admitRest, pool, op>>
      PROVE  /\ Moves(c) /\ conn'[c].at = x /\ conn'[c].started = conn[c].started
             /\ ShapeInv' /\ DrainInv' /\ ClockInv' /\ CountInv' /\ IdsInv'
  <2> USE <1>1
  <2> ShapeInv /\ TableInv /\ CountInv /\ ClockInv
    BY DEF ServeInv
  <2> UNCHANGED <<sup, tick, elapsed, ids, root, run, startup, poolClosed, scene, op>>
    BY DEF super, pool, admitRest
  <2>1. op[c] \in {"none", "over"}
    BY Stages DEF WorkAt, LeaseAt, IdAt, IdsAt
  <2> /\ Moves(c) /\ conn'[c].at = x /\ conn'[c].started = conn[c].started
    BY <2>1, ToMoves
  <2>2. ShapeInv' /\ DrainInv'
    BY MovesRest
  <2>3. ClockInv'
    BY ClockKept
  <2>4. ~HasLease(c)' /\ ~HasLease(c)
    BY DEF HasLease, HasId, HasIds, LeaseAt, IdAt, IdsAt
  <2>5. CountInv'
    <3>1. HasOperation(c)' <=> HasOperation(c)
      BY DEF HasOperation
    <3> QED BY <2>4, <3>1, CountKept
  <2>6. IdsInv'
    <3>1. ~HasIds(c)' /\ ~HasIds(c) /\ ~HasId(c)' /\ ~HasId(c)
      BY <2>4 DEF HasLease, HasId
    <3> QED BY <3>1, IdsKept DEF TableInv
  <2> QED BY <2>2, <2>3, <2>5, <2>6
\* c takes or gives back its slot.
<1>2. ASSUME SlotsInv, Moves(c),
             \A d \in Conn \ {c} : d \in lis'.slots <=> d \in lis.slots,
             c \in lis'.slots => HasSlot(c)',
             HasSlot(c)' /\ conn'[c].at # "refused" => c \in lis'.slots,
             Cardinality(lis'.slots) <= scene.slots
      PROVE  SlotsInv'
  <2> USE <1>2
  <2> (\A d \in Conn \ {c} : conn'[d] = conn[d]) /\ scene' = scene
    BY DEF Moves
  <2>1. \A d \in Conn \ {c} : HasSlot(d)' <=> HasSlot(d)
    BY DEF HasSlot
  <2>2. \A d \in Conn : d \in lis'.slots => HasSlot(d)'
    BY <2>1 DEF SlotsInv
  <2>3. \A d \in Conn : HasSlot(d)' /\ conn'[d].at # "refused" => d \in lis'.slots
    BY <2>1 DEF SlotsInv
  <2> QED BY <2>2, <2>3 DEF SlotsInv
\* The slots are a finite set within the listener's bound.
<1> /\ lis.slots \subseteq Conn /\ IsFiniteSet(lis.slots) /\ Cardinality(lis.slots) \in Nat
    /\ scene.slots \in Nat /\ Cardinality(lis.slots) <= scene.slots
    /\ \A d \in Conn : /\ Cardinality(lis.slots \ {d}) <= scene.slots
                       /\ Cardinality(lis.slots \union {d}) <= Cardinality(lis.slots) + 1
  <2> lis.slots \subseteq Conn /\ Cardinality(lis.slots) <= scene.slots
    BY DEF ServeInv, ShapeInv, ListenerType, TableInv, SlotsInv
  <2> IsFiniteSet(lis.slots) /\ Cardinality(lis.slots) \in Nat
    BY FiniteConns
  <2>1. scene.slots \in Nat
    BY ServeAssumption DEF ServeInv, ShapeInv
  <2>2. ASSUME NEW d \in Conn
        PROVE  /\ Cardinality(lis.slots \ {d}) <= scene.slots
               /\ Cardinality(lis.slots \union {d}) <= Cardinality(lis.slots) + 1
    <3>1. Cardinality(lis.slots \ {d}) = IF d \in lis.slots THEN Cardinality(lis.slots) - 1 ELSE Cardinality(lis.slots)
      BY FS_RemoveElement
    <3>2. Cardinality(lis.slots \union {d}) = IF d \in lis.slots THEN Cardinality(lis.slots) ELSE Cardinality(lis.slots) + 1
      BY FS_AddElement
    <3> QED BY <2>1, <3>1, <3>2
  <2> QED BY <2>1, <2>2
<1>3. ASSUME Accept(c) PROVE ServeInv'
  <2> USE <1>3
  <2> lis \in ListenerType /\ conn[c].at = "none" /\ ~conn[c].started
    BY Stages DEF Accept, SessionAt
  <2>1. lis.slots \union {c} \in SUBSET Conn
    OBVIOUS
  <2> lis' = [lis EXCEPT !.slots = lis.slots \union {c}] /\ To(c, "accepted") /\ lis.open
    BY DEF Accept
  <2> lis' \in ListenerType /\ lis'.slots = lis.slots \union {c} /\ lis'.sessions = lis.sessions /\ lis'.drain = lis.drain
    BY <2>1 DEF ListenerType
  <2>2. lis'.closed = lis.closed /\ lis'.open = lis.open /\ lis'.retiring = lis.retiring
    BY DEF ListenerType
  <2>3. "accepted" \in ConnAt \ LeaseAt /\ conn[c].at \notin LeaseAt
    BY DEF ConnAt, LeaseAt, IdAt, IdsAt
  <2>4. UNCHANGED <<super, admitRest, pool, op>>
    BY DEF Accept
  <2> /\ Moves(c) /\ conn'[c].at = "accepted" /\ conn'[c].started = conn[c].started
      /\ ShapeInv' /\ DrainInv' /\ ClockInv' /\ CountInv' /\ IdsInv'
    BY <2>2, <2>3, <2>4, <1>1
  <2>5. SlotsInv'
    <3>1. HasSlot(c)'
      BY DEF HasSlot
    <3>2. Cardinality(lis'.slots) <= scene.slots
      <4>1. Cardinality(lis.slots) < scene.slots
        BY DEF Accept
      <4>2. /\ Cardinality(lis.slots) \in Nat /\ scene.slots \in Nat
            /\ Cardinality(lis.slots \union {c}) <= Cardinality(lis.slots) + 1
        OBVIOUS
      <4>3. IsFiniteSet(lis.slots \union {c}) /\ Cardinality(lis.slots \union {c}) \in Nat
        BY <2>1, FiniteConns
      <4> QED BY <4>1, <4>2, <4>3
    <3> QED BY <3>1, <3>2, <1>2 DEF ServeInv, TableInv
  <2>6. SessionsInv'
    <3>1. Live(c)' <=> Live(c)
      BY DEF Live
    <3> QED BY <2>2, <3>1, SessionsKept DEF ServeInv, TableInv
  <2> QED BY <2>5, <2>6 DEF ServeInv, TableInv
<1>4. ASSUME Refused(c) PROVE ServeInv'
  <2> USE <1>4
  <2> lis \in ListenerType /\ conn[c].at = "refused" /\ ~conn[c].started
    BY Stages DEF Refused, SessionAt
  <2> lis' = [lis EXCEPT !.pending = lis.pending \ {c}, !.slots = lis.slots \ {c}] /\ To(c, "over")
    BY DEF Refused, ListenerType
  <2> lis' \in ListenerType /\ lis'.slots = lis.slots \ {c} /\ lis'.sessions = lis.sessions /\ lis'.drain = lis.drain
    BY DEF ListenerType
  <2>1. lis'.closed = lis.closed /\ lis'.open = lis.open /\ lis'.retiring = lis.retiring
    BY DEF ListenerType
  <2>2. "over" \in ConnAt \ LeaseAt /\ conn[c].at \notin LeaseAt
    BY DEF ConnAt, LeaseAt, IdAt, IdsAt
  <2>3. UNCHANGED <<super, admitRest, pool, op>>
    BY DEF Refused
  <2> /\ Moves(c) /\ conn'[c].at = "over" /\ conn'[c].started = conn[c].started
      /\ ShapeInv' /\ DrainInv' /\ ClockInv' /\ CountInv' /\ IdsInv'
    BY <2>1, <2>2, <2>3, <1>1
  <2>4. SlotsInv'
    <3>1. ~HasSlot(c)' /\ Cardinality(lis'.slots) <= scene.slots
      BY DEF HasSlot
    <3> QED BY <3>1, <1>2 DEF ServeInv, TableInv
  <2>5. SessionsInv'
    <3>1. Live(c)' <=> Live(c)
      BY DEF Live
    <3> QED BY <2>1, <3>1, SessionsKept DEF ServeInv, TableInv
  <2> QED BY <2>4, <2>5 DEF ServeInv, TableInv
<1>5. ASSUME SlotReleased(c) PROVE ServeInv'
  <2> USE <1>5
  <2> lis \in ListenerType /\ conn[c].at = "slot"
    BY Stages DEF SlotReleased
  <2> lis' = [lis EXCEPT !.slots = lis.slots \ {c}] /\ To(c, "forget")
    BY DEF SlotReleased
  <2> lis' \in ListenerType /\ lis'.slots = lis.slots \ {c} /\ lis'.sessions = lis.sessions /\ lis'.drain = lis.drain
    BY DEF ListenerType
  <2>1. lis'.closed = lis.closed /\ lis'.open = lis.open /\ lis'.retiring = lis.retiring
    BY DEF ListenerType
  <2>2. "forget" \in ConnAt \ LeaseAt /\ conn[c].at \notin LeaseAt /\ "forget" \in SessionAt
    BY DEF ConnAt, LeaseAt, IdAt, IdsAt, SessionAt
  <2>3. UNCHANGED <<super, admitRest, pool, op>>
    BY DEF SlotReleased
  <2> /\ Moves(c) /\ conn'[c].at = "forget" /\ conn'[c].started = conn[c].started
      /\ ShapeInv' /\ DrainInv' /\ ClockInv' /\ CountInv' /\ IdsInv'
    BY <2>1, <2>2, <2>3, <1>1
  <2>4. SlotsInv'
    <3>1. ~HasSlot(c)' /\ Cardinality(lis'.slots) <= scene.slots
      BY DEF HasSlot
    <3> QED BY <3>1, <1>2 DEF ServeInv, TableInv
  <2>5. SessionsInv'
    <3>1. Live(c)' <=> Live(c)
      BY DEF Live
    <3> QED BY <2>1, <3>1, SessionsKept DEF ServeInv, TableInv
  <2> QED BY <2>4, <2>5 DEF ServeInv, TableInv
<1>6. ASSUME SessionDone(c) PROVE ServeInv'
  <2> USE <1>6
  <2> lis \in ListenerType /\ conn[c].at = "forget" /\ conn[c].started \in BOOLEAN
    BY Stages, ConnFields DEF SessionDone, ConnType
  <2>1. PICK x \in {"over", "refused"} : To(c, x) /\ (conn[c].started <=> x = "over")
    BY DEF SessionDone
  <2>2. lis' = [lis EXCEPT !.sessions = lis.sessions \ {c}]
    BY DEF SessionDone
  <2> lis' \in ListenerType /\ lis'.slots = lis.slots /\ lis'.sessions = lis.sessions \ {c} /\ lis'.drain = lis.drain
    BY <2>2 DEF ListenerType
  <2> lis'.closed = lis.closed /\ lis'.open = lis.open /\ lis'.retiring = lis.retiring
    BY <2>2 DEF ListenerType
  <2>3. x \in ConnAt \ LeaseAt /\ conn[c].at \notin LeaseAt /\ (conn[c].started => x \in SessionAt)
    BY <2>1 DEF ConnAt, LeaseAt, IdAt, IdsAt, SessionAt
  <2>4. UNCHANGED <<super, admitRest, pool, op>>
    BY DEF SessionDone
  <2> /\ Moves(c) /\ conn'[c].at = x /\ conn'[c].started = conn[c].started
      /\ ShapeInv' /\ DrainInv' /\ ClockInv' /\ CountInv' /\ IdsInv'
    BY <2>1, <2>3, <2>4, <1>1
  <2> SlotsInv /\ SessionsInv
    BY DEF ServeInv, TableInv
  <2>5. SlotsInv'
    <3>1. c \notin lis'.slots
      BY DEF SlotsInv, HasSlot
    <3>2. HasSlot(c)' => conn'[c].at = "refused"
      BY DEF HasSlot
    <3>3. Cardinality(lis'.slots) <= scene.slots
      OBVIOUS
    <3> QED BY <3>1, <3>2, <3>3, <1>2
  <2>6. SessionsInv'
    <3>1. ~Live(c)'
      BY <2>1 DEF Live
    <3>2. \A d \in Conn \ {c} : conn'[d] = conn[d]
      BY DEF Moves
    <3> \A d \in Conn \ {c} : Live(d)' <=> Live(d)
      BY <3>2 DEF Live
    <3>3. \A d \in lis'.sessions : Live(d)'
      BY DEF SessionsInv, ListenerType
    <3>4. \A d \in Conn : Live(d)' => d \in lis'.sessions \union lis'.drain
      BY <3>1 DEF SessionsInv
    <3>5. lis'.retiring => \A d, e \in Conn : Live(d)' /\ Live(e)' => d = e
      BY <3>1 DEF SessionsInv
    <3> QED BY <3>3, <3>4, <3>5 DEF SessionsInv
  <2> QED BY <2>5, <2>6 DEF ServeInv, TableInv
<1> QED BY <1>3, <1>4, <1>5, <1>6

-----------------------------------------------------------------------------
(* The start.                                                              *)

LEMMA ServeInit ==
    ASSUME Init
    PROVE  ServeInv
<1> SupOK(sup) /\ ~sup.closed /\ sup.leases = [k \in LeaseKind |-> 0]
  BY BootSup DEF Init
<1> \A c \in Conn : conn[c] = Idle /\ op[c] = "none"
  BY DEF Init
<1>1. ShapeInv
  <2>1. Idle \in ConnType /\ Placed(Idle, "none")
    BY DEF Idle, ConnType, ConnAt, LeaseAt, IdAt, IdsAt, Placed
  <2>2. conn \in [Conn -> ConnType] /\ op \in [Conn -> OpAt]
    BY <2>1 DEF Init, OpAt
  <2>3. scene.cold \in BOOLEAN
    BY ServeAssumption DEF Init
  <2>4. lis \in ListenerType
    BY <2>3 DEF Init, ListenerType
  <2> QED BY <2>1, <2>2, <2>4 DEF ShapeInv, Init
<1>2. ClockInv
  <2>1. sup.arm \in Nat
    BY DEF SupOK, SupType
  <2>2. tick = {} /\ elapsed = {} /\ run = [at |-> "read", timer |-> NoTimer, arm |-> 0, hooks |-> <<>>]
    BY DEF Init
  <2>3. /\ run \in [at : RunAt, timer : Nat, arm : Nat, hooks : {run.hooks}]
        /\ run.timer = NoTimer /\ run.arm = 0 /\ run.at = "read"
    BY <2>2 DEF RunAt, NoTimer
  <2> QED BY <2>1, <2>2, <2>3 DEF ClockInv
<1>3. Leasing = {} /\ Operating = {}
  BY DEF Leasing, Operating, HasLease, HasId, HasIds, HasOperation, Idle
<1>4. CountInv
  <2>1. sup.leases["client"] = 0 /\ sup.leases["operation"] = 0
    BY DEF LeaseKind
  <2>2. Cardinality(Leasing) = 0 /\ Cardinality(Operating) = 0
    BY <1>3, FS_EmptySet
  <2>3. ~Starting
    BY DEF Init, Starting
  <2> QED BY <2>1, <2>2, <2>3 DEF CountInv
<1> lis.slots = {} /\ lis.sessions = {} /\ lis.drain = {} /\ lis.retiring = FALSE /\ (scene.cold => ~lis.open)
  BY DEF Init
<1>5. SlotsInv
  <2>1. scene.slots \in Nat
    BY ServeAssumption DEF Init
  <2> QED BY <2>1, FS_EmptySet DEF SlotsInv, HasSlot, Idle
<1>6. IdsInv /\ SessionsInv
  BY DEF Init, IdsInv, HasIds, HasId, SessionsInv, Live, Idle
<1>7. StartInv
  <2>1. CASE scene.cold
    BY <2>1 DEF Init, StartInv, Hooks
  <2>2. CASE ~scene.cold
    BY <2>2 DEF Init, StartInv, Hooks, AllHooks
  <2> QED BY <2>1, <2>2
<1>8. run.at = "read" /\ poolClosed = FALSE /\ main # "exited"
  BY DEF Init
<1>9. WalkInv
  BY <1>8 DEF WalkInv, Stopping, Closing
<1>10. QuietInv
  <2>1. hooks # AllHooks => ~lis.open
    BY DEF Init, AllHooks
  <2> QED BY <1>8, <2>1 DEF QuietInv, PastListener, Closing
<1> QED BY <1>1, <1>2, <1>4, <1>5, <1>6, <1>7, <1>9, <1>10 DEF ServeInv, TableInv, DrainInv

-----------------------------------------------------------------------------
(* The invariant.                                                          *)

LEMMA ServeStep ==
    ASSUME ServeInv, [Next]_vars
    PROVE  ServeInv'
<1>1. CASE TimerFires \/ RegistryReturns \/ RetireCloses
  BY <1>1, WatchSteps, DrainSteps, RetireClosesKeeps
<1>2. CASE Runs
  <2>1. CASE RunExpires
    BY <2>1, RunExpiresKeeps
  <2>2. CASE RunReads \/ RunWoken \/ RunTicks \/ RunClosing
    BY <2>2, WatchSteps
  <2>3. CASE Finalize \/ DrainRegistry \/ DrainPool \/ Drained
    BY <2>3, DrainSteps
  <2>4. CASE \/ ListenerMarks \/ ListenerStops \/ ClosePending \/ ListenerJoins \/ ListenerClosed
             \/ \E c \in Conn : CloseSession(c) \/ SessionClosed(c)
    BY <2>4, CloseSteps
  <2> QED BY <1>2, <2>1, <2>2, <2>3, <2>4 DEF Runs
<1>3. CASE Starts \/ MainFails \/ MainStops
  <2>1. CASE MainAdmitted \/ MainReleases
    BY <2>1, MainAdmittedKeeps, MainReleasesKeeps
  <2>2. CASE MainRefused \/ MainFails \/ MainStops \/ MainExits \/ MainCommits
    BY <2>2, MainSteps
  <2>3. CASE MainRegistry \/ MainPool \/ MainListens \/ MainListener
    BY <2>3, StartupSteps
  <2> QED BY <1>3, <2>1, <2>2, <2>3 DEF Starts
<1>4. ASSUME NEW c \in Conn,
             \/ Accept(c) \/ Deadline(c) \/ PeerLeaves(c) \/ RegisterArrives(c)
             \/ Serves(c) \/ Publishes(c) \/ Guards(c) \/ OpStarts(c) \/ Works(c) \/ OpEnds(c)
      PROVE  ServeInv'
  <2>1. CASE \/ Deadline(c) \/ PeerLeaves(c) \/ RegisterArrives(c) \/ Publishes(c) \/ Guards(c) \/ ReaderEnds(c)
             \/ \E b \in scene.builds : RegisterEnds(c, b)
    BY <2>1, EditSteps
  <2>2. CASE TrackPending(c) \/ PreambleEnds(c) \/ AdmitCheck(c) \/ CoreCloses(c) \/ Bind(c)
    BY <2>2, StageSteps
  <2>3. CASE AdmitId(c) \/ AdmitPreview(c) \/ UndoPreview(c) \/ UndoId(c) \/ CoreDrains(c) \/ CoreRetires(c)
    BY <2>3, IdentitySteps
  <2>4. CASE OpStarts(c) \/ OpEnters(c) \/ OpEnds(c) \/ OpLeaves(c)
    BY <2>4, OperationSteps
  <2>5. CASE AdmitLease(c) \/ UndoLease(c) \/ CoreReleases(c) \/ OpAdmitted(c) \/ OpReleases(c)
    BY <2>5, LeaseSteps
  <2>6. CASE Accept(c) \/ Refused(c) \/ SlotReleased(c) \/ SessionDone(c)
    BY <2>6, SlotSteps
  <2> QED BY <1>4, <2>1, <2>2, <2>3, <2>4, <2>5, <2>6 DEF Serves, Works
<1>5. CASE UNCHANGED vars
  BY <1>5, ServeStill
<1> QED BY <1>1, <1>2, <1>3, <1>4, <1>5 DEF Next

\* ServeInv holds in every state of every behaviour of the broker's service.
THEOREM ServeAlways == Spec => []ServeInv
<1>1. Init => ServeInv
  BY ServeInit
<1>2. ServeInv /\ [Next]_vars => ServeInv'
  BY ServeStep
<1> QED BY <1>1, <1>2, PTL DEF Spec

-----------------------------------------------------------------------------
(* What follows from it.                                                   *)

LEMMA ServeLeases ==
    ASSUME ServeInv
    PROVE  LeasesExact
<1> ShapeInv /\ ClockInv /\ CountInv /\ SlotsInv /\ IdsInv
  BY DEF ServeInv, TableInv
<1>1. TypeOK
  <2>1. sup \in [closed : BOOLEAN, leases : [LeaseKind -> Nat], timer : Nat, armed : BOOLEAN, arm : Nat]
    BY DEF ClockInv, SupOK, SupType
  <2>2. tick \subseteq elapsed /\ elapsed \subseteq 1 .. sup.arm
    BY <2>1 DEF ClockInv, NoTimer
  <2>3. ids \subseteq Conn \X {"stream", "preview"} /\ lis.pending \subseteq Conn
    BY DEF IdsInv, ShapeInv, ListenerType
  <2> QED BY <2>1, <2>2, <2>3 DEF TypeOK
<1>2. (sup.armed <=> ~sup.closed /\ Unleased(sup)) /\ sup.timer = IF sup.armed THEN sup.arm ELSE NoTimer
  BY DEF ClockInv, SupOK
<1>3. ids = {i \in Conn \X {"stream", "preview"} :
               IF i[2] = "preview" THEN HasIds(i[1]) ELSE HasId(i[1])}
  <2>1. \A i \in Conn \X {"stream", "preview"} :
          i \in ids <=> IF i[2] = "preview" THEN HasIds(i[1]) ELSE HasId(i[1])
    <3> TAKE i \in Conn \X {"stream", "preview"}
    <3> PICK c \in Conn, u \in {"stream", "preview"} : i = <<c, u>>
      OBVIOUS
    <3> QED BY DEF IdsInv
  <2> QED BY <2>1 DEF IdsInv
<1> QED BY <1>1, <1>2, <1>3 DEF LeasesExact, CountInv, SlotsInv, Leasing, Operating

\* A connection about to take an identity has a slot, and does not have its
\* second identity yet: the identities are fewer than twice the slots.
LEMMA ServeCovers ==
    ASSUME ServeInv
    PROVE  SlotCoversIds
<1> SUFFICES ASSUME scene.clients = 2 * scene.slots, NEW c \in Conn, conn[c].at \in {"id", "preview"}
             PROVE  Cardinality(ids) < scene.clients
  BY DEF SlotCoversIds
<1> DEFINE Use == {"stream", "preview"}
           Paid == lis.slots \X Use
<1> ShapeInv /\ SlotsInv /\ IdsInv /\ lis.slots \subseteq Conn
  BY DEF ServeInv, TableInv, ShapeInv, ListenerType
<1>1. c \in lis.slots
  BY DEF SlotsInv, HasSlot
<1>2. <<c, "preview">> \notin ids
  BY DEF IdsInv, HasIds
<1>3. \A d \in Conn : HasId(d) => d \in lis.slots
  BY DEF SlotsInv, HasSlot, HasId, HasIds
<1>4. ids \subseteq Paid \ {<<c, "preview">>}
  <2> SUFFICES ASSUME NEW i \in ids
               PROVE  i \in Paid
    BY <1>2
  <2> PICK d \in Conn, u \in Use : i = <<d, u>>
    BY DEF IdsInv
  <2>1. HasId(d)
    BY DEF IdsInv, HasId
  <2> QED BY <1>3, <2>1
<1>5. IsFiniteSet(lis.slots) /\ IsFiniteSet(Use) /\ Cardinality(Use) = 2
  <2>1. IsFiniteSet(lis.slots)
    BY ServeAssumption, FS_Subset
  <2>2. IsFiniteSet({"stream"}) /\ Cardinality({"stream"}) = 1
    BY FS_Singleton
  <2>3. Use = {"stream"} \cup {"preview"} /\ "preview" \notin {"stream"}
    OBVIOUS
  <2> HIDE DEF Use
  <2>4. IsFiniteSet(Use) /\ Cardinality(Use) = 1 + 1
    BY <2>2, <2>3, FS_AddElement
  <2> QED BY <2>1, <2>4
<1>6. IsFiniteSet(Paid) /\ Cardinality(Paid) = Cardinality(lis.slots) * 2
  BY <1>5, FS_Product
<1>7. <<c, "preview">> \in Paid
  BY <1>1
<1>8. IsFiniteSet(Paid \ {<<c, "preview">>}) /\ Cardinality(Paid \ {<<c, "preview">>}) = Cardinality(Paid) - 1
  BY <1>6, <1>7, FS_RemoveElement
<1>9. IsFiniteSet(ids) /\ Cardinality(ids) <= Cardinality(Paid \ {<<c, "preview">>})
  BY <1>4, <1>8, FS_Subset
<1>10. Cardinality(ids) \in Nat /\ Cardinality(lis.slots) \in Nat /\ scene.slots \in Nat
  BY <1>5, <1>9, FS_CardinalityType, ServeAssumption DEF ShapeInv
<1>11. Cardinality(lis.slots) <= scene.slots
  BY DEF SlotsInv
<1> HIDE DEF Paid
<1> QED BY <1>6, <1>8, <1>9, <1>10, <1>11

LEMMA ServeRetires ==
    ASSUME ServeInv
    PROVE  RetiresAlone
<1> DEFINE S == {c \in Conn : Live(c)}
<1>1. S = {c \in Conn : conn[c].started /\ conn[c].at # "over"}
  BY DEF Live
<1>2. lis.retiring => \A c, d \in Conn : Live(c) /\ Live(d) => c = d
  BY DEF ServeInv, TableInv, SessionsInv
<1>3. ASSUME lis.retiring
      PROVE  Cardinality(S) <= 1
  <2>1. CASE S = {}
    BY <2>1, FS_EmptySet
  <2>2. CASE S # {}
    <3> PICK c : c \in S
      BY <2>2
    <3>1. S = {c}
      BY <1>2, <1>3
    <3> QED BY <3>1, FS_Singleton
  <2> QED BY <2>1, <2>2
<1> QED BY <1>1, <1>3 DEF RetiresAlone

LEMMA ServeJoins ==
    ASSUME ServeInv
    PROVE  ShutdownJoins
<1> ShapeInv /\ CountInv /\ SlotsInv /\ IdsInv /\ SessionsInv /\ WalkInv /\ QuietInv /\ lis \in ListenerType
  BY DEF ServeInv, TableInv, DrainInv, ShapeInv
<1>1. ASSUME PastListener
      PROVE  /\ root /\ ids = {} /\ lis.slots = {} /\ lis.sessions = {} /\ Leasing = {} /\ Operating = {}
             /\ \A c \in Conn : /\ conn[c].at \in {"none", "over"} /\ op[c] \in {"none", "over"}
                                /\ conn[c].publish \notin {"publishing", "closing"}
  <2>1. root
    BY <1>1 DEF PastListener, WalkInv, Stopping
  <2> \A c \in Conn : conn[c].at \in {"none", "over"} /\ conn[c].publish \notin {"publishing", "closing"}
    BY <1>1 DEF QuietInv, Settled
  <2>2. \A c \in Conn : op[c] \in {"none", "over"}
    BY DEF ShapeInv, Placed, WorkAt
  <2> \A c \in Conn : ~HasSlot(c) /\ ~HasIds(c) /\ ~HasId(c) /\ ~HasLease(c)
    BY DEF HasSlot, HasIds, HasId, HasLease
  <2>3. \A c \in Conn : ~Live(c)
    BY DEF Live, ShapeInv, Placed, SessionAt
  <2>4. lis.slots = {} /\ lis.sessions = {}
    BY <2>3 DEF SlotsInv, SessionsInv, ListenerType
  <2>5. ids = {}
    BY DEF IdsInv
  <2>6. Leasing = {} /\ Operating = {}
    BY <2>2 DEF Leasing, Operating, HasOperation
  <2> QED BY <2>1, <2>2, <2>4, <2>5, <2>6
<1>2. poolClosed => PastListener
  BY DEF QuietInv
<1>3. ASSUME main = "exited"
      PROVE  PastListener /\ registry # "running" /\ ~Starting
  BY <1>3 DEF QuietInv, WalkInv, PastListener, Starting
<1>4. ASSUME main = "exited"
      PROVE  Unleased(sup)
  <2>1. ~Starting /\ Leasing = {} /\ Operating = {}
    BY <1>1, <1>3, <1>4
  <2>2. Cardinality(Leasing) = 0 /\ Cardinality(Operating) = 0
    BY <2>1, FS_EmptySet
  <2>3. sup.leases["client"] = 0 /\ sup.leases["operation"] = 0
    BY <2>1, <2>2 DEF CountInv
  <2> QED BY <2>3 DEF Unleased, LeaseKind
<1> QED BY <1>1, <1>2, <1>3, <1>4 DEF ShutdownJoins

\* On every path of the admission, of the operations and of the shutdown, the
\* leases, the pool identities and the slots are those of the goroutines that
\* hold them, the idle timer is installed exactly while nothing is leased, a slot
\* pays for both identities of its connection, and a retiring broker serves one
\* client only (Authority.AdmitClient, Supervisor.admit and release, tryRetire).
THEOREM LeasesAlwaysExact == Spec => []ServiceExact
<1>1. ServeInv => ServiceExact
  BY ServeLeases, ServeCovers, ServeRetires DEF ServiceExact, AdmissionConsistent
<1> QED BY <1>1, ServeAlways, PTL

\* The drain of the hooks closes the pool only when no connection is left, and
\* the process exits only when nothing it started runs or is held.
THEOREM ShutdownAlwaysJoins == Spec => []ShutdownJoins
<1>1. ServeInv => ShutdownJoins
  BY ServeJoins
<1> QED BY <1>1, ServeAlways, PTL

-----------------------------------------------------------------------------
(* The idle shutdown.                                                      *)

\* When Supervisor.run commits the shutdown, no lease is held and the whole grace
\* of the arm it commits for went by: a tick of an arm that an admission
\* superseded never stops the broker (tryCommitIdleExpiry).
THEOREM CommitsAlwaysEarned == Spec => IdleCommitEarned
<1>1. ServeInv /\ [Next]_vars =>
        [~sup.closed /\ sup'.closed /\ main' = main => Unleased(sup) /\ sup.arm \in elapsed]_vars
  BY CommitsEarned
<1> QED BY <1>1, ServeAlways, PTL DEF Spec, IdleCommitEarned
=============================================================================
