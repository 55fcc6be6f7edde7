----------------------------- MODULE BrokerPool -----------------------------
(***************************************************************************)
(* The pool of physical connections of one broker                          *)
(* (usecase/broker/pool.go): logical streams reserve a place, share the    *)
(* physical connection of their daemon or start one, and leave it warm.    *)
(*                                                                         *)
(* req[r] is one OpenStream call and the stream it returns; ent[e] is one  *)
(* poolEntry with the goroutine that owns it, named after the call that    *)
(* created it or the probe that offered it.  A key is an identity with a   *)
(* policy, a fence an unbound endpoint with policy and start mode.  Each   *)
(* section under p.mu is one step, and so is each wait.                    *)
(***************************************************************************)
EXTENDS BrokerStreamWindow, Sequences, FiniteSets, SequencesExt

CONSTANTS
    Client, Req, Probe, Key, Fence,
    None,
    Demands  \* what a behaviour meets, a record of
             \*   calls     the OpenStream calls: client, stream, and the target they
             \*             resolve to: bound to a key, or a fence that turns out to be it
             \*   probes    transports observation offers, with their key
             \*   physical, clients, streams, perClient, warm   PoolLimits
             \*   idle      whether Idle is positive
             \*   cancels   whether callers cancel, close streams and leave
             \*   faults    the I/O that fails: resolve, connect, open; and lost connections
             \*   closes    whether the pool is closed

Entry == Req \union Probe

VARIABLES
    demand,
    poolState,  \* [closed, cancelled, streams]: p.closed, p.ctx, p.streams
    client,     \* p.clients: [at, window, streams]
    byKey,      \* p.entries
    byFence,    \* p.pending
    idled,      \* entries whose idleOrder is not zero, in that order
    ent,
    req,
    closer      \* where Pool.Close stands

maps == <<byKey, byFence>>
poolVars == <<demand, poolState, client, byKey, byFence, idled, ent, req, closer>>

NewEntry == [at |-> "none", key |-> None, fence |-> None, ready |-> FALSE, err |-> FALSE,
             redirect |-> None, refs |-> 0, retiring |-> FALSE, cancelled |-> FALSE,
             wake |-> FALSE, armed |-> FALSE, physical |-> "none", evict |-> {}]

NewReq == [at |-> "idle", cancelled |-> FALSE, entry |-> None, why |-> "none", evict |-> {}]

PoolInit ==
    /\ demand \in Demands
    /\ poolState = [closed |-> FALSE, cancelled |-> FALSE, streams |-> 0]
    /\ client = [c \in Client |-> [at |-> "new", window |-> NewWindow, streams |-> {}]]
    /\ byKey = [k \in Key |-> None]
    /\ byFence = [f \in Fence |-> None]
    /\ idled = <<>>
    /\ ent = [e \in Entry |-> NewEntry]
    /\ req = [r \in Req |-> NewReq]
    /\ closer = "idle"

Live(c) == client[c].at = "live"
Occupied == Cardinality({k \in Key : byKey[k] # None}) + Cardinality({f \in Fence : byFence[f] # None})

\* e.ctx derives from p.ctx.
EntryDone(e) == ent[e].cancelled \/ poolState.cancelled
PhysicalDone(e) == ent[e].physical \in {"lost", "closed"}

-----------------------------------------------------------------------------
\* Clients

PoolRegisterClient(c) ==
    /\ client[c].at = "new"
    /\ \E r \in DOMAIN demand.calls : demand.calls[r].client = c
    /\ LET refused == poolState.closed \/ Cardinality({d \in Client : Live(d)}) >= demand.clients IN
       client' = [client EXCEPT ![c].at = IF refused THEN "refused" ELSE "live"]
    /\ UNCHANGED <<demand, poolState, maps, idled, ent, req, closer>>

PoolCloseClient(c) ==
    /\ demand.cancels /\ Live(c)
    /\ client' = [client EXCEPT ![c].at = "gone"]
    /\ req' = [r \in Req |-> IF r \in client[c].streams THEN [req[r] EXCEPT !.cancelled = TRUE] ELSE req[r]]
    /\ UNCHANGED <<demand, poolState, maps, idled, ent, closer>>

\* CloseStream, or the end of the caller's context.
CloseStream(r) ==
    /\ demand.cancels /\ req[r].at \notin {"idle", "release", "evict", "over"} /\ ~req[r].cancelled
    /\ req' = [req EXCEPT ![r].cancelled = TRUE]
    /\ UNCHANGED <<demand, poolState, client, maps, idled, ent, closer>>

\* context.AfterFunc(p.ctx, cancel)
ShutdownCancels(r) ==
    /\ poolState.cancelled /\ req[r].at \notin {"idle", "release", "evict", "over"} /\ ~req[r].cancelled
    /\ req' = [req EXCEPT ![r].cancelled = TRUE]
    /\ UNCHANGED <<demand, poolState, client, maps, idled, ent, closer>>

-----------------------------------------------------------------------------
\* OpenStream

\* Admission: an identity the window takes stays consumed when a limit refuses.
Admit(r) ==
    /\ r \in DOMAIN demand.calls /\ req[r].at = "idle"
    /\ LET call == demand.calls[r]
           c == call.client
           known == ~poolState.closed /\ Live(c) /\ WindowAdmits(client[c].window, call.stream)
           full == poolState.streams >= demand.streams
                     \/ Cardinality(client[c].streams) >= demand.perClient IN
       /\ client[c].at \in {"live", "gone"}
       /\ client' = IF ~known THEN client
                    ELSE [client EXCEPT ![c].window = AdmitStream(@, call.stream),
                                        ![c].streams = IF full THEN @ ELSE @ \union {r}]
       /\ IF known /\ ~full
          THEN /\ poolState' = [poolState EXCEPT !.streams = @ + 1]
               /\ req' = [req EXCEPT ![r].at = "resolve"]
          ELSE req' = [req EXCEPT ![r].at = "over", ![r].why = "refused"] /\ UNCHANGED poolState
    /\ UNCHANGED <<demand, maps, idled, ent, closer>>

\* Whatever fails after the reservation releases it.
Fails(r, why) == req' = [req EXCEPT ![r].at = "release", ![r].why = why]

\* ResolveDialTarget, its validation and the check of the context after it.
Resolve(r) ==
    /\ req[r].at = "resolve"
    /\ \/ ~req[r].cancelled /\ req' = [req EXCEPT ![r].at = "select"]
       \/ req[r].cancelled /\ Fails(r, "cancelled")
       \/ "resolve" \in demand.faults /\ Fails(r, "failed")
    /\ UNCHANGED <<demand, poolState, client, maps, idled, ent, closer>>

Reserved(en, e) == [en EXCEPT ![e].refs = @ + 1]

\* The entry of the target, or a new one with its goroutine.
Select(r) ==
    /\ req[r].at = "select"
    /\ LET t == demand.calls[r]
           found == IF t.bound THEN byKey[t.key] ELSE byFence[t.fence]
           created == [NewEntry EXCEPT !.at = "connect", !.refs = 1,
                           !.key = IF t.bound THEN t.key ELSE None,
                           !.fence = IF t.bound THEN None ELSE t.fence] IN
       \/ /\ poolState.closed \/ (found # None /\ ent[found].retiring)
             \/ (found = None /\ Occupied >= demand.physical)
          /\ Fails(r, "unavailable")
          /\ UNCHANGED <<maps, idled, ent>>
       \/ /\ ~poolState.closed /\ found # None /\ ~ent[found].retiring
          /\ ent' = Reserved(ent, found)
          /\ idled' = Remove(idled, found)
          /\ req' = [req EXCEPT ![r].at = "wait", ![r].entry = found]
          /\ UNCHANGED maps
       \/ /\ ~poolState.closed /\ found = None /\ Occupied < demand.physical
          /\ ent' = [ent EXCEPT ![r] = created]
          /\ byKey' = IF t.bound THEN [byKey EXCEPT ![t.key] = r] ELSE byKey
          /\ byFence' = IF t.bound THEN byFence ELSE [byFence EXCEPT ![t.fence] = r]
          /\ req' = [req EXCEPT ![r].at = "wait", ![r].entry = r]
          /\ UNCHANGED idled
    /\ UNCHANGED <<demand, poolState, client, closer>>

\* The context ends while the call waits for ready.
WaitCancelled(r) ==
    /\ req[r].at \in {"wait", "winner"} /\ req[r].cancelled
    /\ Fails(r, "cancelled")
    /\ UNCHANGED <<demand, poolState, client, maps, idled, ent, closer>>

\* [mutant] the loser keeps the reference that moved.
redirectReservation_Keeps(en, e, winner) == [en EXCEPT ![winner].refs = @ + 1]
redirectReservation(en, e, winner) == [en EXCEPT ![e].refs = @ - 1, ![winner].refs = @ + 1]

\* ready is closed: redirectReservation, then the outcome of the entry.
WaitReady(r) ==
    /\ req[r].at = "wait" /\ ent[req[r].entry].ready
    /\ LET e == req[r].entry
           winner == ent[e].redirect IN
       \/ /\ winner = None
          /\ IF ent[e].err THEN Fails(r, "failed") ELSE req' = [req EXCEPT ![r].at = "open"]
          /\ UNCHANGED <<ent, idled>>
       \/ /\ winner # None /\ (byKey[ent[winner].key] # winner \/ ent[winner].retiring)
          /\ Fails(r, "unavailable")
          /\ UNCHANGED <<ent, idled>>
       \/ /\ winner # None /\ byKey[ent[winner].key] = winner /\ ~ent[winner].retiring
          /\ ent' = redirectReservation(ent, e, winner)
          /\ idled' = Remove(idled, winner)
          /\ req' = [req EXCEPT ![r].at = "winner", ![r].entry = winner]
    /\ UNCHANGED <<demand, poolState, client, maps, closer>>

WinnerReady(r) ==
    /\ req[r].at = "winner" /\ ent[req[r].entry].ready
    /\ \/ ent[req[r].entry].err /\ Fails(r, "failed")
       \/ ~ent[req[r].entry].err /\ req' = [req EXCEPT ![r].at = "open"]
    /\ UNCHANGED <<demand, poolState, client, maps, idled, ent, closer>>

\* streamTerminal
Terminal(r) ==
    CASE poolState.cancelled -> "shutdown"
      [] ~poolState.cancelled /\ req[r].cancelled -> "cancelled"
      [] ~poolState.cancelled /\ ~req[r].cancelled /\ PhysicalDone(req[r].entry) -> "lost"
      [] ~poolState.cancelled /\ ~req[r].cancelled /\ ~PhysicalDone(req[r].entry)
           /\ EntryDone(req[r].entry) -> "retired"
      [] OTHER -> "none"

\* physical.OpenStream returns; a stream that came too late is closed again.
Opened(r) ==
    /\ req[r].at = "open"
    /\ IF Terminal(r) = "none" THEN req' = [req EXCEPT ![r].at = "live"] ELSE Fails(r, Terminal(r))
    /\ UNCHANGED <<demand, poolState, client, maps, idled, ent, closer>>

OpenFails(r) ==
    /\ req[r].at = "open" /\ ("open" \in demand.faults \/ Terminal(r) # "none")
    /\ Fails(r, IF Terminal(r) = "none" THEN "failed" ELSE Terminal(r))
    /\ UNCHANGED <<demand, poolState, client, maps, idled, ent, closer>>

\* The watcher of a live stream.
StreamEnds(r) ==
    /\ req[r].at = "live" /\ Terminal(r) # "none"
    /\ Fails(r, Terminal(r))
    /\ UNCHANGED <<demand, poolState, client, maps, idled, ent, closer>>

\* pooledStream.Close, or the end of the stream at the daemon.
StreamCloses(r) ==
    /\ req[r].at = "live"
    /\ Fails(r, "closed")
    /\ UNCHANGED <<demand, poolState, client, maps, idled, ent, closer>>

-----------------------------------------------------------------------------
\* Release and warm reuse

\* The warm entries of idleLocked in the order they went idle.
Warm(table, en, order) ==
    SelectSeq(order, LAMBDA e : table[en[e].key] = e /\ en[e].refs = 0 /\ ~en[e].retiring)

\* [mutant] one more is kept.
Victims_OneMore(warm) == {warm[i] : i \in 1 .. Len(warm) - demand.warm - 1}
Victims(warm) == {warm[i] : i \in 1 .. Len(warm) - demand.warm}

\* idleLocked: the entry is warm, and the least recently idled beyond the limit retire.
Idles(table, en, e) ==
    LET keeps == ~en[e].err /\ en[e].redirect = None /\ ~en[e].retiring /\ table[en[e].key] = e
        order == IF keeps THEN Append(idled, e) ELSE idled
        victims == IF keeps THEN Victims(Warm(table, en, order)) ELSE {} IN
    [order |-> order, victims |-> victims,
     ent |-> [x \in Entry |-> IF x \in victims THEN [en[x] EXCEPT !.retiring = TRUE] ELSE en[x]]]

Cancelled(en, victims) ==
    [e \in Entry |-> IF e \in victims THEN [en[e] EXCEPT !.cancelled = TRUE] ELSE en[e]]

\* [mutant] the owner of the entry is not told.
Dropped_NoWake(e) == [ent EXCEPT ![e].refs = @ - 1]
Dropped(e) == [ent EXCEPT ![e].refs = @ - 1, ![e].wake = TRUE]

Over(r, victims) ==
    req' = [req EXCEPT ![r].at = IF victims = {} THEN "over" ELSE "evict",
                       ![r].entry = None, ![r].evict = victims, ![r].cancelled = TRUE]

\* The reference goes: an entry nobody waits for any more is abandoned, a ready
\* one may be warm.
Leaves(r, e) ==
    LET left == Dropped(e) IN
    \/ /\ left[e].refs > 0
       /\ ent' = left /\ Over(r, {}) /\ UNCHANGED idled
    \/ /\ left[e].refs = 0 /\ ~left[e].ready
       /\ ent' = [left EXCEPT ![e].retiring = TRUE] /\ Over(r, {e}) /\ UNCHANGED idled
    \/ /\ left[e].refs = 0 /\ left[e].ready
       /\ \E i \in {Idles(byKey, left, e)} : ent' = i.ent /\ idled' = i.order /\ Over(r, i.victims)

\* release
Release(r) ==
    /\ req[r].at = "release"
    /\ poolState' = [poolState EXCEPT !.streams = @ - 1]
    /\ client' = [client EXCEPT ![demand.calls[r].client].streams = @ \ {r}]
    /\ \/ req[r].entry = None /\ Over(r, {}) /\ UNCHANGED <<ent, idled>>
       \/ req[r].entry # None /\ Leaves(r, req[r].entry)
    /\ UNCHANGED <<demand, maps, closer>>

\* The cancellations release runs after the unlock.
Evict(r) ==
    /\ req[r].at = "evict"
    /\ ent' = Cancelled(ent, req[r].evict)
    /\ req' = [req EXCEPT ![r].at = "over", ![r].evict = {}]
    /\ UNCHANGED <<demand, poolState, client, maps, idled, closer>>

-----------------------------------------------------------------------------
\* runEntry and watchAdopted

\* Connect, the validation of what it returned and BindAuthenticatedIdentity.
Connect(e) ==
    /\ ent[e].at = "connect"
    /\ \/ ent' = [ent EXCEPT ![e].at = "publish", ![e].physical = "open"]
       \/ /\ "connect" \in demand.faults \/ EntryDone(e)
          /\ \E p \in {"none", "open"} :
                 ent' = [ent EXCEPT ![e].at = "publish", ![e].physical = p, ![e].err = TRUE]
    /\ UNCHANGED <<demand, poolState, client, maps, idled, req, closer>>

\* The connection takes its key, or yields to the one that serves it already.
PublishEntry(e) ==
    /\ ent[e].at = "publish"
    /\ LET key == IF ent[e].err THEN ent[e].key ELSE demand.calls[e].key
           winner == IF ent[e].err THEN None ELSE byKey[key]
           yields == winner \notin {None, e} /\ ~ent[winner].retiring IN
       /\ byFence' = [f \in Fence |-> IF f = ent[e].fence THEN None ELSE byFence[f]]
       /\ byKey' = IF ent[e].err \/ yields THEN byKey ELSE [byKey EXCEPT ![key] = e]
       /\ ent' = [ent EXCEPT ![e].key = key, ![e].ready = TRUE,
                      ![e].redirect = IF yields THEN winner ELSE None,
                      ![e].at = IF yields THEN "yield" ELSE IF ent[e].err THEN "retire" ELSE "loop"]
    /\ UNCHANGED <<demand, poolState, client, idled, req, closer>>

Yield(e) ==
    /\ ent[e].at = "yield"
    /\ ent' = [ent EXCEPT ![e].at = "ended", ![e].physical = "closed", ![e].cancelled = TRUE]
    /\ UNCHANGED <<demand, poolState, client, maps, idled, req, closer>>

\* The head of the loop: the timer runs only while nobody uses the connection.
Loop(e) ==
    /\ ent[e].at = "loop"
    /\ ent' = [ent EXCEPT ![e].at = "watch", ![e].armed = demand.idle /\ ent[e].refs = 0]
    /\ UNCHANGED <<demand, poolState, client, maps, idled, req, closer>>

Woken(e) ==
    /\ ent[e].at = "watch" /\ ent[e].wake
    /\ ent' = [ent EXCEPT ![e].at = "loop", ![e].wake = FALSE, ![e].armed = FALSE]
    /\ UNCHANGED <<demand, poolState, client, maps, idled, req, closer>>

WatchEnds(e) ==
    /\ ent[e].at = "watch" /\ (EntryDone(e) \/ PhysicalDone(e))
    /\ ent' = [ent EXCEPT ![e].at = "retire", ![e].cancelled = TRUE, ![e].armed = FALSE]
    /\ UNCHANGED <<demand, poolState, client, maps, idled, req, closer>>

\* [mutant] the expiry does not look at the references again.
Unused_AsArmed(e) == TRUE
\* What the expiry checks under the lock; an adopted entry also has to be warm.
Unused(e) == ent[e].refs = 0 /\ (e \in Probe => e \in Range(idled))

Expire(e) ==
    /\ ent[e].at = "watch" /\ ent[e].armed
    /\ ent' = IF Unused(e)
              THEN [ent EXCEPT ![e].at = "retire", ![e].retiring = TRUE, ![e].cancelled = TRUE, ![e].armed = FALSE]
              ELSE [ent EXCEPT ![e].at = "loop", ![e].armed = FALSE]
    /\ UNCHANGED <<demand, poolState, client, maps, idled, req, closer>>

Retire(e) ==
    /\ ent[e].at = "retire"
    /\ ent' = [ent EXCEPT ![e].at = "close", ![e].retiring = TRUE, ![e].cancelled = TRUE]
    /\ UNCHANGED <<demand, poolState, client, maps, idled, req, closer>>

PhysicalCloses(e) ==
    /\ ent[e].at = "close"
    /\ ent' = [ent EXCEPT ![e].at = "remove", ![e].physical = IF @ = "none" THEN @ ELSE "closed"]
    /\ UNCHANGED <<demand, poolState, client, maps, idled, req, closer>>

\* The key is free again.
Removed(e) ==
    /\ ent[e].at = "remove"
    /\ byKey' = [k \in Key |-> IF byKey[k] = e THEN None ELSE byKey[k]]
    /\ byFence' = [f \in Fence |-> IF byFence[f] = e THEN None ELSE byFence[f]]
    /\ idled' = Remove(idled, e)
    /\ ent' = [ent EXCEPT ![e].at = "ended"]
    /\ UNCHANGED <<demand, poolState, client, req, closer>>

\* External: the physical connection dies.
PhysicalLost(e) ==
    /\ "lost" \in demand.faults /\ ent[e].physical = "open" /\ ent[e].at \in {"publish", "adopting", "loop", "watch"}
    /\ ent' = [ent EXCEPT ![e].physical = "lost"]
    /\ UNCHANGED <<demand, poolState, client, maps, idled, req, closer>>

\* A probe offers the connection it authenticated.  When the pool refuses it the
\* probe closes it, and nothing here changes.
AdoptPhysical(p) ==
    /\ p \in DOMAIN demand.probes /\ ent[p].at = "none" /\ demand.warm > 0
    /\ ~poolState.closed /\ Occupied < demand.physical
    /\ LET k == demand.probes[p]
           table == [byKey EXCEPT ![k] = p]
           e == [NewEntry EXCEPT !.at = "adopting", !.key = k, !.ready = TRUE, !.physical = "open"] IN
       /\ byKey[k] = None
       /\ byKey' = table
       /\ \E i \in {Idles(table, [ent EXCEPT ![p] = e], p)} :
              idled' = i.order /\ ent' = [i.ent EXCEPT ![p].evict = i.victims]
    /\ UNCHANGED <<demand, poolState, client, byFence, req, closer>>

\* It cancels what idleLocked evicted and starts watchAdopted.
Adopted(p) ==
    /\ ent[p].at = "adopting"
    /\ ent' = [Cancelled(ent, ent[p].evict) EXCEPT ![p].at = "loop", ![p].evict = {}]
    /\ UNCHANGED <<demand, poolState, client, maps, idled, req, closer>>

-----------------------------------------------------------------------------
\* Close

CloseMarks ==
    /\ demand.closes /\ closer = "idle"
    /\ poolState' = [poolState EXCEPT !.closed = TRUE]
    /\ closer' = "marked"
    /\ UNCHANGED <<demand, client, maps, idled, ent, req>>

CloseCancels ==
    /\ closer = "marked"
    /\ poolState' = [poolState EXCEPT !.cancelled = TRUE]
    /\ closer' = "waiting"
    /\ UNCHANGED <<demand, client, maps, idled, ent, req>>

\* wg.Wait: every reservation released, every goroutine returned.
CloseReturns ==
    /\ closer = "waiting"
    /\ \A r \in Req : req[r].at \in {"idle", "over"}
    /\ \A e \in Entry : ent[e].at \in {"none", "ended"}
    /\ closer' = "returned"
    /\ UNCHANGED <<demand, poolState, client, maps, idled, ent, req>>

-----------------------------------------------------------------------------
\* External steps: callers, daemons and connections.
Outside ==
    \/ \E c \in Client : PoolRegisterClient(c) \/ PoolCloseClient(c)
    \/ \E r \in Req : Admit(r) \/ CloseStream(r) \/ Opened(r) \/ OpenFails(r) \/ StreamCloses(r) \/ Resolve(r)
    \/ \E e \in Entry : PhysicalLost(e) \/ Connect(e)
    \/ \E p \in Probe : AdoptPhysical(p)
    \/ CloseMarks

\* I/O whose context ended returns.
Cut ==
    \/ \E r \in Req : (Resolve(r) \/ Opened(r) \/ OpenFails(r)) /\ (req[r].cancelled \/ (req[r].at = "open" /\ Terminal(r) # "none"))
    \/ \E e \in Entry : Connect(e) /\ EntryDone(e)

Inside ==
    \/ \E r \in Req : \/ ShutdownCancels(r) \/ Select(r) \/ WaitCancelled(r) \/ WaitReady(r)
                      \/ WinnerReady(r) \/ StreamEnds(r) \/ Release(r) \/ Evict(r)
    \/ \E e \in Entry : \/ PublishEntry(e) \/ Yield(e) \/ Loop(e) \/ Woken(e) \/ WatchEnds(e)
                        \/ Expire(e) \/ Retire(e) \/ PhysicalCloses(e) \/ Removed(e)
    \/ \E p \in Probe : Adopted(p)
    \/ CloseCancels \/ CloseReturns

PoolNext == Outside \/ Inside

\* The goroutines of the pool run on, the clock advances, and I/O under an ended
\* context returns (the port contract Close names).  These steps are finitely
\* many, so one weak fairness is enough.
PoolProceeds == Inside \/ Cut

PoolSpec == PoolInit /\ [][PoolNext]_poolVars /\ WF_poolVars(PoolProceeds)

-----------------------------------------------------------------------------
Holds(r) == req[r].at \notin {"idle", "over", "evict"}

PoolTypeOK ==
    /\ poolState.streams \in 0 .. Cardinality(Req)
    /\ \A e \in Entry : ent[e].refs \in 0 .. Cardinality(Req) /\ ent[e].redirect \in Entry \union {None}
    /\ \A k \in Key : byKey[k] \in Entry \union {None}
    /\ \A f \in Fence : byFence[f] \in Req \union {None}

\* Reservations are exact: the streams of the pool, those of each client and the
\* references of each entry count the calls that hold one, whichever way a call
\* ends and wherever a redirect moved it; no limit is passed, and no client ever
\* had one stream identity admitted twice.
ReservationsExact ==
    /\ PoolTypeOK
    /\ poolState.streams = Cardinality({r \in Req : Holds(r)}) /\ poolState.streams <= demand.streams
    /\ \A c \in Client :
          /\ client[c].streams = {r \in DOMAIN demand.calls : Holds(r) /\ demand.calls[r].client = c}
          /\ Cardinality(client[c].streams) <= demand.perClient
    /\ \A e \in Entry : ent[e].refs = Cardinality({r \in Req : req[r].entry = e})
    /\ \A r, s \in DOMAIN demand.calls :
          (r # s /\ demand.calls[r].client = demand.calls[s].client /\ demand.calls[r].stream = demand.calls[s].stream
             /\ req[r].at # "idle" /\ req[s].at # "idle") => req[r].why = "refused" \/ req[s].why = "refused"

\* The tables: a usable connection is the one its key names, so two daemons are
\* never mixed up and a daemon is never served by two usable connections; the
\* limit on physical connections holds; a usable connection nobody holds is warm,
\* and at most Warm are; and when Close returned nothing is left open.
TablesConsistent ==
    /\ \A k \in Key : byKey[k] # None => ent[byKey[k]].key = k
    /\ \A e \in Entry :
          LET usable == ent[e].ready /\ ~ent[e].err /\ ent[e].redirect = None /\ ~ent[e].retiring IN
          /\ usable => byKey[ent[e].key] = e
          /\ usable /\ ent[e].refs = 0 => e \in Range(idled)
          /\ ent[e].at = "ended" => ent[e].physical \in {"none", "closed"}
    /\ Occupied <= demand.physical
    /\ Len(Warm(byKey, ent, idled)) <= demand.warm
    /\ closer = "returned" => /\ poolState.streams = 0 /\ Occupied = 0
                              /\ \A e \in Entry : ent[e].physical \in {"none", "closed"}

\* The pool never takes a connection from under a stream: no stream, opening or
\* live, ends because its entry was evicted, expired, abandoned or closed while
\* the daemon kept it.  Eviction and expiry decide under the lock that nobody
\* holds the entry, and a retiring entry gains no reference.
StreamsKept ==
    \A r \in Req : req[r].why # "retired" /\ (req[r].why = "lost" => "lost" \in demand.faults)

\* The tables of the pool agree with the connections, and the connections stay
\* with the streams that hold them.
PoolConsistent == TablesConsistent /\ StreamsKept

\* A call holds its place although its context ended, a retired connection is
\* not gone, an unused one outlives its idle bound, or Close has not returned.
PoolOwed ==
    \/ \E r \in Req : req[r].cancelled /\ Holds(r)
    \/ \E e \in Entry : ent[e].retiring /\ ent[e].at # "ended"
    \/ \E e \in Entry : demand.idle /\ ent[e].at = "watch" /\ ent[e].refs = 0
    \/ closer \in {"marked", "waiting"}

\* The comment at pool.go:470, "Keep the key occupied until Close completes:
\* never overlap physicals".
NeverOverlap ==
    \A d, e \in Entry :
        d # e /\ ent[d].ready /\ ent[e].ready /\ ~ent[d].err /\ ~ent[e].err
          /\ ent[d].redirect = None /\ ent[e].redirect = None /\ ent[d].key = ent[e].key
        => "closed" \in {ent[d].physical, ent[e].physical}
=============================================================================
