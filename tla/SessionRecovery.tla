-------------------------- MODULE SessionRecovery --------------------------
(***************************************************************************)
(* Durable sessions: the catalogue of named sessions (persist.Persister),  *)
(* the snapshot repository (SnapshotRepository), the coordinator of the    *)
(* two (usecase/recovery) and the daemon that creates, checkpoints,        *)
(* renames, tears down and restores sessions through it, while garbage     *)
(* collection runs, syncs of the catalogue fail and the daemon crashes.    *)
(*                                                                         *)
(* Every operation of the coordinator and each step of a collection holds  *)
(* mutationMu; one that writes more than once has a step per write.  A     *)
(* session's history is a window of two chunks, the newest of them hi.     *)
(***************************************************************************)
EXTENDS SnapshotRepository

CONSTANTS
    Name,       \* session names
    MaxInc,     \* bound: incarnations ever generated
    Budgets     \* bounds: [create, output, crash, fault, rename, teardown, upgrade]

ASSUME BoundsAssumption == MaxInc \in Nat \ {0}
ASSUME NameAssumption == "" \notin Name   \* ValidateSessionName

Inc == 1 .. MaxInc
Writer == {"worker", "gc", "control"}

VARIABLES
    cat,        \* sessions.kv on disk; the daemon's copy agrees unless fenced
    fenced,     \* Persister.terminalErr is set
    repo,       \* directory of each incarnation
    up,         \* "down", "restoring" or "serving"
    todo,       \* names whose record is still to be restored
    live,       \* runtime session of each incarnation, or NoSession
    purging,    \* stopped incarnations whose durable purge is not finished
    op,         \* what each writer does under mutationMu
    pass,       \* incarnations left in this collection
    next,       \* the next incarnation
    left        \* what remains of the budget

runtime == <<up, todo, live, purging>>
vars == <<cat, fenced, repo, up, todo, live, purging, op, pass, next, left>>

Idle == [at |-> "idle", inc |-> 0, keep |-> None]

History(hi) == {c \in {hi - 1, hi} : c > 0}

NoCapture == [manifest |-> None, hi |-> 0, cancelled |-> FALSE]

Session(name, checkpoint, hi) ==
    [name |-> name, checkpoint |-> checkpoint, hi |-> hi, dirty |-> FALSE,
     capture |-> NoCapture, persisted |-> {}, quarantined |-> FALSE]

NoSession == Session("", None, 0)

Record(inc) == [inc |-> inc, committed |-> None, degraded |-> "no"]
NoRecord == Record(0)

Init ==
    /\ cat = [n \in Name |-> NoRecord] /\ fenced = FALSE
    /\ repo = [i \in Inc |-> NoDirectory]
    /\ up = "serving" /\ todo = {}
    /\ live = [i \in Inc |-> NoSession] /\ purging = {}
    /\ op = [w \in Writer |-> Idle] /\ pass = {}
    /\ next = 1 /\ left \in Budgets

Spends(what) == left[what] > 0 /\ left' = [left EXCEPT ![what] = @ - 1]

\* mutationMu is free.
Unlocked == \A w \in Writer : op[w].at = "idle"

Live == {i \in Inc : live[i] # NoSession}
Names(i) == {n \in Name : cat[n] # NoRecord /\ cat[n].inc = i}
Committed(i) == LET n == CHOOSE n \in Names(i) : TRUE IN cat[n].committed

-----------------------------------------------------------------------------
(* The catalogue *)

\* applyLocked: the batch is synced, or the sync fails, leaves the old or the
\* new file on disk, and fences every later use of the catalogue, which returns
\* the same error.
Fenced == fenced /\ UNCHANGED <<cat, fenced, left>>

Writes(new) == ~fenced /\ cat' = new /\ UNCHANGED <<fenced, left>>

SyncFails(new) == ~fenced /\ Spends("fault") /\ cat' \in {cat, new} /\ fenced' = TRUE

\* Create, then registration of the runtime session.
Create(n) ==
    /\ up # "down" /\ Unlocked /\ cat[n] = NoRecord /\ next <= MaxInc /\ left.create > 0
    /\ \A i \in Live : live[i].name # n
    /\ LET new == [cat EXCEPT ![n] = Record(next)] IN
       \/ /\ ~fenced /\ cat' = new /\ Spends("create") /\ UNCHANGED fenced
          /\ live' = [live EXCEPT ![next] = Session(n, None, 0)]
       \/ SyncFails(new) /\ UNCHANGED live
    /\ next' = next + 1
    /\ UNCHANGED <<repo, up, todo, purging, op, pass>>

\* A stopped session is opened again on its own record, whose metadata is synced.
Resume(n) ==
    /\ up # "down" /\ n \notin todo
    /\ cat[n] # NoRecord /\ cat[n].degraded = "no"
    /\ cat[n].inc \notin Live \cup purging
    /\ \/ Writes(cat) /\ live' = [live EXCEPT ![cat[n].inc] = Session(n, cat[n].committed, 0)]
       \/ SyncFails(cat) /\ UNCHANGED live
    /\ UNCHANGED <<repo, up, todo, purging, op, pass, next>>

\* Terminal output.  A quarantined session does not note that it is dirty.
Output(i) ==
    /\ i \in Live /\ Spends("output")
    /\ live' = [live EXCEPT ![i].hi = @ + 1, ![i].dirty = @ \/ ~live[i].quarantined]
    /\ UNCHANGED <<cat, fenced, repo, up, todo, purging, op, pass, next>>

Rename(i, n) ==
    /\ i \in Live /\ Unlocked /\ left.rename > 0
    /\ cat[n] = NoRecord /\ (\A j \in Live : live[j].name # n) /\ live[i].name \in Names(i)
    /\ LET old == live[i].name
           new == [cat EXCEPT ![old] = NoRecord, ![n] = cat[old]]
       IN \/ /\ ~fenced /\ cat' = new /\ Spends("rename")
             /\ live' = [live EXCEPT ![i].name = n, ![i].dirty = @ \/ ~live[i].quarantined]
             /\ UNCHANGED fenced
          \/ SyncFails(new) /\ UNCHANGED live
    /\ UNCHANGED <<repo, up, todo, purging, op, pass, next>>

-----------------------------------------------------------------------------
(* Checkpoints: capture, PublishCheckpoint, finishSnapshotCapture *)

\* The manifest is a child of the checkpoint that the session published last.
Capture(i) ==
    /\ i \in Live
    /\ live[i].dirty /\ ~live[i].quarantined /\ live[i].capture = NoCapture
    /\ LET s == live[i]
           gen == IF s.checkpoint = None THEN 1 ELSE s.checkpoint.gen + 1
           m == manifest(i, s.name, gen, History(s.hi), s.checkpoint)
       IN live' = [live EXCEPT ![i].capture = [manifest |-> m, hi |-> s.hi, cancelled |-> FALSE]]
    /\ UNCHANGED <<cat, fenced, repo, up, todo, purging, op, pass, next, left>>

\* Mutant: the published checkpoint does not become the parent of the next.
Saved_OldParent(s) ==
    [s EXCEPT !.capture = NoCapture, !.dirty = s.hi # s.capture.hi \/ s.name # s.capture.manifest.name]

\* The session is clean only if nothing changed since the capture.
Saved(s) ==
    [s EXCEPT !.checkpoint = s.capture.manifest, !.capture = NoCapture,
              !.persisted = @ \cup s.capture.manifest.content,
              !.dirty = s.hi # s.capture.hi \/ s.name # s.capture.manifest.name]

NotSaved(s) == [s EXCEPT !.capture = NoCapture, !.dirty = TRUE]

Fails(i) == live' = [live EXCEPT ![i] = NotSaved(@)] /\ op' = [op EXCEPT !["worker"] = Idle]

\* The encoder forgets the objects that the capture does not use, and supplies
\* those that the session did not publish itself.
incrementalPublication(s) ==
    [s EXCEPT !.persisted = @ \cap s.capture.manifest.content]

objects(s) == s.capture.manifest.content \ s.persisted

\* What PublishCheckpoint checks of the record under the captured name.
Admits(i) ==
    LET m == live[i].capture.manifest IN
    /\ ~fenced /\ ~live[i].capture.cancelled
    /\ cat[m.name] # NoRecord /\ cat[m.name].inc = i /\ cat[m.name].committed = m.parent

PublishBegins(i) ==
    /\ i \in Live /\ live[i].capture # NoCapture /\ Unlocked
    /\ LET r == publication(repo[i], live[i].capture.manifest) IN
       IF ~Admits(i) \/ r = "refused" THEN Fails(i)
       ELSE /\ op' = [op EXCEPT !["worker"] =
                        [Idle EXCEPT !.at = IF r = "replay" THEN "commit" ELSE "objects", !.inc = i]]
            /\ live' = [live EXCEPT ![i] = incrementalPublication(@)]
    /\ UNCHANGED <<cat, fenced, repo, up, todo, purging, pass, next, left>>

Stores(i, r) == repo' = [repo EXCEPT ![i] = r]
Goes(w, at) == op' = [op EXCEPT ![w].at = at]

\* One write of Publish, skipped with the rest once its context is cancelled.
PublishStep(at, then, possible, r) ==
    LET i == op["worker"].inc IN
    /\ op["worker"].at = at
    /\ IF possible /\ ~live[i].capture.cancelled
       THEN Stores(i, r) /\ Goes("worker", then) /\ UNCHANGED live
       ELSE Stores(i, [repo[i] EXCEPT !.dir = TRUE]) /\ Fails(i)
    /\ UNCHANGED <<cat, fenced, up, todo, purging, pass, next, left>>

Publish ==
    /\ op["worker"].at \in {"objects", "manifest", "head"}
    /\ LET i == op["worker"].inc
           m == live[i].capture.manifest
           r == repo[i]
       IN \/ PublishStep("objects", "manifest", Supplied(r, m, objects(live[i])), storeObjects(r, m))
          \/ PublishStep("manifest", "head", ~ManifestConflict(r, m), storeManifest(r, m))
          \/ PublishStep("head", "commit", TRUE, writeHead(r, m))

\* The catalogue makes the checkpoint authoritative.
PublishCommits ==
    LET i == op["worker"].inc
        m == live[i].capture.manifest
        new == [cat EXCEPT ![m.name] = [@ EXCEPT !.committed = m, !.degraded = "no"]]
    IN /\ op["worker"].at = "commit"
       /\ \/ Writes(new) /\ live' = [live EXCEPT ![i] = Saved(@)]
          \/ (SyncFails(new) \/ Fenced) /\ live' = [live EXCEPT ![i] = NotSaved(@)]
       /\ op' = [op EXCEPT !["worker"] = Idle]
       /\ UNCHANGED <<repo, up, todo, purging, pass, next>>

-----------------------------------------------------------------------------
(* Teardown: a stop keeps the record, a purge deletes it *)

\* quarantineSnapshotCoordinator: a queued capture is dropped, the one being
\* published is cancelled.
TeardownBegins(i) ==
    /\ i \in Live /\ ~live[i].quarantined /\ Spends("teardown")
    /\ live' = [live EXCEPT ![i].quarantined = TRUE,
                            ![i].capture = IF op["worker"].inc # i THEN NoCapture
                                           ELSE [@ EXCEPT !.cancelled = TRUE]]
    /\ UNCHANGED <<cat, fenced, repo, up, todo, purging, op, pass, next>>

\* The teardown gives up and the session stays: rollbackSnapshotQuarantine.
TeardownAborts(i) ==
    /\ i \in Live /\ live[i].quarantined
    /\ live' = [live EXCEPT ![i].quarantined = FALSE, ![i].dirty = TRUE]
    /\ UNCHANGED <<cat, fenced, repo, up, todo, purging, op, pass, next, left>>

\* The publication in flight is joined before the session is unregistered.
Unregister(i, purge) ==
    /\ i \in Live /\ live[i].quarantined /\ op["worker"].inc # i
    /\ live' = [live EXCEPT ![i] = NoSession]
    /\ purging' = IF purge THEN purging \cup {i} ELSE purging
    /\ UNCHANGED <<cat, fenced, repo, up, todo, op, pass, next, left>>

\* DeleteExact removes the record of this very incarnation, then its directory.
DeleteExact(i) ==
    /\ i \in purging /\ Unlocked
    /\ LET new == [n \in Name |-> IF n \in Names(i) THEN NoRecord ELSE cat[n]] IN
       \/ /\ Writes(new) /\ UNCHANGED purging
          /\ op' = [op EXCEPT !["control"] = [Idle EXCEPT !.at = "remove", !.inc = i]]
       \/ SyncFails(new) /\ UNCHANGED <<op, purging>>
    /\ UNCHANGED <<repo, up, todo, live, pass, next>>

\* DeleteIncarnation may fail: a collection then finds an orphan.
DeleteIncarnation ==
    /\ op["control"].at = "remove"
    /\ LET i == op["control"].inc IN
       /\ \/ Stores(i, NoDirectory) /\ UNCHANGED left
          \/ Spends("fault") /\ UNCHANGED repo
       /\ purging' = purging \ {i}
    /\ op' = [op EXCEPT !["control"] = Idle]
    /\ UNCHANGED <<cat, fenced, up, todo, live, pass, next>>

\* replaceIncarnationLocked: a fresh incarnation takes the name, then the old
\* directory goes.
Replaces(n) ==
    /\ next <= MaxInc /\ next' = next + 1
    /\ LET new == [cat EXCEPT ![n] = Record(next)] IN
       \/ Writes(new) /\ op' = [op EXCEPT !["control"] = [Idle EXCEPT !.at = "remove", !.inc = cat[n].inc]]
       \/ SyncFails(new) /\ UNCHANGED op

\* The user discards a broken session.
Discard(n) ==
    /\ up # "down" /\ Unlocked /\ n \notin todo
    /\ cat[n] # NoRecord /\ cat[n].committed # None /\ cat[n].degraded # "no"
    /\ Replaces(n)
    /\ UNCHANGED <<repo, runtime, pass>>

-----------------------------------------------------------------------------
(* Garbage collection *)

\* A pass lists the directories, then takes them one at a time.
CollectGarbage ==
    /\ up = "serving" /\ pass = {} /\ op["gc"].at = "idle"
    /\ \E i \in Inc : repo[i].dir
    /\ pass' = {i \in Inc : repo[i].dir}
    /\ UNCHANGED <<cat, fenced, repo, runtime, op, next, left>>

\* What is kept of an incarnation is read from the catalogue.
Classifies(i) ==
    /\ i \in pass
    /\ IF fenced THEN pass' = {} /\ UNCHANGED op
       ELSE /\ pass' = pass \ {i}
            /\ op' = [op EXCEPT !["gc"] =
                 CASE Names(i) = {} -> [Idle EXCEPT !.at = "orphan", !.inc = i]
                   [] Names(i) # {} /\ repo[i].dir /\ Collectable(repo[i], Committed(i))
                        -> [at |-> "head", inc |-> i, keep |-> Committed(i)]
                   [] OTHER -> Idle]
    /\ UNCHANGED <<cat, fenced, repo, runtime, next, left>>

\* Mutant: the step does not hold mutationMu.
collectIncarnation_Unfenced(i) == op["gc"].at = "idle" /\ Classifies(i)

collectIncarnation(i) == Unlocked /\ Classifies(i)

\* HEAD is reconciled before generations go, and objects go last.
CollectIncarnationGarbage ==
    /\ op["gc"].at # "idle"
    /\ LET i == op["gc"].inc
           keep == op["gc"].keep
           r == repo[i]
       IN \/ op["gc"].at = "orphan" /\ Stores(i, NoDirectory) /\ op' = [op EXCEPT !["gc"] = Idle]
          \/ op["gc"].at = "head" /\ Stores(i, reconcileHead(r, keep)) /\ Goes("gc", "gens")
          \/ op["gc"].at = "gens" /\ Stores(i, pruneGenerations(r, keep)) /\ Goes("gc", "sweep")
          \/ /\ op["gc"].at = "sweep" /\ Stores(i, sweep(r, keep))
             /\ op' = [op EXCEPT !["gc"] = Idle]
    /\ UNCHANGED <<cat, fenced, runtime, pass, next, left>>

-----------------------------------------------------------------------------
(* Crash, restart and restoration *)

\* What the step in progress would leave of a directory.
Ahead(i) ==
    CASE op["worker"].inc = i /\ op["worker"].at = "objects" -> storeObjects(repo[i], live[i].capture.manifest)
      [] op["gc"].inc = i /\ op["gc"].at = "gens" -> pruneGenerations(repo[i], op["gc"].keep)
      [] op["gc"].inc = i /\ op["gc"].at = "sweep" -> sweep(repo[i], op["gc"].keep)
      [] Names(i) = {} /\ i \in {op["gc"].inc, op["control"].inc} -> NoDirectory
      [] OTHER -> repo[i]

\* The daemon dies.  Only the directory that is being written can be torn.
Crash ==
    /\ up # "down" /\ Spends("crash")
    /\ \/ UNCHANGED repo
       \/ \E w \in Writer : /\ op[w].at # "idle"
                            /\ \E r \in Partial(repo[op[w].inc], Ahead(op[w].inc)) : Stores(op[w].inc, r)
    /\ up' = "down" /\ fenced' = FALSE /\ todo' = {}
    /\ live' = [i \in Inc |-> NoSession] /\ purging' = {}
    /\ op' = [w \in Writer |-> Idle] /\ pass' = {}
    /\ UNCHANGED <<cat, next>>

\* Garbage collection waits until the last record is restored.
Restored(rest) == todo' = rest /\ up' = IF rest = {} THEN "serving" ELSE "restoring"

Restart ==
    /\ up = "down"
    /\ Restored({n \in Name : cat[n] # NoRecord})
    /\ UNCHANGED <<cat, fenced, repo, live, purging, op, pass, next, left>>

\* Mutant: a broken record loses its checkpoint.
MarkBroken_Drops(n, reason) ==
    ~fenced /\ cat' = [cat EXCEPT ![n].degraded = reason, ![n].committed = None] /\ UNCHANGED <<fenced, left>>

MarkBroken(n, reason) ==
    \/ Fenced
    \/ Writes([cat EXCEPT ![n].degraded = reason])
    \/ SyncFails([cat EXCEPT ![n].degraded = reason])

Newest(m) == IF m.content = {} THEN 0 ELSE CHOOSE c \in m.content : \A d \in m.content : d <= c

\* sessionFromGeneration refuses a manifest under another name.
Valid(n) == Loadable(repo[cat[n].inc], cat[n].committed) /\ cat[n].committed.name = n

\* restoreRecord and finishRecordRestore for one record.  A HEAD that cannot be
\* reconciled does not stop the restoration, an unreadable catalogue does.
restoreRecord(n) ==
    LET r == cat[n] IN
    /\ n \in todo
    /\ Restored(todo \ {n})
    /\ IF r.degraded # "no" \/ r.committed = None
       THEN UNCHANGED <<cat, fenced, repo, live, left>>
       ELSE \/ /\ Valid(n)
               /\ \/ Stores(r.inc, reconcileHead(repo[r.inc], r.committed)) /\ UNCHANGED left
                  \/ Spends("fault") /\ UNCHANGED repo
               /\ live' = IF fenced THEN live
                           ELSE [live EXCEPT ![r.inc] = Session(n, r.committed, Newest(r.committed))]
               /\ UNCHANGED <<cat, fenced>>
            \/ ~Valid(n) /\ Unlocked /\ MarkBroken(n, "invalid") /\ UNCHANGED <<repo, live>>
    /\ UNCHANGED <<purging, op, pass, next>>

Healthy(n) == cat[n].degraded = "no" /\ cat[n].committed # None

\* Reading the checkpoint fails, or is interrupted.
restoreFails(n) ==
    /\ n \in todo /\ Unlocked /\ Healthy(n) /\ (left.fault > 0 \/ fenced)
    /\ MarkBroken(n, "load")
    /\ Restored(todo \ {n})
    /\ UNCHANGED <<repo, live, purging, op, pass, next>>

\* A checkpoint of another format version: ResetIncompatible.  A catalogue that
\* cannot be written leaves the record as it is.
resetIncompatibleCheckpoint(n) ==
    /\ n \in todo /\ Unlocked /\ Healthy(n) /\ left.upgrade > 0
    /\ Replaces(n) \/ (Fenced /\ UNCHANGED <<op, next>>)
    /\ Restored(todo \ {n})
    /\ UNCHANGED <<repo, live, purging, pass>>

-----------------------------------------------------------------------------
Worker == (\E i \in Inc : Capture(i) \/ PublishBegins(i)) \/ Publish \/ PublishCommits
Control == (\E i \in Inc : DeleteExact(i)) \/ DeleteIncarnation
Maintenance == CollectGarbage \/ (\E i \in Inc : collectIncarnation(i)) \/ CollectIncarnationGarbage
Restore == \E n \in Name : restoreRecord(n) \/ restoreFails(n) \/ resetIncompatibleCheckpoint(n)

Next ==
    \/ \E n \in Name : Create(n) \/ Resume(n) \/ Discard(n)
    \/ \E i \in Inc : Output(i) \/ TeardownBegins(i) \/ TeardownAborts(i)
    \/ \E i \in Inc, n \in Name : Rename(i, n)
    \/ \E i \in Inc, purge \in BOOLEAN : Unregister(i, purge)
    \/ Worker \/ Control \/ Maintenance \/ Restore
    \/ Crash \/ Restart

Spec == Init /\ [][Next]_vars

\* The mutex is fair, and a collection follows every 30 minutes.
FairSpec == Spec /\ SF_vars(Worker) /\ SF_vars(Maintenance) /\ SF_vars(Control \/ Restore)

-----------------------------------------------------------------------------
(* Properties *)

\* At every moment, and so after every crash, the catalogue is a promise that
\* the disk keeps: the committed checkpoint of each session can be loaded, the
\* one before it as well, HEAD names a manifest that is there, and no two
\* sessions share an incarnation.
CheckpointsIntact ==
    \A n \in Name : cat[n] # NoRecord =>
        LET r == repo[cat[n].inc]
            c == cat[n].committed
        IN /\ c # None => Loadable(r, c) /\ c.inc = cat[n].inc /\ (c.parent # None => Loadable(r, c.parent))
           /\ r.head # None => r.head \in r.gens
           /\ Names(cat[n].inc) = {n}

\* Unless the catalogue is fenced, a runtime session stands for the record of
\* its own name and continues from exactly the checkpoint that it holds: no
\* interleaving of rename, purge, checkpoint and restore separates the two.
SessionsMatchCatalogue ==
    ~fenced => \A i \in Live :
        live[i].name \in Names(i) /\ live[i].checkpoint = cat[live[i].name].committed

\* Committed history is linear: a record's checkpoint is only ever replaced by
\* a child of it, until the incarnation is dropped.
CommitsAdvance ==
    [][\A i \in Inc : Names(i) # {} /\ Names(i)' # {} =>
          LET c == Committed(i)
              d == Committed(i)'
          IN d = c \/ (d # None /\ d.parent = c)]_vars

\* A checkpoint is owed to each changed session, and deletion to each orphan.
Owed ==
    \/ up = "restoring"
    \/ up = "serving" /\ ~fenced /\ \E i \in Inc : repo[i].dir /\ Names(i) = {}
    \/ up = "serving" /\ ~fenced /\ \E i \in Live : live[i].dirty /\ ~live[i].quarantined

\* Restoration ends, every change of a session reaches a checkpoint, although an
\* interrupted publication may have left a manifest or a HEAD in its way, and
\* every directory that lost its record is collected.
RecoveryProgress == Owed ~> ~Owed

\* docs/durable-session-recovery.md:3: "Named sessions are saved to disk and come
\* back after a daemon restart."  No restart finds a record whose checkpoint is
\* whole on disk and refuses it as broken.
ComesBack == \A n \in Name : cat[n] # NoRecord => cat[n].degraded # "invalid"
=============================================================================
