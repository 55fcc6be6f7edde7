----------------------- MODULE SessionRecovery_proofs -----------------------
(***************************************************************************)
(* Durable sessions (SessionRecovery) for any names, any number of         *)
(* incarnations and any number of crashes, failed syncs, renames,          *)
(* teardowns and collections: what the catalogue names is whole on disk,   *)
(* a session continues from the checkpoint its record holds, and committed *)
(* history is linear.                                                      *)
(*                                                                         *)
(* The invariant says what mutationMu buys.  One writer at a time is past  *)
(* its checks, and what it checked still holds: a publication extends the  *)
(* committed checkpoint, which is also HEAD; a collection keeps exactly    *)
(* the committed checkpoint and its parent; what is removed has no record. *)
(***************************************************************************)
EXTENDS SessionRecovery, TLAPS

-----------------------------------------------------------------------------
(* The inductive invariant *)

\* The records of the model, by their fields.
IsRecord(r) == r \in [inc : {r.inc}, committed : {r.committed}, degraded : {r.degraded}]
IsDirectory(r) == r \in [dir : {r.dir}, head : {r.head}, gens : {r.gens}, objs : {r.objs}]
IsCapture(c) == c \in [manifest : {c.manifest}, hi : {c.hi}, cancelled : {c.cancelled}]
IsOperation(o) == o \in [at : {o.at}, inc : {o.inc}, keep : {o.keep}]
IsSession(s) ==
    /\ s \in [name : {s.name}, checkpoint : {s.checkpoint}, hi : {s.hi}, dirty : {s.dirty},
              capture : {s.capture}, persisted : {s.persisted}, quarantined : {s.quarantined}]
    /\ IsCapture(s.capture)

Shapes ==
    /\ cat = [n \in Name |-> cat[n]] /\ \A n \in Name : IsRecord(cat[n])
    /\ repo = [i \in Inc |-> repo[i]] /\ \A i \in Inc : IsDirectory(repo[i])
    /\ live = [i \in Inc |-> live[i]] /\ \A i \in Inc : IsSession(live[i])
    /\ op = [w \in Writer |-> op[w]] /\ \A w \in Writer : IsOperation(op[w])
    /\ next \in 1 .. MaxInc + 1 /\ fenced \in BOOLEAN /\ todo \subseteq Name /\ purging \subseteq Inc

\* Incarnations are never used twice.
Fresh ==
    /\ \A n \in Name : cat[n] = NoRecord \/ cat[n].inc \in 1 .. next - 1
    /\ \A i \in Inc : i >= next => repo[i] = NoDirectory /\ live[i] = NoSession /\ i \notin purging
    /\ \A m, n \in Name : cat[m] # NoRecord /\ cat[n] # NoRecord /\ cat[m].inc = cat[n].inc => m = n

\* A generation follows the one of its parent.
Follows(m) ==
    /\ m.gen \in Nat \ {0}
    /\ m.parent # None => m.parent.gen \in Nat /\ m.gen = m.parent.gen + 1

\* What the catalogue names is on disk.
Whole(r, i, c) ==
    /\ c # None => /\ Loadable(r, c) /\ c.inc = i /\ Follows(c)
                   /\ c.parent # None => Loadable(r, c.parent)
    /\ r.head # None => r.head \in r.gens

Intact == \A n \in Name : cat[n] # NoRecord => Whole(repo[cat[n].inc], cat[n].inc, cat[n].committed)

\* A record that is still to be restored has no session, a purged one neither,
\* and a daemon that is down has none.
Apart ==
    /\ up = "down" => todo = {} /\ purging = {} /\ \A i \in Inc : live[i] = NoSession
    /\ \A n \in todo : cat[n] # NoRecord /\ live[cat[n].inc] = NoSession /\ cat[n].inc \notin purging
    /\ \A i \in purging : live[i] = NoSession

\* Session i stands for the record of its name.
Stands(i) ==
    /\ live[i].name \in Name
    /\ live[i].checkpoint # None => live[i].checkpoint.gen \in Nat
    /\ live[i].capture # NoCapture =>
          LET m == live[i].capture.manifest IN m.inc = i /\ m.name \in Name /\ Follows(m)
    /\ ~fenced => /\ cat[live[i].name] # NoRecord /\ cat[live[i].name].inc = i
                  /\ cat[live[i].name].committed = live[i].checkpoint /\ cat[live[i].name].degraded = "no"

Sessions == \A i \in Inc : live[i] # NoSession => Stands(i)

\* mutationMu
Exclusive == \A v, w \in Writer : op[v].at # "idle" /\ op[w].at # "idle" => v = w

\* A publication in progress.
Publishing ==
    LET i == op["worker"].inc
        m == live[i].capture.manifest
    IN /\ op["worker"].at \in {"idle", "objects", "manifest", "head", "commit"}
       /\ op["worker"].at = "idle" => i = 0
       /\ op["worker"].at # "idle" =>
            /\ i \in Inc /\ live[i] # NoSession /\ live[i].capture # NoCapture
            /\ cat[m.name] # NoRecord /\ cat[m.name].inc = i /\ cat[m.name].committed = m.parent
       /\ op["worker"].at \in {"objects", "manifest", "head"} => repo[i].head = m.parent
       /\ op["worker"].at \in {"manifest", "head", "commit"} => m.content \subseteq repo[i].objs
       /\ op["worker"].at \in {"head", "commit"} => m \in repo[i].gens

\* A collection in progress.
Collecting ==
    LET i == op["gc"].inc IN
    /\ op["gc"].at \in {"idle", "orphan", "head", "gens", "sweep"}
    /\ op["gc"].at # "idle" => i \in Inc
    /\ op["gc"].at = "orphan" => \A n \in Name : cat[n].inc # i
    /\ op["gc"].at \in {"head", "gens", "sweep"} =>
          \E n \in Name : cat[n] # NoRecord /\ cat[n].inc = i /\ cat[n].committed = op["gc"].keep
    /\ op["gc"].at \in {"gens", "sweep"} => repo[i].head = op["gc"].keep

\* A removal in progress.
Removing ==
    /\ op["control"].at \in {"idle", "remove"}
    /\ op["control"].at # "idle" => /\ op["control"].inc \in Inc
                                    /\ \A n \in Name : cat[n].inc # op["control"].inc

RecInv ==
    /\ Shapes /\ Fresh /\ Intact /\ Apart /\ Sessions
    /\ Exclusive /\ Publishing /\ Collecting /\ Removing

-----------------------------------------------------------------------------
(* Updates of one place of a function *)

\* One place changes, the others stay.
LEMMA Updated ==
    ASSUME NEW S, NEW f, f = [x \in S |-> f[x]], NEW a \in S, NEW v, NEW g, g = [f EXCEPT ![a] = v]
    PROVE  g = [x \in S |-> g[x]] /\ g[a] = v /\ \A x \in S : x # a => g[x] = f[x]
OBVIOUS

\* A record of the catalogue is told from no record by its incarnation.
LEMMA Records ==
    /\ IsRecord(NoRecord) /\ NoRecord.inc = 0
    /\ \A i \in Inc : /\ Record(i) # NoRecord /\ IsRecord(Record(i)) /\ Record(i).inc = i
                     /\ Record(i).committed = None /\ Record(i).degraded = "no"
BY BoundsAssumption DEF Record, NoRecord, IsRecord, Inc

\* No capture is a capture by its fields.
LEMMA Captures == IsCapture(NoCapture)
BY DEF IsCapture, NoCapture

\* A session is told from no session by its name, and starts without a capture.
LEMMA NewSessions ==
    /\ IsSession(NoSession) /\ NoSession.name \notin Name
    /\ \A n \in Name : \A c, h :
          /\ Session(n, c, h) # NoSession /\ IsSession(Session(n, c, h))
          /\ Session(n, c, h).name = n /\ Session(n, c, h).checkpoint = c
          /\ Session(n, c, h).capture = NoCapture
<1>1. \A n, c, h : IsSession(Session(n, c, h))
  BY Captures DEF Session, IsSession
<1>2. \A n, c, h : /\ Session(n, c, h).name = n /\ Session(n, c, h).checkpoint = c
                  /\ Session(n, c, h).capture = NoCapture
  BY DEF Session
<1>3. \A n \in Name : \A c, h : Session(n, c, h) # NoSession
  BY NameAssumption DEF Session, NoSession
<1>4. IsSession(NoSession) /\ NoSession.name \notin Name
  BY <1>1, <1>2, NameAssumption DEF NoSession
<1> QED BY <1>1, <1>2, <1>3, <1>4

\* An incarnation without a directory has no HEAD.
LEMMA Directories ==
    IsDirectory(NoDirectory) /\ NoDirectory.head = None
BY DEF NoDirectory, IsDirectory

\* A writer that is idle works on no incarnation.
LEMMA Operations == IsOperation(Idle) /\ Idle.at = "idle" /\ Idle.inc = 0
BY DEF Idle, IsOperation

\* The next incarnation is new to everything.
LEMMA FreshNext ==
    ASSUME RecInv
    PROVE  /\ \A n \in Name : cat[n] # NoRecord => cat[n].inc \in Inc /\ cat[n].inc # next
           /\ next \in Inc => repo[next] = NoDirectory /\ live[next] = NoSession /\ next \notin purging
<1>1. Shapes /\ Fresh
  BY DEF RecInv
<1> QED BY <1>1, BoundsAssumption DEF Shapes, Fresh, Inc

\* A session that the worker is publishing.
LEMMA WorkerSession ==
    ASSUME RecInv, op["worker"].inc \in Inc
    PROVE  /\ op["worker"].at # "idle" /\ live[op["worker"].inc] # NoSession
           /\ live[op["worker"].inc].capture # NoCapture
<1>1. Publishing
  BY DEF RecInv
<1>2. op["worker"].inc # 0
  BY BoundsAssumption DEF Inc
<1> QED BY <1>1, <1>2 DEF Publishing

\* While no writer holds mutationMu, nothing is owed to one.
LEMMA IdleWriters ==
    ASSUME RecInv, Unlocked, op' = op
    PROVE  Exclusive' /\ Publishing' /\ Collecting' /\ Removing'
<1>1. Exclusive' /\ Removing'
  BY DEF RecInv, Exclusive, Removing, Unlocked, Writer
<1>2. Publishing' /\ Collecting'
  BY DEF RecInv, Publishing, Collecting, Unlocked, Writer
<1> QED BY <1>1, <1>2

-----------------------------------------------------------------------------
\* A new session: its incarnation is new to the catalogue, the repository and the registry.
LEMMA CreateKeeps == ASSUME RecInv, NEW n \in Name, Create(n) PROVE RecInv'
<1>1. /\ cat' = [m \in Name |-> cat'[m]] /\ \A m \in Name : m # n => cat'[m] = cat[m]
      /\ cat'[n] \in {cat[n], Record(next)} /\ cat[n] = NoRecord
  BY Updated DEF RecInv, Shapes, Create, SyncFails
<1>2. next \in Inc /\ next' = next + 1 /\ UNCHANGED <<repo, up, todo, purging, op>> /\ up # "down"
  BY BoundsAssumption DEF RecInv, Shapes, Create, Inc
<1>3. /\ live' = [i \in Inc |-> live'[i]] /\ \A i \in Inc : i # next => live'[i] = live[i]
      /\ \/ live'[next] = live[next] /\ (fenced' \/ cat' = cat)
         \/ live'[next] = Session(n, None, 0) /\ cat'[n] = Record(next)
  BY <1>2, Updated DEF RecInv, Shapes, Create, SyncFails
<1>4. fenced' \in BOOLEAN /\ (fenced => fenced')
  BY DEF RecInv, Shapes, Create, SyncFails
<1>5. Unlocked
  BY DEF Create
<1>11. Shapes'
  <2>1. \A m \in Name : IsRecord(cat'[m])
    BY <1>1, <1>2, Records DEF RecInv, Shapes
  <2>2. \A i \in Inc : IsSession(live'[i])
    BY <1>2, <1>3, NewSessions DEF RecInv, Shapes
  <2>3. next' \in 1 .. MaxInc + 1
    BY <1>2, BoundsAssumption DEF Inc
  <2> QED BY <2>1, <2>2, <2>3, <1>1, <1>2, <1>3, <1>4 DEF RecInv, Shapes
<1>12. Fresh'
  BY <1>1, <1>2, <1>3, Records DEF RecInv, Shapes, Fresh, Inc
<1>13. Intact'
  BY <1>1, <1>2, FreshNext, Records, Directories DEF RecInv, Intact, Whole
<1>14. Apart'
  <2>1. \A m \in todo : m \in Name /\ m # n /\ cat[m].inc \in Inc /\ cat[m].inc # next
    BY <1>1, FreshNext DEF RecInv, Shapes, Apart
  <2>2. \A i \in purging : i \in Inc /\ i # next
    BY <1>2, FreshNext DEF RecInv, Shapes
  <2> QED BY <1>1, <1>2, <1>3, <2>1, <2>2 DEF RecInv, Apart
<1>15. Sessions'
  BY <1>1, <1>2, <1>3, <1>4, FreshNext, Records, NewSessions DEF RecInv, Sessions, Stands
<1>16. Exclusive' /\ Publishing' /\ Collecting' /\ Removing'
  BY <1>2, <1>5, IdleWriters
<1> QED BY <1>11, <1>12, <1>13, <1>14, <1>15, <1>16 DEF RecInv

-----------------------------------------------------------------------------
(* Steps of one session *)

\* An incarnation with a session is neither to be restored nor purged.
LEMMA LiveApart ==
    ASSUME RecInv, NEW i \in Inc, live[i] # NoSession
    PROVE  /\ \A n \in todo : n \in Name /\ cat[n].inc \in Inc /\ cat[n].inc # i
           /\ \A j \in purging : j \in Inc /\ j # i
           /\ up # "down"
<1>1. ASSUME NEW n \in todo
      PROVE  n \in Name /\ cat[n].inc \in Inc /\ cat[n].inc # i
  <2>1. n \in Name
    BY DEF RecInv, Shapes
  <2>2. cat[n] # NoRecord /\ live[cat[n].inc] = NoSession
    BY DEF RecInv, Apart
  <2> QED BY <2>1, <2>2, FreshNext
<1>2. \A j \in purging : j \in Inc /\ j # i
  BY DEF RecInv, Shapes, Apart
<1>3. up # "down"
  BY DEF RecInv, Apart
<1> QED BY <1>1, <1>2, <1>3

\* A step that changes session i and leaves its name, its checkpoint and, if it
\* is being published, its captured manifest.
LEMMA SessionSteps ==
    ASSUME RecInv, NEW i \in Inc, live[i] # NoSession, NEW s, live' = [live EXCEPT ![i] = s],
           UNCHANGED <<cat, fenced, up, todo, purging, next>>,
           IsSession(s), s.name = live[i].name, s.checkpoint = live[i].checkpoint,
           s.capture # NoCapture =>
              LET m == s.capture.manifest IN m.inc = i /\ m.name \in Name /\ Follows(m)
    PROVE  /\ Apart' /\ Sessions'
           /\ live' = [j \in Inc |-> live'[j]] /\ \A j \in Inc : IsSession(live'[j])
           /\ live'[i] = s /\ s # NoSession /\ \A j \in Inc : j # i => live'[j] = live[j]
           /\ \A j \in Inc : j >= next => live'[j] = live[j]
<1>1. live' = [j \in Inc |-> live'[j]] /\ live'[i] = s /\ \A j \in Inc : j # i => live'[j] = live[j]
  BY Updated DEF RecInv, Shapes
<1>2. s # NoSession
  BY NewSessions DEF RecInv, Sessions, Stands
<1>3. \A j \in Inc : IsSession(live'[j])
  BY <1>1 DEF RecInv, Shapes
<1>4. \A j \in Inc : j >= next => live'[j] = live[j]
  BY <1>1 DEF RecInv, Fresh
<1>6. Apart'
  BY <1>1, LiveApart DEF RecInv, Apart
<1>7. Sessions'
  BY <1>1 DEF RecInv, Sessions, Stands
<1> QED BY <1>1, <1>2, <1>3, <1>4, <1>6, <1>7

\* Such a step without a writer's.
LEMMA QuietSteps ==
    ASSUME RecInv, NEW i \in Inc, live[i] # NoSession, NEW s, live' = [live EXCEPT ![i] = s],
           UNCHANGED <<cat, fenced, repo, up, todo, purging, op, next>>,
           IsSession(s), s.name = live[i].name, s.checkpoint = live[i].checkpoint,
           s.capture # NoCapture =>
              LET m == s.capture.manifest IN m.inc = i /\ m.name \in Name /\ Follows(m),
           op["worker"].inc = i => s.capture # NoCapture /\ s.capture.manifest = live[i].capture.manifest
    PROVE  RecInv'
<1>1. /\ Apart' /\ Sessions'
      /\ live' = [j \in Inc |-> live'[j]] /\ \A j \in Inc : IsSession(live'[j])
      /\ live'[i] = s /\ s # NoSession /\ \A j \in Inc : j # i => live'[j] = live[j]
      /\ \A j \in Inc : j >= next => live'[j] = live[j]
  BY SessionSteps
<1>5. Fresh'
  BY <1>1 DEF RecInv, Fresh
<1>6. Intact'
  BY DEF RecInv, Intact, Whole
<1>2. Shapes'
  BY <1>1 DEF RecInv, Shapes
<1>3. Exclusive' /\ Collecting' /\ Removing'
  BY DEF RecInv, Exclusive, Collecting, Removing
<1>4. Publishing'
  BY <1>1 DEF RecInv, Publishing
<1> QED BY <1>1, <1>2, <1>3, <1>4, <1>5, <1>6 DEF RecInv

\* Terminal output.
LEMMA OutputKeeps == ASSUME RecInv, NEW i \in Inc, Output(i) PROVE RecInv'
<1>1. live[i] # NoSession /\ IsSession(live[i])
  BY DEF RecInv, Shapes, Output, Live
<1>2. PICK s : s = [live[i] EXCEPT !.hi = @ + 1, !.dirty = @ \/ ~live[i].quarantined]
  OBVIOUS
<1>3. live' = [live EXCEPT ![i] = s]
  BY <1>2 DEF RecInv, Shapes, Output
<1>4. IsSession(s) /\ s.name = live[i].name /\ s.checkpoint = live[i].checkpoint /\ s.capture = live[i].capture
  BY <1>1, <1>2 DEF IsSession
<1>5. op["worker"].inc = i => s.capture # NoCapture
  BY <1>4, WorkerSession
<1>6. UNCHANGED <<cat, fenced, repo, up, todo, purging, op, next>>
  BY DEF Output
<1> QED BY <1>1, <1>3, <1>4, <1>5, <1>6, QuietSteps DEF RecInv, Sessions, Stands

\* The teardown gives up.
LEMMA TeardownAbortsKeeps == ASSUME RecInv, NEW i \in Inc, TeardownAborts(i) PROVE RecInv'
<1>1. live[i] # NoSession /\ IsSession(live[i])
  BY DEF RecInv, Shapes, TeardownAborts, Live
<1>2. PICK s : s = [live[i] EXCEPT !.quarantined = FALSE, !.dirty = TRUE]
  OBVIOUS
<1>3. live' = [live EXCEPT ![i] = s]
  BY <1>2 DEF RecInv, Shapes, TeardownAborts
<1>4. IsSession(s) /\ s.name = live[i].name /\ s.checkpoint = live[i].checkpoint /\ s.capture = live[i].capture
  BY <1>1, <1>2 DEF IsSession
<1>5. op["worker"].inc = i => s.capture # NoCapture
  BY <1>4, WorkerSession
<1>6. UNCHANGED <<cat, fenced, repo, up, todo, purging, op, next>>
  BY DEF TeardownAborts
<1> QED BY <1>1, <1>3, <1>4, <1>5, <1>6, QuietSteps DEF RecInv, Sessions, Stands

\* The session is quarantined; the capture being published is only cancelled.
LEMMA TeardownBeginsKeeps == ASSUME RecInv, NEW i \in Inc, TeardownBegins(i) PROVE RecInv'
<1>1. live[i] # NoSession /\ IsSession(live[i])
  BY DEF RecInv, Shapes, TeardownBegins, Live
<1>2. PICK c : c = IF op["worker"].inc # i THEN NoCapture ELSE [live[i].capture EXCEPT !.cancelled = TRUE]
  OBVIOUS
<1>3. IsCapture(c) /\ (op["worker"].inc = i => c # NoCapture /\ c.manifest = live[i].capture.manifest)
  BY <1>1, <1>2 DEF IsSession, IsCapture, NoCapture
<1>4. PICK s : s = [live[i] EXCEPT !.quarantined = TRUE, !.capture = c]
  OBVIOUS
<1>5. live' = [live EXCEPT ![i] = s]
  BY <1>2, <1>4 DEF RecInv, Shapes, TeardownBegins
<1>6. IsSession(s) /\ s.name = live[i].name /\ s.checkpoint = live[i].checkpoint /\ s.capture = c
  BY <1>1, <1>3, <1>4 DEF IsSession
<1>7. op["worker"].inc = i => live[i].capture # NoCapture
  BY WorkerSession
<1>8. c # NoCapture => op["worker"].inc = i
  BY <1>2
<1>9. UNCHANGED <<cat, fenced, repo, up, todo, purging, op, next>>
  BY DEF TeardownBegins
<1> QED BY <1>1, <1>3, <1>5, <1>6, <1>7, <1>8, <1>9, QuietSteps DEF RecInv, Sessions, Stands

\* The manifest of a capture follows the checkpoint of its session.
LEMMA CaptureKeeps == ASSUME RecInv, NEW i \in Inc, Capture(i) PROVE RecInv'
<1>1. live[i] # NoSession /\ IsSession(live[i]) /\ live[i].capture = NoCapture
  BY DEF RecInv, Shapes, Capture, Live
<1>2. PICK gen : gen = IF live[i].checkpoint = None THEN 1 ELSE live[i].checkpoint.gen + 1
  OBVIOUS
<1>3. PICK m : m = manifest(i, live[i].name, gen, History(live[i].hi), live[i].checkpoint)
  OBVIOUS
<1>4. m.inc = i /\ m.name \in Name /\ Follows(m)
  BY <1>1, <1>2, <1>3 DEF RecInv, Sessions, Stands, manifest, Follows
<1>5. PICK c : c = [manifest |-> m, hi |-> live[i].hi, cancelled |-> FALSE]
  OBVIOUS
<1>6. IsCapture(c) /\ c.manifest = m
  BY <1>5 DEF IsCapture
<1>7. PICK s : s = [live[i] EXCEPT !.capture = c]
  OBVIOUS
<1>8. live' = [live EXCEPT ![i] = s]
  BY <1>2, <1>3, <1>5, <1>7 DEF RecInv, Shapes, Capture
<1>9. IsSession(s) /\ s.name = live[i].name /\ s.checkpoint = live[i].checkpoint /\ s.capture = c
  BY <1>1, <1>6, <1>7 DEF IsSession
<1>10. op["worker"].inc # i
  BY <1>1, WorkerSession
<1>11. UNCHANGED <<cat, fenced, repo, up, todo, purging, op, next>>
  BY DEF Capture
<1> QED BY <1>1, <1>4, <1>6, <1>8, <1>9, <1>10, <1>11, QuietSteps

-----------------------------------------------------------------------------
(* Publication *)

\* A step that changes directory i and keeps what the catalogue names in it.
LEMMA DirectorySteps ==
    ASSUME RecInv, NEW i \in Inc, NEW r, repo' = [repo EXCEPT ![i] = r], IsDirectory(r), UNCHANGED cat,
           \A n \in Name : cat[n] # NoRecord /\ cat[n].inc = i => Whole(r, i, cat[n].committed)
    PROVE  /\ Intact'
           /\ repo' = [j \in Inc |-> repo'[j]] /\ \A j \in Inc : IsDirectory(repo'[j])
           /\ repo'[i] = r /\ \A j \in Inc : j # i => repo'[j] = repo[j]
<1>1. repo' = [j \in Inc |-> repo'[j]] /\ repo'[i] = r /\ \A j \in Inc : j # i => repo'[j] = repo[j]
  BY Updated DEF RecInv, Shapes
<1>2. \A j \in Inc : IsDirectory(repo'[j])
  BY <1>1 DEF RecInv, Shapes
<1>3. Intact'
  BY <1>1, FreshNext DEF RecInv, Intact
<1> QED BY <1>1, <1>2, <1>3

\* A writer's step.
LEMMA WriterSteps ==
    ASSUME RecInv, NEW w \in Writer, NEW o, op' = [op EXCEPT ![w] = o], IsOperation(o)
    PROVE  /\ op' = [v \in Writer |-> op'[v]] /\ \A v \in Writer : IsOperation(op'[v])
           /\ op'[w] = o /\ \A v \in Writer : v # w => op'[v] = op[v]
           /\ o.at = "idle" \/ Unlocked \/ op[w].at # "idle" => Exclusive'
<1>1. op' = [v \in Writer |-> op'[v]] /\ op'[w] = o /\ \A v \in Writer : v # w => op'[v] = op[v]
  BY Updated DEF RecInv, Shapes
<1>2. \A v \in Writer : IsOperation(op'[v])
  BY <1>1 DEF RecInv, Shapes
<1>3. o.at = "idle" \/ Unlocked \/ op[w].at # "idle" => Exclusive'
  BY <1>1 DEF RecInv, Exclusive, Unlocked
<1> QED BY <1>1, <1>2, <1>3

\* A failed publication.
LEMMA FailsKeeps ==
    ASSUME RecInv, NEW i \in Inc, live[i] # NoSession, Fails(i),
           UNCHANGED <<cat, fenced, up, todo, purging, next>>,
           repo' = repo \/ repo' = [repo EXCEPT ![i] = [repo[i] EXCEPT !.dir = TRUE]]
    PROVE  RecInv'
<1>1. PICK s : s = NotSaved(live[i])
  OBVIOUS
<1>2. live' = [live EXCEPT ![i] = s]
  BY <1>1 DEF RecInv, Shapes, Fails
<1>3. IsSession(s) /\ s.name = live[i].name /\ s.checkpoint = live[i].checkpoint /\ s.capture = NoCapture
  BY <1>1, Captures DEF RecInv, Shapes, NotSaved, IsSession
<1>4. /\ Apart' /\ Sessions'
      /\ live' = [j \in Inc |-> live'[j]] /\ \A j \in Inc : IsSession(live'[j])
      /\ \A j \in Inc : j >= next => live'[j] = live[j]
  BY <1>2, <1>3, SessionSteps
<1>5. PICK r : r = [repo[i] EXCEPT !.dir = TRUE]
  OBVIOUS
<1>6. IsDirectory(r) /\ r.head = repo[i].head /\ r.gens = repo[i].gens /\ r.objs = repo[i].objs
  BY <1>5 DEF RecInv, Shapes, IsDirectory
<1>7. \A n \in Name : cat[n] # NoRecord /\ cat[n].inc = i => Whole(r, i, cat[n].committed)
  BY <1>6 DEF RecInv, Intact, Whole, Loadable
<1>8. /\ Intact' /\ repo' = [j \in Inc |-> repo'[j]]
      /\ \A j \in Inc : IsDirectory(repo'[j]) /\ repo'[j].head = repo[j].head /\ (j # i => repo'[j] = repo[j])
  <2>1. CASE repo' = repo
    BY <2>1 DEF RecInv, Shapes, Intact
  <2>2. CASE repo' = [repo EXCEPT ![i] = r]
    BY <2>2, <1>6, <1>7, DirectorySteps
  <2> QED BY <1>5, <2>1, <2>2
<1>9. /\ op' = [v \in Writer |-> op'[v]] /\ (\A v \in Writer : IsOperation(op'[v])) /\ Exclusive'
      /\ op'["worker"] = Idle /\ op'["gc"] = op["gc"] /\ op'["control"] = op["control"]
  BY Operations, WriterSteps DEF Fails, Writer
<1>10. Shapes'
  BY <1>4, <1>8, <1>9 DEF RecInv, Shapes
<1>11. Fresh'
  BY <1>4, <1>8 DEF RecInv, Fresh
<1>12. Publishing'
  BY <1>9, Operations DEF Publishing
<1>13. Collecting' /\ Removing'
  BY <1>8, <1>9 DEF RecInv, Collecting, Removing
<1> QED BY <1>4, <1>8, <1>9, <1>10, <1>11, <1>12, <1>13 DEF RecInv

\* What the checks of a publication establish: it extends the committed
\* checkpoint, which is HEAD, or is there already.
LEMMA Admitted ==
    ASSUME RecInv, NEW i \in Inc, live[i] # NoSession, live[i].capture # NoCapture, Admits(i),
           NEW m, m = live[i].capture.manifest, publication(repo[i], m) # "refused"
    PROVE  /\ cat[m.name] # NoRecord /\ cat[m.name].inc = i /\ cat[m.name].committed = m.parent
           /\ publication(repo[i], m) = "replay" => m \in repo[i].gens /\ m.content \subseteq repo[i].objs
           /\ publication(repo[i], m) # "replay" => repo[i].head = m.parent
<1>1. cat[m.name] # NoRecord /\ cat[m.name].inc = i /\ cat[m.name].committed = m.parent
  BY DEF Admits
<1>2. CASE repo[i].head = None
  BY <1>1, <1>2 DEF publication
<1>3. CASE repo[i].head # None /\ repo[i].head.gen = m.gen
  BY <1>1, <1>3 DEF publication, Loadable
<1>4. CASE repo[i].head # None /\ repo[i].head.gen # m.gen
  BY <1>1, <1>4 DEF publication
<1> QED BY <1>2, <1>3, <1>4

\* PublishCheckpoint takes mutationMu.
LEMMA PublishBeginsKeeps == ASSUME RecInv, NEW i \in Inc, PublishBegins(i) PROVE RecInv'
<1>1. /\ live[i] # NoSession /\ live[i].capture # NoCapture /\ Unlocked
      /\ UNCHANGED <<cat, fenced, repo, up, todo, purging, next>>
  BY DEF PublishBegins, Live
<1>2. PICK m : m = live[i].capture.manifest
  OBVIOUS
<1>3. CASE Fails(i)
  BY <1>1, <1>3, FailsKeeps
<1>4. CASE ~Fails(i)
  <2>1. PICK s : s = incrementalPublication(live[i])
    OBVIOUS
  <2>2. PICK o : o = [Idle EXCEPT !.at = IF publication(repo[i], m) = "replay" THEN "commit" ELSE "objects",
                                  !.inc = i]
    OBVIOUS
  <2>3. /\ Admits(i) /\ publication(repo[i], m) # "refused"
        /\ live' = [live EXCEPT ![i] = s] /\ op' = [op EXCEPT !["worker"] = o]
    BY <1>2, <1>4, <2>1, <2>2 DEF PublishBegins, RecInv, Shapes
  <2>4. IsSession(s) /\ s.name = live[i].name /\ s.checkpoint = live[i].checkpoint /\ s.capture = live[i].capture
    BY <2>1 DEF RecInv, Shapes, incrementalPublication, IsSession
  <2>5. /\ Apart' /\ Sessions'
        /\ live' = [j \in Inc |-> live'[j]] /\ \A j \in Inc : IsSession(live'[j])
        /\ live'[i] = s /\ s # NoSession /\ \A j \in Inc : j >= next => live'[j] = live[j]
    <3>1. LET c == s.capture.manifest IN c.inc = i /\ c.name \in Name /\ Follows(c)
      BY <1>1, <2>4 DEF RecInv, Sessions, Stands
    <3> QED BY <1>1, <2>3, <2>4, <3>1, SessionSteps
  <2>6. /\ IsOperation(o) /\ o.inc = i
        /\ o.at = IF publication(repo[i], m) = "replay" THEN "commit" ELSE "objects"
    BY <2>2 DEF Idle, IsOperation
  <2>7. /\ op' = [v \in Writer |-> op'[v]] /\ (\A v \in Writer : IsOperation(op'[v])) /\ Exclusive'
        /\ op'["worker"] = o /\ op'["gc"] = op["gc"] /\ op'["control"] = op["control"]
    BY <1>1, <2>3, <2>6, WriterSteps DEF Writer
  <2>8. Shapes' /\ Fresh' /\ Intact'
    BY <1>1, <2>5, <2>7 DEF RecInv, Shapes, Fresh, Intact
  <2>9. Publishing'
    <3>1. /\ cat[m.name] # NoRecord /\ cat[m.name].inc = i /\ cat[m.name].committed = m.parent
          /\ publication(repo[i], m) = "replay" => m \in repo[i].gens /\ m.content \subseteq repo[i].objs
          /\ publication(repo[i], m) # "replay" => repo[i].head = m.parent
      BY <1>1, <1>2, <2>3, Admitted
    <3>2. live'[i].capture = live[i].capture /\ live'[i].capture.manifest = m
      BY <1>2, <2>4, <2>5
    <3> QED BY <1>1, <2>5, <2>6, <2>7, <3>1, <3>2 DEF Publishing
  <2>10. Collecting' /\ Removing'
    BY <1>1, <2>7 DEF RecInv, Collecting, Removing
  <2> QED BY <2>5, <2>7, <2>8, <2>9, <2>10 DEF RecInv
<1> QED BY <1>3, <1>4

\* A write of Publish only adds to the directory.
LEMMA PublishMoves ==
    ASSUME RecInv, NEW i \in Inc, op["worker"].at # "idle", i = op["worker"].inc,
           NEW m, m = live[i].capture.manifest,
           NEW r, IsDirectory(r), Stores(i, r), NEW then, Goes("worker", then),
           UNCHANGED <<cat, fenced, up, todo, live, purging, next>>,
           repo[i].gens \subseteq r.gens, repo[i].objs \subseteq r.objs,
           r.head = repo[i].head \/ (r.head = m /\ m \in r.gens),
           then \in {"manifest", "head", "commit"}, m.content \subseteq r.objs,
           then # "commit" => r.head = m.parent,
           then \in {"head", "commit"} => m \in r.gens
    PROVE  RecInv'
<1>1. /\ live[i] # NoSession /\ live[i].capture # NoCapture /\ m.name \in Name
      /\ cat[m.name] # NoRecord /\ cat[m.name].inc = i /\ cat[m.name].committed = m.parent
  BY DEF RecInv, Publishing, Sessions, Stands
<1>2. \A n \in Name : cat[n] # NoRecord /\ cat[n].inc = i => Whole(r, i, cat[n].committed)
  BY DEF RecInv, Intact, Whole, Loadable
<1>3. /\ Intact'
      /\ repo' = [j \in Inc |-> repo'[j]] /\ \A j \in Inc : IsDirectory(repo'[j])
      /\ repo'[i] = r /\ \A j \in Inc : j # i => repo'[j] = repo[j]
  BY <1>2, DirectorySteps DEF Stores
<1>4. PICK o : o = [op["worker"] EXCEPT !.at = then]
  OBVIOUS
<1>5. op' = [op EXCEPT !["worker"] = o] /\ IsOperation(o) /\ o.at = then /\ o.inc = i
  BY <1>4 DEF RecInv, Shapes, Goes, IsOperation, Writer
<1>6. /\ op' = [v \in Writer |-> op'[v]] /\ (\A v \in Writer : IsOperation(op'[v])) /\ Exclusive'
      /\ op'["worker"] = o /\ op'["gc"] = op["gc"] /\ op'["control"] = op["control"]
  BY <1>5, WriterSteps DEF Writer
<1>7. op["gc"].at = "idle"
  BY DEF RecInv, Exclusive, Writer
<1>8. Shapes'
  BY <1>3, <1>6 DEF RecInv, Shapes
<1>9. Fresh'
  BY <1>1, <1>3 DEF RecInv, Fresh
<1>10. Apart' /\ Sessions'
  BY DEF RecInv, Apart, Sessions, Stands
<1>11. Publishing'
  BY <1>1, <1>3, <1>5, <1>6 DEF Publishing
<1>12. Collecting' /\ Removing'
  BY <1>6, <1>7 DEF RecInv, Collecting, Removing
<1> QED BY <1>3, <1>6, <1>8, <1>9, <1>10, <1>11, <1>12 DEF RecInv

\* Objects, then the manifest, then HEAD.
LEMMA PublishKeeps == ASSUME RecInv, Publish PROVE RecInv'
<1>1. PICK i : i = op["worker"].inc
  OBVIOUS
<1>2. PICK m : m = live[i].capture.manifest
  OBVIOUS
<1>3. PICK r : r = repo[i]
  OBVIOUS
<1>4. /\ op["worker"].at # "idle" /\ i \in Inc /\ live[i] # NoSession /\ live[i].capture # NoCapture
      /\ m.name \in Name /\ cat[m.name] # NoRecord /\ cat[m.name].inc = i /\ cat[m.name].committed = m.parent
      /\ r.head = m.parent /\ IsDirectory(r)
  BY <1>1, <1>2, <1>3 DEF Publish, RecInv, Publishing, Sessions, Stands, Shapes
<1>5. UNCHANGED <<cat, fenced, up, todo, purging, next>>
  BY DEF Publish, PublishStep
<1>6. CASE Fails(i) /\ Stores(i, [repo[i] EXCEPT !.dir = TRUE])
  BY <1>4, <1>5, <1>6, FailsKeeps DEF Stores
<1>7. CASE op["worker"].at = "objects" /\ ~(Fails(i) /\ Stores(i, [repo[i] EXCEPT !.dir = TRUE]))
  <2>1. /\ Stores(i, storeObjects(r, m)) /\ Goes("worker", "manifest") /\ UNCHANGED live
    BY <1>1, <1>2, <1>3, <1>7 DEF Publish, PublishStep
  <2>2. PICK t : t = storeObjects(r, m)
    OBVIOUS
  <2>3. IsDirectory(t) /\ t.head = r.head /\ t.gens = r.gens /\ t.objs = r.objs \cup Necessary(r, m)
    BY <1>4, <2>2 DEF storeObjects, IsDirectory
  <2>4. m.parent # None => m.parent.content \subseteq r.objs
    BY <1>3, <1>4 DEF RecInv, Intact, Whole, Loadable
  <2>5. m.content \subseteq t.objs
    BY <1>4, <2>3, <2>4 DEF Necessary
  <2>6. Stores(i, t) /\ repo[i].gens \subseteq t.gens /\ repo[i].objs \subseteq t.objs /\ t.head = repo[i].head
    BY <1>3, <2>1, <2>2, <2>3
  <2> QED BY <1>1, <1>2, <1>4, <1>5, <2>1, <2>3, <2>5, <2>6, PublishMoves
<1>8. CASE op["worker"].at = "manifest" /\ ~(Fails(i) /\ Stores(i, [repo[i] EXCEPT !.dir = TRUE]))
  <2>1. /\ Stores(i, storeManifest(r, m)) /\ Goes("worker", "head") /\ UNCHANGED live
    BY <1>1, <1>2, <1>3, <1>8 DEF Publish, PublishStep
  <2>2. PICK t : t = storeManifest(r, m)
    OBVIOUS
  <2>3. IsDirectory(t) /\ t.head = r.head /\ t.gens = r.gens \cup {m} /\ t.objs = r.objs
    BY <1>4, <2>2 DEF storeManifest, IsDirectory
  <2>4. m.content \subseteq t.objs
    BY <1>1, <1>2, <1>3, <1>8, <2>3 DEF RecInv, Publishing
  <2>5. Stores(i, t) /\ repo[i].gens \subseteq t.gens /\ repo[i].objs \subseteq t.objs /\ t.head = repo[i].head
    BY <1>3, <2>1, <2>2, <2>3
  <2> QED BY <1>1, <1>2, <1>4, <1>5, <2>1, <2>3, <2>4, <2>5, PublishMoves
<1>9. CASE op["worker"].at = "head" /\ ~(Fails(i) /\ Stores(i, [repo[i] EXCEPT !.dir = TRUE]))
  <2>1. /\ Stores(i, writeHead(r, m)) /\ Goes("worker", "commit") /\ UNCHANGED live
    BY <1>1, <1>2, <1>3, <1>9 DEF Publish, PublishStep
  <2>2. PICK t : t = writeHead(r, m)
    OBVIOUS
  <2>3. IsDirectory(t) /\ t.head = m /\ t.gens = r.gens /\ t.objs = r.objs
    BY <1>4, <2>2 DEF writeHead, IsDirectory
  <2>4. m.content \subseteq t.objs /\ m \in t.gens
    BY <1>1, <1>2, <1>3, <1>9, <2>3 DEF RecInv, Publishing
  <2> QED BY <1>1, <1>2, <1>3, <1>4, <1>5, <2>1, <2>2, <2>3, <2>4, PublishMoves
<1> QED BY <1>6, <1>7, <1>8, <1>9 DEF Publish

\* A step that changes record n and leaves its incarnation.
LEMMA RecordSteps ==
    ASSUME RecInv, NEW n \in Name, cat[n] # NoRecord, NEW r, IsRecord(r), r.inc = cat[n].inc,
           cat' = cat \/ cat' = [cat EXCEPT ![n] = r]
    PROVE  /\ cat' = [m \in Name |-> cat'[m]] /\ \A m \in Name : IsRecord(cat'[m])
           /\ \A m \in Name : m # n => cat'[m] = cat[m]
           /\ cat'[n] = IF cat' = cat THEN cat[n] ELSE r
           /\ \A m \in Name : cat'[m].inc = cat[m].inc /\ (cat'[m] = NoRecord <=> cat[m] = NoRecord)
<1>1. /\ cat' = [m \in Name |-> cat'[m]] /\ \A m \in Name : m # n => cat'[m] = cat[m]
      /\ cat'[n] = IF cat' = cat THEN cat[n] ELSE r
  BY Updated DEF RecInv, Shapes
<1>2. \A m \in Name : IsRecord(cat'[m])
  BY <1>1 DEF RecInv, Shapes
<1>3. r # NoRecord
  BY FreshNext, Records, BoundsAssumption DEF Inc
<1> QED BY <1>1, <1>2, <1>3

\* The catalogue makes the checkpoint authoritative, or its sync fails.
LEMMA PublishCommitsKeeps == ASSUME RecInv, PublishCommits PROVE RecInv'
<1>1. PICK i : i = op["worker"].inc
  OBVIOUS
<1>2. PICK m : m = live[i].capture.manifest
  OBVIOUS
<1>3. /\ op["worker"].at # "idle" /\ i \in Inc /\ live[i] # NoSession /\ live[i].capture # NoCapture
      /\ m.inc = i /\ m.name \in Name /\ Follows(m)
      /\ cat[m.name] # NoRecord /\ cat[m.name].inc = i /\ cat[m.name].committed = m.parent
      /\ m \in repo[i].gens /\ m.content \subseteq repo[i].objs
  BY <1>1, <1>2 DEF PublishCommits, RecInv, Publishing, Sessions, Stands
<1>4. PICK r : r = [cat[m.name] EXCEPT !.committed = m, !.degraded = "no"]
  OBVIOUS
<1>5. IsRecord(r) /\ r.inc = i /\ r.committed = m /\ r.degraded = "no"
  BY <1>3, <1>4 DEF RecInv, Shapes, IsRecord
<1>6. /\ cat' = cat \/ cat' = [cat EXCEPT ![m.name] = r]
      /\ ~fenced' => ~fenced /\ cat' = [cat EXCEPT ![m.name] = r] /\ live' = [live EXCEPT ![i] = Saved(live[i])]
      /\ fenced' \in BOOLEAN
      /\ live' = [live EXCEPT ![i] = Saved(live[i])] \/ live' = [live EXCEPT ![i] = NotSaved(live[i])]
  BY <1>1, <1>2, <1>3, <1>4 DEF PublishCommits, Writes, SyncFails, Fenced, RecInv, Shapes
<1>7. /\ cat' = [n \in Name |-> cat'[n]] /\ \A n \in Name : IsRecord(cat'[n])
      /\ \A n \in Name : n # m.name => cat'[n] = cat[n]
      /\ cat'[m.name] = IF cat' = cat THEN cat[m.name] ELSE r
      /\ \A n \in Name : cat'[n].inc = cat[n].inc /\ (cat'[n] = NoRecord <=> cat[n] = NoRecord)
  BY <1>3, <1>5, <1>6, RecordSteps
<1>8. UNCHANGED <<repo, up, todo, purging, next>> /\ op' = [op EXCEPT !["worker"] = Idle]
  BY DEF PublishCommits
<1>9. PICK s : /\ live' = [live EXCEPT ![i] = s] /\ s \in {Saved(live[i]), NotSaved(live[i])}
               /\ ~fenced' => s = Saved(live[i])
  BY <1>6
<1>10. /\ IsSession(s) /\ s.name = live[i].name /\ s.capture = NoCapture
       /\ s = Saved(live[i]) => s.checkpoint = m
       /\ s.checkpoint \in {m, live[i].checkpoint}
  BY <1>2, <1>3, <1>9, Captures DEF RecInv, Shapes, Saved, NotSaved, IsSession
<1>11. live' = [j \in Inc |-> live'[j]] /\ live'[i] = s /\ \A j \in Inc : j # i => live'[j] = live[j]
  BY <1>3, <1>9, Updated DEF RecInv, Shapes
<1>12. /\ op' = [v \in Writer |-> op'[v]] /\ (\A v \in Writer : IsOperation(op'[v])) /\ Exclusive'
       /\ op'["worker"] = Idle /\ op'["gc"] = op["gc"] /\ op'["control"] = op["control"]
  BY <1>8, Operations, WriterSteps DEF Writer
<1>13. Shapes'
  BY <1>6, <1>7, <1>8, <1>10, <1>11, <1>12 DEF RecInv, Shapes
<1>14. Fresh'
  BY <1>3, <1>7, <1>8, <1>11 DEF RecInv, Fresh
<1>15. Intact'
  <2>1. Whole(repo[i], i, m)
    BY <1>3 DEF RecInv, Intact, Whole, Loadable
  <2> QED BY <1>3, <1>5, <1>7, <1>8, <2>1 DEF RecInv, Intact
<1>16. Apart'
  BY <1>3, <1>7, <1>8, <1>11, LiveApart DEF RecInv, Apart
<1>17. Sessions'
  <2>1. Stands(i)'
    <3>1. ~fenced => live[i].name = m.name
      BY <1>3 DEF RecInv, Fresh, Sessions, Stands
    <3>2. m.gen \in Nat
      BY <1>3 DEF Follows
    <3>3. live[i].name \in Name /\ (live[i].checkpoint # None => live[i].checkpoint.gen \in Nat)
      BY <1>3 DEF RecInv, Sessions, Stands
    <3> QED BY <1>3, <1>5, <1>6, <1>7, <1>9, <1>10, <1>11, <3>1, <3>2, <3>3 DEF Stands
  <2>2. ASSUME NEW j \in Inc, j # i, live[j] # NoSession PROVE Stands(j)'
    <3>1. Stands(j)
      BY <2>2 DEF RecInv, Sessions
    <3>2. ~fenced => live[j].name # m.name
      BY <1>3, <2>2, <3>1 DEF Stands
    <3> QED BY <1>6, <1>7, <1>11, <2>2, <3>1, <3>2 DEF Stands
  <2> QED BY <1>11, <2>1, <2>2 DEF Sessions
<1>18. Publishing'
  BY <1>12, Operations DEF Publishing
<1>19. Collecting' /\ Removing'
  BY <1>3, <1>7, <1>12 DEF RecInv, Collecting, Removing, Exclusive, Writer
<1> QED BY <1>12, <1>13, <1>14, <1>15, <1>16, <1>17, <1>18, <1>19 DEF RecInv

-----------------------------------------------------------------------------
(* Sessions come and go *)

\* A session is opened on record n.
LEMMA SessionOpens ==
    ASSUME RecInv, NEW n \in Name, cat[n] # NoRecord, cat[n].degraded = "no", NEW i, i = cat[n].inc,
           live[i] = NoSession, i \notin purging,
           NEW h, live' = [live EXCEPT ![i] = Session(n, cat[n].committed, h)],
           UNCHANGED <<cat, fenced, purging, next>>,
           todo' \subseteq todo, n \notin todo', up' # "down"
    PROVE  /\ Apart' /\ Sessions'
           /\ i \in Inc /\ op["worker"].inc # i /\ \A j \in Inc : j # i => live'[j] = live[j]
           /\ live' = [j \in Inc |-> live'[j]] /\ \A j \in Inc : IsSession(live'[j])
           /\ \A j \in Inc : j >= next => live'[j] = live[j]
<1>1. i \in Inc
  BY FreshNext
<1>2. PICK s : s = Session(n, cat[n].committed, h)
  OBVIOUS
<1>3. /\ s # NoSession /\ IsSession(s) /\ s.name = n /\ s.checkpoint = cat[n].committed
      /\ s.capture = NoCapture
  BY <1>2, NewSessions
<1>4. /\ live' = [j \in Inc |-> live'[j]] /\ live'[i] = s
      /\ \A j \in Inc : j # i => live'[j] = live[j]
  BY <1>1, <1>2, Updated DEF RecInv, Shapes
<1>5. \A j \in Inc : IsSession(live'[j])
  BY <1>3, <1>4 DEF RecInv, Shapes
<1>6. op["worker"].inc # i
  BY <1>1, WorkerSession
<1>7. \A j \in Inc : j >= next => live'[j] = live[j]
  BY <1>4, BoundsAssumption DEF RecInv, Shapes, Fresh, Inc
<1>8. Apart'
  <2>1. \A m \in todo' : m \in Name /\ cat[m] # NoRecord /\ cat[m].inc \in Inc /\ cat[m].inc # i
    BY FreshNext DEF RecInv, Shapes, Apart, Fresh
  <2>2. purging \subseteq Inc
    BY DEF RecInv, Shapes
  <2> QED BY <1>4, <2>1, <2>2 DEF RecInv, Apart
<1>9. Sessions'
  <2>1. Stands(i)'
    BY <1>3, <1>4 DEF RecInv, Intact, Whole, Follows, Stands
  <2>2. ASSUME NEW j \in Inc, j # i, live'[j] # NoSession PROVE Stands(j)'
    BY <1>4, <2>2 DEF RecInv, Sessions, Stands
  <2> QED BY <2>1, <2>2 DEF Sessions
<1> QED BY <1>1, <1>4, <1>5, <1>6, <1>7, <1>8, <1>9

\* A stopped session is opened again.
LEMMA ResumeKeeps == ASSUME RecInv, NEW n \in Name, Resume(n) PROVE RecInv'
<1>1. /\ UNCHANGED <<cat, repo, up, todo, purging, op, next>>
      /\ up # "down" /\ n \notin todo /\ cat[n] # NoRecord /\ cat[n].degraded = "no"
      /\ cat[n].inc \notin purging /\ live[cat[n].inc] = NoSession
  BY FreshNext DEF Resume, Writes, SyncFails, Live
<1>2. CASE fenced' = fenced /\ live' = [live EXCEPT ![cat[n].inc] = Session(n, cat[n].committed, 0)]
  <2>1. PICK i : i = cat[n].inc
    OBVIOUS
  <2>2. /\ Apart' /\ Sessions'
        /\ i \in Inc /\ op["worker"].inc # i /\ \A j \in Inc : j # i => live'[j] = live[j]
        /\ live' = [j \in Inc |-> live'[j]] /\ \A j \in Inc : IsSession(live'[j])
        /\ \A j \in Inc : j >= next => live'[j] = live[j]
    BY <1>1, <1>2, <2>1, SessionOpens
  <2>3. Shapes' /\ Fresh' /\ Intact'
    BY <1>1, <1>2, <2>2 DEF RecInv, Shapes, Fresh, Intact
  <2>4. Publishing'
    BY <1>1, <2>2 DEF RecInv, Publishing
  <2>5. Exclusive' /\ Collecting' /\ Removing'
    BY <1>1 DEF RecInv, Exclusive, Collecting, Removing
  <2> QED BY <2>2, <2>3, <2>4, <2>5 DEF RecInv
<1>3. CASE fenced' = TRUE /\ live' = live
  <2>1. Shapes' /\ Fresh' /\ Intact' /\ Apart'
    BY <1>1, <1>3 DEF RecInv, Shapes, Fresh, Intact, Apart
  <2>2. Sessions'
    BY <1>1, <1>3 DEF RecInv, Sessions, Stands
  <2>3. Exclusive' /\ Publishing' /\ Collecting' /\ Removing'
    BY <1>1, <1>3 DEF RecInv, Exclusive, Publishing, Collecting, Removing
  <2> QED BY <2>1, <2>2, <2>3 DEF RecInv
<1> QED BY <1>2, <1>3 DEF Resume, Writes, SyncFails

\* The session is unregistered after its publication was joined.
LEMMA UnregisterKeeps ==
    ASSUME RecInv, NEW i \in Inc, NEW purge \in BOOLEAN, Unregister(i, purge) PROVE RecInv'
<1>1. /\ live[i] # NoSession /\ op["worker"].inc # i /\ UNCHANGED <<cat, fenced, repo, up, todo, op, next>>
      /\ purging' \subseteq purging \cup {i}
  BY DEF Unregister, Live
<1>2. /\ live' = [j \in Inc |-> live'[j]] /\ live'[i] = NoSession
      /\ \A j \in Inc : j # i => live'[j] = live[j]
  BY Updated DEF RecInv, Shapes, Unregister
<1>3. Shapes'
  BY <1>1, <1>2, NewSessions DEF RecInv, Shapes
<1>4. Fresh'
  BY <1>1, <1>2 DEF RecInv, Fresh
<1>5. Intact'
  BY <1>1 DEF RecInv, Intact
<1>6. Apart'
  BY <1>1, <1>2, LiveApart DEF RecInv, Apart
<1>7. Sessions'
  BY <1>1, <1>2 DEF RecInv, Sessions, Stands
<1>8. Publishing'
  BY <1>1, <1>2 DEF RecInv, Publishing
<1>9. Exclusive' /\ Collecting' /\ Removing'
  BY <1>1 DEF RecInv, Exclusive, Collecting, Removing
<1> QED BY <1>3, <1>4, <1>5, <1>6, <1>7, <1>8, <1>9 DEF RecInv

\* A fresh incarnation takes the name of a record that has no session.
LEMMA ReplacesKeeps ==
    ASSUME RecInv, Unlocked, NEW n \in Name, cat[n] # NoRecord, live[cat[n].inc] = NoSession, Replaces(n),
           UNCHANGED <<repo, live, purging>>, todo' \subseteq todo, n \notin todo', up' # "down"
    PROVE  RecInv'
<1>1. PICK i : i = cat[n].inc
  OBVIOUS
<1>2. /\ i \in Inc /\ i # next /\ next \in Inc /\ next' = next + 1 /\ ~fenced /\ fenced' \in BOOLEAN
      /\ fenced' = FALSE => cat' = [cat EXCEPT ![n] = Record(next)]
  <2>1. /\ ~fenced /\ fenced' \in BOOLEAN /\ next' = next + 1
        /\ fenced' = FALSE => cat' = [cat EXCEPT ![n] = Record(next)]
    BY DEF Replaces, Writes, SyncFails, RecInv, Shapes
  <2>2. next \in Inc
    BY BoundsAssumption DEF Replaces, RecInv, Shapes, Inc
  <2> QED BY <1>1, <2>1, <2>2, FreshNext
<1>3. /\ cat' = [m \in Name |-> cat'[m]] /\ \A m \in Name : m # n => cat'[m] = cat[m]
      /\ cat'[n] \in {cat[n], Record(next)} /\ (fenced' = FALSE => cat'[n] = Record(next))
  BY <1>2, Updated DEF RecInv, Shapes, Replaces, Writes, SyncFails
<1>4. Shapes' /\ Exclusive'
  <2>1. \A m \in Name : IsRecord(cat'[m])
    BY <1>2, <1>3, Records DEF RecInv, Shapes
  <2>2. next' \in 1 .. MaxInc + 1
    BY <1>2, BoundsAssumption DEF Inc
  <2>3. PICK o : o = [Idle EXCEPT !.at = "remove", !.inc = i]
    OBVIOUS
  <2>4. IsOperation(o)
    BY <2>3 DEF Idle, IsOperation
  <2>5. op' = op \/ op' = [op EXCEPT !["control"] = o]
    BY <1>1, <2>3 DEF Replaces
  <2>6. op' = [w \in Writer |-> op'[w]] /\ (\A w \in Writer : IsOperation(op'[w])) /\ Exclusive'
    <3>1. CASE op' = op
      BY <3>1 DEF RecInv, Shapes, Exclusive
    <3>2. CASE op' = [op EXCEPT !["control"] = o]
      BY <3>2, <2>4, WriterSteps DEF Writer
    <3> QED BY <2>5, <3>1, <3>2
  <2> QED BY <1>2, <1>3, <2>1, <2>2, <2>6 DEF RecInv, Shapes
<1>5. Fresh'
  BY <1>2, <1>3, Records DEF RecInv, Shapes, Fresh, Inc
<1>6. Intact'
  <2>1. Intact
    BY DEF RecInv
  <2> QED BY <1>2, <1>3, <2>1, FreshNext, Records, Directories DEF Intact, Whole
<1>7. Apart'
  <2>1. \A m \in todo' : m \in Name /\ m # n
    BY DEF RecInv, Shapes
  <2> QED BY <1>3, <2>1 DEF RecInv, Apart
<1>8. Sessions'
  <2>1. ASSUME NEW j \in Inc, live[j] # NoSession PROVE Stands(j)'
    <3>1. Stands(j) /\ live[j].name # n
      BY <1>2, <2>1 DEF RecInv, Sessions, Stands
    <3> QED BY <1>2, <1>3, <3>1 DEF Stands
  <2> QED BY <2>1 DEF Sessions
<1>9. /\ op'["worker"] = op["worker"] /\ op'["gc"] = op["gc"]
      /\ op'["control"].at = "idle" \/ (/\ op'["control"].at = "remove" /\ op'["control"].inc = i
                                        /\ cat'[n] = Record(next))
  <2>1. Shapes
    BY DEF RecInv
  <2>2. op' = op \/ (cat'[n] = Record(next) /\ op' = [op EXCEPT !["control"] = [Idle EXCEPT !.at = "remove", !.inc = i]])
    BY <1>1, <1>2, <1>3 DEF Replaces, Writes
  <2> QED BY <1>2, <2>1, <2>2 DEF Shapes, Unlocked, Writer, Idle
<1>10. Publishing' /\ Collecting'
  BY <1>9 DEF RecInv, Publishing, Collecting, Unlocked, Writer
<1>11. Removing'
  BY <1>1, <1>2, <1>3, <1>9, Records, BoundsAssumption DEF RecInv, Removing, Fresh, Inc
<1> QED BY <1>4, <1>5, <1>6, <1>7, <1>8, <1>10, <1>11 DEF RecInv

\* Discard: a broken record has no session.
LEMMA DiscardKeeps == ASSUME RecInv, NEW n \in Name, Discard(n) PROVE RecInv'
<1>1. /\ up # "down" /\ Unlocked /\ n \notin todo /\ cat[n] # NoRecord /\ cat[n].degraded # "no"
      /\ Replaces(n) /\ UNCHANGED <<repo, up, todo, live, purging>>
  BY DEF Discard, runtime
<1>2. ~fenced
  BY <1>1 DEF Replaces, Writes, SyncFails
<1>3. live[cat[n].inc] = NoSession
  <2>1. PICK i \in Inc : i = cat[n].inc
    BY <1>1, FreshNext
  <2>2. Sessions /\ Fresh
    BY DEF RecInv
  <2>3. ASSUME live[i] # NoSession
        PROVE  FALSE
    <3>1. PICK k \in Name : k = live[i].name
      BY <2>2, <2>3 DEF Sessions, Stands
    <3>2. cat[k] # NoRecord /\ cat[k].inc = i /\ cat[k].degraded = "no"
      BY <1>2, <2>2, <2>3, <3>1 DEF Sessions, Stands
    <3>3. k = n
      BY <1>1, <2>1, <2>2, <3>2 DEF Fresh
    <3> QED BY <1>1, <3>2, <3>3
  <2> QED BY <2>1, <2>3
<1> QED BY <1>1, <1>3, ReplacesKeeps

\* resetIncompatibleCheckpoint: neither has a record that is to be restored.
LEMMA ResetKeeps == ASSUME RecInv, NEW n \in Name, resetIncompatibleCheckpoint(n) PROVE RecInv'
<1>1. /\ n \in todo /\ Unlocked /\ todo' = todo \ {n} /\ up' # "down" /\ UNCHANGED <<repo, live, purging>>
  BY DEF resetIncompatibleCheckpoint, Restored
<1>2. cat[n] # NoRecord /\ live[cat[n].inc] = NoSession
  BY <1>1 DEF RecInv, Apart
<1>3. CASE Replaces(n)
  BY <1>1, <1>2, <1>3, ReplacesKeeps
<1>4. CASE Fenced /\ UNCHANGED <<op, next>>
  <2>1. UNCHANGED <<cat, fenced, op, next>>
    BY <1>4 DEF Fenced
  <2>2. Shapes' /\ Fresh' /\ Intact'
    BY <1>1, <2>1 DEF RecInv, Shapes, Fresh, Intact
  <2>3. Apart' /\ Sessions'
    BY <1>1, <2>1 DEF RecInv, Apart, Sessions, Stands
  <2>4. Exclusive' /\ Publishing' /\ Collecting' /\ Removing'
    BY <1>1, <2>1, IdleWriters
  <2> QED BY <2>2, <2>3, <2>4 DEF RecInv
<1> QED BY <1>3, <1>4 DEF resetIncompatibleCheckpoint

\* The record moves to the new name and the session with it.
LEMMA RenameKeeps == ASSUME RecInv, NEW i \in Inc, NEW n \in Name, Rename(i, n) PROVE RecInv'
<1>1. PICK old : old = live[i].name
  OBVIOUS
<1>2. /\ live[i] # NoSession /\ Unlocked /\ cat[n] = NoRecord /\ old \in Name /\ cat[old] # NoRecord
      /\ cat[old].inc = i /\ UNCHANGED <<repo, up, todo, purging, op, next>> /\ old # n
      /\ \A j \in Inc : live[j] # NoSession => live[j].name # n
  BY <1>1 DEF Rename, Live, Names
<1>3. cat' = cat \/ cat' = [cat EXCEPT ![old] = NoRecord, ![n] = cat[old]]
  BY <1>1 DEF Rename, SyncFails
<1>4. /\ cat' = [m \in Name |-> cat'[m]] /\ \A m \in Name \ {old, n} : cat'[m] = cat[m]
      /\ cat' # cat => cat'[old] = NoRecord /\ cat'[n] = cat[old]
  BY <1>2, <1>3 DEF RecInv, Shapes
<1>5. PICK s : s = [live[i] EXCEPT !.name = n, !.dirty = @ \/ ~live[i].quarantined]
  OBVIOUS
<1>6. /\ IsSession(s) /\ s.name = n /\ s.checkpoint = live[i].checkpoint /\ s.capture = live[i].capture
  BY <1>5 DEF RecInv, Shapes, IsSession
<1>7. /\ fenced' \in BOOLEAN
      /\ \/ ~fenced /\ cat' = [cat EXCEPT ![old] = NoRecord, ![n] = cat[old]] /\ live' = [live EXCEPT ![i] = s]
         \/ fenced' /\ live' = live
  BY <1>1, <1>5 DEF Rename, SyncFails, RecInv, Shapes
<1>8. /\ live' = [j \in Inc |-> live'[j]] /\ \A j \in Inc \ {i} : live'[j] = live[j]
      /\ \/ ~fenced /\ cat' # cat /\ live'[i] = s
         \/ fenced' /\ live'[i] = live[i]
  <2>1. CASE ~fenced /\ cat' = [cat EXCEPT ![old] = NoRecord, ![n] = cat[old]] /\ live' = [live EXCEPT ![i] = s]
    <3>1. live' = [j \in Inc |-> live'[j]] /\ (\A j \in Inc : j # i => live'[j] = live[j]) /\ live'[i] = s
      BY <2>1, Updated DEF RecInv, Shapes
    <3>2. cat' # cat
      BY <1>2, <2>1 DEF RecInv, Shapes
    <3> QED BY <2>1, <3>1, <3>2
  <2>2. CASE fenced' /\ live' = live
    BY <2>2 DEF RecInv, Shapes
  <2> QED BY <1>7, <2>1, <2>2
<1>9. Shapes'
  BY <1>2, <1>4, <1>6, <1>7, <1>8, Records DEF RecInv, Shapes
<1>10. Fresh'
  <2>1. \A m \in Name : cat'[m] = NoRecord \/ cat'[m].inc \in 1 .. next - 1
    BY <1>2, <1>4 DEF RecInv, Fresh
  <2>2. \A l, m \in Name : cat'[l] # NoRecord /\ cat'[m] # NoRecord /\ cat'[l].inc = cat'[m].inc => l = m
    BY <1>2, <1>4 DEF RecInv, Fresh
  <2>3. \A j \in Inc : j >= next => live'[j] = NoSession
    BY <1>2, <1>8 DEF RecInv, Fresh
  <2> QED BY <1>2, <2>1, <2>2, <2>3 DEF RecInv, Fresh
<1>11. Intact'
  BY <1>2, <1>4 DEF RecInv, Intact
<1>12. Apart'
  BY <1>2, <1>4, <1>8, LiveApart DEF RecInv, Apart
<1>13. Sessions'
  <2>1. Stands(i)'
    BY <1>1, <1>2, <1>4, <1>6, <1>8 DEF RecInv, Sessions, Stands
  <2>2. ASSUME NEW j \in Inc, j # i, live[j] # NoSession PROVE Stands(j)'
    <3>1. Stands(j) /\ (~fenced => live[j].name # old) /\ live[j].name # n
      BY <1>2, <2>2 DEF RecInv, Sessions, Stands
    <3> QED BY <1>4, <1>7, <1>8, <2>2, <3>1 DEF Stands
  <2> QED BY <1>2, <1>8, <2>1, <2>2 DEF Sessions
<1>14. Exclusive' /\ Publishing' /\ Collecting' /\ Removing'
  BY <1>2, IdleWriters
<1> QED BY <1>9, <1>10, <1>11, <1>12, <1>13, <1>14 DEF RecInv

-----------------------------------------------------------------------------
(* Removal and collection *)

\* A purge deletes the record of this very incarnation.
LEMMA DeleteExactKeeps == ASSUME RecInv, NEW i \in Inc, DeleteExact(i) PROVE RecInv'
<1>1. /\ i \in purging /\ Unlocked /\ live[i] = NoSession
      /\ UNCHANGED <<repo, up, todo, live, purging, next>> /\ fenced' \in BOOLEAN
      /\ ~fenced' => ~fenced
  BY DEF DeleteExact, Writes, SyncFails, RecInv, Shapes, Apart
<1>2. /\ cat' = [n \in Name |-> cat'[n]]
      /\ \A n \in Name : cat'[n] = cat[n] \/ (cat[n].inc = i /\ cat[n] # NoRecord /\ cat'[n] = NoRecord)
      /\ op' # op => \A n \in Name : cat'[n].inc # i
  <2>1. PICK new : new = [n \in Name |-> IF n \in Names(i) THEN NoRecord ELSE cat[n]]
    OBVIOUS
  <2>2. \A n \in Name : new[n] = cat[n] \/ (cat[n].inc = i /\ cat[n] # NoRecord /\ new[n] = NoRecord)
    BY <2>1 DEF Names
  <2>3. \A n \in Name : new[n].inc # i
    BY <2>1, Records, BoundsAssumption DEF Names, Inc
  <2>4. cat' = new \/ (cat' = cat /\ op' = op)
    BY <2>1 DEF DeleteExact, Writes, SyncFails
  <2> QED BY <2>1, <2>2, <2>3, <2>4 DEF RecInv, Shapes
<1>3. PICK o : o = [Idle EXCEPT !.at = "remove", !.inc = i]
  OBVIOUS
<1>4. IsOperation(o) /\ o.at = "remove" /\ o.inc = i
  BY <1>3 DEF Idle, IsOperation
<1>6. op' = op \/ op' = [op EXCEPT !["control"] = o]
  BY <1>3 DEF DeleteExact
<1>7. /\ op' = [w \in Writer |-> op'[w]] /\ (\A w \in Writer : IsOperation(op'[w]))
      /\ Exclusive' /\ Publishing' /\ Collecting' /\ Removing'
  <2>1. CASE op' = op
    BY <1>1, <2>1, IdleWriters DEF RecInv, Shapes
  <2>2. CASE op' # op
    <3>1. /\ op' = [w \in Writer |-> op'[w]] /\ (\A w \in Writer : IsOperation(op'[w])) /\ Exclusive'
          /\ op'["control"] = o /\ op'["worker"] = op["worker"] /\ op'["gc"] = op["gc"]
      BY <1>1, <1>4, <1>6, <2>2, WriterSteps DEF Writer
    <3>2. Publishing' /\ Collecting'
      BY <1>1, <3>1 DEF RecInv, Publishing, Collecting, Unlocked, Writer
    <3>3. Removing'
      BY <1>2, <1>4, <2>2, <3>1 DEF Removing
    <3> QED BY <3>1, <3>2, <3>3
  <2> QED BY <2>1, <2>2
<1>8. Shapes'
  BY <1>1, <1>2, <1>7, Records DEF RecInv, Shapes
<1>9. Fresh'
  BY <1>1, <1>2 DEF RecInv, Fresh
<1>10. Intact'
  BY <1>1, <1>2 DEF RecInv, Intact
<1>11. Apart'
  <2>1. Shapes /\ Apart
    BY DEF RecInv
  <2> QED BY <1>1, <1>2, <2>1 DEF Shapes, Apart
<1>12. Sessions'
  <2>1. ASSUME NEW j \in Inc, live[j] # NoSession PROVE Stands(j)'
    <3>1. Stands(j) /\ j # i
      BY <1>1, <2>1 DEF RecInv, Sessions
    <3> QED BY <1>1, <1>2, <3>1 DEF Stands
  <2> QED BY <1>1, <2>1 DEF Sessions
<1> QED BY <1>7, <1>8, <1>9, <1>10, <1>11, <1>12 DEF RecInv

\* The directory that lost its record goes.
LEMMA DeleteIncarnationKeeps == ASSUME RecInv, DeleteIncarnation PROVE RecInv'
<1>1. PICK i : i = op["control"].inc
  OBVIOUS
<1>2. /\ i \in Inc /\ (\A n \in Name : cat[n].inc # i) /\ op["control"].at # "idle"
      /\ UNCHANGED <<cat, fenced, up, todo, live, next>> /\ purging' \subseteq purging
      /\ repo' = repo \/ repo' = [repo EXCEPT ![i] = NoDirectory]
      /\ op' = [op EXCEPT !["control"] = Idle]
  BY <1>1 DEF DeleteIncarnation, RecInv, Removing, Stores
<1>3. /\ Intact'
      /\ repo' = [j \in Inc |-> repo'[j]] /\ \A j \in Inc : IsDirectory(repo'[j])
      /\ \A j \in Inc : repo'[j] \in {repo[j], NoDirectory}
  <2>1. CASE repo' = repo
    BY <1>2, <2>1 DEF RecInv, Intact, Shapes
  <2>2. CASE repo' = [repo EXCEPT ![i] = NoDirectory]
    BY <1>2, <2>2, Directories, DirectorySteps
  <2> QED BY <1>2, <2>1, <2>2
<1>4. /\ op' = [v \in Writer |-> op'[v]] /\ (\A v \in Writer : IsOperation(op'[v])) /\ Exclusive'
      /\ op'["control"] = Idle /\ op'["worker"] = op["worker"] /\ op'["gc"] = op["gc"]
  BY <1>2, Operations, WriterSteps DEF Writer
<1>5. op["worker"].at = "idle" /\ op["gc"].at = "idle"
  BY <1>2 DEF RecInv, Exclusive, Writer
<1>6. Shapes'
  BY <1>2, <1>3, <1>4 DEF RecInv, Shapes
<1>7. Fresh'
  BY <1>2, <1>3 DEF RecInv, Fresh
<1>8. Apart' /\ Sessions'
  BY <1>2 DEF RecInv, Apart, Sessions, Stands
<1>9. Publishing' /\ Collecting' /\ Removing'
  BY <1>4, <1>5, Operations DEF RecInv, Publishing, Collecting, Removing
<1> QED BY <1>3, <1>4, <1>6, <1>7, <1>8, <1>9 DEF RecInv

\* A pass lists the directories.
LEMMA CollectGarbageKeeps == ASSUME RecInv, CollectGarbage PROVE RecInv'
<1>1. UNCHANGED <<cat, fenced, repo, up, todo, live, purging, op, next>>
  BY DEF CollectGarbage, runtime
<1>2. Shapes' /\ Fresh' /\ Intact' /\ Apart' /\ Sessions'
  BY <1>1 DEF RecInv, Shapes, Fresh, Intact, Apart, Sessions, Stands
<1>3. Exclusive' /\ Publishing' /\ Collecting' /\ Removing'
  BY <1>1 DEF RecInv, Exclusive, Publishing, Collecting, Removing
<1> QED BY <1>2, <1>3 DEF RecInv

\* An incarnation is classified by the catalogue.
LEMMA CollectIncarnationKeeps == ASSUME RecInv, NEW i \in Inc, collectIncarnation(i) PROVE RecInv'
<1>1. Unlocked /\ UNCHANGED <<cat, fenced, repo, up, todo, live, purging, next>>
  BY DEF collectIncarnation, Classifies, runtime
<1>2. Shapes' /\ Fresh' /\ Intact' /\ Apart' /\ Sessions'
  <2>1. Fresh' /\ Intact' /\ Apart' /\ Sessions'
    BY <1>1 DEF RecInv, Fresh, Intact, Apart, Sessions, Stands
  <2>2. PICK o : op' = op \/ (op' = [op EXCEPT !["gc"] = o] /\ IsOperation(o))
    <3>1. IsOperation([Idle EXCEPT !.at = "orphan", !.inc = i]) /\ IsOperation(Idle)
      BY DEF Idle, IsOperation
    <3>2. IsOperation([at |-> "head", inc |-> i, keep |-> Committed(i)])
      BY DEF IsOperation
    <3> QED BY <3>1, <3>2 DEF collectIncarnation, Classifies
  <2>3. CASE op' = op
    BY <1>1, <2>1, <2>3 DEF RecInv, Shapes
  <2>4. CASE op' = [op EXCEPT !["gc"] = o] /\ IsOperation(o)
    BY <1>1, <2>1, <2>4, WriterSteps DEF RecInv, Shapes, Writer
  <2> QED BY <2>2, <2>3, <2>4
<1>3. CASE op' = op
  BY <1>1, <1>2, <1>3, IdleWriters DEF RecInv
<1>4. CASE op' # op
  <2>1. PICK o : /\ op' = [op EXCEPT !["gc"] = o]
                 /\ \/ Names(i) = {} /\ o = [Idle EXCEPT !.at = "orphan", !.inc = i]
                    \/ Names(i) # {} /\ o = [at |-> "head", inc |-> i, keep |-> Committed(i)]
                    \/ o = Idle
    <3>1. ~fenced
      BY <1>4 DEF collectIncarnation, Classifies
    <3>2. CASE Names(i) = {}
      BY <3>1, <3>2 DEF collectIncarnation, Classifies
    <3>3. CASE Names(i) # {} /\ repo[i].dir /\ Collectable(repo[i], Committed(i))
      BY <3>1, <3>3 DEF collectIncarnation, Classifies
    <3>4. CASE Names(i) # {} /\ ~(repo[i].dir /\ Collectable(repo[i], Committed(i)))
      BY <3>1, <3>4 DEF collectIncarnation, Classifies
    <3> QED BY <3>2, <3>3, <3>4
  <2>2. /\ IsOperation(o) /\ o.at \in {"idle", "orphan", "head"} /\ (o.at # "idle" => o.inc = i)
        /\ o.at = "orphan" => Names(i) = {}
        /\ o.at = "head" => Names(i) # {} /\ o.keep = Committed(i)
    <3>1. CASE Names(i) = {} /\ o = [Idle EXCEPT !.at = "orphan", !.inc = i]
      BY <3>1 DEF Idle, IsOperation
    <3>2. CASE Names(i) # {} /\ o = [at |-> "head", inc |-> i, keep |-> Committed(i)]
      BY <3>2 DEF IsOperation
    <3>3. CASE o = Idle
      BY <3>3, Operations
    <3> QED BY <2>1, <3>1, <3>2, <3>3
  <2>3. /\ Exclusive' /\ op'["gc"] = o /\ op'["worker"] = op["worker"] /\ op'["control"] = op["control"]
    BY <1>1, <2>1, <2>2, WriterSteps DEF Writer
  <2>4. Names(i) # {} => Committed(i) \in {cat[n].committed : n \in Names(i)}
    BY DEF Committed
  <2>5. o.at = "orphan" => \A n \in Name : cat[n].inc # i
    BY <2>2, Records, BoundsAssumption DEF Names, Inc
  <2>6. o.at = "head" => \E n \in Name : cat[n] # NoRecord /\ cat[n].inc = i /\ cat[n].committed = o.keep
    BY <2>2, <2>4 DEF Names
  <2>7. Collecting'
    BY <1>1, <2>2, <2>3, <2>5, <2>6 DEF Collecting
  <2>8. Publishing' /\ Removing'
    BY <1>1, <2>3 DEF RecInv, Publishing, Removing
  <2> QED BY <1>2, <2>3, <2>7, <2>8 DEF RecInv
<1> QED BY <1>3, <1>4

\* What a collection keeps of a directory.
LEMMA KeptWhole ==
    ASSUME NEW r, IsDirectory(r), NEW i, NEW c, Whole(r, i, c), r.head = c
    PROVE  /\ IsDirectory(pruneGenerations(r, c)) /\ Whole(pruneGenerations(r, c), i, c)
           /\ IsDirectory(sweep(r, c)) /\ Whole(sweep(r, c), i, c)
           /\ pruneGenerations(r, c).head = c /\ sweep(r, c).head = c
<1>1. PICK p : p = pruneGenerations(r, c)
  OBVIOUS
<1>2. IsDirectory(p) /\ p.gens = Kept(r, c) /\ p.objs = r.objs /\ p.head = c
  BY <1>1 DEF pruneGenerations, IsDirectory
<1>3. PICK q : q = sweep(r, c)
  OBVIOUS
<1>4. IsDirectory(q) /\ q.gens = r.gens /\ q.objs = r.objs \cap Referenced(r, c) /\ q.head = c
  BY <1>3 DEF sweep, IsDirectory
<1>5. c # None => c \in Kept(r, c) /\ (c.parent # None => c.parent \in Kept(r, c))
  BY DEF Whole, Loadable, Follows, Kept
<1>6. \A m \in Kept(r, c) : m.content \subseteq Referenced(r, c)
  BY DEF Referenced
<1>7. Whole(p, i, c)
  BY <1>2, <1>5 DEF Whole, Loadable
<1>8. Whole(q, i, c)
  BY <1>4, <1>5, <1>6 DEF Whole, Loadable
<1> QED BY <1>1, <1>2, <1>3, <1>4, <1>7, <1>8

\* A step of the collection leaves what the catalogue names.
LEMMA CollectionMoves ==
    ASSUME RecInv, op["gc"].at # "idle", NEW i, i = op["gc"].inc,
           NEW r, IsDirectory(r), Stores(i, r), NEW o, IsOperation(o), op' = [op EXCEPT !["gc"] = o],
           UNCHANGED <<cat, fenced, up, todo, live, purging, next>>,
           r = NoDirectory \/ \E n \in Name : cat[n] # NoRecord /\ cat[n].inc = i,
           \A n \in Name : cat[n] # NoRecord /\ cat[n].inc = i => Whole(r, i, cat[n].committed),
           \/ o.at = "idle"
           \/ /\ o.at \in {"gens", "sweep"} /\ o.inc = i /\ o.keep = op["gc"].keep /\ r.head = o.keep
              /\ op["gc"].at \in {"head", "gens", "sweep"}
    PROVE  RecInv'
<1>1. i \in Inc
  BY DEF RecInv, Collecting
<1>2. /\ Intact'
      /\ repo' = [j \in Inc |-> repo'[j]] /\ \A j \in Inc : IsDirectory(repo'[j])
      /\ repo'[i] = r /\ \A j \in Inc : j # i => repo'[j] = repo[j]
  BY <1>1, DirectorySteps DEF Stores
<1>3. /\ op' = [v \in Writer |-> op'[v]] /\ (\A v \in Writer : IsOperation(op'[v])) /\ Exclusive'
      /\ op'["gc"] = o /\ op'["worker"] = op["worker"] /\ op'["control"] = op["control"]
  BY WriterSteps DEF Writer
<1>4. op["worker"].at = "idle"
  BY DEF RecInv, Exclusive, Writer
<1>5. Shapes'
  BY <1>2, <1>3 DEF RecInv, Shapes
<1>6. Fresh'
  <2>1. i >= next => r = NoDirectory
    BY <1>1, BoundsAssumption DEF RecInv, Shapes, Fresh, Inc
  <2> QED BY <1>2, <2>1 DEF RecInv, Fresh
<1>7. Apart' /\ Sessions'
  BY DEF RecInv, Apart, Sessions, Stands
<1>8. Publishing' /\ Removing'
  BY <1>3, <1>4 DEF RecInv, Publishing, Removing
<1>9. Collecting'
  BY <1>1, <1>2, <1>3 DEF RecInv, Collecting
<1> QED BY <1>2, <1>3, <1>5, <1>6, <1>7, <1>8, <1>9 DEF RecInv

\* HEAD, then the generations, then the objects.
LEMMA CollectIncarnationGarbageKeeps == ASSUME RecInv, CollectIncarnationGarbage PROVE RecInv'
<1>1. PICK i : i = op["gc"].inc
  OBVIOUS
<1>2. PICK keep : keep = op["gc"].keep
  OBVIOUS
<1>3. PICK r : r = repo[i]
  OBVIOUS
<1>4. /\ op["gc"].at # "idle" /\ i \in Inc /\ IsDirectory(r)
      /\ UNCHANGED <<cat, fenced, up, todo, live, purging, next>>
  BY <1>1, <1>3 DEF CollectIncarnationGarbage, RecInv, Shapes, Collecting, runtime
<1>5. CASE op["gc"].at = "orphan"
  <2>1. Stores(i, NoDirectory) /\ op' = [op EXCEPT !["gc"] = Idle]
    BY <1>1, <1>5 DEF CollectIncarnationGarbage
  <2>2. \A n \in Name : cat[n].inc # i
    BY <1>1, <1>5 DEF RecInv, Collecting
  <2> QED BY <1>1, <1>4, <2>1, <2>2, Directories, Operations, CollectionMoves
<1>6. CASE op["gc"].at # "orphan"
  <2>0. Collecting
    BY DEF RecInv
  <2>1. op["gc"].at \in {"head", "gens", "sweep"}
    BY <1>4, <1>6 DEF RecInv, Collecting
  <2>2. PICK n \in Name : cat[n] # NoRecord /\ cat[n].inc = i /\ cat[n].committed = keep
    BY <1>1, <1>2, <2>1 DEF RecInv, Collecting
  <2>3. \A k \in Name : cat[k] # NoRecord /\ cat[k].inc = i => k = n
    BY <2>2 DEF RecInv, Fresh
  <2>4. Whole(r, i, keep)
    BY <1>3, <2>2 DEF RecInv, Intact
  <2>5. \A at : LET o == [op["gc"] EXCEPT !.at = at] IN
               IsOperation(o) /\ o.at = at /\ o.inc = i /\ o.keep = keep
    BY <1>1, <1>2 DEF RecInv, Shapes, IsOperation, Writer
  <2>6. \A at : Goes("gc", at) => op' = [op EXCEPT !["gc"] = [op["gc"] EXCEPT !.at = at]]
    BY DEF Goes
  <2>7. CASE op["gc"].at = "head"
    <3>1. PICK t : t = reconcileHead(r, keep)
      OBVIOUS
    <3>2. IsDirectory(t) /\ t.head = keep /\ Whole(t, i, keep)
      BY <1>4, <2>4, <3>1 DEF reconcileHead, IsDirectory, Whole, Loadable
    <3>3. PICK o : o = [op["gc"] EXCEPT !.at = "gens"]
      OBVIOUS
    <3>4. Stores(i, t) /\ op' = [op EXCEPT !["gc"] = o]
      BY <1>1, <1>2, <1>3, <2>6, <2>7, <3>1, <3>3 DEF CollectIncarnationGarbage
    <3>5. IsOperation(o) /\ o.at = "gens" /\ o.inc = i /\ o.keep = op["gc"].keep /\ t.head = o.keep
      BY <1>2, <2>5, <3>2, <3>3
    <3>6. \A k \in Name : cat[k] # NoRecord /\ cat[k].inc = i => Whole(t, i, cat[k].committed)
      BY <2>2, <2>3, <3>2
    <3> QED BY <1>1, <1>4, <2>1, <2>2, <3>2, <3>4, <3>5, <3>6, CollectionMoves
  <2>8. CASE op["gc"].at = "gens"
    <3>1. PICK t : t = pruneGenerations(r, keep)
      OBVIOUS
    <3>2. IsDirectory(t) /\ t.head = keep /\ Whole(t, i, keep)
      <4>1. r.head = keep
        BY <1>1, <1>2, <1>3, <2>8, <2>0 DEF Collecting
      <4> QED BY <1>4, <2>4, <3>1, <4>1, KeptWhole
    <3>3. PICK o : o = [op["gc"] EXCEPT !.at = "sweep"]
      OBVIOUS
    <3>4. Stores(i, t) /\ op' = [op EXCEPT !["gc"] = o]
      BY <1>1, <1>2, <1>3, <2>6, <2>8, <3>1, <3>3 DEF CollectIncarnationGarbage
    <3>5. IsOperation(o) /\ o.at = "sweep" /\ o.inc = i /\ o.keep = op["gc"].keep /\ t.head = o.keep
      BY <1>2, <2>5, <3>2, <3>3
    <3>6. \A k \in Name : cat[k] # NoRecord /\ cat[k].inc = i => Whole(t, i, cat[k].committed)
      BY <2>2, <2>3, <3>2
    <3> QED BY <1>1, <1>4, <2>1, <2>2, <3>2, <3>4, <3>5, <3>6, CollectionMoves
  <2>9. CASE op["gc"].at = "sweep"
    <3>1. PICK t : t = sweep(r, keep)
      OBVIOUS
    <3>2. IsDirectory(t) /\ t.head = keep /\ Whole(t, i, keep)
      <4>1. r.head = keep
        BY <1>1, <1>2, <1>3, <2>9, <2>0 DEF Collecting
      <4> QED BY <1>4, <2>4, <3>1, <4>1, KeptWhole
    <3>3. Stores(i, t) /\ op' = [op EXCEPT !["gc"] = Idle]
      BY <1>1, <1>2, <1>3, <2>9, <3>1 DEF CollectIncarnationGarbage
    <3>4. \A k \in Name : cat[k] # NoRecord /\ cat[k].inc = i => Whole(t, i, cat[k].committed)
      BY <2>2, <2>3, <3>2
    <3> QED BY <1>1, <1>4, <2>2, <3>2, <3>3, <3>4, Operations, CollectionMoves
  <2> QED BY <2>1, <2>7, <2>8, <2>9
<1> QED BY <1>5, <1>6

-----------------------------------------------------------------------------
(* Restoration *)

\* A record is marked broken.
LEMMA BrokenKeeps ==
    ASSUME RecInv, Unlocked, NEW n \in todo, NEW reason, MarkBroken(n, reason),
           todo' = todo \ {n}, up' # "down", UNCHANGED <<repo, live, purging, op, next>>
    PROVE  RecInv'
<1>1. n \in Name /\ cat[n] # NoRecord /\ live[cat[n].inc] = NoSession
  BY DEF RecInv, Shapes, Apart
<1>2. PICK r : r = [cat[n] EXCEPT !.degraded = reason]
  OBVIOUS
<1>3. IsRecord(r) /\ r.inc = cat[n].inc /\ r.committed = cat[n].committed
  BY <1>1, <1>2 DEF RecInv, Shapes, IsRecord
<1>4. /\ cat' = cat \/ cat' = [cat EXCEPT ![n] = r]
      /\ fenced' \in BOOLEAN /\ (~fenced' => ~fenced)
  BY <1>1, <1>2 DEF MarkBroken, Writes, SyncFails, Fenced, RecInv, Shapes
<1>5. /\ cat' = [m \in Name |-> cat'[m]] /\ \A m \in Name : IsRecord(cat'[m])
      /\ \A m \in Name : m # n => cat'[m] = cat[m]
      /\ cat'[n] = IF cat' = cat THEN cat[n] ELSE r
      /\ \A m \in Name : cat'[m].inc = cat[m].inc /\ (cat'[m] = NoRecord <=> cat[m] = NoRecord)
  BY <1>1, <1>3, <1>4, RecordSteps
<1>6. Shapes'
  BY <1>4, <1>5 DEF RecInv, Shapes
<1>7. Fresh'
  BY <1>5 DEF RecInv, Fresh
<1>8. Intact'
  BY <1>3, <1>5 DEF RecInv, Intact
<1>9. Apart'
  <2>1. \A m \in todo : m \in Name
    BY DEF RecInv, Shapes
  <2> QED BY <1>5, <2>1 DEF RecInv, Apart
<1>10. Sessions'
  <2>1. ASSUME NEW j \in Inc, live[j] # NoSession PROVE Stands(j)'
    <3>1. Stands(j) /\ (~fenced => live[j].name # n)
      BY <1>1, <2>1 DEF RecInv, Sessions, Stands
    <3> QED BY <1>4, <1>5, <3>1 DEF Stands
  <2> QED BY <2>1 DEF Sessions
<1>11. Exclusive' /\ Publishing' /\ Collecting' /\ Removing'
  BY IdleWriters
<1> QED BY <1>6, <1>7, <1>8, <1>9, <1>10, <1>11 DEF RecInv

\* The checkpoint could not be read.
LEMMA RestoreFailsKeeps == ASSUME RecInv, NEW n \in Name, restoreFails(n) PROVE RecInv'
BY BrokenKeeps DEF restoreFails, Restored

\* A valid checkpoint: HEAD is reconciled and the session opened on it.
LEMMA ValidKeeps ==
    ASSUME RecInv, NEW n \in todo, cat[n].degraded = "no", cat[n].committed # None,
           \/ Stores(cat[n].inc, reconcileHead(repo[cat[n].inc], cat[n].committed))
           \/ UNCHANGED repo,
           NEW h, live' = IF fenced THEN live
                          ELSE [live EXCEPT ![cat[n].inc] = Session(n, cat[n].committed, h)],
           todo' = todo \ {n}, up' # "down", UNCHANGED <<cat, fenced, purging, op, next>>
    PROVE  RecInv'
<1>1. PICK i : i = cat[n].inc
  OBVIOUS
<1>2. PICK c : c = cat[n].committed
  OBVIOUS
<1>3. /\ n \in Name /\ cat[n] # NoRecord /\ i \in Inc /\ live[i] = NoSession /\ i \notin purging
      /\ Whole(repo[i], i, c) /\ IsDirectory(repo[i])
  BY <1>1, <1>2, FreshNext DEF RecInv, Shapes, Apart, Intact
<1>4. PICK r : r = reconcileHead(repo[i], c)
  OBVIOUS
<1>5. IsDirectory(r) /\ r.head = c /\ Whole(r, i, c) /\ r.gens = repo[i].gens /\ r.objs = repo[i].objs
  BY <1>3, <1>4, <1>2 DEF reconcileHead, IsDirectory, Whole, Loadable
<1>6. \A m \in Name : cat[m] # NoRecord /\ cat[m].inc = i => m = n
  BY <1>1, <1>3 DEF RecInv, Fresh
<1>7. /\ Intact'
      /\ repo' = [j \in Inc |-> repo'[j]] /\ \A j \in Inc : IsDirectory(repo'[j])
      /\ \A j \in Inc : j # i => repo'[j] = repo[j]
      /\ repo'[i].head \in {repo[i].head, c}
  <2>1. CASE UNCHANGED repo
    BY <2>1 DEF RecInv, Shapes, Intact
  <2>2. CASE repo' = [repo EXCEPT ![i] = r]
    <3>1. \A m \in Name : cat[m] # NoRecord /\ cat[m].inc = i => Whole(r, i, cat[m].committed)
      BY <1>2, <1>5, <1>6
    <3> QED BY <1>3, <1>5, <2>2, <3>1, DirectorySteps
  <2>3. repo' = repo \/ repo' = [repo EXCEPT ![i] = r]
    BY <1>1, <1>2, <1>4 DEF Stores
  <2> QED BY <2>1, <2>2, <2>3
<1>8. /\ Apart' /\ Sessions' /\ op["worker"].inc # i /\ \A j \in Inc : j # i => live'[j] = live[j]
      /\ live' = [j \in Inc |-> live'[j]] /\ \A j \in Inc : IsSession(live'[j])
      /\ \A j \in Inc : j >= next => live'[j] = live[j]
  <2>1. CASE fenced
    <3>1. Apart' /\ Sessions'
      BY <2>1 DEF RecInv, Apart, Sessions, Stands
    <3>2. op["worker"].inc # i
      BY <1>3, WorkerSession
    <3> QED BY <2>1, <3>1, <3>2 DEF RecInv, Shapes
  <2>2. CASE ~fenced
    BY <1>1, <1>3, <2>2, SessionOpens
  <2> QED BY <2>1, <2>2
<1>9. Shapes'
  BY <1>7, <1>8 DEF RecInv, Shapes
<1>10. Fresh'
  <2>1. ~(i >= next)
    <3>1. Shapes /\ Fresh
      BY DEF RecInv
    <3>2. cat[n].inc \in 1 .. next - 1
      BY <1>3, <3>1 DEF Fresh
    <3> QED BY <1>1, <1>3, <3>1, <3>2, BoundsAssumption DEF Shapes, Inc
  <2> QED BY <1>7, <1>8, <2>1 DEF RecInv, Fresh
<1>11. Publishing'
  BY <1>7, <1>8 DEF RecInv, Publishing
<1>12. Collecting'
  BY <1>1, <1>2, <1>3, <1>6, <1>7 DEF RecInv, Collecting
<1>13. Exclusive' /\ Removing'
  BY DEF RecInv, Exclusive, Removing
<1> QED BY <1>7, <1>8, <1>9, <1>10, <1>11, <1>12, <1>13 DEF RecInv

\* restoreRecord
LEMMA RestoreRecordKeeps == ASSUME RecInv, NEW n \in Name, restoreRecord(n) PROVE RecInv'
<1>1. n \in todo /\ todo' = todo \ {n} /\ up' # "down" /\ UNCHANGED <<purging, op, next>>
  BY DEF restoreRecord, Restored
<1>2. CASE cat[n].degraded # "no" \/ cat[n].committed = None
  <2>1. UNCHANGED <<cat, fenced, repo, live>>
    BY <1>2 DEF restoreRecord
  <2>2. Shapes' /\ Fresh' /\ Intact' /\ Apart' /\ Sessions'
    BY <1>1, <2>1 DEF RecInv, Shapes, Fresh, Intact, Apart, Sessions, Stands
  <2>3. Exclusive' /\ Publishing' /\ Collecting' /\ Removing'
    BY <1>1, <2>1 DEF RecInv, Exclusive, Publishing, Collecting, Removing
  <2> QED BY <2>2, <2>3 DEF RecInv
<1>3. CASE ~Valid(n) /\ Unlocked /\ MarkBroken(n, "invalid") /\ UNCHANGED <<repo, live>>
  BY <1>1, <1>3, BrokenKeeps
<1>4. CASE /\ cat[n].degraded = "no" /\ cat[n].committed # None
           /\ \/ Stores(cat[n].inc, reconcileHead(repo[cat[n].inc], cat[n].committed))
              \/ UNCHANGED repo
           /\ live' = IF fenced THEN live
                      ELSE [live EXCEPT ![cat[n].inc] = Session(n, cat[n].committed, Newest(cat[n].committed))]
           /\ UNCHANGED <<cat, fenced>>
  BY <1>1, <1>4, ValidKeeps
<1> QED BY <1>2, <1>3, <1>4 DEF restoreRecord

-----------------------------------------------------------------------------
(* Crash and restart *)

\* A crash tears at most the directory that is being written, and of that only
\* what the step would have added or removed.
LEMMA Torn ==
    ASSUME NEW old, IsDirectory(old), NEW new, NEW t \in Partial(old, new)
    PROVE  /\ IsDirectory(t) /\ t.dir = old.dir /\ t.head = old.head
           /\ t.gens \subseteq old.gens /\ old.gens \cap new.gens \subseteq t.gens
           /\ t.objs \subseteq old.objs \cup new.objs /\ old.objs \cap new.objs \subseteq t.objs
<1>1. PICK o \in {s \in SUBSET (old.objs \cup new.objs) : old.objs \cap new.objs \subseteq s},
           g \in {s \in SUBSET old.gens : old.gens \cap new.gens \subseteq s} :
             t = Holding(old, o, g)
  BY DEF Partial
<1>2. IsDirectory(t) /\ t.dir = old.dir /\ t.head = old.head /\ t.gens = g /\ t.objs = o
  BY <1>1 DEF IsDirectory, Holding
<1> QED BY <1>1, <1>2

\* What a crash leaves of a directory still holds what the catalogue names.
LEMMA TornWhole ==
    ASSUME RecInv, NEW w \in Writer, op[w].at # "idle", NEW i, i = op[w].inc,
           NEW n \in Name, cat[n] # NoRecord, cat[n].inc = i, NEW t \in Partial(repo[i], Ahead(i))
    PROVE  Whole(t, i, cat[n].committed)
<1>1. i \in Inc /\ IsDirectory(repo[i]) /\ Whole(repo[i], i, cat[n].committed)
  BY FreshNext DEF RecInv, Shapes, Intact
<1>2. Names(i) # {}
  BY DEF Names
<1>3. \A v \in Writer : v # w => op[v].at = "idle"
  BY DEF RecInv, Exclusive
<1>4. PICK a : a = Ahead(i)
  OBVIOUS
<1>5. /\ IsDirectory(t) /\ t.head = repo[i].head
      /\ t.gens \subseteq repo[i].gens /\ repo[i].gens \cap a.gens \subseteq t.gens
      /\ repo[i].objs \cap a.objs \subseteq t.objs
  BY <1>1, <1>4, Torn
<1>6. CASE repo[i].gens \subseteq a.gens /\ repo[i].objs \subseteq a.objs
  BY <1>1, <1>5, <1>6 DEF Whole, Loadable
<1>7. CASE w = "worker" /\ op[w].at = "objects"
  <2>1. PICK m : m = live[i].capture.manifest
    OBVIOUS
  <2>2. a = storeObjects(repo[i], m)
    BY <1>2, <1>3, <1>4, <1>7, <2>1 DEF Ahead, Writer
  <2>3. a.gens = repo[i].gens /\ repo[i].objs \subseteq a.objs
    BY <1>1, <2>2 DEF storeObjects, IsDirectory
  <2> QED BY <1>6, <2>3
<1>8. CASE w = "gc" /\ op[w].at \in {"gens", "sweep"}
  <2>1. op["worker"].at = "idle"
    BY <1>3, <1>8 DEF Writer
  <2>2. PICK c : c = op["gc"].keep
    OBVIOUS
  <2>3. cat[n].committed = c /\ repo[i].head = c
    BY <1>8, <2>2 DEF RecInv, Collecting, Fresh
  <2>4. CASE op[w].at = "gens"
    <3>1. a = pruneGenerations(repo[i], c)
      BY <1>2, <1>4, <1>8, <2>1, <2>2, <2>4 DEF Ahead
    <3>2. Whole(a, i, c) /\ a.objs = repo[i].objs
      BY <1>1, <2>3, <3>1, KeptWhole DEF pruneGenerations, IsDirectory
    <3> QED BY <1>1, <1>5, <2>3, <3>2 DEF Whole, Loadable
  <2>5. CASE op[w].at = "sweep"
    <3>1. a = sweep(repo[i], c)
      BY <1>2, <1>4, <1>8, <2>1, <2>2, <2>5 DEF Ahead
    <3>2. Whole(a, i, c) /\ a.gens = repo[i].gens
      BY <1>1, <2>3, <3>1, KeptWhole DEF sweep, IsDirectory
    <3> QED BY <1>1, <1>5, <2>3, <3>2 DEF Whole, Loadable
  <2> QED BY <1>8, <2>4, <2>5
<1>9. CASE ~(w = "worker" /\ op[w].at = "objects") /\ ~(w = "gc" /\ op[w].at \in {"gens", "sweep"})
  <2>1. op["worker"].at # "objects" /\ op["gc"].at \notin {"gens", "sweep"}
    BY <1>3, <1>9 DEF Writer
  <2>2. a = repo[i]
    BY <1>2, <1>4, <2>1 DEF Ahead
  <2> QED BY <1>6, <2>2
<1> QED BY <1>7, <1>8, <1>9

\* A crash.
LEMMA CrashKeeps == ASSUME RecInv, Crash PROVE RecInv'
<1>1. /\ up' = "down" /\ fenced' = FALSE /\ todo' = {} /\ live' = [i \in Inc |-> NoSession] /\ purging' = {}
      /\ op' = [w \in Writer |-> Idle] /\ UNCHANGED <<cat, next>>
  BY DEF Crash
<1>2. /\ Intact'
      /\ repo' = [j \in Inc |-> repo'[j]] /\ \A j \in Inc : IsDirectory(repo'[j])
      /\ \A j \in Inc : j >= next => repo'[j] = NoDirectory
  <2>1. CASE UNCHANGED repo
    BY <1>1, <2>1 DEF RecInv, Shapes, Intact, Fresh
  <2>2. ASSUME NEW w \in Writer, op[w].at # "idle",
               NEW t \in Partial(repo[op[w].inc], Ahead(op[w].inc)), Stores(op[w].inc, t)
        PROVE  /\ Intact'
               /\ repo' = [j \in Inc |-> repo'[j]] /\ \A j \in Inc : IsDirectory(repo'[j])
               /\ \A j \in Inc : j >= next => repo'[j] = NoDirectory
    <3>1. PICK i : i = op[w].inc
      OBVIOUS
    <3>2. i \in Inc
      <4>1. CASE w = "worker"
        <5>1. Publishing
          BY DEF RecInv
        <5> QED BY <2>2, <3>1, <4>1, <5>1 DEF Publishing
      <4>2. CASE w \in {"gc", "control"}
        <5>1. Collecting /\ Removing
          BY DEF RecInv
        <5>2. CASE w = "gc"
          BY <2>2, <3>1, <5>1, <5>2 DEF Collecting
        <5>3. CASE w = "control"
          BY <2>2, <3>1, <5>1, <5>3 DEF Removing
        <5> QED BY <4>2, <5>2, <5>3
      <4> QED BY <4>1, <4>2 DEF Writer
    <3>3. IsDirectory(repo[i])
      BY <3>2 DEF RecInv, Shapes
    <3>4. /\ IsDirectory(t) /\ t.dir = repo[i].dir /\ t.head = repo[i].head /\ t.gens \subseteq repo[i].gens
          /\ t.objs \subseteq repo[i].objs \cup Ahead(i).objs
      <4>1. PICK old, new : old = repo[i] /\ new = Ahead(i)
        OBVIOUS
      <4>2. t \in Partial(old, new)
        BY <2>2, <3>1, <4>1
      <4>3. /\ IsDirectory(t) /\ t.dir = old.dir /\ t.head = old.head /\ t.gens \subseteq old.gens
            /\ t.objs \subseteq old.objs \cup new.objs
        BY <3>3, <4>1, <4>2, Torn
      <4> QED BY <4>1, <4>3
    <3>5. \A n \in Name : cat[n] # NoRecord /\ cat[n].inc = i => Whole(t, i, cat[n].committed)
      BY <2>2, <3>1, TornWhole
    <3>6. /\ Intact'
          /\ repo' = [j \in Inc |-> repo'[j]] /\ \A j \in Inc : IsDirectory(repo'[j])
          /\ repo'[i] = t /\ \A j \in Inc : j # i => repo'[j] = repo[j]
      BY <1>1, <2>2, <3>1, <3>2, <3>4, <3>5, DirectorySteps DEF Stores
    <3>7. i >= next => t = NoDirectory
      <4>1. SUFFICES ASSUME i >= next PROVE t = NoDirectory
        OBVIOUS
      <4>2. repo[i] = NoDirectory /\ live[i] = NoSession /\ \A n \in Name : cat[n] = NoRecord \/ cat[n].inc # i
        BY <3>2, <4>1, BoundsAssumption DEF RecInv, Shapes, Fresh, Inc
      <4>3. op["worker"].inc # i
        BY <3>2, <4>2, WorkerSession
      <4>4. ~(op["gc"].inc = i /\ op["gc"].at \in {"gens", "sweep"})
        BY <4>2 DEF RecInv, Collecting
      <4>5. Ahead(i) = NoDirectory
        BY <4>2, <4>3, <4>4 DEF Ahead
      <4>6. t.objs \subseteq {} /\ t.gens \subseteq {}
        <5>1. repo[i].objs = {} /\ repo[i].gens = {} /\ Ahead(i).objs = {}
          <6>1. NoDirectory.objs = {} /\ NoDirectory.gens = {}
            BY DEF NoDirectory
          <6> QED BY <4>2, <4>5, <6>1
        <5> QED BY <3>4, <5>1
      <4>7. t.dir = FALSE /\ t.head = None /\ t.gens = {} /\ t.objs = {}
        <5>1. repo[i].dir = FALSE /\ repo[i].head = None
          BY <4>2 DEF NoDirectory
        <5> QED BY <3>4, <4>6, <5>1
      <4> QED BY <3>4, <4>7 DEF IsDirectory, NoDirectory
    <3> QED BY <3>6, <3>7 DEF RecInv, Fresh
  <2> QED BY <2>1, <2>2 DEF Crash
<1>3. Shapes'
  BY <1>1, <1>2, NewSessions, Operations DEF RecInv, Shapes
<1>4. Fresh'
  BY <1>1, <1>2 DEF RecInv, Fresh
<1>5. Apart' /\ Sessions'
  BY <1>1 DEF Apart, Sessions
<1>6. Exclusive' /\ Publishing' /\ Collecting' /\ Removing'
  BY <1>1, Operations DEF Exclusive, Publishing, Collecting, Removing, Writer
<1> QED BY <1>2, <1>3, <1>4, <1>5, <1>6 DEF RecInv

\* A restart lists the records.
LEMMA RestartKeeps == ASSUME RecInv, Restart PROVE RecInv'
<1>1. /\ UNCHANGED <<cat, fenced, repo, live, purging, op, next>> /\ todo' = {n \in Name : cat[n] # NoRecord}
      /\ up = "down" /\ up' # "down"
  BY DEF Restart, Restored
<1>2. Apart'
  BY <1>1, FreshNext DEF RecInv, Apart
<1>3. Shapes' /\ Fresh' /\ Intact' /\ Sessions'
  BY <1>1 DEF RecInv, Shapes, Fresh, Intact, Sessions, Stands
<1>4. Exclusive' /\ Publishing' /\ Collecting' /\ Removing'
  BY <1>1 DEF RecInv, Exclusive, Publishing, Collecting, Removing
<1> QED BY <1>2, <1>3, <1>4 DEF RecInv

-----------------------------------------------------------------------------
\* The daemon starts with an empty catalogue.
LEMMA RecInit == ASSUME Init PROVE RecInv
<1>1. Shapes
  <2>1. next \in 1 .. MaxInc + 1
    BY BoundsAssumption DEF Init
  <2>2. live = [i \in Inc |-> live[i]] /\ \A i \in Inc : IsSession(live[i])
    BY NewSessions DEF Init
  <2>3. repo = [i \in Inc |-> repo[i]] /\ \A i \in Inc : IsDirectory(repo[i])
    BY Directories DEF Init
  <2> QED BY <2>1, <2>2, <2>3, Records, Operations DEF Init, Shapes
<1>2. Fresh /\ Intact /\ Apart /\ Sessions
  BY DEF Init, Fresh, Intact, Apart, Sessions
<1>3. Exclusive /\ Publishing /\ Collecting /\ Removing
  BY Operations DEF Init, Exclusive, Publishing, Collecting, Removing, Writer
<1> QED BY <1>1, <1>2, <1>3 DEF RecInv

\* Every step keeps the invariant.
LEMMA RecStep == ASSUME RecInv, [Next]_vars PROVE RecInv'
<1>1. ASSUME NEW n \in Name, Create(n) \/ Resume(n) \/ Discard(n) PROVE RecInv'
  BY <1>1, CreateKeeps, ResumeKeeps, DiscardKeeps
<1>2. ASSUME NEW i \in Inc, Output(i) \/ TeardownBegins(i) \/ TeardownAborts(i) PROVE RecInv'
  BY <1>2, OutputKeeps, TeardownBeginsKeeps, TeardownAbortsKeeps
<1>3. ASSUME NEW i \in Inc, NEW n \in Name, Rename(i, n) PROVE RecInv'
  BY <1>3, RenameKeeps
<1>4. ASSUME NEW i \in Inc, NEW purge \in BOOLEAN, Unregister(i, purge) PROVE RecInv'
  BY <1>4, UnregisterKeeps
<1>5. CASE Worker
  BY <1>5, CaptureKeeps, PublishBeginsKeeps, PublishKeeps, PublishCommitsKeeps DEF Worker
<1>6. CASE Control
  BY <1>6, DeleteExactKeeps, DeleteIncarnationKeeps DEF Control
<1>7. CASE Maintenance
  BY <1>7, CollectGarbageKeeps, CollectIncarnationKeeps, CollectIncarnationGarbageKeeps DEF Maintenance
<1>8. CASE Restore
  BY <1>8, RestoreRecordKeeps, RestoreFailsKeeps, ResetKeeps DEF Restore
<1>9. CASE Crash \/ Restart
  BY <1>9, CrashKeeps, RestartKeeps
<1>10. CASE UNCHANGED vars
  <2>1. UNCHANGED <<cat, fenced, repo, up, todo, live, purging, op, next>>
    BY <1>10 DEF vars
  <2>2. Shapes' /\ Fresh' /\ Intact' /\ Apart' /\ Sessions'
    BY <2>1 DEF RecInv, Shapes, Fresh, Intact, Apart, Sessions, Stands
  <2>3. Exclusive' /\ Publishing' /\ Collecting' /\ Removing'
    BY <2>1 DEF RecInv, Exclusive, Publishing, Collecting, Removing
  <2> QED BY <2>2, <2>3 DEF RecInv
<1> QED BY <1>1, <1>2, <1>3, <1>4, <1>5, <1>6, <1>7, <1>8, <1>9, <1>10 DEF Next

\* The invariant holds in every state.
LEMMA RecAlways == Spec => []RecInv
BY RecInit, RecStep, PTL DEF Spec

-----------------------------------------------------------------------------
(* Theorems *)

\* Whatever the interleaving of publications, renames, purges, collections,
\* failed syncs and crashes, the committed checkpoint of every session and the
\* one before it can be loaded, HEAD names a manifest that is there, and no two
\* sessions share an incarnation (usecase/recovery, adapters/snapshot).
THEOREM CheckpointsAlwaysIntact == Spec => []CheckpointsIntact
<1>1. RecInv => CheckpointsIntact
  <2>1. SUFFICES ASSUME RecInv, NEW n \in Name, cat[n] # NoRecord
                 PROVE  LET r == repo[cat[n].inc]
                            c == cat[n].committed
                        IN /\ c # None => Loadable(r, c) /\ c.inc = cat[n].inc
                                          /\ (c.parent # None => Loadable(r, c.parent))
                           /\ r.head # None => r.head \in r.gens
                           /\ Names(cat[n].inc) = {n}
    BY DEF CheckpointsIntact
  <2>2. Names(cat[n].inc) = {n}
    BY <2>1 DEF RecInv, Fresh, Names
  <2> QED BY <2>1, <2>2 DEF RecInv, Intact, Whole
<1> QED BY <1>1, RecAlways, PTL

\* Unless the catalogue is fenced, a runtime session stands for the record of
\* its own name and continues from the checkpoint it holds (persist.Persister,
\* the daemon's session registry).
THEOREM SessionsAlwaysMatch == Spec => []SessionsMatchCatalogue
<1>1. RecInv => SessionsMatchCatalogue
  BY DEF RecInv, Sessions, Stands, SessionsMatchCatalogue, Live, Names
<1> QED BY <1>1, RecAlways, PTL

\* A record after a step: new, or the one of its incarnation with the same
\* checkpoint or a child of it.
Advanced(k) ==
    \/ cat'[k] = NoRecord \/ cat'[k].inc = next
    \/ \E n \in Name :
          /\ cat[n] # NoRecord /\ cat[n].inc = cat'[k].inc
          /\ LET c == cat[n].committed
                 d == cat'[k].committed
             IN d = c \/ (d # None /\ d.parent = c)

\* Only a publication changes the checkpoint of a record.
LEMMA Advances == ASSUME RecInv, Next, NEW k \in Name PROVE Advanced(k)
<1>1. CASE cat' = cat
  BY <1>1 DEF Advanced
<1>2. ASSUME NEW n \in Name, next \in Inc, cat' = [cat EXCEPT ![n] = Record(next)] PROVE Advanced(k)
  BY <1>2, Records DEF RecInv, Shapes, Advanced
<1>3. ASSUME NEW n \in Name, Create(n) PROVE Advanced(k)
  <2>1. next \in Inc
    BY <1>3, BoundsAssumption DEF Create, RecInv, Shapes, Inc
  <2> QED BY <1>1, <1>2, <1>3, <2>1 DEF Create, SyncFails
<1>4. ASSUME NEW n \in Name, Replaces(n) PROVE Advanced(k)
  <2>1. next \in Inc
    BY <1>4, BoundsAssumption DEF Replaces, RecInv, Shapes, Inc
  <2> QED BY <1>1, <1>2, <1>4, <2>1 DEF Replaces, Writes, SyncFails
<1>5. ASSUME NEW n \in todo, NEW reason, MarkBroken(n, reason) PROVE Advanced(k)
  <2>1. n \in Name /\ cat[n] # NoRecord /\ IsRecord(cat[n])
    BY <1>5 DEF RecInv, Shapes, Apart
  <2>2. PICK r : r = [cat[n] EXCEPT !.degraded = reason]
    OBVIOUS
  <2>3. r.inc = cat[n].inc /\ r.committed = cat[n].committed
    BY <2>1, <2>2 DEF IsRecord
  <2>4. cat' = cat \/ cat' = [cat EXCEPT ![n] = r]
    BY <1>5, <2>1, <2>2 DEF MarkBroken, Writes, SyncFails, Fenced, RecInv, Shapes
  <2> QED BY <1>1, <2>1, <2>3, <2>4, Updated DEF RecInv, Shapes, Advanced
<1>6. ASSUME NEW i \in Inc, NEW n \in Name, Rename(i, n) PROVE Advanced(k)
  <2>1. PICK old : old = live[i].name
    OBVIOUS
  <2>2. old \in Name /\ cat[old] # NoRecord /\ cat[n] = NoRecord
    BY <1>6, <2>1 DEF Rename, Names
  <2>3. cat' = cat \/ cat' = [cat EXCEPT ![old] = NoRecord, ![n] = cat[old]]
    BY <1>6, <2>1 DEF Rename, SyncFails
  <2>4. CASE cat' = [cat EXCEPT ![old] = NoRecord, ![n] = cat[old]]
    <3>1. cat'[k] \in {NoRecord, cat[k], cat[old]}
      BY <2>2, <2>4 DEF RecInv, Shapes
    <3> QED BY <2>2, <3>1 DEF Advanced
  <2> QED BY <1>1, <2>3, <2>4
<1>7. ASSUME NEW i \in Inc, DeleteExact(i) PROVE Advanced(k)
  <2>1. cat'[k] \in {NoRecord, cat[k]}
    BY <1>7 DEF DeleteExact, Writes, SyncFails
  <2> QED BY <2>1 DEF Advanced
<1>8. CASE PublishCommits
  <2>1. PICK i : i = op["worker"].inc
    OBVIOUS
  <2>2. PICK m : m = live[i].capture.manifest
    OBVIOUS
  <2>3. m.name \in Name /\ Follows(m) /\ cat[m.name] # NoRecord /\ cat[m.name].committed = m.parent
    BY <1>8, <2>1, <2>2 DEF PublishCommits, RecInv, Publishing, Sessions, Stands
  <2>4. m # None
    BY <2>3 DEF Follows, None
  <2>5. PICK r : r = [cat[m.name] EXCEPT !.committed = m, !.degraded = "no"]
    OBVIOUS
  <2>6. r.inc = cat[m.name].inc /\ r.committed = m
    BY <2>3, <2>5 DEF RecInv, Shapes, IsRecord
  <2>7. cat' = cat \/ cat' = [cat EXCEPT ![m.name] = r]
    BY <1>8, <2>1, <2>2, <2>3, <2>5 DEF PublishCommits, Writes, SyncFails, Fenced, RecInv, Shapes
  <2> QED BY <1>1, <2>3, <2>4, <2>6, <2>7, Updated DEF RecInv, Shapes, Advanced
<1>9. ASSUME NEW n \in Name, Create(n) \/ Resume(n) \/ Discard(n) PROVE Advanced(k)
  BY <1>1, <1>3, <1>4, <1>9 DEF Resume, Discard, Writes, SyncFails
<1>10. ASSUME NEW i \in Inc, Output(i) \/ TeardownBegins(i) \/ TeardownAborts(i) PROVE Advanced(k)
  BY <1>1, <1>10 DEF Output, TeardownBegins, TeardownAborts
<1>11. ASSUME NEW i \in Inc, NEW purge \in BOOLEAN, Unregister(i, purge) PROVE Advanced(k)
  BY <1>1, <1>11 DEF Unregister
<1>12. CASE Worker
  BY <1>1, <1>8, <1>12 DEF Worker, Capture, PublishBegins, Publish, PublishStep
<1>13. CASE Control
  BY <1>1, <1>7, <1>13 DEF Control, DeleteIncarnation
<1>14. CASE Maintenance
  BY <1>1, <1>14 DEF Maintenance, CollectGarbage, collectIncarnation, Classifies, CollectIncarnationGarbage
<1>15. CASE Restore
  BY <1>1, <1>4, <1>5, <1>15
     DEF Restore, restoreRecord, restoreFails, resetIncompatibleCheckpoint, Fenced
<1>16. CASE Crash \/ Restart
  BY <1>1, <1>16 DEF Crash, Restart
<1> QED BY <1>6, <1>9, <1>10, <1>11, <1>12, <1>13, <1>14, <1>15, <1>16 DEF Next

\* Committed history is linear: a record's checkpoint is only ever replaced by
\* a child of it, until the incarnation is dropped (PublishCheckpoint).
THEOREM CommitsAlwaysAdvance == Spec => CommitsAdvance
<1>1. ASSUME RecInv, RecInv', Next, NEW i \in Inc, Names(i) # {}, Names(i)' # {}
      PROVE  LET c == Committed(i)
                 d == Committed(i)'
             IN d = c \/ (d # None /\ d.parent = c)
  <2>0. Fresh /\ Fresh'
    BY <1>1 DEF RecInv
  <2>1. PICK n \in Name : Names(i) = {n} /\ cat[n] # NoRecord /\ cat[n].inc = i
    BY <1>1, <2>0 DEF Names, Fresh
  <2>2. PICK k \in Name : Names(i)' = {k} /\ cat'[k] # NoRecord /\ cat'[k].inc = i
    <3>1. PICK k \in Name : cat'[k] # NoRecord /\ cat'[k].inc = i
      BY <1>1 DEF Names
    <3>2. \A m \in Name : cat'[m] # NoRecord /\ cat'[m].inc = i => m = k
      BY <2>0, <3>1 DEF Fresh
    <3> QED BY <3>1, <3>2 DEF Names
  <2>3. Committed(i) = cat[n].committed /\ Committed(i)' = cat'[k].committed
    BY <2>1, <2>2 DEF Committed
  <2>4. Advanced(k) /\ i # next
    BY <1>1, <2>1, Advances, FreshNext
  <2>5. PICK m \in Name : /\ cat[m] # NoRecord /\ cat[m].inc = i
                          /\ LET c == cat[m].committed
                                 d == cat'[k].committed
                             IN d = c \/ (d # None /\ d.parent = c)
    BY <2>2, <2>4 DEF Advanced
  <2>6. m = n
    BY <2>1, <2>5 DEF Names
  <2> QED BY <2>3, <2>5, <2>6
<1>2. ASSUME RecInv, RecInv', [Next]_vars
      PROVE  [\A i \in Inc : Names(i) # {} /\ Names(i)' # {} =>
                 LET c == Committed(i)
                     d == Committed(i)'
                 IN d = c \/ (d # None /\ d.parent = c)]_vars
  BY <1>1, <1>2
<1> QED BY <1>2, RecAlways, PTL DEF Spec, CommitsAdvance

=============================================================================
