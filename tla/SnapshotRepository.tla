------------------------- MODULE SnapshotRepository -------------------------
(***************************************************************************)
(* The directory of one incarnation in the snapshot repository             *)
(* (adapters/snapshot): immutable, content-addressed objects, immutable    *)
(* generation manifests and the one mutable pointer, HEAD.  A manifest's   *)
(* digest identifies it, so a reference to a checkpoint is modelled by the *)
(* manifest itself; a history object is modelled by a number.  The         *)
(* operators say what an operation finds or leaves; the order in which its *)
(* files reach the disk belongs to SessionRecovery.                        *)
(***************************************************************************)
EXTENDS Naturals, FiniteSets

\* No checkpoint.  Generations start at 1.
None == [gen |-> 0]

\* An incarnation without a directory.
NoDirectory == [dir |-> FALSE, head |-> None, gens |-> {}, objs |-> {}]

manifest(inc, name, gen, content, parent) ==
    [inc |-> inc, name |-> name, gen |-> gen, content |-> content, parent |-> parent]

\* loadCheckpointLocked: the manifest with that digest and every object.
Loadable(r, m) == m \in r.gens /\ m.content \subseteq r.objs

\* Publish up to its first write: "replay" of a publication that is already
\* there, a "refused" one, or one to "store".
publication(r, m) ==
    LET h == r.head IN
    IF h = None THEN IF m.gen = 1 /\ m.parent = None THEN "store" ELSE "refused"
    ELSE IF h.gen = m.gen THEN IF h = m /\ Loadable(r, h) THEN "replay" ELSE "refused"
    ELSE IF h \in r.gens /\ m.gen = h.gen + 1 /\ m.parent = h THEN "store" ELSE "refused"

\* The objects of a publication that its current HEAD does not retain.
Necessary(r, m) == IF r.head = None THEN m.content ELSE m.content \ r.head.content

\* A publication supplies every necessary object that the disk does not have.
Supplied(r, m, objects) == Necessary(r, m) \subseteq r.objs \cup objects

storeObjects(r, m) == [r EXCEPT !.dir = TRUE, !.objs = @ \cup Necessary(r, m)]

\* A manifest file is never overwritten.
ManifestConflict(r, m) == \E x \in r.gens : x.gen = m.gen /\ x # m

storeManifest(r, m) == [r EXCEPT !.gens = @ \cup {m}]

writeHead(r, m) == [r EXCEPT !.head = m]

-----------------------------------------------------------------------------
(* Retention: the committed generation and its predecessor *)

Kept(r, committed) ==
    IF committed = None THEN {}
    ELSE {m \in r.gens : m.gen \in {committed.gen, committed.gen - 1}}

\* referencesForGenerations fails unless the committed manifest is there.
Collectable(r, committed) == committed = None \/ committed \in r.gens

Referenced(r, committed) == UNION {m.content : m \in Kept(r, committed)}

\* Mutant: HEAD stays when nothing is committed.
reconcileHead_KeepsOrphan(r, committed) == IF committed = None THEN r ELSE [r EXCEPT !.head = committed]

reconcileHead(r, committed) == [r EXCEPT !.head = committed]

pruneGenerations(r, committed) == [r EXCEPT !.gens = Kept(r, committed)]

sweep(r, committed) == [r EXCEPT !.objs = @ \cap Referenced(r, committed)]

Holding(r, objs, gens) == [r EXCEPT !.objs = objs, !.gens = gens]

\* What a crash may leave of a directory on the way from old to new: files are
\* written and removed one by one, in any order.
Partial(old, new) ==
    {Holding(old, o, g) :
        o \in {s \in SUBSET (old.objs \cup new.objs) : old.objs \cap new.objs \subseteq s},
        g \in {s \in SUBSET old.gens : old.gens \cap new.gens \subseteq s}}
=============================================================================
