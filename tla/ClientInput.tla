------------------------------ MODULE ClientInput ------------------------------
(***************************************************************************)
(* Who gets the keys of a client's terminal (internal/usecase/client).     *)
(*                                                                         *)
(* One reader feeds the pump.  Its owner is the picker (runPicker), an     *)
(* attachment (a worker loop, the goroutine that reads input for it and    *)
(* the sender of its outbox), or, while a lost attachment waits to resume, *)
(* a watch that keeps the keys and looks for a cancel.  The supervisor     *)
(* moves the terminal between them: commit, open, attach, settle, back off *)
(* and resume, swap, or return to the picker.                              *)
(*                                                                         *)
(* Keys are numbered in the order they are typed; scene.keys[k] is the     *)
(* kind of key k.  A read carries one key.  A message on the wire that is  *)
(* not a key, the overlays, paste and escape sequences longer than a lone  *)
(* escape are left out.                                                    *)
(***************************************************************************)
EXTENDS TerminalInputPump, FiniteSets

CONSTANT Scenes

VARIABLES scene,     \* what the user and the network may do
          typed,     \* keys typed so far
          hand,      \* the read the reader has not published
          pump,
          eof,       \* lifetime.finish delivered the end of the terminal
          picker,    \* runPicker and the picker's claim
          sup,       \* the supervisor's goroutine
          watch,     \* the resumeWatch of the moment
          overflow,  \* lifetime.resumeOverflowed
          auth,      \* attachmentAuthority
          fg,        \* the grants: consumer, delivery decision, input goroutine
          worker,    \* the attached loop
          box,       \* its outbox
          link,      \* the logical stream of the attachment
          sent,      \* keys written, with the session they were written to
          acted,     \* keys the picker acted on
          gone,      \* keys dropped where the code says so
          missed,    \* keys dropped by an overflow of this outage
          lost,      \* keys a second PreserveInput of one grant replaced
          epoch,     \* owner boundaries passed: releases to a session, swaps, returns to the picker
          born       \* the epoch in which a key was published

userVars == <<scene, typed>>
inputVars == <<hand, pump, eof, picker>>
supVars == <<sup, watch, overflow>>
fgVars == <<auth, fg, worker, box, link>>
ghostVars == <<sent, acted, gone, missed, lost, epoch, born>>
vars == <<userVars, inputVars, supVars, fgVars, ghostVars>>

NoWatch == [pc |-> "none", id |-> Unclaimed, residual |-> FALSE, pending |-> FALSE, held |-> <<>>, prefix |-> <<>>,
            cancelled |-> FALSE, stop |-> FALSE, seen |-> FALSE]
NoGrant == [consumer |-> Unclaimed, decided |-> TRUE, ctx |-> FALSE, pc |-> "none", got |-> <<>>]
NoWorker == [pc |-> "none", pend |-> <<>>, save |-> <<>>, end |-> "none", attached |-> FALSE]
NoBox == [queue |-> <<>>, err |-> FALSE, stopped |-> FALSE]

Attempts(s) == 1..(s.commits + s.swaps + s.faults)

Init ==
    /\ scene \in Scenes
    /\ typed = 0 /\ hand = <<>> /\ eof = FALSE
    /\ pump = claim(newPump)
    /\ picker = [id |-> 1, owns |-> TRUE, pc |-> "take", mine |-> 1, got |-> <<>>]
    /\ sup = [pc |-> "ready", commits |-> 0, swaps |-> 0, faults |-> 0, n |-> 0,
              resuming |-> FALSE, used |-> 0, flaps |-> 0, elapsed |-> FALSE, result |-> "none"]
    /\ watch = NoWatch /\ overflow = FALSE
    /\ auth = [current |-> 0, state |-> "idle", locked |-> FALSE]
    /\ fg = [a \in Attempts(scene) |-> NoGrant]
    /\ worker = NoWorker /\ box = NoBox /\ link = "none"
    /\ sent = <<>> /\ acted = {} /\ gone = {} /\ missed = {}
    /\ lost = {} /\ epoch = 0 /\ born = [k \in DOMAIN scene.keys |-> 0]

Kind(data) == IF data = <<>> THEN "none" ELSE scene.keys[data[1]]
Keys(data) == {data[i] : i \in DOMAIN data}

------------------------------------------------------------------------------
(* The terminal and its reader. *)

\* A Read returns; the next one waits until this one is published.
Read ==
    /\ typed < Len(scene.keys) /\ hand = <<>> /\ ~pump.closed
    /\ scene.late => worker.attached
    /\ typed' = typed + 1 /\ hand' = <<typed + 1>>
    /\ UNCHANGED <<scene, pump, eof, picker, supVars, fgVars, ghostVars>>

\* enqueue; the last read closes the pump behind itself (setReadCause, finish).
Enqueue ==
    /\ hand # <<>> /\ (pump.pending = <<>> \/ pump.closed)
    /\ pump' = [enqueue(pump, hand) EXCEPT !.closed = @ \/ Kind(hand) = "eof",
                                           !.claimChanged = @ \/ Kind(hand) = "eof"]
    /\ gone' = IF pump.closed THEN gone \cup Keys(hand) ELSE gone
    /\ born' = [k \in DOMAIN born |-> IF k \in Keys(hand) THEN epoch ELSE born[k]]
    /\ hand' = <<>>
    /\ UNCHANGED <<userVars, eof, picker, supVars, fgVars, sent, acted, missed, lost, epoch>>

\* The goroutine that waits for the reader to exit publishes the cause.
ReaderExited ==
    /\ pump.closed /\ ~eof /\ hand = <<>>
    /\ eof' = TRUE
    /\ UNCHANGED <<userVars, hand, pump, picker, supVars, fgVars, ghostVars>>

------------------------------------------------------------------------------
(* runPicker. *)

\* The claim it finds, and whether it goes on to take.
Looked(id) == [picker EXCEPT !.mine = id, !.pc = IF id = Unclaimed THEN "parked" ELSE "take", !.got = <<>>]

PickerTakes ==
    /\ picker.pc = "take"
    /\ IF Takes(pump, picker.mine)
       THEN /\ pump' = take(pump, picker.mine)
            /\ picker' = [picker EXCEPT !.pc = "consume", !.got = Taken(pump)]
       ELSE /\ picker' = [picker EXCEPT !.pc = "parked"]
            /\ UNCHANGED pump
    /\ UNCHANGED <<userVars, hand, eof, supVars, fgVars, ghostVars>>

\* It parks on the ready channel of its claim and on claimChanged.
PickerWakes ==
    /\ picker.pc = "parked"
    /\ \/ /\ picker.mine # Unclaimed /\ picker.mine = pump.consumer /\ pump.ready
          /\ pump' = [pump EXCEPT !.ready = FALSE]
       \/ /\ pump.claimChanged
          /\ pump' = [pump EXCEPT !.claimChanged = FALSE]
    /\ picker' = Looked(picker.id)
    /\ UNCHANGED <<userVars, hand, eof, supVars, fgVars, ghostVars>>

\* ConsumeTerminalRead acts on the read only while the picker owns input; ack commits it.
PickerConsumes ==
    /\ picker.pc = "consume"
    /\ acted' = IF picker.owns THEN acted \cup Keys(picker.got) ELSE acted
    /\ pump' = ack(pump, picker.mine)
    /\ eof' = (eof \/ Kind(picker.got) = "eof")
    /\ gone' = gone \cup (Kept(pump) \ Kept(pump'))
    /\ picker' = IF Kind(picker.got) = "eof" THEN [picker EXCEPT !.pc = "end", !.got = <<>>] ELSE Looked(picker.id)
    /\ UNCHANGED <<userVars, hand, supVars, fgVars, sent, missed, lost, epoch, born>>

------------------------------------------------------------------------------
(* The watch of an outage: resumeWatch.run, hold and the input decoder. *)

\* holdInput keeps data within the limit; what an overflow drops is missed.
\* Mutant: each read is weighed alone.
RoomForgets(data, residual) == Len(watch.held) + Len(data) <= scene.limit
Room(data, residual) == (residual \/ ~overflow) /\ Len(watch.held) + Len(data) <= scene.limit
Hold(data, residual) ==
    /\ overflow' = (overflow \/ (~Room(data, residual) /\ data # <<>>))
    /\ missed' = missed \cup IF Room(data, residual) THEN {} ELSE Keys(data)
HeldAfter(data, residual) == IF Room(data, residual) THEN watch.held \o data ELSE watch.held

\* resumeInputDecoder.feed on one key: what it settles, what it withholds, and whether it cancels.
feed(prefix, data) ==
    CASE Kind(data) = "ctrlc" -> [held |-> prefix, prefix |-> <<>>, cancel |-> TRUE]
      [] Kind(data) = "esc"   -> [held |-> prefix, prefix |-> data, cancel |-> FALSE]
      [] OTHER                -> [held |-> prefix \o data, prefix |-> <<>>, cancel |-> FALSE]

\* The first read after the claim may be a residual or a pending read of an earlier owner: it is kept unread.
WatchKeepsBacklog ==
    /\ watch.pc = "take" /\ Takes(pump, watch.id) /\ Kind(Taken(pump)) # "eof"
    /\ watch.residual \/ watch.pending
    /\ Hold(Taken(pump), watch.residual)
    /\ watch' = [watch EXCEPT !.held = HeldAfter(Taken(pump), watch.residual), !.residual = FALSE,
                              !.pending = @ /\ watch.residual]
    /\ pump' = ack(take(pump, watch.id), watch.id)
    /\ UNCHANGED <<userVars, hand, eof, picker, sup, fgVars, sent, acted, gone, lost, epoch, born>>

\* Keys typed during the outage are decoded; a cancel ends the watch.
WatchFeeds ==
    /\ watch.pc = "take" /\ Takes(pump, watch.id) /\ Kind(Taken(pump)) # "eof"
    /\ ~watch.residual /\ ~watch.pending
    /\ \E d \in {feed(watch.prefix, Taken(pump))} :
         /\ Hold(d.held, FALSE)
         /\ watch' = [watch EXCEPT !.held = HeldAfter(d.held, FALSE), !.prefix = d.prefix, !.cancelled = d.cancel,
                                   !.pc = IF d.cancel \/ (watch.seen /\ d.prefix = <<>>)
                                          THEN "done" ELSE "take"]
         /\ gone' = IF d.cancel THEN gone \cup Keys(Taken(pump)) ELSE gone
    /\ pump' = ack(take(pump, watch.id), watch.id)
    /\ UNCHANGED <<userVars, hand, eof, picker, sup, fgVars, sent, acted, lost, epoch, born>>

\* The last read ends the watch and is left to whoever waits for the end of the terminal.
WatchSeesEOF ==
    /\ watch.pc = "take" /\ Takes(pump, watch.id) /\ Kind(Taken(pump)) = "eof"
    /\ Hold(watch.prefix, FALSE)
    /\ watch' = [watch EXCEPT !.held = HeldAfter(watch.prefix, FALSE), !.prefix = <<>>, !.pc = "done"]
    /\ pump' = ack(take(pump, watch.id), watch.id)
    /\ eof' = TRUE /\ gone' = gone \cup Keys(Taken(pump))
    /\ UNCHANGED <<userVars, hand, picker, sup, fgVars, sent, acted, lost, epoch, born>>

WatchParks ==
    /\ watch.pc = "take" /\ ~Takes(pump, watch.id)
    /\ watch' = [watch EXCEPT !.pc = "parked"]
    /\ UNCHANGED <<userVars, inputVars, sup, overflow, fgVars, ghostVars>>

WatchWakes ==
    /\ watch.pc = "parked" /\ pump.ready
    /\ pump' = [pump EXCEPT !.ready = FALSE]
    /\ watch' = [watch EXCEPT !.pc = "take"]
    /\ UNCHANGED <<userVars, hand, eof, picker, sup, overflow, fgVars, ghostVars>>

\* The escape delay passes: a lone escape cancels.
WatchEscapes ==
    /\ watch.pc = "parked" /\ watch.prefix # <<>>
    /\ watch' = [watch EXCEPT !.pc = "done", !.cancelled = TRUE, !.prefix = <<>>]
    /\ gone' = gone \cup Keys(watch.prefix)
    /\ UNCHANGED <<userVars, inputVars, sup, overflow, fgVars, sent, acted, missed, lost, epoch, born>>

\* A stop ends the watch, or waits until an undecided escape is decided.
WatchStops ==
    /\ watch.pc = "parked" /\ watch.stop /\ ~watch.seen
    /\ watch' = IF watch.prefix = <<>> THEN [watch EXCEPT !.pc = "done"] ELSE [watch EXCEPT !.pc = "take", !.seen = TRUE]
    /\ UNCHANGED <<userVars, inputVars, sup, overflow, fgVars, ghostVars>>

WatchSteps ==
    WatchKeepsBacklog \/ WatchFeeds \/ WatchSeesEOF \/ WatchParks \/ WatchWakes \/ WatchEscapes \/ WatchStops

------------------------------------------------------------------------------
(* The foreground of an attachment: AckInput, PreserveInput, and the          *)
(* goroutine that reads input for its loop (pumpAttachmentInput, Input).      *)

Holds(n) == auth.current = n
Authorized(n) == Holds(n) /\ auth.state = "active"

\* decideDelivery, and the pump under the authority's lock: nothing of a grant that was revoked.
AckedInput(n) == IF ~fg[n].decided /\ Holds(n) THEN ack(pump, fg[n].consumer) ELSE pump

\* actionAuthorized.
InputChecks(n) ==
    /\ fg[n].pc = "check" /\ ~auth.locked
    /\ fg' = [fg EXCEPT ![n].pc = IF Authorized(n) THEN "take" ELSE "end"]
    /\ UNCHANGED <<userVars, inputVars, supVars, auth, worker, box, link, ghostVars>>

\* take and beginDelivery.
InputTakes(n) ==
    /\ fg[n].pc = "take"
    /\ IF ~fg[n].ctx /\ Takes(pump, fg[n].consumer)
       THEN /\ pump' = take(pump, fg[n].consumer)
            /\ fg' = [fg EXCEPT ![n].pc = "offer", ![n].got = Taken(pump), ![n].decided = FALSE]
       ELSE /\ fg' = [fg EXCEPT ![n].pc = IF fg[n].ctx THEN "end" ELSE "select"]
            /\ UNCHANGED pump
    /\ UNCHANGED <<userVars, hand, eof, picker, supVars, auth, worker, box, link, ghostVars>>

\* It parks on the ready channel of its consumer and on the end of the run.
InputWakes(n) ==
    /\ fg[n].pc = "select"
    /\ \/ /\ fg[n].consumer = pump.consumer /\ pump.ready
          /\ pump' = [pump EXCEPT !.ready = FALSE]
          /\ fg' = [fg EXCEPT ![n].pc = "check"]
       \/ /\ fg[n].ctx
          /\ fg' = [fg EXCEPT ![n].pc = "end"]
          /\ UNCHANGED pump
    /\ UNCHANGED <<userVars, hand, eof, picker, supVars, auth, worker, box, link, ghostVars>>

\* The loop is gone: PreserveInput, its ack first.
InputPreserves(n) ==
    /\ fg[n].pc = "offer" /\ fg[n].ctx /\ ~auth.locked
    /\ pump' = AckedInput(n)
    /\ auth' = [auth EXCEPT !.locked = ~fg[n].decided /\ Holds(n)]
    /\ fg' = [fg EXCEPT ![n] = IF ~fg[n].decided /\ Holds(n) THEN [@ EXCEPT !.decided = TRUE, !.pc = "requeue"]
                                ELSE [@ EXCEPT !.decided = TRUE, !.pc = "end", !.got = <<>>]]
    /\ UNCHANGED <<userVars, hand, eof, picker, supVars, worker, box, link, ghostVars>>

\* The bytes of the last read are empty: there is nothing to put back.
Bytes(data) == IF Kind(data) = "eof" THEN <<>> ELSE data

Replaced(data) == IF data = <<>> THEN {} ELSE Keys(pump.residual) \ Keys(data)

InputRequeues(n) ==
    /\ fg[n].pc = "requeue"
    /\ pump' = preserveResidual(pump, fg[n].consumer, Bytes(fg[n].got))
    /\ gone' = IF Bytes(fg[n].got) = <<>> THEN gone \cup Keys(fg[n].got) ELSE gone
    /\ fg' = [fg EXCEPT ![n].pc = "end", ![n].got = <<>>]
    /\ lost' = lost \cup Replaced(Bytes(fg[n].got))
    /\ auth' = [auth EXCEPT !.locked = FALSE]
    /\ UNCHANGED <<userVars, hand, eof, picker, supVars, worker, box, link, sent, acted, missed, epoch, born>>

InputSteps(n) == InputChecks(n) \/ InputTakes(n) \/ InputWakes(n) \/ InputPreserves(n) \/ InputRequeues(n)

------------------------------------------------------------------------------
(* The worker of the current attachment, its outbox and its stream. *)

N == sup.n
Fault(s) == [s EXCEPT !.faults = @ + 1]
May(event) == event \in scene.may /\ sup.faults < scene.faults

\* Hello, Welcome and the first frame; the deadline is disarmed before MarkAttached.
HelloAttaches ==
    /\ worker.pc = "hello" /\ link = "up" /\ Authorized(N) /\ ~fg[N].ctx /\ ~auth.locked
    /\ worker' = [worker EXCEPT !.pc = "loop", !.attached = TRUE]
    /\ fg' = [fg EXCEPT ![N].pc = "check"]
    /\ UNCHANGED <<userVars, inputVars, supVars, auth, box, link, ghostVars>>

\* The stream or the run ended before the session attached.
HelloStops ==
    /\ worker.pc = "hello" /\ (link = "lost" \/ fg[N].ctx)
    /\ worker' = [worker EXCEPT !.pc = "done", !.end = IF fg[N].ctx THEN "failed" ELSE "lost"]
    /\ fg' = [fg EXCEPT ![N].ctx = TRUE]
    /\ UNCHANGED <<userVars, inputVars, supVars, auth, box, link, ghostVars>>

\* The daemon refuses or ends the attempt.
HelloRefused ==
    /\ worker.pc = "hello" /\ May("refused")
    /\ worker' = [worker EXCEPT !.pc = "done", !.end = "failed"]
    /\ fg' = [fg EXCEPT ![N].ctx = TRUE]
    /\ sup' = Fault(sup)
    /\ UNCHANGED <<userVars, inputVars, watch, overflow, auth, box, link, ghostVars>>

\* The loop returns at once, cancelling its helpers, unless a delivery is undecided: join then stops the sender and
\* closes the stream under a stalled write.
Leave(end) ==
    /\ worker' = [worker EXCEPT !.end = end, !.pc = IF worker.pend = <<>> THEN "done" ELSE "decide"]
    /\ box' = [box EXCEPT !.stopped = TRUE]
    /\ link' = IF worker.pend # <<>> /\ link = "up" THEN "closed" ELSE link
Cancelled(g) == [g EXCEPT !.ctx = @ \/ worker.pend = <<>>]
Broken == IF fg[N].ctx THEN "failed" ELSE IF link = "lost" THEN "lost" ELSE "ended"

\* The loop accepts a read and queues it for the sender.
LoopReceives ==
    /\ worker.pc = "loop" /\ fg[N].pc = "offer" /\ Kind(fg[N].got) # "eof" /\ ~box.err
    /\ box' = [box EXCEPT !.queue = Append(@, fg[N].got)]
    /\ worker' = [worker EXCEPT !.pend = fg[N].got]
    /\ fg' = [fg EXCEPT ![N].pc = "check", ![N].got = <<>>]
    /\ UNCHANGED <<userVars, inputVars, supVars, auth, link, ghostVars>>

\* A sender that failed refuses the read, which is committed; the last read is committed too.  The loop ends.
LoopReceivesLast ==
    /\ worker.pc = "loop" /\ fg[N].pc = "offer" /\ (Kind(fg[N].got) = "eof" \/ box.err) /\ ~auth.locked
    /\ pump' = AckedInput(N)
    /\ gone' = gone \cup Keys(fg[N].got)
    /\ fg' = [fg EXCEPT ![N] = Cancelled([@ EXCEPT !.decided = TRUE, !.got = <<>>,
                                                   !.pc = IF Kind(fg[N].got) = "eof" THEN "end" ELSE "check"])]
    /\ Leave(Broken)
    /\ UNCHANGED <<userVars, hand, eof, picker, supVars, auth, sent, acted, missed, lost, epoch, born>>

\* Mutants: an input counts as unwritten though it was written, as written when it was accepted.
unsentInputAll(data) == TRUE
unsentInputNone(data) == FALSE

\* The accepted input the sender has not written; it is final once the sender was joined.
unsentInput(data) == \E i \in DOMAIN box.queue : box.queue[i] = data

\* ackWritten.
LoopAcks ==
    /\ worker.pc = "loop" /\ worker.pend # <<>> /\ ~unsentInput(worker.pend) /\ ~auth.locked
    /\ pump' = AckedInput(N)
    /\ worker' = [worker EXCEPT !.pend = <<>>]
    /\ fg' = [fg EXCEPT ![N].decided = TRUE]
    /\ UNCHANGED <<userVars, hand, eof, picker, supVars, auth, box, link, ghostVars>>

\* The stream is lost or a write failed, or the run is cancelled.
LoopStops ==
    /\ worker.pc = "loop" /\ (link = "lost" \/ fg[N].ctx)
    /\ Leave(Broken)
    /\ fg' = [fg EXCEPT ![N] = Cancelled(@)]
    /\ UNCHANGED <<userVars, inputVars, supVars, auth, ghostVars>>

\* The daemon says that the session ended.
LoopEnded ==
    /\ worker.pc = "loop" /\ May("ended")
    /\ Leave("ended")
    /\ sup' = Fault(sup)
    /\ fg' = [fg EXCEPT ![N] = Cancelled(@)]
    /\ UNCHANGED <<userVars, inputVars, watch, overflow, auth, ghostVars>>

\* The user detaches and exits, or the overlay committed another target and the client detaches for it, once the
\* sender wrote everything (drainOutbox).  A swap stands although the stream was lost meanwhile.
LoopLeaves ==
    /\ worker.pc = "loop"
    /\ \/ /\ May("exit") /\ box.queue = <<>>
          /\ Leave("exit")
          /\ sup' = Fault(sup)
       \/ /\ sup.swaps < scene.swaps /\ (box.queue = <<>> \/ link = "lost")
          /\ Leave("swap")
          /\ sup' = [sup EXCEPT !.swaps = @ + 1]
    /\ fg' = [fg EXCEPT ![N] = Cancelled(@)]
    /\ UNCHANGED <<userVars, inputVars, watch, overflow, auth, ghostVars>>

\* What the sender did not write is put back (PreserveInput, its ack first), what it wrote is committed.
LoopDecides ==
    /\ worker.pc = "decide" /\ ~auth.locked
    /\ LET keep == unsentInput(worker.pend) /\ ~fg[N].decided /\ Holds(N)
       IN  /\ worker' = [worker EXCEPT !.pc = IF keep THEN "requeue" ELSE "return", !.pend = <<>>,
                                       !.save = IF keep THEN worker.pend ELSE <<>>]
           /\ auth' = [auth EXCEPT !.locked = keep]
    /\ pump' = AckedInput(N)
    /\ fg' = [fg EXCEPT ![N].decided = TRUE]
    /\ UNCHANGED <<userVars, hand, eof, picker, supVars, box, link, ghostVars>>

LoopRequeues ==
    /\ worker.pc = "requeue"
    /\ pump' = preserveResidual(pump, fg[N].consumer, worker.save)
    /\ lost' = lost \cup Replaced(worker.save)
    /\ worker' = [worker EXCEPT !.pc = "return", !.save = <<>>]
    /\ auth' = [auth EXCEPT !.locked = FALSE]
    /\ UNCHANGED <<userVars, hand, eof, picker, supVars, fg, box, link, sent, acted, gone, missed, epoch, born>>

LoopReturns ==
    /\ worker.pc = "return"
    /\ worker' = [worker EXCEPT !.pc = "done"]
    /\ fg' = [fg EXCEPT ![N].ctx = TRUE]
    /\ UNCHANGED <<userVars, inputVars, supVars, auth, box, link, ghostVars>>

WorkerSteps ==
    \/ HelloAttaches \/ HelloStops \/ LoopReceives \/ LoopReceivesLast \/ LoopAcks \/ LoopStops \/ LoopDecides
    \/ LoopRequeues \/ LoopReturns

\* The sender writes the head of the queue; its first failure is sticky and keeps the queue.
Send ==
    /\ box.queue # <<>> /\ ~box.err /\ ~box.stopped
    /\ IF link = "up"
       THEN /\ box' = [box EXCEPT !.queue = Tail(@)]
            /\ sent' = sent \o Head(box.queue)
       ELSE /\ box' = [box EXCEPT !.err = TRUE]
            /\ UNCHANGED sent
    /\ UNCHANGED <<userVars, inputVars, supVars, auth, fg, worker, link, acted, gone, missed, lost, epoch, born>>

LinkLost ==
    /\ link = "up" /\ May("lost")
    /\ link' = "lost" /\ sup' = Fault(sup)
    /\ UNCHANGED <<userVars, inputVars, watch, overflow, auth, fg, worker, box, ghostVars>>

------------------------------------------------------------------------------
(* The supervisor: runResolvedAttachment, attachResolved, settleAttachment,   *)
(* waitResume.                                                                *)

At(pc) == sup.pc = pc
Go(pc) == [sup EXCEPT !.pc = pc]
Boundary == epoch' = epoch + 1
\* The resume budget of a target starts unspent.
Fresh(s) == [s EXCEPT !.resuming = FALSE, !.used = 0, !.flaps = 0, !.elapsed = FALSE, !.result = "none"]

\* A selection is committed: the picker stops acting on input; releasePicker acks and drops, then revokes.
Commit ==
    /\ At("ready") /\ sup.commits < scene.commits
    /\ picker' = [picker EXCEPT !.owns = FALSE, !.id = Unclaimed]
    /\ pump' = dropOwned(ack(pump, picker.id), picker.id)
    /\ gone' = gone \cup (Kept(pump) \ Kept(pump'))
    /\ sup' = [Fresh(sup) EXCEPT !.pc = "revoke", !.commits = @ + 1]
    /\ Boundary
    /\ UNCHANGED <<userVars, hand, eof, watch, overflow, fgVars, sent, acted, missed, lost, born>>

Revoke ==
    /\ At("revoke")
    /\ pump' = revoke(pump, pump.consumer)
    /\ sup' = [Go("opening") EXCEPT !.n = @ + 1]
    /\ UNCHANGED <<userVars, hand, eof, picker, watch, overflow, fgVars, ghostVars>>

\* watchResume.
Watched ==
    /\ watch' = [NoWatch EXCEPT !.pc = "take", !.id = pump.nextID + 1, !.residual = pump.residual # <<>>,
                                !.pending = pump.pending # <<>>]
    /\ pump' = claim(pump)

ResumeBegins ==
    /\ At("attach")
    /\ sup' = [Go("opening") EXCEPT !.n = @ + 1]
    /\ Watched
    /\ UNCHANGED <<userVars, hand, eof, picker, overflow, fgVars, ghostVars>>

\* attemptFailed: a resume retries a failure of the transport, any other failure is final.
AfterOpen(r) == IF r = "open" THEN "opened" ELSE IF sup.resuming /\ r = "transport" THEN "spend" ELSE "ended"

\* OpenStream returns a stream, a failure worth a retry or a final one; a cancel of the user ends it.
OpenReturns ==
    /\ At("opening")
    /\ \E r \in {"open", "transport", "refused"} :
         /\ r # "open" => May(r) \/ watch.cancelled
         /\ sup' = [IF r = "open" \/ watch.cancelled THEN sup ELSE Fault(sup)
                      EXCEPT !.pc = IF sup.resuming THEN "unwatch" ELSE AfterOpen(r), !.result = r]
    /\ watch' = [watch EXCEPT !.stop = sup.resuming]
    /\ UNCHANGED <<userVars, inputVars, overflow, fgVars, ghostVars>>

\* release: the held keys go back to the pump, unless the user cancelled.
Unwatch ==
    /\ At("unwatch") /\ watch.pc = "done"
    /\ LET kept == ~watch.cancelled /\ Appends(pump, watch.id, watch.held, scene.limit)
       IN  /\ pump' = revoke(IF kept THEN appendResidual(pump, watch.id, watch.held, scene.limit) ELSE pump, watch.id)
           /\ overflow' = (overflow \/ (~watch.cancelled /\ ~kept /\ watch.held # <<>>))
           /\ gone' = IF watch.cancelled THEN gone \cup Keys(watch.held) ELSE gone
           /\ missed' = IF watch.cancelled \/ kept THEN missed ELSE missed \cup Keys(watch.held)
    /\ sup' = [sup EXCEPT !.pc = IF sup.result = "eof" THEN "stop"
                                 ELSE IF watch.cancelled \/ sup.result = "broker" THEN "ended"
                                 ELSE IF sup.result = "timer" THEN "attach" ELSE AfterOpen(sup.result)]
    /\ watch' = NoWatch
    /\ UNCHANGED <<userVars, hand, eof, picker, fgVars, sent, acted, lost, epoch, born>>

\* Begin: grant claims the pump, and the outage's overflow ends.
Begin ==
    /\ At("opened") /\ auth.current = 0 /\ pump.consumer = Unclaimed
    /\ pump' = claim(pump)
    /\ auth' = [auth EXCEPT !.current = N, !.state = "active"]
    /\ fg' = [fg EXCEPT ![N] = [NoGrant EXCEPT !.consumer = pump.nextID + 1]]
    /\ worker' = [NoWorker EXCEPT !.pc = "hello"] /\ box' = NoBox /\ link' = "up"
    /\ overflow' = FALSE /\ missed' = {} /\ gone' = gone \cup missed
    /\ sup' = Go("settle")
    /\ UNCHANGED <<userVars, hand, eof, picker, watch, sent, acted, lost, epoch, born>>

\* settleAttachment: the worker settles, or the supervisor retires it.  finalize refuses new input and wakes it.
Finalize(result) ==
    /\ ~auth.locked
    /\ auth' = [auth EXCEPT !.state = "finalizing"]
    /\ fg' = [fg EXCEPT ![N].ctx = TRUE]
    /\ sup' = [sup EXCEPT !.pc = "join", !.result = result, !.faults = @ + IF result \in {"timeout", "broker"} THEN 1 ELSE 0]
    /\ UNCHANGED <<userVars, inputVars, watch, overflow, worker, box, link, ghostVars>>

SettleWorker == At("settle") /\ worker.pc = "done" /\ Finalize(worker.end)
SettleEOF == At("settle") /\ eof /\ Finalize("eof")
SettleTimeout == At("settle") /\ worker.pc = "hello" /\ May("timeout") /\ Finalize("timeout")
SettleBrokerLost == At("settle") /\ May("broker") /\ Finalize("broker")

\* The worker returned: finish revokes the grant and closes the stream.  The outcome decides what comes next.
Finish ==
    /\ At("join") /\ worker.pc = "done" /\ ~auth.locked
    /\ pump' = revoke(pump, fg[N].consumer)
    /\ auth' = [auth EXCEPT !.current = 0, !.state = "idle"]
    /\ link' = "closed" /\ box' = NoBox
    /\ sup' = Go(CASE sup.result \in {"eof", "exit"} -> "stop"
                   [] sup.result = "swap" -> "swap"
                   [] sup.result = "lost" /\ worker.attached -> "spend"
                   [] sup.result \in {"lost", "timeout"} /\ sup.resuming -> "spend"
                   [] OTHER -> "ended")
    /\ UNCHANGED <<userVars, hand, eof, picker, watch, overflow, fg, worker, ghostVars>>

\* Mutant: a swap keeps the input as a resume does.
SwapKeeps ==
    /\ At("swap")
    /\ sup' = [Fresh(sup) EXCEPT !.pc = "opening", !.n = @ + 1]
    /\ Boundary
    /\ UNCHANGED <<userVars, inputVars, watch, overflow, fgVars, sent, acted, gone, missed, lost, born>>

\* A swap drops what was kept for the previous session.
Swap ==
    /\ At("swap")
    /\ pump' = dropUnclaimed(pump)
    /\ gone' = gone \cup (Kept(pump) \ Kept(pump'))
    /\ sup' = [Fresh(sup) EXCEPT !.pc = "opening", !.n = @ + 1]
    /\ Boundary
    /\ UNCHANGED <<userVars, hand, eof, picker, watch, overflow, fgVars, sent, acted, missed, lost, born>>

\* attachmentResumeBudget.spend; whether the attachment was stable and the outage window has passed is the clock's.
Spend ==
    /\ At("spend")
    /\ \E stable, late \in BOOLEAN :
         LET resume == sup.result = "lost" /\ worker.attached
             used == IF resume /\ stable THEN 0 ELSE sup.used
             flaps == IF ~resume THEN sup.flaps ELSE IF stable THEN 0 ELSE sup.flaps + 1
             elapsed == used # 0 /\ (sup.elapsed \/ late)
             ok == flaps <= scene.resumes /\ (used + 1 <= scene.resumes \/ ~elapsed)
         IN  /\ sup' = [sup EXCEPT !.used = used + 1, !.flaps = flaps, !.elapsed = elapsed, !.resuming = TRUE,
                                   !.pc = IF ok THEN "backoff" ELSE "ended"]
             /\ IF ok THEN Watched ELSE UNCHANGED <<watch, pump>>
    /\ UNCHANGED <<userVars, hand, eof, picker, overflow, fgVars, ghostVars>>

\* waitResume.
Backoff ==
    /\ At("backoff")
    /\ \E r \in {"timer", "cancelled", "eof", "broker"} :
         /\ r = "cancelled" => watch.cancelled
         /\ r = "eof" => eof
         /\ r = "broker" => May(r)
         /\ sup' = [IF r = "broker" THEN Fault(sup) ELSE sup EXCEPT !.pc = "unwatch", !.result = r]
    /\ watch' = [watch EXCEPT !.stop = TRUE]
    /\ UNCHANGED <<userVars, inputVars, overflow, fgVars, ghostVars>>

\* Back to the picker: it owns input again, what was kept for the session is dropped, and it claims the pump.
ReturnDrops ==
    /\ At("ended")
    /\ picker' = [picker EXCEPT !.owns = TRUE]
    /\ pump' = dropUnclaimed(pump)
    /\ gone' = gone \cup (Kept(pump) \ Kept(pump'))
    /\ sup' = [Fresh(sup) EXCEPT !.pc = "acquire"]
    /\ Boundary
    /\ UNCHANGED <<userVars, hand, eof, watch, overflow, fgVars, sent, acted, missed, lost, born>>

ReturnAcquires ==
    /\ At("acquire")
    /\ pump' = claim(pump)
    /\ picker' = [picker EXCEPT !.id = pump.nextID + 1]
    /\ overflow' = FALSE /\ missed' = {} /\ gone' = gone \cup missed
    /\ sup' = Go("ready")
    /\ UNCHANGED <<userVars, hand, eof, watch, fgVars, sent, acted, lost, epoch, born>>

\* The terminal ended, or the user left: the input lifetime stops.
ReadyEOF ==
    /\ At("ready") /\ eof
    /\ sup' = Go("stop")
    /\ UNCHANGED <<userVars, inputVars, watch, overflow, fgVars, ghostVars>>

Stop ==
    /\ At("stop")
    /\ pump' = stop(pump)
    /\ gone' = gone \cup Kept(pump)
    /\ sup' = Go("end")
    /\ UNCHANGED <<userVars, hand, eof, picker, watch, overflow, fgVars, sent, acted, missed, lost, epoch, born>>

SupervisorSteps ==
    \/ Revoke \/ ResumeBegins \/ OpenReturns \/ Unwatch \/ Begin \/ SettleWorker \/ SettleEOF \/ Finish
    \/ Swap \/ Spend \/ Backoff \/ ReturnDrops \/ ReturnAcquires \/ ReadyEOF \/ Stop

------------------------------------------------------------------------------
ReaderSteps == Enqueue \/ ReaderExited
PickerSteps == PickerTakes \/ PickerWakes \/ PickerConsumes
Others == Read \/ Commit \/ HelloRefused \/ LoopEnded \/ LoopLeaves \/ LinkLost \/ SettleTimeout \/ SettleBrokerLost

Next ==
    \/ ReaderSteps \/ PickerSteps \/ WatchSteps \/ WorkerSteps \/ Send \/ SupervisorSteps \/ Others
    \/ \E n \in DOMAIN fg : InputSteps(n)

\* Every goroutine that can run is run; the user, the daemon and the network owe nothing.
Fairness ==
    /\ WF_vars(ReaderSteps) /\ WF_vars(PickerSteps) /\ WF_vars(WatchSteps) /\ WF_vars(WorkerSteps)
    /\ WF_vars(Send) /\ WF_vars(SupervisorSteps)
    /\ WF_vars(\E n \in DOMAIN fg : InputSteps(n))

Spec == Init /\ [][Next]_vars
FairSpec == Spec /\ Fairness

------------------------------------------------------------------------------
(* Properties. *)

\* What SendClient accepted is what was typed, in the order it was typed and once: no key is written twice, after a
\* later one, or after it was dropped, given to the picker or taken as a cancel.
WrittenOnceInOrder ==
    /\ \A i, j \in DOMAIN sent : i < j => sent[i] < sent[j]
    /\ Keys(sent) \cap (gone \cup missed) = {}

\* The goroutines that hold a key outside the pump.
InTransit ==
    Keys(hand) \cup Keys(watch.held) \cup Keys(watch.prefix) \cup Keys(worker.save)
        \cup UNION {Keys(fg[n].got) : n \in {m \in DOMAIN fg : fg[m].pc = "requeue"}}

\* A key that was typed is on its way, written, or dropped where the code says so: at an owner boundary, by the
\* picker, by a cancel, past the limit of an outage, with a failed outbox, or at the end (and, see the README, by a
\* second PreserveInput of one grant).  Losing the stream, retrying and handing the terminal over lose nothing.
NoKeyVanishes == 1..typed \subseteq Keys(sent) \cup gone \cup missed \cup lost \cup Kept(pump) \cup InTransit

\* Once an outage dropped a key, what it keeps for the session was typed before it: the replay has no gap.
ReplayHasNoGap == \A m \in missed, k \in Keys(watch.held) \cup Keys(pump.residual) : k < m

\* Nothing kept for one owner is left for the next: a key in the pump or held by a watch was published since the last
\* release, swap or return, whatever the goroutines of the earlier owner still do.
OwnersApart == \A k \in Kept(pump) \cup Keys(watch.held) \cup Keys(watch.prefix) \cup Keys(worker.save) : born[k] = epoch

\* A read is always published and what was published is always taken: no owner misses the wakeup that hands it over.
Stalled == hand # <<>> \/ Waiting(pump)
InputMoves == Stalled ~> ~Stalled

\* PreserveInput's comment: the bytes are replayed exactly once.
NothingReplaced == lost = {}

\* revoke's comment: bytes cannot cross owner kinds.
OneKindActs == acted \cap Keys(sent) = {}
==============================================================================
