--------------------------- MODULE AttachmentOutput ---------------------------
(***************************************************************************)
(* The terminal output of one attachment, end to end: the daemon's         *)
(* attachmentOutput (internal/usecase/daemon/attachment_output.go) with    *)
(* the paint transaction around it, an ordered link, and the client's      *)
(* outputApplyState (internal/usecase/client/output_state.go).             *)
(*                                                                         *)
(* A paint holds sendMu from capture to send; publishing a view takes only *)
(* viewMu and may happen between any two of its steps.  The screen is a    *)
(* version number: a full frame carries the version, an incremental one    *)
(* the version it was diffed from and the version it leads to.             *)
(*                                                                         *)
(* Left out: the generation counter, which moves with the epoch; the       *)
(* connection generation, which cannot change while a paint is admitted;   *)
(* the session identity of a publication.                                  *)
(***************************************************************************)
EXTENDS Integers, Sequences, FiniteSetsExt

CONSTANTS
    Window,       \* maxOutstanding
    MaxBytes,     \* protocol.MaxOutputWindowBytes
    MaxContent,   \* bound: versions of the screen
    MaxFocus,     \* bound: changes of the view context
    MaxEpoch,     \* bound: epoch up to which views, resets and losses happen
    MayLose,      \* the link may fail
    MaxEffects    \* bound: side effects attempted

\* Encoded sizes: a full frame, a diff, a side effect.
FullBytes == 2
DiffBytes == 1
EffectBytes == 2

Blank == -1      \* the renderer's shadow after a reset
Garbage == -2    \* a diff applied to another screen than its source

VARIABLES
    o,         \* attachmentOutput and the attachment's view revision
    paint,     \* the paint in progress: idle, captured or prepared
    content,   \* version of the session's screen
    focus,     \* semantic view context (focused pane, tab)
    link,      \* up, failed (a send was refused), frozen (detaching after it),
               \* undetached (that detach gave up), closing (the link ended) or down
    wire,      \* daemon to client
    back,      \* client to daemon
    c,         \* the client's apply state
    effects    \* side effects sent so far

vars == <<o, paint, content, focus, link, wire, back, c, effects>>

Idle == [at |-> "idle"]

FreshClient ==
    [phase |-> "initial", epoch |-> 0, state |-> 0, rev |-> 0, pub |-> 0, focus |-> 0,
     shown |-> Blank, resetAsked |-> FALSE, rejected |-> FALSE]

Init ==
    /\ o = [epoch |-> 1, next |-> 0, acked |-> 0, rev |-> 0, force |-> FALSE, initialized |-> FALSE,
            pub |-> 0, focus |-> 0, shadow |-> Blank, unacked |-> <<>>]
    /\ paint = Idle /\ content = 0 /\ focus = 1
    /\ link = "up"
    /\ wire = <<>> /\ back = <<>> /\ c = FreshClient /\ effects = 0

-----------------------------------------------------------------------------
(* attachmentOutput *)

\* chargeBytesLocked
charge(s, state, n) ==
    LET last == Len(s.unacked)
    IN IF n = 0 THEN s
       ELSE IF last > 0 /\ s.unacked[last].state = state
       THEN [s EXCEPT !.unacked[last].bytes = @ + n]
       ELSE [s EXCEPT !.unacked = Append(@, [state |-> state, bytes |-> n])]

unackedBytes(s) == FoldSet(LAMBDA i, sum : sum + s.unacked[i].bytes, 0, DOMAIN s.unacked)

\* rebaseLocked
rebase(s) ==
    [s EXCEPT !.epoch = @ + 1, !.next = 0, !.acked = 0, !.unacked = <<>>,
              !.shadow = Blank, !.force = TRUE, !.initialized = FALSE]

\* [mutant] an acknowledgement is accepted whatever its epoch.
ack_AnyEpoch(s, epoch, state) ==
    IF state > s.next \/ state <= s.acked THEN s
    ELSE [s EXCEPT !.acked = state, !.unacked = SelectSeq(@, LAMBDA x : x.state > state)]

ack(s, epoch, state) ==
    IF epoch # s.epoch \/ state > s.next \/ state <= s.acked THEN s
    ELSE [s EXCEPT !.acked = state, !.unacked = SelectSeq(@, LAMBDA x : x.state > state)]

\* [mutant] bytes charged by side effects alone stop painting.
atCapacity_Bytes(s) ==
    s.next - s.acked >= Window \/ unackedBytes(s) >= MaxBytes

atCapacity(s) ==
    LET outstanding == s.next - s.acked
    IN outstanding >= Window \/ (outstanding > 0 /\ unackedBytes(s) >= MaxBytes)

-----------------------------------------------------------------------------
(* Paint *)

\* beginAttachmentEffect admits nothing once the attachment is frozen.
Admitted == link \in {"up", "failed", "undetached"}

\* The capacity guard and the capture of session, view and composition.
Capture(reset) ==
    /\ paint.at = "idle" /\ Admitted
    /\ ~atCapacity(o)
    /\ reset => o.epoch < MaxEpoch
    /\ paint' = [at |-> "captured", content |-> content, focus |-> focus, rev |-> o.rev, reset |-> reset]
    /\ UNCHANGED <<o, content, focus, link, wire, back, c, effects>>

\* prepare
Prepare ==
    /\ paint.at = "captured"
    /\ LET base == IF paint.reset /\ o.initialized THEN rebase(o) ELSE o
           full == paint.reset \/ base.force \/ ~base.initialized
       IN /\ o' = [base EXCEPT !.initialized = TRUE]
          /\ paint' = [at |-> "prepared", base |-> base.next, epoch |-> base.epoch, rev |-> paint.rev,
                       full |-> full, from |-> base.shadow, to |-> paint.content, focus |-> paint.focus,
                       size |-> IF full THEN FullBytes ELSE IF base.shadow # paint.content THEN DiffBytes ELSE 0]
    /\ UNCHANGED <<content, focus, link, wire, back, c, effects>>

\* currentLocked
Current == o.epoch = paint.epoch /\ o.next = paint.base /\ o.rev = paint.rev

\* The transport takes the send, unless it fails or already failed.
Refuses == MayLose /\ (link # "up" \/ o.epoch < MaxEpoch)
Refused == IF Admitted THEN "failed" ELSE link

\* preparedOutput.send: a frame with bytes, fenced by what was prepared.
Send ==
    /\ paint.at = "prepared" /\ paint.size > 0 /\ Current
    /\ o' = [charge(o, paint.base + 1, paint.size) EXCEPT
                 !.next = paint.base + 1, !.pub = @ + 1, !.focus = paint.focus,
                 !.shadow = paint.to, !.force = FALSE]
    /\ wire' = Append(wire, [kind |-> "frame", epoch |-> paint.epoch, base |-> IF paint.full THEN 0 ELSE paint.base,
                             new |-> paint.base + 1, rev |-> paint.rev, pub |-> o.pub + 1, full |-> paint.full,
                             from |-> paint.from, to |-> paint.to, focus |-> paint.focus])
    /\ paint' = Idle /\ UNCHANGED <<content, focus, link, back, c, effects>>

\* [mutant] the draw is committed before the transport answers.
SendFails_Commits ==
    /\ Refuses /\ paint.at = "prepared" /\ paint.size > 0 /\ Current
    /\ o' = [o EXCEPT !.shadow = paint.to, !.force = FALSE]
    /\ link' = Refused
    /\ paint' = Idle /\ UNCHANGED <<content, focus, wire, back, c, effects>>

\* The transport refuses the frame: the next one is full, and the client is
\* detached.
SendFails ==
    /\ Refuses /\ paint.at = "prepared" /\ paint.size > 0 /\ Current
    /\ o' = [o EXCEPT !.force = TRUE]
    /\ link' = Refused
    /\ paint' = Idle /\ UNCHANGED <<content, focus, wire, back, c, effects>>

\* publishNoBytes: the frame is unchanged, its context may not be.
SendNoBytes ==
    /\ paint.at = "prepared" /\ paint.size = 0 /\ Current
    /\ IF paint.focus = o.focus
       THEN o' = [o EXCEPT !.force = FALSE, !.shadow = paint.to] /\ UNCHANGED <<wire, link>>
       ELSE IF o.next = 0
       THEN link' = Refused /\ UNCHANGED <<o, wire>>
       ELSE \/ /\ o' = [o EXCEPT !.pub = @ + 1, !.focus = paint.focus, !.force = FALSE, !.shadow = paint.to]
               /\ wire' = Append(wire, [kind |-> "view", epoch |-> o.epoch, state |-> o.next,
                                        pub |-> o.pub + 1, focus |-> paint.focus])
               /\ UNCHANGED link
            \/ Refuses /\ link' = Refused /\ UNCHANGED <<o, wire>>
    /\ paint' = Idle /\ UNCHANGED <<content, focus, back, c, effects>>

\* A prepared frame that a view publication overtook is dropped.
Drop ==
    /\ paint.at = "prepared" /\ ~Current
    /\ paint' = Idle
    /\ UNCHANGED <<o, content, focus, link, wire, back, c, effects>>

-----------------------------------------------------------------------------
(* Everything else that touches the output *)

\* publishViewLocked, under viewMu alone.
PublishView ==
    /\ link # "down" /\ o.epoch < MaxEpoch
    /\ o' = [rebase(o) EXCEPT !.rev = @ + 1]
    /\ UNCHANGED <<paint, content, focus, link, wire, back, c, effects>>

\* A side effect (a forwarded clipboard write), under sendMu and viewMu, is not
\* gated by the window; a refused one is not charged.
SideEffect ==
    /\ paint.at = "idle" /\ Admitted /\ effects < MaxEffects
    /\ effects' = effects + 1
    /\ \/ /\ o' = charge(o, o.next + 1, EffectBytes)
          /\ wire' = Append(wire, [kind |-> "effect", epoch |-> o.epoch])
          /\ UNCHANGED link
       \/ Refuses /\ link' = Refused /\ UNCHANGED <<o, wire>>
    /\ UNCHANGED <<paint, content, focus, back, c>>

\* The daemon's reader applies an Ack or an OutputResetRequest under sendMu.
FromClient ==
    /\ paint.at = "idle" /\ Admitted /\ back # <<>>
    /\ LET m == Head(back)
       IN o' = IF m.kind = "ack" THEN ack(o, m.epoch, m.state) ELSE rebase(o)
    /\ back' = Tail(back)
    /\ UNCHANGED <<paint, content, focus, link, wire, c, effects>>

\* Pane output, or a new context (route, tab, focused pane) for the same screen.
Change ==
    /\ \/ content < MaxContent /\ content' = content + 1 /\ UNCHANGED focus
       \/ focus < MaxFocus /\ focus' = focus + 1 /\ UNCHANGED content
    /\ UNCHANGED <<o, paint, link, wire, back, c, effects>>

\* A refused send, a dead link or a client that gave up: the freeze admits no
\* further effect.
Freeze ==
    /\ \/ link = "failed" /\ link' = "frozen"
       \/ link = "up" /\ c.phase = "failed" /\ link' = "closing"
       \/ link = "undetached" /\ link' = "closing"
       \/ link = "up" /\ MayLose /\ o.epoch < MaxEpoch /\ link' = "closing"
    /\ UNCHANGED <<o, paint, content, focus, wire, back, c, effects>>

\* The cleanup after a refused send bounds its drain: past the deadline it
\* unfreezes and leaves the link as it is.
GiveUp ==
    /\ link = "frozen" /\ paint.at # "idle"
    /\ link' = "undetached"
    /\ UNCHANGED <<o, paint, content, focus, wire, back, c, effects>>

\* The drained attachment is parked; what was on the link is gone.
Detach ==
    /\ link \in {"frozen", "closing"} /\ paint.at = "idle"
    /\ link' = "down" /\ wire' = <<>> /\ back' = <<>>
    /\ UNCHANGED <<o, paint, content, focus, c, effects>>

\* A resumed attachment starts a new epoch for the replacement link.
Resume ==
    /\ link = "down"
    /\ o' = rebase(o)
    /\ link' = "up" /\ c' = FreshClient
    /\ UNCHANGED <<paint, content, focus, wire, back, effects>>

-----------------------------------------------------------------------------
(* The client *)

\* outputApplyState.next
accepts(f) ==
    /\ f.pub > c.pub
    /\ IF c.phase = "initial" THEN f.full /\ f.base = 0
       ELSE IF f.epoch = c.epoch THEN f.rev = c.rev /\ ~f.full /\ f.base = c.state /\ f.new = f.base + 1
       ELSE f.epoch > c.epoch /\ f.full /\ f.base = 0

Ack(epoch, state) == [kind |-> "ack", epoch |-> epoch, state |-> state]

ClientFrame ==
    /\ c.phase # "failed" /\ wire # <<>> /\ Head(wire).kind = "frame"
    /\ LET f == Head(wire)
       IN IF accepts(f)
          THEN /\ c' = [c EXCEPT !.phase = "attached", !.epoch = f.epoch, !.state = f.new, !.rev = f.rev,
                                 !.pub = f.pub, !.focus = f.focus, !.resetAsked = FALSE,
                                 !.shown = IF f.full \/ @ = f.from THEN f.to ELSE Garbage]
               /\ back' = Append(back, Ack(f.epoch, f.new))
          ELSE /\ c' = [c EXCEPT !.phase = IF @ = "initial" THEN "failed" ELSE @, !.rejected = TRUE]
               /\ UNCHANGED back
    /\ wire' = Tail(wire) /\ UNCHANGED <<o, paint, content, focus, link, effects>>

\* A side effect is acknowledged with the committed state; before the first
\* frame it ends the attachment.
ClientEffect ==
    /\ c.phase # "failed" /\ wire # <<>> /\ Head(wire).kind = "effect"
    /\ IF c.phase = "initial"
       THEN c' = [c EXCEPT !.phase = "failed"] /\ UNCHANGED back
       ELSE /\ back' = Append(back, Ack(c.epoch, c.state))
            /\ c' = [c EXCEPT !.resetAsked = FALSE]
    /\ wire' = Tail(wire) /\ UNCHANGED <<o, paint, content, focus, link, effects>>

\* nextView
ClientView ==
    /\ c.phase # "failed" /\ wire # <<>> /\ Head(wire).kind = "view"
    /\ LET v == Head(wire)
           old == c.phase = "initial" \/ v.epoch < c.epoch \/ (v.epoch = c.epoch /\ v.state < c.state) \/ v.pub <= c.pub
           fits == v.epoch = c.epoch /\ v.state = c.state
       IN /\ c' = IF old THEN c
                  ELSE IF fits THEN [c EXCEPT !.pub = v.pub, !.focus = v.focus]
                  ELSE [c EXCEPT !.resetAsked = TRUE]
          /\ back' = IF ~old /\ ~fits /\ ~c.resetAsked THEN Append(back, [kind |-> "reset"]) ELSE back
    /\ wire' = Tail(wire) /\ UNCHANGED <<o, paint, content, focus, link, effects>>

-----------------------------------------------------------------------------
Painting == (\E reset \in BOOLEAN : Capture(reset)) \/ Prepare \/ Send \/ SendFails \/ SendNoBytes \/ Drop
Client == ClientFrame \/ ClientEffect \/ ClientView

Next ==
    \/ Painting \/ Client \/ PublishView \/ SideEffect \/ FromClient \/ Change \/ Freeze \/ GiveUp \/ Detach \/ Resume

Spec == Init /\ [][Next]_vars

Paints == Capture(FALSE) \/ Prepare \/ Send \/ SendNoBytes \/ Drop
Gives == (link = "failed" \/ c.phase = "failed") /\ Freeze

\* The render coordinator paints while there is room, the client runs, a failed
\* link is detached, and the daemon's reader gets sendMu although paints keep
\* taking it: a Go mutex is handed to its oldest waiter.
FairSpec ==
    /\ Spec
    /\ WF_vars(Paints) /\ WF_vars(Client) /\ SF_vars(FromClient)
    /\ WF_vars(Gives) /\ WF_vars(Detach)

-----------------------------------------------------------------------------
(* What the output promises *)

\* Types; an acknowledged state was sent.
TypeOK ==
    /\ o.epoch \in Nat \ {0} /\ o.next \in Nat /\ o.acked \in 0 .. o.next
    /\ paint.at \in {"idle", "captured", "prepared"}
    /\ link \in {"up", "failed", "frozen", "undetached", "closing", "down"}
    /\ c.phase \in {"initial", "attached", "failed"} /\ content \in 0 .. MaxContent

\* Painting waits for acknowledgements: within one epoch at most Window states
\* are outstanding, and their bytes exceed the byte window by less than one
\* frame, side effects apart.
PaintingBounded ==
    /\ o.next - o.acked <= Window
    /\ unackedBytes(o) < MaxBytes + FullBytes + effects * EffectBytes

\* An acknowledged state is one this link's client committed in this epoch: an
\* answer to an earlier epoch or link never opens the window.
AckedMeansShown ==
    link # "down" /\ o.acked > 0 => c.epoch = o.epoch /\ c.state >= o.acked

\* "Charges stay in non-decreasing state order and merge per state, so the slice
\* holds at most maxOutstanding+1 entries", and every charge waits for a state
\* that is not acknowledged.
ChargesOrdered ==
    /\ Len(o.unacked) <= Window + 1
    /\ \A i \in DOMAIN o.unacked :
        /\ o.unacked[i].state \in o.acked + 1 .. o.next + 1
        /\ i > 1 => o.unacked[i - 1].state < o.unacked[i].state

\* The client never applies an incremental frame to another screen than the one
\* it was diffed from, whatever view changes, resets, refused sends and resumed
\* links came between.
ScreenNeverGarbled == c.shown # Garbage

\* On a link without a refused send the client accepts every frame: it never
\* drops one silently and never has to ask for a reset.
NothingRejected == link = "up" => ~c.rejected /\ ~c.resetAsked

\* Once the session stops changing, a client whose link stays up shows its screen
\* and its context, whatever resets, view changes and side effects came before.
ScreenConverges ==
    <>[](link = "up" /\ c.phase # "failed"
            => c.phase = "attached" /\ c.shown = content /\ c.focus = focus)

\* "caps how many output states may be in flight (sent but not yet acked by the
\* client)", counted on the link.
InFlightBounded ==
    Len(SelectSeq(wire, LAMBDA m : m.kind = "frame")) <= Window

\* "MaxOutputWindowBytes caps the Output data a daemon keeps unacknowledged per
\* attachment, state frames and side effects together", one frame allowed above.
UnackedBytesCapped == unackedBytes(o) < MaxBytes + FullBytes

\* "A reset frame starts a new epoch, clears the dependency chain, and advertises
\* state 0 as its base": a full frame is the first of its epoch.
ResetStartsEpoch == \A i \in DOMAIN wire : wire[i].kind = "frame" /\ wire[i].full => wire[i].new = 1

\* awaitInitialPublication "consumes server messages until the first valid full
\* output frame is committed": an attachment does not fail on a link that
\* delivers.
AttachSurvives == c.phase # "failed"

\* The output window is exact: charges are ordered and bounded, painting stops at
\* the window, and only what the client showed counts as acknowledged.
WindowConsistent == TypeOK /\ ChargesOrdered /\ PaintingBounded /\ AckedMeansShown

\* On a link without a refused send every frame lands on the screen it was
\* diffed from, and on any link no screen is garbled.
FramesLand == ScreenNeverGarbled /\ NothingRejected
=============================================================================
