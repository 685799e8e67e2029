---------------------------- MODULE Vp8Lookahead ----------------------------
(***************************************************************************)
(* The source queue of VP8Encoder: the lookahead ring, the one-frame stash *)
(* of the automatic alternate reference (ARF) driver, the schedule of the  *)
(* next hidden ARF, and the reference replacements that travel with the    *)
(* queued frames. Each action is one call of the public API.               *)
(*                                                                         *)
(* Source frames are numbered in the order they are submitted, reference   *)
(* replacements in the order they are issued; one reference buffer is      *)
(* modelled. What the encoder decides from pixels, first pass statistics   *)
(* and rate control is a choice: the kind of frame coded, whether it is    *)
(* dropped or fails, and whether a golden section plans an ARF.            *)
(***************************************************************************)
EXTENDS Integers, FiniteSets

CONSTANTS
  Depth,            \* opts.LookaheadFrames
  AutoAltRef,       \* the ARF driver is enabled: AutoAltRef, two passes,
                    \*   not error resilient
  MinGFInterval,    \* libvpxMinGFInterval
  VisibleKinds,     \* what encoding a source frame may come to
  HiddenKinds,      \* what encoding a hidden ARF may come to
  BadFlags,         \* callers may pass flags that exclude one another
  RearmShifted,     \* an ARF may be planned while the stash is in use
  MaxFrames,        \* bound of the model: frames submitted
  MaxSets           \* bound of the model: reference replacements issued

\* "dropped": by rate control, without error; "failed": an error, for example
\* an output buffer too small. The others are coded frames.
Kinds == {"key", "golden", "altref", "inter", "dropped", "failed"}

ASSUME LookaheadAssumption ==
  /\ Depth \in Nat \ {0}
  /\ MinGFInterval \in Nat \ {0}
  /\ MaxFrames \in Nat /\ MaxSets \in Nat
  /\ VisibleKinds \subseteq Kinds /\ HiddenKinds \subseteq Kinds
  /\ AutoAltRef \in BOOLEAN /\ BadFlags \in BOOLEAN /\ RearmShifted \in BOOLEAN

Frame == 1..MaxFrames
NoFrame == 0
SetId == 1..MaxSets
NoSet == 0

RingLen == Depth + 1              \* len(e.lookahead)
Index == 0..Depth
Entry == [frame : Frame \cup {NoFrame}, set : SetId \cup {NoSet}]

VARIABLES
  slot, read, write, count,     \* the ring: e.lookahead and its indices
  stash,                        \* frame in autoAltRefStashFrame, or NoFrame
  arf,                          \* sourceAltRefPending, sourceAltRefActive,
                                \*   framesTillAltRefFrame
  pendingSet,                   \* pendingLookaheadSetReferences
  latest,                       \* latestLookaheadSetReferences
  buffer,                       \* the replacement the reference buffer holds
  issued, applied,              \* replacements issued; applied or discarded
  submitted, accepted, shown, gone,  \* as in FrameQueue
  overfull                      \* history: a call returned with the queue at
                                \*   its depth, so it drained the stash and
                                \*   popped nothing

ring == <<slot, read, write, count>>
sets == <<pendingSet, latest, buffer, issued, applied>>
caller == <<submitted, accepted, shown, gone>>
vars == <<slot, read, write, count, stash, arf,
          pendingSet, latest, buffer, issued, applied,
          submitted, accepted, shown, gone, overfull>>

NoArf == [pending |-> FALSE, active |-> FALSE, till |-> 0]

Init ==
  /\ slot = [i \in Index |-> [frame |-> NoFrame, set |-> NoSet]]
  /\ read = 0 /\ write = 0 /\ count = 0
  /\ stash = NoFrame
  /\ arf = NoArf
  /\ pendingSet = NoSet /\ latest = NoSet /\ buffer = NoSet
  /\ issued = 0 /\ applied = {}
  /\ submitted = 0 /\ accepted = {} /\ shown = {} /\ gone = {}
  /\ overfull = FALSE

Next1(i) == IF i + 1 >= RingLen THEN 0 ELSE i + 1

\* The slot offset entries ahead of the next one to pop.
At(from, offset) == IF from + offset >= RingLen THEN from + offset - RingLen
                                            ELSE from + offset
QueueSlots == {At(read, k) : k \in 0..(count - 1)}
Queued == {slot[i].frame : i \in QueueSlots}
Held == Queued \cup (IF stash = NoFrame THEN {} ELSE {stash})

-----------------------------------------------------------------------------
(* Definitions named after another one with a suffix are faulty variants of *)
(* it. Next does not use them.                                              *)

(* The ring and the stash as a record, so that a call can take several      *)
(* steps on it: sl, rd, wr, n, st and the pending reference replacement.    *)

Here == [sl |-> slot, rd |-> read, wr |-> write, n |-> count,
         st |-> stash, ps |-> pendingSet]

Full(q) == q.n + 2 > RingLen

\* pushLookaheadWithForce; the caller tests Full first.
Push(q, f) ==
  [q EXCEPT !.sl[q.wr] = [frame |-> f, set |-> q.ps],
            !.ps = NoSet, !.wr = Next1(q.wr), !.n = q.n + 1]

\* popLookahead: without drain the queue must have reached its depth.
CanPopIgnoresDrain(q, drain) == q.n # 0 /\ q.n = Depth
CanPop(q, drain) == q.n # 0 /\ (drain \/ q.n = Depth)
PopStays(q) == [q EXCEPT !.n = q.n - 1]
Pop(q) == [q EXCEPT !.rd = Next1(q.rd), !.n = q.n - 1]

\* clearPoppedLookahead, and the replacements a hidden ARF has used up.
ClearSet(q, i) == [q EXCEPT !.sl[i].set = NoSet]

\* autoAltRefDrainStash: the stash is emptied before the push is tried.
DrainFails == AutoAltRef /\ stash # NoFrame /\ Full(Here)
DrainedLosesSet ==
  LET q == [Here EXCEPT !.st = NoFrame]
  IN IF ~AutoAltRef \/ stash = NoFrame THEN Here
     ELSE IF Full(q) THEN [q EXCEPT !.ps = NoSet] ELSE Push(q, stash)
Drained ==
  LET q == [Here EXCEPT !.st = NoFrame]
  IN IF ~AutoAltRef \/ stash = NoFrame THEN Here
     ELSE IF Full(q) THEN q ELSE Push(q, stash)

\* The call leaves the ring as q.
SetRing(q) ==
  /\ slot' = q.sl /\ read' = q.rd /\ write' = q.wr /\ count' = q.n
  /\ stash' = q.st /\ pendingSet' = q.ps
  /\ overfull' = (overfull \/ q.n = Depth)

\* peekLookahead(offset, true) finds an entry.
CanPeek(q, offset) == offset < q.n /\ offset < Depth

\* autoAltRefShouldEmitHidden.
EmitHidden(q) ==
  /\ AutoAltRef
  /\ arf.pending
  /\ CanPeek(q, arf.till)

-----------------------------------------------------------------------------
(* The alternate reference schedule.                                        *)

\* pass2AltRefPendingPlan: the distances at which an ARF may be planned.
MaxGFInterval == IF Depth - 1 < MinGFInterval THEN MinGFInterval ELSE Depth - 1
Plans(q) ==
  IF /\ AutoAltRef
     /\ ~arf.pending /\ ~arf.active /\ arf.till = 0
     /\ RearmShifted \/ q.st = NoFrame
  THEN {0} \cup MinGFInterval..MaxGFInterval
  ELSE {0}

Countdown(n) == IF n > 0 THEN n - 1 ELSE 0

\* updateGoldenFrameStats, and resetGoldenFrameStats for key frames.
Commit(a, kind) ==
  CASE kind = "key" ->
         [a EXCEPT !.active = a.pending /\ a.active, !.till = Countdown(a.till)]
    [] kind = "golden" -> [a EXCEPT !.active = a.pending /\ a.active]
    [] kind = "altref" ->
         IF AutoAltRef THEN [a EXCEPT !.active = TRUE, !.pending = FALSE] ELSE a
    [] kind = "inter" -> [a EXCEPT !.till = Countdown(a.till)]
    [] OTHER -> a

\* pass2ArmAltRefPending comes before the encode attempt, the commit after.
Schedule(plan, kind) ==
  arf' = Commit(IF plan = 0 THEN arf
                ELSE [arf EXCEPT !.pending = TRUE, !.till = plan], kind)

\* applyQueuedReferenceSets, then the encode: a key frame replaces every
\* reference, another coded frame may replace this one.
EncodeKeepsOverlay(set, kind, refreshes) ==
  /\ applied' = IF set = NoSet THEN applied ELSE applied \cup {set}
  /\ LET replaced == kind = "key" \/ (refreshes /\ kind \in {"golden", "altref", "inter"})
     IN /\ buffer' = IF replaced THEN NoSet ELSE IF set = NoSet THEN buffer ELSE set
        /\ latest' = IF replaced THEN NoSet ELSE latest
  /\ UNCHANGED issued
Encode(set, kind, refreshes) ==
  /\ applied' = IF set = NoSet THEN applied ELSE applied \cup {set}
  /\ LET replaced == kind = "key" \/ (refreshes /\ kind \in {"golden", "altref", "inter"})
     IN /\ buffer' = IF replaced THEN NoSet ELSE IF set = NoSet THEN buffer ELSE set
        /\ latest' = IF replaced \/ latest = set THEN NoSet ELSE latest
  /\ UNCHANGED issued

-----------------------------------------------------------------------------
(* EncodeInto(dst, src, pts, duration, flags). The first part is            *)
(* autoAltRefMaybeEncode, the second encodeLookaheadInto.                   *)

NextFrame == submitted + 1
Accept == accepted' = accepted \cup {NextFrame}
Submitting == submitted < MaxFrames /\ submitted' = NextFrame

HadStash == AutoAltRef /\ stash # NoFrame

\* The stashed frame does not fit: it is gone, and the call answers "frame
\* not ready" without having looked at its own frame.
EncodeDrainRefused ==
  /\ Submitting
  /\ DrainFails
  /\ SetRing(Drained)
  /\ Accept
  /\ UNCHANGED <<arf, latest, buffer, issued, applied, shown, gone>>

\* validateEncodeFlags fails; the stash has already moved into the queue.
EncodeBadFlags ==
  /\ BadFlags
  /\ Submitting
  /\ ~DrainFails
  /\ SetRing(Drained)
  /\ UNCHANGED <<arf, latest, buffer, issued, applied, accepted, shown, gone>>

EncodeHiddenNoStash ==
  /\ Submitting
  /\ ~DrainFails
  /\ EmitHidden(Drained)
  /\ \E kind \in HiddenKinds, refreshes \in BOOLEAN :
       LET peeked == At(Drained.rd, arf.till)
       IN /\ SetRing(ClearSet(Drained, peeked))
          /\ Encode(Drained.sl[peeked].set, kind, refreshes)
          /\ Schedule(0, kind)
          /\ Accept
  /\ UNCHANGED <<shown, gone>>

\* A hidden ARF is encoded from the middle of the queue; the caller's frame
\* is stashed. On failure the caller sees an error, but the stash is filled.
EncodeHidden ==
  /\ Submitting
  /\ ~DrainFails
  /\ EmitHidden(Drained)
  /\ \E kind \in HiddenKinds, refreshes \in BOOLEAN :
       LET q == Drained
           peeked == At(q.rd, arf.till)
       IN /\ SetRing(ClearSet([q EXCEPT !.st = NextFrame], peeked))
          /\ Encode(q.sl[peeked].set, kind, refreshes)
          /\ Schedule(0, kind)
          /\ IF kind = "failed" THEN UNCHANGED accepted ELSE Accept
  /\ UNCHANGED <<shown, gone>>

\* The call goes on to encodeLookaheadInto.
ToLookahead ==
  /\ ~DrainFails
  /\ ~EmitHidden(Drained)
  /\ ~HadStash \/ Drained.n < Depth

\* Pop the head of q and encode it for display; new holds the frame submitted
\* by the call, if any.
ShowHead(q, drain, new) ==
  /\ CanPop(q, drain)
  /\ \E kind \in VisibleKinds, refreshes \in BOOLEAN :
       \E plan \in Plans(q) :
         /\ SetRing(ClearSet(Pop(q), q.rd))
         /\ Encode(q.sl[q.rd].set, kind, refreshes)
         /\ Schedule(plan, kind)
         /\ shown' = shown \cup {q.sl[q.rd].frame}
         /\ accepted' = IF kind = "failed" THEN accepted ELSE accepted \cup new
  /\ UNCHANGED gone

\* The drained stash made the queue full: its head is encoded and the caller's
\* frame is stashed.
EncodeShifted ==
  /\ Submitting
  /\ HadStash
  /\ ~DrainFails
  /\ ~EmitHidden(Drained)
  /\ Drained.n = Depth
  /\ ShowHead([Drained EXCEPT !.st = NextFrame], FALSE, {NextFrame})

\* pushLookahead finds the queue full: the caller's frame is not taken.
EncodeRefused ==
  /\ Submitting
  /\ ToLookahead
  /\ Full(Drained)
  /\ SetRing(Drained)
  /\ Accept
  /\ UNCHANGED <<arf, latest, buffer, issued, applied, shown, gone>>

\* The frame is queued and the queue has not reached its depth.
EncodeQueued ==
  /\ Submitting
  /\ ToLookahead
  /\ ~Full(Drained)
  /\ Drained.n + 1 < Depth
  /\ SetRing(Push(Drained, NextFrame))
  /\ Accept
  /\ UNCHANGED <<arf, latest, buffer, issued, applied, shown, gone>>

\* The frame is queued and the head of the queue is encoded.
EncodeHead ==
  /\ Submitting
  /\ ToLookahead
  /\ ~Full(Drained)
  /\ Drained.n + 1 = Depth
  /\ ShowHead(Push(Drained, NextFrame), FALSE, {NextFrame})

-----------------------------------------------------------------------------
(* FlushInto(dst).                                                          *)

FlushDrainRefused ==
  /\ DrainFails
  /\ SetRing(Drained)
  /\ UNCHANGED <<arf, latest, buffer, issued, applied, caller>>

\* autoAltRefMaybeEmitHiddenOnFlush: nothing is popped.
FlushHidden ==
  /\ ~DrainFails
  /\ EmitHidden(Drained)
  /\ \E kind \in HiddenKinds, refreshes \in BOOLEAN :
       LET q == Drained
           peeked == At(q.rd, arf.till)
       IN /\ SetRing(ClearSet(q, peeked))
          /\ Encode(q.sl[peeked].set, kind, refreshes)
          /\ Schedule(0, kind)
  /\ UNCHANGED caller

FlushHead ==
  /\ ~DrainFails
  /\ ~EmitHidden(Drained)
  /\ ShowHead(Drained, TRUE, {})
  /\ UNCHANGED submitted

Flush == FlushDrainRefused \/ FlushHidden \/ FlushHead

-----------------------------------------------------------------------------
(* The other calls that touch the queue.                                    *)

\* SetReferenceFrame: at once when nothing is queued, else with the next frame
\* pushed; of several for the same reference the last one stays.
SetReferenceFrame ==
  /\ issued < MaxSets
  /\ issued' = issued + 1
  /\ IF count > 0 \/ stash # NoFrame
     THEN /\ pendingSet' = issued'
          /\ latest' = issued'
          /\ UNCHANGED <<buffer, applied>>
     ELSE /\ buffer' = issued'
          /\ applied' = applied \cup {issued'}
          /\ UNCHANGED <<pendingSet, latest>>
  /\ UNCHANGED <<ring, stash, arf, caller, overfull>>

\* applyResolutionChange: refused while a frame is queued or stashed.
ChangeResolution ==
  /\ count = 0 /\ stash = NoFrame
  /\ applied' = applied \cup ({pendingSet} \ {NoSet})
  /\ pendingSet' = NoSet /\ latest' = NoSet /\ buffer' = NoSet
  /\ UNCHANGED <<ring, stash, arf, issued, caller, overfull>>

\* Reset also forgets the reference frames.
Reset ==
  /\ slot' = [i \in Index |-> [slot[i] EXCEPT !.set = NoSet]]
  /\ read' = 0 /\ write' = 0 /\ count' = 0
  /\ stash' = NoFrame
  /\ arf' = NoArf
  /\ pendingSet' = NoSet /\ latest' = NoSet /\ buffer' = NoSet
  /\ applied' = 1..issued
  /\ gone' = gone \cup Held
  /\ UNCHANGED <<issued, submitted, accepted, shown, overfull>>

EncodeInto ==
  \/ EncodeDrainRefused \/ EncodeBadFlags \/ EncodeHidden \/ EncodeShifted
  \/ EncodeRefused \/ EncodeQueued \/ EncodeHead

Next ==
  \/ EncodeInto
  \/ Flush
  \/ SetReferenceFrame \/ ChangeResolution \/ Reset

Spec == Init /\ [][Next]_vars

\* The caller flushes until nothing is left, and a hidden ARF that is encoded
\* again and again is in the end neither dropped nor failing nor a key frame.
FlushFairness ==
  /\ WF_vars(Flush)
  /\ SF_vars(FlushHidden /\ ~arf'.pending)
FairSpec == Spec /\ FlushFairness

-----------------------------------------------------------------------------
(* Properties.                                                              *)

TypeOK ==
  /\ slot \in [Index -> Entry]
  /\ read \in Index /\ write \in Index /\ count \in 0..Depth
  /\ write = At(read, count)
  /\ stash \in Frame \cup {NoFrame}
  /\ arf \in [pending : BOOLEAN, active : BOOLEAN, till : 0..MaxGFInterval]
  /\ pendingSet \in SetId \cup {NoSet} /\ latest \in SetId \cup {NoSet}
  /\ buffer \in SetId \cup {NoSet}
  /\ issued \in 0..MaxSets /\ applied \subseteq SetId
  /\ submitted \in 0..MaxFrames
  /\ accepted \subseteq Frame /\ shown \subseteq Frame /\ gone \subseteq Frame
  /\ overfull \in BOOLEAN

\* Frames are encoded for display in the order they were submitted, none twice:
\* stash, drain, peek and flush never let a frame overtake another.
FramesInOrder ==
  [][/\ \A f \in shown' \ shown : \A g \in shown : g < f
     /\ \A f \in Held' : \A g \in shown' : g < f]_vars

\* A frame whose call answered with a packet or with ErrFrameNotReady stays in
\* the queue or the stash until it is encoded or discarded by Reset
\* (errors.go:12: ErrFrameNotReady reports that the encoder accepted input).
NothingLost == accepted \subseteq Held \cup shown \cup gone

\* The same as long as no call has left the queue at its depth, as a call
\* that drains the stash and pops nothing does.
NothingLostBelowDepth == ~overfull => NothingLost

\* A deferred reference replacement survives whatever happens to the frames it
\* travels with: the newest one issued waits, is queued, or was applied.
NewestSetKept ==
  issued # 0 => issued \in applied \cup {pendingSet} \cup {slot[i].set : i \in QueueSlots}

\* CopyReferenceFrame never shows a replacement that was applied, or dropped,
\* long ago: the overlay it reads first is waiting or queued.
OverlayIsLive ==
  latest # NoSet => latest \in {pendingSet} \cup {slot[i].set : i \in QueueSlots}

\* Flushing at the end of the stream empties the queue and the stash.
FlushDrains == (submitted = MaxFrames) ~> (Held = {})

\* Until a call leaves the queue at its depth the encoder implements the frame
\* queue its callers rely on.
Frames == INSTANCE FrameQueue WITH Capacity <- Depth, held <- Held
ImplementsFrameQueue ==
  Frames!QueueInit /\ [][~overfull' => [Frames!QueueNext]_(Frames!queueVars)]_vars
=============================================================================
