---------------------------- MODULE Vp9Lookahead ----------------------------
(***************************************************************************)
(* The source queue of VP9Encoder: the lookahead ring, the frame parallel  *)
(* batches with their staged packets, the hidden alternate reference (ARF) *)
(* frame with the visible frame it leaves pending, and one reference       *)
(* buffer on the encoder's and on the decoder's side. Each action is one   *)
(* call of the public API. A call rejected for its arguments before it     *)
(* touches the queue changes nothing and is left out.                      *)
(*                                                                         *)
(* Source frames are numbered in the order they are submitted. The ring is *)
(* a sequence here; Vp8Lookahead models the same ring with its indices.    *)
(* The helpers of a batch work on clones of the encoder taken before slot  *)
(* 0 starts and are joined before the call returns, so a batch is a step.  *)
(***************************************************************************)
EXTENDS Integers, Sequences

CONSTANTS
  Depth,            \* opts.LookaheadFrames
  ThreadChoices,    \* values of opts.FrameParallelEncoderThreads
  AltRefChoices,    \* values of opts.AutoAltRef
  Cadence,          \* opts.MaxKeyframeInterval
  Flags,            \* what a caller may ask of a frame
  Outcomes,         \* what encoding a source frame may come to
  HiddenOutcomes,   \* what encoding a hidden ARF may come to
  SmallBuffers,     \* a staged packet may be larger than dst
  DeadlineChanges,  \* the caller may call SetDeadline
  MaxFrames         \* bound of the model: frames submitted

\* "forceKey": EncodeForceKeyFrame; "forceRef": EncodeForceGoldenFrame or
\* EncodeForceAltRefFrame, whichever refreshes the modelled reference.
FlagValues == {"none", "forceKey", "forceRef"}

\* "dropped": by rate control, without error; "full": dst is too small.
OutcomeValues == {"coded", "dropped", "full"}

ASSUME LookaheadAssumption ==
  /\ Depth \in Nat \ {0} /\ Cadence \in Nat \ {0}
  /\ ThreadChoices \subseteq Nat /\ MaxFrames \in Nat
  /\ Flags \subseteq FlagValues
  /\ Outcomes \subseteq OutcomeValues /\ HiddenOutcomes \subseteq {"coded", "full"}
  /\ AltRefChoices \subseteq BOOLEAN /\ SmallBuffers \in BOOLEAN
  /\ DeadlineChanges \in BOOLEAN

Frame == 1..MaxFrames
NoFrame == 0
Entry == [frame : Frame, flag : FlagValues]
NoEntry == [frame |-> NoFrame, flag |-> "none"]

\* A picture is named after its frame; a hidden ARF made from frame f has a
\* name of its own.
Hidden(f) == MaxFrames + f
Picture == 1..(2 * MaxFrames)
NoPicture == 0

\* The outcome of one encode: the picture it predicts from (none for a key
\* frame) and whether it refreshes the reference.
Result == [frame : Frame, picture : Picture, outcome : OutcomeValues,
           key : BOOLEAN, uses : Picture \cup {NoPicture}, refreshes : BOOLEAN]

VARIABLES
  threads,      \* opts.FrameParallelEncoderThreads
  autoAltRef,   \* opts.AutoAltRef
  queue,        \* e.lookahead, oldest entry first
  pending,      \* autoAltRefPending, or NoEntry
  emitted,      \* autoAltRefEmitted
  staged,       \* frameParallel.results
  frameIndex,   \* e.frameIndex
  forceKey,     \* e.forceKeyFrame
  newDeadline,  \* vp9DeadlineModeChanged
  ref,          \* picture in the encoder's reference buffer
  decRef,       \* picture in the decoder's reference buffer
  drifted,      \* frames the decoder predicted from another picture
  submitted, accepted, shown,   \* as in FrameQueue
  overfull,     \* history: a call returned with the queue at its depth
  thawed        \* history: a member of a batch refreshed the reference

settings == <<threads, autoAltRef>>
coder == <<frameIndex, forceKey, newDeadline, ref, thawed>>
decoder == <<decRef, drifted>>
caller == <<submitted, accepted, shown>>
lookaheadVars == <<threads, autoAltRef, queue, pending, emitted, staged, frameIndex,
          forceKey, newDeadline, ref, decRef, drifted, submitted, accepted,
          shown, overfull, thawed>>

LookaheadInit ==
  /\ threads \in ThreadChoices /\ autoAltRef \in AltRefChoices
  /\ ~(autoAltRef /\ threads >= 2)
  /\ overfull = FALSE /\ thawed = FALSE
  /\ queue = <<>> /\ pending = NoEntry /\ emitted = FALSE /\ staged = <<>>
  /\ frameIndex = 0 /\ forceKey = FALSE /\ newDeadline = FALSE
  /\ ref = NoPicture /\ decRef = NoPicture /\ drifted = {}
  /\ submitted = 0 /\ accepted = {} /\ shown = {}

FramesOf(s) == {s[i].frame : i \in DOMAIN s}
Held == FramesOf(staged) \cup FramesOf(queue) \cup ({pending.frame} \ {NoFrame})

-----------------------------------------------------------------------------
(* Definitions named after another one with a suffix are faulty variants of *)
(* it. LookaheadNext uses none of them.                                     *)

(* Encoding one frame.                                                      *)

\* vp9ShouldEncodeKeyFrame, and no usable reference.
IsKey(flag, index) ==
  \/ flag = "forceKey"
  \/ forceKey \/ newDeadline
  \/ index % Cadence = 0
  \/ ref = NoPicture

Refused(f, picture, outcome) ==
  [frame |-> f, picture |-> picture, outcome |-> outcome,
   key |-> FALSE, uses |-> NoPicture, refreshes |-> FALSE]
Coded(f, picture, key, refreshes) ==
  [frame |-> f, picture |-> picture, outcome |-> "coded", key |-> key,
   uses |-> IF key THEN NoPicture ELSE ref, refreshes |-> key \/ refreshes]

\* What encoding a frame may come to; a key frame is never dropped.
Results(f, picture, key, outcomes, refreshing) ==
  {Refused(f, picture, o) : o \in (outcomes \ {"coded"}) \ (IF key THEN {"dropped"} ELSE {})}
  \cup {Coded(f, picture, key, r) : r \in IF "coded" \in outcomes THEN refreshing ELSE {}}

\* A frame coded alone refreshes the reference when told to, or as it likes.
Serial(entry) ==
  Results(entry.frame, entry.frame, IsKey(entry.flag, frameIndex), Outcomes,
          IF entry.flag = "forceRef" THEN {TRUE} ELSE BOOLEAN)

\* A member of a batch carries the NoUpdate flags, but normalizeVP9EncodeFlags
\* takes the one of a forced reference away again.
InBatch(entry, i) ==
  Results(entry.frame, entry.frame, IsKey(entry.flag, frameIndex + i - 1), Outcomes,
          {entry.flag = "forceRef"})

CommitVisibleOnly(r, visible) ==
  /\ ref' = IF r.refreshes /\ visible THEN r.picture ELSE ref
  /\ frameIndex' = IF visible /\ r.outcome # "full" THEN frameIndex + 1 ELSE frameIndex
  /\ forceKey' = (forceKey /\ ~r.key)
  /\ newDeadline' = (newDeadline /\ r.outcome = "full")
  /\ UNCHANGED thawed
\* The encoder after a frame: an error leaves it as it was.
Commit(r, visible) ==
  /\ ref' = IF r.refreshes THEN r.picture ELSE ref
  /\ frameIndex' = IF visible /\ r.outcome # "full" THEN frameIndex + 1 ELSE frameIndex
  /\ forceKey' = (forceKey /\ ~r.key)
  /\ newDeadline' = (newDeadline /\ r.outcome = "full")
  /\ UNCHANGED thawed

\* The packet reaches the decoder.
Decode(r) ==
  /\ decRef' = IF r.refreshes THEN r.picture ELSE decRef
  /\ drifted' = IF r.outcome = "coded" /\ ~r.key /\ r.uses # decRef
                THEN drifted \cup {r.frame} ELSE drifted

\* The call answers for frame r.frame; new holds the frame submitted by it.
Answer(r, new) ==
  /\ Decode(r)
  /\ shown' = shown \cup {r.frame}
  /\ accepted' = IF r.outcome = "full" THEN accepted ELSE accepted \cup new

-----------------------------------------------------------------------------
(* The queue and the batches.                                               *)

Full(q) == Len(q) + 2 > Depth + 1
Push(q, entry) == Append(q, entry)

\* popVP9Lookahead: without drain the queue must have reached its depth.
CanPop(q, drain) == q # <<>> /\ (drain \/ Len(q) = Depth)

\* vp9FrameParallelEffectiveThreads.
Threads == IF threads > Depth THEN Depth ELSE threads

\* The batch vp9RunFrameParallelBatch would form of queue q, and its reasons
\* to decline.
BatchSize(q) == IF Len(q) < Threads THEN Len(q) ELSE Threads
CanBatch(q, drain) ==
  /\ threads >= 2 /\ q # <<>>
  /\ drain \/ Len(q) >= Threads
  /\ frameIndex # 0 /\ ~forceKey
  /\ \A i \in 1..BatchSize(q) : q[i].flag # "forceKey"
  /\ ref # NoPicture

\* vp9PopFrameParallelResultInto: a packet that does not fit stays staged,
\* an error does not.
PopStaged(results, new) ==
  \/ /\ Answer(Head(results), new)
     /\ staged' = Tail(results)
  \/ /\ SmallBuffers
     /\ Head(results).outcome = "coded"
     /\ staged' = results
     /\ UNCHANGED <<decoder, shown, accepted>>

RunBatchKeepsLast(q, new) ==
  LET n == BatchSize(q) IN
  \E results \in [1..n -> UNION {InBatch(q[i], i) : i \in 1..n}] :
    /\ \A i \in 1..n : results[i] \in InBatch(q[i], i)
    /\ queue' = SubSeq(q, n, Len(q))
    /\ Commit(results[1], TRUE)
    /\ PopStaged(results, new)
\* Slot 0 runs on the encoder itself, the other members on clones of it.
RunBatch(q, new) ==
  LET n == BatchSize(q) IN
  \E results \in [1..n -> UNION {InBatch(q[i], i) : i \in 1..n}] :
    /\ \A i \in 1..n : results[i] \in InBatch(q[i], i)
    /\ queue' = SubSeq(q, n + 1, Len(q))
    /\ ref' = IF results[1].refreshes THEN results[1].picture ELSE ref
    /\ frameIndex' = frameIndex + n
    /\ forceKey' = FALSE
    /\ newDeadline' = (newDeadline /\ results[1].outcome = "full")
    /\ thawed' = (thawed \/ \E i \in 1..n : results[i].refreshes)
    /\ PopStaged(results, new)

-----------------------------------------------------------------------------
(* encodeVP9LookaheadIntoWithFlagsResult(img, dst, flags).                  *)

NextFrame == submitted + 1
Submitting == submitted < MaxFrames /\ submitted' = NextFrame
New(flag) == [frame |-> NextFrame, flag |-> flag]

\* The queue is full: "frame not ready", and the frame is not taken.
EncodeRefused ==
  /\ Submitting
  /\ Full(queue)
  /\ accepted' = accepted \cup {NextFrame}
  /\ UNCHANGED <<queue, pending, emitted, staged, coder, decoder, shown>>

\* encodeVP9AutoAltRefPendingAndQueueInto: the pending frame is encoded and
\* the head of the queue takes its place; an error leaves both as they were.
EncodePending ==
  /\ Submitting
  /\ pending # NoEntry
  /\ ~Full(queue)
  /\ \E r \in Serial(pending), flag \in Flags :
       /\ Commit(r, TRUE)
       /\ IF r.outcome = "full"
          THEN UNCHANGED <<queue, pending, decoder, shown, accepted>>
          ELSE LET q == Push(queue, New(flag)) IN
               /\ Answer(r, {NextFrame})
               /\ IF CanPop(q, FALSE)
                  THEN pending' = Head(q) /\ queue' = Tail(q)
                  ELSE pending' = NoEntry /\ queue' = q
  /\ UNCHANGED <<emitted, staged>>

\* The frame is queued; a packet staged by an earlier batch is returned.
EncodeStaged ==
  /\ Submitting
  /\ pending = NoEntry /\ ~Full(queue)
  /\ staged # <<>>
  /\ \E flag \in Flags : queue' = Push(queue, New(flag))
  /\ PopStaged(staged, {NextFrame})
  /\ UNCHANGED <<pending, emitted, coder>>

\* The frame is queued and the queue has not reached its depth.
EncodeQueued ==
  /\ Submitting
  /\ pending = NoEntry /\ ~Full(queue)
  /\ staged = <<>>
  /\ Len(queue) + 1 < Depth
  /\ \E flag \in Flags : queue' = Push(queue, New(flag))
  /\ accepted' = accepted \cup {NextFrame}
  /\ UNCHANGED <<pending, emitted, staged, coder, decoder, shown>>

\* The frame completes the queue; q is the queue with it.
Completes(q) ==
  /\ Submitting
  /\ pending = NoEntry /\ ~Full(queue)
  /\ staged = <<>>
  /\ \E flag \in Flags : q = Push(queue, New(flag))
  /\ Len(q) = Depth
Completed == {Push(queue, New(flag)) : flag \in Flags}

EncodeBatch ==
  \E q \in Completed :
    /\ Completes(q)
    /\ CanBatch(q, FALSE)
    /\ RunBatch(q, {NextFrame})
    /\ UNCHANGED <<pending, emitted>>

\* maybeEncodeVP9AutoAltRefInto may have a hidden ARF to encode. Whether it
\* has is up to a speed feature set for the last frame.
MinLookaheadForARFs == 4
HiddenDue ==
  autoAltRef /\ Depth >= MinLookaheadForARFs /\ ~emitted /\ frameIndex # 0

\* The newest frame is encoded as a hidden ARF and the head of the queue
\* becomes the pending frame; on an error the queue keeps its head.
EncodeHidden ==
  \E q \in Completed :
    /\ Completes(q)
    /\ ~CanBatch(q, FALSE) /\ HiddenDue
    /\ \E r \in Results(q[Depth].frame, Hidden(q[Depth].frame),
                        IsKey("none", frameIndex), HiddenOutcomes, BOOLEAN) :
         /\ Commit(r, FALSE) /\ Decode(r)
         /\ IF r.outcome = "full"
            THEN queue' = q /\ UNCHANGED <<pending, emitted, accepted>>
            ELSE /\ pending' = Head(q) /\ queue' = Tail(q) /\ emitted' = TRUE
                 /\ accepted' = accepted \cup {NextFrame}
         /\ UNCHANGED <<staged, shown>>

\* The head of the queue is encoded and popped, even if encoding it fails.
ShowHead(q, drain, new) ==
  /\ CanPop(q, drain)
  /\ queue' = Tail(q)
  /\ \E r \in Serial(Head(q)) : Commit(r, TRUE) /\ Answer(r, new)
  /\ UNCHANGED <<pending, emitted, staged>>

EncodeHead ==
  \E q \in Completed :
    /\ Completes(q)
    /\ ~CanBatch(q, FALSE)
    /\ ShowHead(q, FALSE, {NextFrame})

-----------------------------------------------------------------------------
(* FlushIntoWithResult(dst).                                                *)

FlushStaged ==
  /\ staged # <<>>
  /\ PopStaged(staged, {})
  /\ UNCHANGED <<queue, pending, emitted, coder, submitted>>

FlushPending ==
  /\ staged = <<>> /\ pending # NoEntry
  /\ \E r \in Serial(pending) :
       /\ Commit(r, TRUE)
       /\ IF r.outcome = "full"
          THEN UNCHANGED <<pending, decoder, shown, accepted>>
          ELSE pending' = NoEntry /\ Answer(r, {})
  /\ UNCHANGED <<queue, emitted, staged, submitted>>

FlushBatch ==
  /\ staged = <<>> /\ pending = NoEntry
  /\ CanBatch(queue, TRUE)
  /\ RunBatch(queue, {})
  /\ UNCHANGED <<pending, emitted, submitted>>

FlushHeadKeepsDepth ==
  /\ staged = <<>> /\ pending = NoEntry
  /\ ~CanBatch(queue, TRUE)
  /\ ShowHead(queue, FALSE, {})
  /\ UNCHANGED submitted
FlushHead ==
  /\ staged = <<>> /\ pending = NoEntry
  /\ ~CanBatch(queue, TRUE)
  /\ ShowHead(queue, TRUE, {})
  /\ UNCHANGED submitted

Flush == FlushStaged \/ FlushPending \/ FlushBatch \/ FlushHead

-----------------------------------------------------------------------------
(* The other calls that bear on the queue or on what a batch may hold.      *)

ForceKeyFrame ==
  /\ forceKey' = TRUE
  /\ UNCHANGED <<queue, pending, emitted, staged, frameIndex, newDeadline, ref,
                 thawed, decoder, caller, settings, overfull>>

\* From one deadline mode to the other, or back.
SetDeadline ==
  /\ DeadlineChanges
  /\ newDeadline' = ~newDeadline
  /\ UNCHANGED <<queue, pending, emitted, staged, frameIndex, forceKey, ref,
                 thawed, decoder, caller, settings, overfull>>

\* applyVP9ResolutionChange: refused while frames are queued; staged packets
\* stay, every reference goes.
ChangeResolution ==
  /\ queue = <<>>
  /\ pending' = NoEntry /\ emitted' = FALSE
  /\ forceKey' = TRUE
  /\ ref' = NoPicture
  /\ UNCHANGED <<queue, staged, frameIndex, newDeadline, thawed,
                 decoder, caller, settings, overfull>>

\* Queued frames are no obstacle, staged packets are.
SetFrameParallelEncoderThreads ==
  /\ staged = <<>>
  /\ threads' \in ThreadChoices
  /\ ~(autoAltRef /\ threads' >= 2)
  /\ UNCHANGED <<autoAltRef, queue, pending, emitted, staged, coder, decoder,
                 caller, overfull>>

SetAutoAltRef ==
  /\ queue = <<>> /\ pending = NoEntry /\ staged = <<>>
  /\ autoAltRef' \in AltRefChoices
  /\ ~(autoAltRef' /\ threads >= 2)
  /\ UNCHANGED <<threads, queue, pending, emitted, staged, coder, decoder,
                 caller, overfull>>

\* What the two calls that return packets leave behind.
Returns ==
  /\ overfull' = (overfull \/ Len(queue') = Depth)
  /\ UNCHANGED settings

EncodeInto ==
  /\ \/ EncodeRefused \/ EncodePending \/ EncodeStaged \/ EncodeQueued
     \/ EncodeBatch \/ EncodeHidden \/ EncodeHead
  /\ Returns

FlushInto == Flush /\ Returns

LookaheadNext ==
  \/ EncodeInto
  \/ FlushInto
  \/ ForceKeyFrame \/ SetDeadline \/ ChangeResolution
  \/ SetFrameParallelEncoderThreads \/ SetAutoAltRef

LookaheadSpec == LookaheadInit /\ [][LookaheadNext]_lookaheadVars

\* The caller flushes until nothing is left, and comes back with a larger
\* buffer when told that it is too small.
LookaheadFairSpec == LookaheadSpec /\ WF_lookaheadVars(FlushInto /\ Held' # Held)

-----------------------------------------------------------------------------
(* Properties.                                                              *)

\* Every packet predicts from the picture the decoder holds, as long as no
\* member of a batch refreshes a reference: the clones of a batch, the encoder
\* after it and the hidden ARF never use a reference the decoder does not have.
NoDriftWhileFrozen == ~thawed => drifted = {}

\* Flushing at the end of the stream returns every frame.
FlushDrains == (submitted = MaxFrames) ~> (Held = {})

\* Until a call leaves the queue at its depth the encoder implements the frame
\* queue its callers rely on. Packets that did not fit add to what it holds.
Frames == INSTANCE FrameQueue WITH Capacity <- 2 * Depth, held <- Held, gone <- {}
ImplementsFrameQueue ==
  Frames!QueueInit /\ [][~overfull' => [Frames!QueueNext]_(Frames!queueVars)]_lookaheadVars
=============================================================================
