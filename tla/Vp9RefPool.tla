----------------------------- MODULE Vp9RefPool -----------------------------
(***************************************************************************)
(* The VP9 encoder's pool of reconstruction buffers                        *)
(* (vp9_encoder_ref_pool.go). Reference slots are pointers into the pool,  *)
(* counted by hand; the frame being coded is written straight into a pool  *)
(* buffer; and the clones that code the other frames of a frame parallel   *)
(* batch read the slots they copied, which nobody counts.                  *)
(*                                                                         *)
(* The pool belongs to one goroutine, so an operation is a few steps of    *)
(* its own, taken slot by slot where the code loops, with the clones       *)
(* reading in between. Pixels are abstracted to the picture they show.     *)
(***************************************************************************)
EXTENDS Vp9Slots

CONSTANTS
  NumBuffers,    \* vp9EncoderFrameBufferCount: 12 in the code
  MaxHelpers,    \* clones of a frame parallel batch
  MaxPictures    \* bound of the model: pictures written to the pool

ASSUME PoolAssumption ==
  NumBuffers \in Nat /\ NumBuffers >= Cardinality(Slot) + 2
ASSUME BoundsAssumption == MaxHelpers \in Nat /\ MaxPictures \in Nat

NoBuffer == -1
Buffer == 0..(NumBuffers - 1)
NoPicture == 0
Picture == 1..MaxPictures

VARIABLES
  refCount,      \* pool.refCount
  pixels,        \* the picture each buffer of pool.frames shows
  recon,         \* e.reconPoolIdx
  target,        \* the buffer that e.reconYFull and its siblings belong to
  refBuf,        \* e.refPoolIdx
  own,           \* slots whose pixels are a copy of their own
  valid, holds,  \* e.refValid, and the picture each slot was given
  keyNext,       \* the next frame has to be a key frame
  phase, todo,   \* what the encoder is doing, and the slots left to do
  next,          \* pictures written so far, plus one
  batch,         \* the frame parallel batch: "none", "open", or "done" when
                 \*   its slot 0 has been coded
  helpers, view  \* clones at work, and what the slots were when they began

pool == <<refCount, pixels>>
slots == <<refBuf, own, valid, holds>>
batching == <<batch, helpers, view>>
vars == <<refCount, pixels, recon, target, refBuf, own, valid, holds, keyNext,
          phase, todo, next, batch, helpers, view>>

View == [buf |-> refBuf, own |-> own, valid |-> valid, holds |-> holds]

NoView == [buf |-> [s \in Slot |-> NoBuffer], own |-> {}, valid |-> {},
           holds |-> [s \in Slot |-> NoPicture]]

Init ==
  /\ refCount = [b \in Buffer |-> 0] /\ pixels = [b \in Buffer |-> NoPicture]
  /\ recon = NoBuffer /\ target = NoBuffer
  /\ refBuf = [s \in Slot |-> NoBuffer] /\ own = {}
  /\ valid = {} /\ holds = [s \in Slot |-> NoPicture]
  /\ keyNext = TRUE
  /\ phase = "idle" /\ todo = {}
  /\ next = 1
  /\ batch = "none" /\ helpers = 0 /\ view = NoView

-----------------------------------------------------------------------------
(* Reference counts. Definitions named after another one with a suffix     *)
(* are faulty variants of it, which Next does not use.                     *)

\* Faulty variant of FreeIndex: the search stops one buffer short.
FreeIndexShort(count) ==
  LET free == {b \in Buffer \ {NumBuffers - 1} : count[b] = 0}
  IN IF free = {} THEN NoBuffer
     ELSE CHOOSE b \in free : \A c \in free : b <= c

\* freeIndex: the first buffer nobody counts.
FreeIndex(count) ==
  LET free == {b \in Buffer : count[b] = 0}
  IN IF free = {} THEN NoBuffer
     ELSE CHOOSE b \in free : \A c \in free : b <= c

\* Faulty variant of Released: the count stays, and the buffer is lost.
ReleasedLeaks(count, b) == count

\* Giving up the count of a buffer, if there is one.
Released(count, b) ==
  IF b # NoBuffer /\ count[b] > 0 THEN [count EXCEPT ![b] = @ - 1] ELSE count

\* Faulty variant of SoleOwner: one slot may share the buffer.
SoleOwnerShared == recon # NoBuffer /\ refCount[recon] <= 2

SoleOwner == recon # NoBuffer /\ refCount[recon] = 1

\* prepareVP9EncoderOutputFrame and acquireVP9ReconFrameBuffer: the working
\* buffer is kept if no slot took it, and exchanged for a free one if not;
\* then it is painted over. Without a free buffer the planes stay where they
\* are, and what is coded next is copied out of them.
Prepare ==
  LET released == Released(refCount, recon)
      idx == FreeIndex(released)
  IN
  /\ next <= MaxPictures
  /\ IF SoleOwner THEN UNCHANGED <<refCount, recon, target>>
     ELSE /\ recon' = idx
          /\ refCount' = IF idx = NoBuffer THEN released
                                           ELSE [released EXCEPT ![idx] = 1]
          /\ target' = IF idx = NoBuffer THEN target ELSE idx
  /\ pixels' = [b \in Buffer |-> IF b = target' THEN next ELSE pixels[b]]
  /\ next' = next + 1

-----------------------------------------------------------------------------
(* One frame.                                                              *)

BeginFrame ==
  /\ phase = "idle" /\ batch # "done"
  /\ Prepare
  /\ phase' = "coding"
  /\ UNCHANGED <<slots, keyNext, todo, batching>>

\* resetVP9EncoderCodingState: the frame is coded once more.
Recode ==
  /\ phase = "coding"
  /\ Prepare
  /\ UNCHANGED <<slots, keyNext, phase, todo, batching>>

\* The end of a frame, which is slot 0 of the batch if there is one.
EndFrame == batch' = (IF batch = "open" THEN "done" ELSE batch)

\* The frame fails, is dropped after it was coded, or refreshes nothing.
KeepReferences ==
  /\ phase = "coding"
  /\ phase' = "idle"
  /\ EndFrame
  /\ UNCHANGED <<pool, recon, target, slots, keyNext, todo, next, helpers, view>>

\* refreshVP9EncoderRefs begins: a key frame refreshes all slots. Members of
\* a batch refresh none, but for a key frame that the cadence puts there.
RefreshReferences ==
  /\ phase = "coding"
  /\ phase' = "refreshing"
  /\ todo' \in IF keyNext \/ batch = "open" THEN {Slot} ELSE SUBSET Slot \ {{}}
  /\ UNCHANGED <<pool, recon, target, slots, keyNext, next, batching>>

\* aliasVP9EncoderRefToRecon, or refFrames[slot].store without a working
\* buffer in the pool.
AliasSlot(s) ==
  /\ phase = "refreshing" /\ s \in todo
  /\ IF recon = NoBuffer
       THEN /\ own' = own \cup {s}
            /\ UNCHANGED <<refCount, refBuf>>
       ELSE /\ own' = own \ {s}
            /\ refCount' = [Released(refCount, refBuf[s]) EXCEPT ![recon] = @ + 1]
            /\ refBuf' = [refBuf EXCEPT ![s] = recon]
  /\ valid' = valid \cup {s}
  /\ holds' = [holds EXCEPT ![s] = next - 1]
  /\ todo' = todo \ {s}
  /\ IF todo' = {} THEN phase' = "idle" /\ keyNext' = FALSE /\ EndFrame
                   ELSE UNCHANGED <<phase, keyNext, batch>>
  /\ UNCHANGED <<pixels, recon, target, next, helpers, view>>

-----------------------------------------------------------------------------
(* Between frames.                                                         *)

Between == phase = "idle" /\ batch = "none"

\* SetReferenceFrame, and each reference seedVP9InterLayerReference takes over
\* from the layer below: storeVP9EncoderRefCopy fills a free buffer and only
\* then lets go of the one the slot held.
StoreCopy(s) ==
  LET idx == FreeIndex(refCount)
  IN
  /\ Between /\ next <= MaxPictures
  /\ IF idx = NoBuffer
       THEN /\ own' = own \cup {s}
            /\ UNCHANGED <<refCount, refBuf, pixels>>
       ELSE /\ own' = own \ {s}
            /\ pixels' = [pixels EXCEPT ![idx] = next]
            /\ refCount' = [Released(refCount, refBuf[s]) EXCEPT ![idx] = @ + 1]
            /\ refBuf' = [refBuf EXCEPT ![s] = idx]
  /\ valid' = valid \cup {s}
  /\ holds' = [holds EXCEPT ![s] = next]
  /\ next' = next + 1
  /\ UNCHANGED <<recon, target, keyNext, phase, todo, batching>>

\* applyVP9ResolutionChange begins: all slots become invalid.
ChangeResolution ==
  /\ Between
  /\ phase' = "releasing" /\ todo' = Slot
  /\ keyNext' = TRUE
  /\ UNCHANGED <<pool, recon, target, slots, next, batching>>

\* releaseVP9EncoderRefPoolSlot
ReleaseSlot(s) ==
  /\ phase = "releasing" /\ s \in todo
  /\ refCount' = Released(refCount, refBuf[s])
  /\ refBuf' = [refBuf EXCEPT ![s] = NoBuffer]
  /\ own' = own \ {s} /\ valid' = valid \ {s}
  /\ todo' = todo \ {s}
  /\ phase' = IF todo' = {} THEN "idle" ELSE phase
  /\ UNCHANGED <<pixels, recon, target, holds, keyNext, next, batching>>

-----------------------------------------------------------------------------
(* Frame parallel batches.                                                 *)

\* The helpers are cloned from the encoder, slots and all.
BeginBatch ==
  /\ Between /\ ~keyNext /\ valid # {}
  /\ batch' = "open"
  /\ helpers' \in 1..MaxHelpers
  /\ view' = View
  /\ UNCHANGED <<pool, recon, target, slots, keyNext, phase, todo, next>>

HelperReturns ==
  /\ helpers > 0
  /\ helpers' = helpers - 1
  /\ UNCHANGED <<pool, recon, target, slots, keyNext, phase, todo, next, batch, view>>

\* Faulty variant of EndBatch: nobody waits for the helpers.
EndBatchEarly ==
  /\ phase = "idle" /\ batch = "done"
  /\ batch' = "none"
  /\ valid' = view.valid
  /\ UNCHANGED <<pool, recon, target, refBuf, own, holds, keyNext, phase, todo,
                 next, helpers, view>>

\* scheduler.wg.Wait and the restored snapshot.
EndBatch ==
  /\ phase = "idle" /\ batch = "done" /\ helpers = 0
  /\ batch' = "none"
  /\ valid' = view.valid /\ view' = NoView
  /\ UNCHANGED <<pool, recon, target, refBuf, own, holds, keyNext, phase, todo,
                 next, helpers>>

\* The encoder is closed, for the model.
Done == phase = "idle" /\ next > MaxPictures /\ UNCHANGED vars

Next ==
  \/ BeginFrame \/ Recode \/ KeepReferences \/ RefreshReferences
  \/ ChangeResolution
  \/ \E s \in Slot : AliasSlot(s) \/ StoreCopy(s) \/ ReleaseSlot(s)
  \/ BeginBatch \/ HelperReturns \/ EndBatch
  \/ Done

Spec == Init /\ [][Next]_vars

-----------------------------------------------------------------------------
(* Properties.                                                             *)

TypeOK ==
  /\ refCount \in [Buffer -> Int] /\ pixels \in [Buffer -> Picture \cup {NoPicture}]
  /\ recon \in Buffer \cup {NoBuffer} /\ target \in Buffer \cup {NoBuffer}
  /\ refBuf \in [Slot -> Buffer \cup {NoBuffer}]
  /\ own \subseteq Slot /\ valid \subseteq Slot /\ todo \subseteq Slot
  /\ holds \in [Slot -> Picture \cup {NoPicture}]
  /\ keyNext \in BOOLEAN
  /\ phase \in {"idle", "coding", "refreshing", "releasing"}
  /\ next \in 1..(MaxPictures + 1)
  /\ batch \in {"none", "open", "done"} /\ helpers \in 0..MaxHelpers

Owners(b) == {s \in Slot : refBuf[s] = b}

\* No count is ever lost or taken twice: a buffer's count is the number of
\* slots that point to it, and one more for the buffer being written. The
\* shortcut of acquireVP9ReconFrameBuffer (count one: sole owner) relies on it.
CountsExact ==
  \A b \in Buffer :
    refCount[b] = Cardinality(Owners(b)) + (IF recon = b THEN 1 ELSE 0)

\* A slot shows the picture it was given for as long as it is valid: the frame
\* being coded is never written into a buffer that a live reference aliases.
ReferencesIntact ==
  \A s \in valid \ own : pixels[refBuf[s]] = holds[s]

\* The pool never runs dry: a frame always finds a buffer, and no reference
\* falls back to a copy of its own (acquireVP9ReconFrameBuffer, "Cannot happen
\* with FRAME_BUFFERS = REF_FRAMES + 1 + REFS_PER_FRAME").
PoolSuffices ==
  /\ phase \in {"coding", "refreshing"} => recon # NoBuffer
  /\ own = {}

\* Helpers see the references they were cloned with until they return, though
\* the pool does not count them.
HelpersReadIntact ==
  helpers > 0 =>
    \A s \in view.valid \ view.own : pixels[view.buf[s]] = view.holds[s]
=============================================================================
