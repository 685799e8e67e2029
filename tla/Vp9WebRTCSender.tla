-------------------------- MODULE Vp9WebRTCSender --------------------------
(***************************************************************************)
(* A WebRTC sender of one VP9 stream: the encoder's references and         *)
(* temporal layers, VP9WebRTCPacketizer (vp9_webrtc_packetizer.go,         *)
(* vp9_webrtc_packetizer_flexible.go), the sending loop around them        *)
(* (examples/webrtc-vp9/main.go), and two receivers: one that gets every   *)
(* access unit sent, and one behind a forwarder that thins out temporal    *)
(* layers.                                                                 *)
(*                                                                         *)
(* An access unit is encoded, sized, packetized and sent, in this order,   *)
(* and each step may be where it ends. Frames are numbered in the order    *)
(* they are given to the encoder. What rate control, the input and the     *)
(* network decide is a choice: drops, key frames, failures.                *)
(***************************************************************************)
EXTENDS TemporalLayers

CONSTANTS
  StreamModes,    \* temporal patterns to be looked at
  FlexibleChoices,\* packetizing with explicit references, or with TL0PICIDX
  HeedsChoices,   \* whether the application asks for the key frames needed
  InitialId,      \* picture id the packetizer starts with
  IdMod,          \* picture ids: 2^15 in the code
  MaxDiff,        \* oldest picture a descriptor can refer to: 127 in the code
  MaxFrames,      \* bound of the model: frames given to the encoder
  MaxFaults       \* bound of the model: drops, failures and requests

ASSUME IdAssumption ==
  /\ IdMod \in Nat \ {0} /\ InitialId \in 0..(IdMod - 1)
  /\ MaxDiff \in Nat /\ MaxDiff < IdMod
ASSUME BoundsAssumption ==
  /\ StreamModes \subseteq Modes
  /\ FlexibleChoices \subseteq BOOLEAN /\ HeedsChoices \subseteq BOOLEAN
  /\ MaxFrames \in Nat /\ MaxFaults \in Nat

NoFrame == 0
Frame == 1..MaxFrames

VARIABLES
  flexible,       \* which family of packetizing methods the sender uses
  heeds,          \* whether forceKey and NeedsKeyFrame reach the encoder, as
                  \*   in the example, or the packetizer is on its own
  t,              \* e.temporal
  encRef,         \* the frame each of the encoder's references holds
  frames,         \* e.frameIndex: frames given to the encoder
  forceKey,       \* ctl.forceKey
  pk,             \* the packetizer
  au, stage,      \* the access unit in hand, and how far it has come
  desc,           \* its RTP descriptor, once packetized
  rxRef,          \* the frames the receiver's references hold
  rxTl0,          \* TL0PICIDX of the last base layer frame it received
  level, thinRef, \* highest layer forwarded to the second receiver, and the
                  \*   frames its references hold
  faults          \* drops, failures and requests so far

options == <<flexible, heeds>>
encoder == <<t, encRef, frames>>
receivers == <<rxRef, rxTl0, level, thinRef>>
vars == <<flexible, heeds, t, encRef, frames, forceKey, pk, au, stage, desc,
          rxRef, rxTl0, level, thinRef, faults>>

NoAu == [frame |-> NoFrame, dropped |-> FALSE, key |-> FALSE, layer |-> 0,
         sync |-> FALSE, tl0 |-> 0, refs |-> {}, used |-> [s \in Slot |-> NoFrame],
         refresh |-> {}]
NoDesc == [id |-> 0, tl0 |-> 0, diffs |-> {}]
Stages == {"idle", "encoded", "sized", "packed"}
Empty == [s \in Slot |-> NoFrame]
Layers == TopLayer(t.mode) + 1

Init ==
  /\ flexible \in FlexibleChoices /\ heeds \in HeedsChoices
  /\ t \in {Configured(m) : m \in StreamModes}
  /\ encRef = Empty /\ frames = 0 /\ forceKey = FALSE
  /\ pk = [id |-> InitialId, tl0 |-> 0, drop |-> NoAu, key |-> FALSE,
           valid |-> {}, refId |-> [s \in Slot |-> 0]]
  /\ au = NoAu /\ stage = "idle" /\ desc = NoDesc
  /\ rxRef = Empty /\ rxTl0 = 0
  /\ level = TopLayer(t.mode) /\ thinRef = Empty
  /\ faults = 0

Fault == faults < MaxFaults /\ faults' = faults + 1
Goto(from, to) == stage = from /\ stage' = to

-----------------------------------------------------------------------------
(* The encoder. Definitions named after another one with a suffix are      *)
(* faulty variants of it, which Next does not use.                         *)

\* vp9InterReferenceMaskForFrame: unless the pattern restricts references,
\* those that hold the same picture as another one are left out.
Referenced(meta) ==
  IF meta.noRef # {} THEN Slot \ meta.noRef
  ELSE Slot \ ((IF encRef["golden"] = encRef["last"] THEN G ELSE {}) \cup
               (IF encRef["altref"] \in {encRef["last"], encRef["golden"]}
                  THEN A ELSE {}))

\* vp9InterRefreshFrameFlags: what the pattern says, or LAST, and GOLDEN if
\* rate control wants it.
Refreshes(meta) == IF meta.noUpd # {} THEN {Slot \ meta.noUpd} ELSE {L, LG}

KeyFrameNext(meta) ==
  meta.key \/ frames = 0 \/ (heeds /\ (forceKey \/ pk.key))

\* EncodeIntoWithResult: a frame rate control drops, before or after it was
\* coded. Key frames are never dropped.
EncodeDropped ==
  LET meta == NextFrame(t)
  IN
  /\ frames < MaxFrames /\ ~KeyFrameNext(meta)
  /\ Fault
  /\ Goto("idle", "encoded")
  /\ t' = FinishDroppedFrame(t)
  /\ frames' = frames + 1
  /\ au' = [NoAu EXCEPT !.frame = frames + 1, !.dropped = TRUE,
                        !.layer = meta.layer, !.sync = meta.sync, !.tl0 = meta.tl0]
  /\ UNCHANGED <<options, encRef, forceKey, pk, desc, receivers>>

EncodeInter ==
  LET meta == NextFrame(t)
  IN
  /\ frames < MaxFrames /\ ~KeyFrameNext(meta)
  /\ Goto("idle", "encoded")
  /\ frames' = frames + 1
  /\ \E refresh \in Refreshes(meta) :
       /\ t' = FinishFrame(t, meta, FALSE, refresh)
       /\ encRef' = [s \in Slot |-> IF s \in refresh THEN frames + 1
                                                    ELSE encRef[s]]
       /\ au' = [frame |-> frames + 1, dropped |-> FALSE, key |-> FALSE,
                 layer |-> meta.layer, sync |-> meta.sync, tl0 |-> meta.tl0,
                 refs |-> Referenced(meta), used |-> encRef, refresh |-> refresh]
  /\ UNCHANGED <<options, forceKey, pk, desc, receivers, faults>>

\* A key frame, asked for (consumeForceKeyForWebRTCAccessUnit) or not: the
\* cadence and the scene cut detection ask for them too.
EncodeKey ==
  LET meta == KeyFrameMeta(t, NextFrame(t))
  IN
  /\ frames < MaxFrames
  /\ \/ KeyFrameNext(NextFrame(t)) /\ UNCHANGED faults
     \/ ~KeyFrameNext(NextFrame(t)) /\ Fault
  /\ Goto("idle", "encoded")
  /\ frames' = frames + 1
  /\ t' = RestartAfterKeyFrame(FinishFrame(t, meta, TRUE, Slot))
  /\ encRef' = [s \in Slot |-> frames + 1]
  /\ au' = [frame |-> frames + 1, dropped |-> FALSE, key |-> TRUE,
            layer |-> meta.layer, sync |-> meta.sync, tl0 |-> meta.tl0,
            refs |-> {}, used |-> encRef, refresh |-> Slot]
  /\ forceKey' = FALSE
  /\ UNCHANGED <<options, pk, desc, receivers>>

\* EncodeIntoWithResult fails, and requestKeyFrameAfterFailedAccessUnit.
EncodeFails ==
  /\ stage = "idle" /\ frames < MaxFrames
  /\ Fault
  /\ forceKey' = TRUE
  /\ UNCHANGED <<options, encoder, pk, au, stage, desc, receivers>>

\* A receiver or the user asks for a key frame, at any time.
RequestKeyFrame ==
  /\ ~forceKey
  /\ Fault
  /\ forceKey' = TRUE
  /\ UNCHANGED <<options, encoder, pk, au, stage, desc, receivers>>

-----------------------------------------------------------------------------
(* The packetizer: operators that take its state to the next.              *)

NextId(id) == (id + 1) % IdMod

\* vp9WebRTCDroppedFrameNeedsKeyFrame: with one layer every drop does, else
\* those below the top layer.
DroppedNeedsKeyFrame(a) == Layers = 1 \/ a.layer < Layers - 1

\* Faulty variant of ConsumeDropped: a drop handed over again counts again.
ConsumeDroppedAgain(p, a) ==
  [p EXCEPT !.drop = a, !.key = @ \/ DroppedNeedsKeyFrame(a), !.id = NextId(@)]

\* consumeDroppedFrame: a drop takes its picture id the first time it is
\* handed over; drop stands for consumedDropPending and its signature.
ConsumeDropped(p, a) ==
  IF p.drop = a THEN p
  ELSE [p EXCEPT !.drop = a, !.key = @ \/ DroppedNeedsKeyFrame(a),
                 !.id = NextId(@)]

\* requireVP9RecoveryKey
Admissible(p, a) == ~p.key \/ a.key

Diff(p, s) == (p.id - p.refId[s]) % IdMod

\* flexibleReferenceDiffs finds a reference it can express for each one used.
Expressible(p, a) ==
  flexible /\ ~a.key =>
    /\ a.refs # {}
    /\ \A s \in a.refs : s \in p.valid /\ Diff(p, s) \in 1..MaxDiff

Diffs(p, a) == IF flexible /\ ~a.key THEN {Diff(p, s) : s \in a.refs} ELSE {}

\* Faulty variant of Unsent: the next frame need not be a key frame.
UnsentForgets(p) == [p EXCEPT !.drop = NoAu]

\* MarkAccessUnitUnsent
Unsent(p) == [p EXCEPT !.drop = NoAu, !.key = TRUE]

\* MarkEncodedAccessUnitUnsent
EncodedUnsent(p) == [Unsent(p) EXCEPT !.id = NextId(@)]

\* Faulty variant of Packetized: the references a key frame replaces beyond
\* its own mask are not recorded.
PacketizedKeepsOld(p, a) ==
  [p EXCEPT !.drop = NoAu, !.key = FALSE, !.id = NextId(@),
            !.tl0 = IF flexible \/ Layers > 1 THEN @ ELSE (@ + 1) % Tl0Mod,
            !.valid = @ \cup a.refresh,
            !.refId = [s \in Slot |-> IF s \in a.refresh \ A THEN p.id ELSE @[s]]]

\* PacketizeInto and PacketizeWebRTCNonFlexibleInto on success: the key frame
\* has come, the references are recorded, the ids move on.
Packetized(p, a) ==
  [p EXCEPT !.drop = NoAu, !.key = FALSE, !.id = NextId(@),
            !.tl0 = IF flexible \/ Layers > 1 THEN @ ELSE (@ + 1) % Tl0Mod,
            !.valid = @ \cup a.refresh,
            !.refId = [s \in Slot |-> IF s \in a.refresh THEN p.id ELSE @[s]]]

\* The TL0PICIDX a non-flexible descriptor carries.
DescriptorTl0(p, a) == IF Layers = 1 THEN p.tl0 ELSE a.tl0

-----------------------------------------------------------------------------
(* The sending loop.                                                       *)

\* The size query of a dropped frame: nothing is sent, and a key frame is
\* asked for if the receiver needs one. A caller may also hand the same
\* result to the packetizer once more.
HandDropped ==
  /\ stage = "encoded" /\ au.dropped
  /\ pk' = ConsumeDropped(pk, au)
  /\ \/ stage' = "idle" /\ au' = NoAu /\ forceKey' = (forceKey \/ pk'.key)
     \/ UNCHANGED <<stage, au, forceKey>>
  /\ UNCHANGED <<options, encoder, desc, receivers, faults>>

\* requestKeyFrameAfterFailedEncodedAccessUnit
GiveUp == pk' = EncodedUnsent(pk) /\ forceKey' = TRUE /\ stage' = "idle" /\ au' = NoAu

\* PacketizationSize and WebRTCNonFlexiblePacketizationSize.
Size ==
  /\ Goto("encoded", "sized") /\ ~au.dropped
  /\ Admissible(pk, au) /\ Expressible(pk, au)
  /\ pk' = [pk EXCEPT !.drop = NoAu]
  /\ UNCHANGED <<options, encoder, forceKey, au, desc, receivers, faults>>

\* The packetizer waits for a key frame, cannot express a reference, or fails
\* for another reason (Fault), in the size query or after it.
PacketizeFails ==
  /\ stage \in {"encoded", "sized"} /\ ~au.dropped
  /\ \/ ~(Admissible(pk, au) /\ Expressible(pk, au)) /\ UNCHANGED faults
     \/ Fault
  /\ GiveUp
  /\ UNCHANGED <<options, encoder, desc, receivers>>

Packetize ==
  /\ Goto("sized", "packed")
  /\ Admissible(pk, au) /\ Expressible(pk, au)
  /\ desc' = [id |-> pk.id, tl0 |-> DescriptorTl0(pk, au), diffs |-> Diffs(pk, au)]
  /\ pk' = Packetized(pk, au)
  /\ UNCHANGED <<options, encoder, forceKey, au, receivers, faults>>

\* The access unit is held back, or only part of its packets is written, so
\* that no receiver can use it: requestKeyFrameAfterUnsentAccessUnit.
Withhold ==
  /\ Goto("packed", "idle")
  /\ Fault
  /\ pk' = Unsent(pk)
  /\ forceKey' = TRUE
  /\ au' = NoAu /\ desc' = NoDesc
  /\ UNCHANGED <<options, encoder, receivers>>

\* The forwarder of the second receiver takes it up one layer at a frame
\* marked as a switching point, to any layer at a key frame, and down at
\* any time.
NextLevels ==
  IF au.key THEN 0..TopLayer(t.mode)
  ELSE 0..level \cup (IF au.sync /\ au.layer = level + 1 THEN {au.layer} ELSE {})

Store(ref) == [s \in Slot |-> IF s \in au.refresh THEN au.frame ELSE ref[s]]

Send ==
  /\ Goto("packed", "idle")
  /\ rxRef' = Store(rxRef)
  /\ rxTl0' = IF au.layer = 0 THEN desc.tl0 ELSE rxTl0
  /\ level' \in NextLevels
  /\ thinRef' = IF au.layer <= level' THEN Store(thinRef) ELSE thinRef
  /\ au' = NoAu /\ desc' = NoDesc
  /\ UNCHANGED <<options, encoder, forceKey, pk, faults>>

\* The stream ends, for the model.
Done == stage = "idle" /\ frames = MaxFrames /\ UNCHANGED vars

Next ==
  \/ EncodeDropped \/ EncodeInter \/ EncodeKey \/ EncodeFails \/ RequestKeyFrame
  \/ HandDropped \/ Size \/ PacketizeFails \/ Packetize \/ Withhold \/ Send
  \/ Done

Spec == Init /\ [][Next]_vars

-----------------------------------------------------------------------------
(* Properties.                                                             *)

Ids == 0..(IdMod - 1)
TypeOK ==
  /\ flexible \in BOOLEAN /\ heeds \in BOOLEAN /\ forceKey \in BOOLEAN
  /\ t.mode \in Modes
  /\ encRef \in [Slot -> Frame \cup {NoFrame}]
  /\ frames \in 0..MaxFrames /\ faults \in 0..MaxFaults
  /\ pk.id \in Ids /\ pk.key \in BOOLEAN
  /\ pk.valid \subseteq Slot /\ pk.refId \in [Slot -> Ids]
  /\ stage \in Stages
  /\ rxRef \in [Slot -> Frame \cup {NoFrame}]
  /\ thinRef \in [Slot -> Frame \cup {NoFrame}]

Inter == stage = "packed" /\ ~au.key

\* An access unit that is about to be sent refers only to pictures that were
\* sent: after a drop, an access unit held back or a failure, nothing goes out
\* but a key frame (NeedsKeyFrame, requireVP9RecoveryKey).
SentIsDecodable == Inter => \A s \in au.refs : rxRef[s] = au.used[s]

\* A receiver that gets only the frames of the lower temporal layers, and goes
\* up a layer only at frames marked TemporalLayerSync, can decode all it gets,
\* for every pattern of temporal.go.
LayersDecodable ==
  Inter /\ (au.layer <= level \/ (au.sync /\ au.layer = level + 1)) =>
    \A s \in au.refs : thinRef[s] = au.used[s]

\* Each frame given to the encoder takes one picture id, whether it is sent,
\* dropped, refused or held back, and however often a drop is handed over, so
\* that ids stay aligned with the encoder's frames.
IdOf(n) == (InitialId + n - 1) % IdMod
PictureIdsAligned ==
  /\ stage = "idle" => pk.id = IdOf(frames + 1)
  /\ stage = "packed" => desc.id = IdOf(au.frame)

\* A descriptor says what the encoder did. In flexible mode it lists exactly the
\* pictures the frame was predicted from. In the other mode a receiver finds no
\* gap in TL0PICIDX: a base layer frame continues the count of the frames sent
\* before it, and a frame of a higher layer names the one it builds on.
DescriptorMatchesFrame ==
  Inter =>
    IF flexible
      THEN {(desc.id - d) % IdMod : d \in desc.diffs} = {IdOf(au.used[s]) : s \in au.refs}
      ELSE desc.tl0 = IF au.layer = 0 THEN (rxTl0 + 1) % Tl0Mod ELSE rxTl0
=============================================================================
