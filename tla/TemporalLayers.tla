--------------------------- MODULE TemporalLayers ---------------------------
(***************************************************************************)
(* Temporal scalability (temporal.go): the layer of each frame, the        *)
(* references it may use and refresh, the sync mark, and TL0PICIDX. The    *)
(* state of temporalState passes through as a record, so that an encoder   *)
(* can take it as part of one call. Bitrates and buffer levels of the      *)
(* layers, which influence only rate control, are left out.                *)
(***************************************************************************)
EXTENDS Integers, Sequences

Slot == {"last", "golden", "altref"}

\* A frame of a pattern: references it must not use, references it must not
\* refresh, and whether the pattern asks for a key frame.
Flag(noRef, noUpd) == [noRef |-> noRef, noUpd |-> noUpd, key |-> FALSE]
KeyFlag(noRef, noUpd) == [noRef |-> noRef, noUpd |-> noUpd, key |-> TRUE]

L  == {"last"}
G  == {"golden"}
A  == {"altref"}
LG == L \cup G
LA == L \cup A
GA == G \cup A
None == {}

ThreeIds == <<0, 2, 1, 2>>

\* temporalLayeringPattern: layer ids and flags, each with its own period.
\* Disabled stands for a stream without temporal scalability.
Pattern ==
  [Disabled |->
     [ids |-> <<0>>, flags |-> <<Flag(None, None)>>],
   OneLayer |->
     [ids |-> <<0>>, flags |-> <<KeyFlag(None, GA)>>],
   TwoLayers |->
     [ids |-> <<0, 1>>, flags |-> <<KeyFlag(GA, GA), Flag(A, LA)>>],
   TwoLayersThreeFrame |->
     [ids |-> <<0, 1, 1>>,
      flags |-> <<KeyFlag(GA, GA), Flag(GA, LA), Flag(GA, LA)>>],
   ThreeLayersSixFrame |->
     [ids |-> <<0, 2, 2, 1, 2, 2>>,
      flags |-> <<KeyFlag(GA, GA), Flag(None, LG), Flag(None, LG), Flag(A, LA),
                  Flag(None, LG), Flag(None, LG)>>],
   ThreeLayersNoInterLayerPrediction |->
     [ids |-> ThreeIds,
      flags |-> <<KeyFlag(GA, GA), Flag(A, Slot), Flag(GA, LA), Flag(A, Slot)>>],
   ThreeLayersLayerOnePrediction |->
     [ids |-> ThreeIds,
      flags |-> <<KeyFlag(GA, GA), Flag(A, Slot), Flag(A, LA), Flag(A, Slot)>>],
   ThreeLayers |->
     [ids |-> ThreeIds,
      flags |-> <<KeyFlag(GA, GA), Flag(None, LG), Flag(A, LA), Flag(None, LG)>>],
   FiveLayers |->
     [ids |-> <<0, 4, 3, 4, 2, 4, 3, 4, 1, 4, 3, 4, 2, 4, 3, 4>>,
      flags |-> <<KeyFlag(None, None), Flag(None, Slot), Flag(None, GA),
                  Flag(None, Slot), Flag(L, A), Flag(None, Slot),
                  Flag(None, GA), Flag(None, Slot), Flag(LG, None),
                  Flag(None, Slot), Flag(None, GA), Flag(None, Slot),
                  Flag(L, A), Flag(None, Slot), Flag(None, GA),
                  Flag(None, Slot)>>],
   TwoLayersWithSync |->
     [ids |-> <<0, 1>>,
      flags |-> <<KeyFlag(G, A), Flag(G, LA), Flag(G, GA), Flag(None, LA),
                  Flag(G, GA), Flag(None, LA), Flag(G, GA), Flag(None, LA)>>],
   ThreeLayersWithSync |->
     [ids |-> ThreeIds,
      flags |-> <<KeyFlag(GA, GA), Flag(GA, LG), Flag(GA, LA), Flag(None, LG),
                  Flag(GA, GA), Flag(None, LG), Flag(A, LA), Flag(None, Slot)>>],
   ThreeLayersAltRefWithSync |->
     [ids |-> ThreeIds,
      flags |-> <<KeyFlag(G, A), Flag(G, Slot), Flag(G, LA), Flag(None, Slot),
                  Flag(G, GA), Flag(None, Slot), Flag(None, LA),
                  Flag(None, Slot)>>],
   ThreeLayersOneReference |->
     [ids |-> ThreeIds,
      flags |-> <<Flag(GA, GA), Flag(GA, LG), Flag(GA, LA), Flag(LA, LG)>>],
   ThreeLayersNoSync |->
     [ids |-> ThreeIds,
      flags |-> <<Flag(G, GA), Flag(None, Slot), Flag(None, LA),
                  Flag(None, Slot), Flag(G, GA), Flag(None, Slot),
                  Flag(None, LA), Flag(None, Slot)>>]]

Modes == DOMAIN Pattern
LayerIds(mode) == {Pattern[mode].ids[i] : i \in DOMAIN Pattern[mode].ids}
TopLayer(mode) == CHOOSE l \in LayerIds(mode) : \A k \in LayerIds(mode) : k <= l

\* configure
Configured(mode) ==
  [mode |-> mode, frameIndex |-> 0, tl0 |-> 0, tl0Valid |-> FALSE,
   refLayer |-> [s \in Slot |-> 0]]

\* TL0PICIDX of a base layer frame that comes next; uint8 in the code.
Tl0Mod == 256
NextTl0(t) ==
  IF t.mode # "Disabled" /\ t.tl0Valid THEN (t.tl0 + 1) % Tl0Mod ELSE 0

\* Faulty variant of LayerSync: only the layer of LAST is looked at.
LayerSyncLastOnly(t, layer, noRef) ==
  layer > 0 /\ ("last" \notin noRef => t.refLayer["last"] < layer)

\* layerSync: no reference the frame may use belongs to its own layer or a
\* higher one.
LayerSync(t, layer, noRef) ==
  layer > 0 /\ \A s \in Slot \ noRef : t.refLayer[s] < layer

\* nextFrame: what the encoder is told about the next frame. A pattern asks
\* for a key frame only as its first frame, except FiveLayers, which asks
\* for one every period.
NextFrame(t) ==
  LET p == Pattern[t.mode]
      layer == p.ids[(t.frameIndex % Len(p.ids)) + 1]
      flag == p.flags[(t.frameIndex % Len(p.flags)) + 1]
  IN [layer |-> layer,
      noRef |-> flag.noRef,
      noUpd |-> flag.noUpd,
      key   |-> flag.key /\ (t.mode = "FiveLayers" \/ t.frameIndex = 0),
      tl0   |-> IF layer = 0 THEN NextTl0(t) ELSE t.tl0,
      sync  |-> LayerSync(t, layer, flag.noRef)]

\* keyFrameMeta: a key frame belongs to the base layer wherever it falls.
KeyFrameMeta(t, meta) ==
  [meta EXCEPT !.layer = 0, !.sync = FALSE, !.tl0 = NextTl0(t)]

\* Faulty variant of FinishFrame: a key frame leaves the layers of the
\* references as they were.
FinishFrameKeepsLayers(t, meta, key, refresh) ==
  [t EXCEPT !.refLayer = [s \in Slot |-> IF s \in refresh /\ ~key THEN meta.layer
                                        ELSE @[s]],
            !.tl0 = IF meta.layer = 0 THEN meta.tl0 ELSE @,
            !.tl0Valid = @ \/ meta.layer = 0,
            !.frameIndex = @ + 1]

\* finishFrame: refresh is the set of references the frame replaced.
FinishFrame(t, meta, key, refresh) ==
  [t EXCEPT !.refLayer = [s \in Slot |-> IF key THEN 0
                                        ELSE IF s \in refresh THEN meta.layer
                                        ELSE @[s]],
            !.tl0 = IF meta.layer = 0 THEN meta.tl0 ELSE @,
            !.tl0Valid = @ \/ meta.layer = 0,
            !.frameIndex = @ + 1]

\* finishDroppedFrame
FinishDroppedFrame(t) == [t EXCEPT !.frameIndex = @ + 1]

\* restartAfterKeyFrame: the pattern starts over behind its first frame.
RestartAfterKeyFrame(t) == [t EXCEPT !.frameIndex = 1]
=============================================================================
