# govpx: TLA+ models, checks and proofs

govpx is a VP8 and VP9 encoder and decoder in Go. Most of its source is numeric
(transforms, prediction, mode decision, entropy coding) and is tested bit for
bit against libvpx. What those tests reach badly is the rest: goroutines that
share a frame through atomic counters, queues between the caller's frames and
the packets it gets back, reference buffers counted and aliased by hand, an
encoder and a decoder that must stay in step over a bad channel, and the paths
on which one of several steps fails. This directory models those parts in TLA+,
checks the models with TLC on small instances, and proves the safety properties
that matter most with TLAPS.

Source paths are relative to the repository. `PROJECT.json` holds the exact
lines each definition models, the faulty variant each property is validated
against, the hazards and the findings.

## 1. Inventory

| Component | Source | State | What is hard | Modelled by |
|---|---|---|---|---|
| VP9 decoder tile worker pool | `vp9_decoder_threading.go` 486-694, 899-962, 1003-1113 | job records, epochs, parked flags, wake tokens | lock-free hand-over, spinning and parking, frames with fewer tiles than helpers | `Vp9TilePool` |
| VP9 decoder row multi-threading | `vp9_decoder_threading.go` 155-479, `vp9_decoder_rowmt_modes.go`, `vp9_encoder_lf_workers.go` | job FIFO, reconstruction map, filter progress | three kinds of jobs that wait for each other, failure of one job | `Vp9RowMT`, `Vp9FrameOrder` |
| VP8 encoder row workers | `vp8_encoder_row_threaded.go`, `vp8_encoder_row_worker.go`, `vp8_encoder_lf_pick_threaded.go` | row progress, abort flag, shared token contexts; start channels, done counter, job | wavefront on atomics, partial frames on errors, several kinds of jobs on one handshake | `Vp8RowWavefront`, `Vp8RowPool` |
| VP8 decoder row pipeline | `internal/vp8/decoder/threading.go` | one progress counter and one error flag, pooled between frames | stages two rows apart, stale pooled state | `Vp8DecPipeline` |
| VP8 encoder lookahead and ARF driver | `vp8_encoder_lookahead.go`, `vp8_encoder_altref_driver.go`, `vp8_encoder_reference_controls.go` | ring, one-frame stash, ARF schedule, deferred reference replacements | a call that queues, peeks, pops and stashes, each of which may fail | `Vp8Lookahead`, `FrameQueue` |
| VP9 encoder lookahead, ARF and frame-parallel batches | `vp9_lookahead.go`, `vp9_encoder_frame_parallel.go` | ring, pending visible frame, staged packets, reference versions | batches on cloned encoders, packets larger than the buffer, settings changed in between | `Vp9Lookahead`, `FrameQueue` |
| VP9 encoder tile and row workers | `vp9_encoder_tile_workers.go`, `vp9_encoder_row_workers.go`, `vp9_encoder_lf_workers.go` | launch and completion tokens, row claims, row progress, preparation barrier | nested pools, a spinning wavefront, clones of an encoder that is about to write, replay of recorded tokens | `Vp9EncWorkers` |
| VP9 encoder reference pool | `vp9_encoder_ref_pool.go` | reference counts of twelve buffers | aliases counted by hand, clones nobody counts, failed and repeated frames | `Vp9RefPool`, `Vp9Codec` |
| VP8 encoder reference buffers and entropy | `vp8_encoder_reference_buffers.go`, `..._reference_controls.go`, `..._reference_decisions.go`, `vp8_encoder_entropy.go`, `vp8_encoder_frame.go` | LAST, GOLDEN, ALTREF, alias flags, tables with a roll-back, flags that wait for a packet | drops and failures between arming a flag and the packet that carries it | `Vp8Refs`, `Vp8EncRefs`, `Vp8Codec` |
| VP8 decoder state, error concealment | `vp8_decoder.go`, `internal/vp8/decoder/` | references, tables, need-key and concealment state | missing, damaged and refused packets | `Vp8DecState`, `Vp8Codec` |
| VP9 decoder frame storage | `vp9_decoder.go`, `vp9_reference_controls.go` | eight slots, leases on twelve frames or on lent buffers, the picture on show | aliases counted by hand, pictures on show while references move on, failed and concealed frames | `Vp9DecFrames`, `Vp9Codec` |
| VP9 WebRTC packetizer | `vp9_webrtc_packetizer*.go`, `examples/webrtc-vp9/main.go` | picture id, recovery-key flag, reference tracker | access units dropped, held back, refused or handed over twice | `Vp9WebRTCSender` |
| Temporal layers | `temporal.go` | frame counter, layer ids, TL0PICIDX, switching points | thirteen patterns, key frames and drops in the middle of one | `TemporalLayers` |
| VP9 decoder loop-filter pool, buffer-per-tile schedule | `vp9_decoder_threading.go`, `vp9_decoder_loopfilter.go` | start and done channels | shutdown, schedules that change with the frame | planned |
| VP9 spatial SVC, multi-resolution | `vp9_spatial_svc.go`, `vp9_multi_resolution.go` | one encoder per layer | layers that fail in the middle of a superframe | planned |
| RTP payloads, superframes | `internal/vpx/rtp`, `internal/vp8/rtp`, `internal/vp9/rtp`, `internal/vp9/bitstream/superframe.go` | none | sizes at the boundary | planned, as functions |
| Rate control | `vp8_ratecontrol*.go`, `vp9_ratecontrol*.go`, `internal/vpx/ratecontrol` | bit budgets | arithmetic | not planned: numeric |
| Entropy coding, DSP, mode decision | `internal/vpx/arith`, `internal/vp8`, `internal/vp9` | none | bit-exactness | not planned: numeric |
| IVF, oracle, commands, benchmarks | `internal/vpx/ivf`, `internal/coracle`, `cmd`, `benchmarks` | none | - | not planned |

How they interact. An encoder call (`EncodeInto`, `FlushInto`) first passes
through its lookahead, which decides which frame, if any, is encoded; the frame
is then encoded by the row, tile or batch workers, which the call starts and
joins, out of and into reference buffers; its packet may be handed to a
packetizer, which numbers it. A decoder call (`Decode`) parses a frame header,
runs the tile pool, the row multi-threading or the VP8 pipeline, joins them, and
refreshes its references. So every worker component is alive within one call,
with three exceptions, and all are modelled: the helpers of the VP9 tile pool
outlive the frame, and so can be late for the next one; those of the VP8 row
pool do so too, between the jobs of one frame; and the state of the VP8 pipeline
comes from a `sync.Pool`.

What makes each component correct:

- a worker never reads what has not been written yet, and never sees what has
  been overwritten (the order of rows, columns and filter passes);
- the call returns, also when a step fails, and reports the failure of the step
  that failed, and only then;
- frames leave an encoder in the order they entered it, each once, and none is
  lost or duplicated by a hidden frame, a batch, a refused or a failing call;
- encoder and decoder agree on what every reference buffer and entropy table
  holds, and the application is told when they may not;
- a buffer that somebody still reads is never written, and one is always free;
- what is sent can be decoded by a receiver of everything that was sent, and by
  one that is sent only some of the layers.

## 2. The modules

Every worker module has one action per atomic operation, channel operation or
wait, with the plain computation between two of them as one more action or as
part of the operation that publishes it. Every module of an API has one action
per outcome of a call. Names follow the source. Definitions that carry another
definition's name with a suffix (for example `RecheckSkipped`) are faulty
variants: plausible slips, never part of `Next`, against which a property is
shown to be able to fail.

### Goroutines

**Vp9TilePool.** `Helper`s run `workerLoop` and `parkHelperWorker` (`Poll`,
`LoadActive`, `Run`, `StoreDone`, `Idle`, `Park`, `Recheck`, `Wakeup`,
`WakeupExit`, `Unpark`). The decoding goroutine runs
`runVP9DecoderScheduledTileJobs` (`BeginFrame`, `PrepareJob`, `StoreActive`,
`AddEpoch`, `WakeHelper`, `WaitHelper`, `Merge`) and `shutdown`
(`CloseShutdown`, `WaitExit`). The load of `jobEpoch` and that of
`activeHelpers` are separate steps because the code has two atomic loads. The
frame's tile columns are a free choice each time; a tile is corrupt or not.
`AfterRun` is what `job.run()` leaves behind, the second run of a job whose
descriptors are already consumed included. A blocked wait is a disabled action;
a spin that changes nothing is not a step.

**Vp9RowMT** is one frame of `runVP9DecoderMultiTileRowMTJobs`, or of the
one-tile path when the frame has one tile column (`tileCols`, a choice of the
initial state). Workers `Dequeue` PARSE, RECON and LPF jobs. `Parse` and
`QueueParse` are `runRowMTParse`; `Reconstruct`, `TileRowDone`, `QueueLpfAbove`,
`QueueLpfLast`, `ReconWrite` and `TileDone` are a row of reconstruction with
`queueLoopFilterJobs`; `Filter` is a superblock of the filter wavefront of
`vp9LfSync`, and `PrepareFails` the failure of the mask preparation before it, which
releases no row below. The wait before a superblock is the guard of the step on it
(`AboveReady`, `RowAboveFar`): what a wait has seen stays true, so nothing can
happen between the two that a separate step would show. `Fail` and `QueueOrFail`
are the error paths; `Join` is the merge of the errors. A frame's content is the
job that fails, if any (`failing`, `masksFail`), and the tiles whose data end early
(`truncated`).

**Vp9FrameOrder** is the abstract specification of decoding a frame: the orders
in which superblocks may be reconstructed and filtered such that the output is
that of the serial decoder, and when the frame may be returned as decoded.
`Vp9RowMT!ImplementsFrameOrder` states the refinement with `loopFilter <-
lfActive, outcome <- verdict`. Once a job has failed the order is free, since a
failing filter row releases the rows below on purpose and the frame is rejected.

**Vp8RowWavefront** is one frame encoded by `WorkerCount` workers, worker `w`
taking rows `w`, `w + WorkerCount`, ... `Publish`, `Wait`, `WaitAbort`, `Encode`
and `EndRow` are the column loop of `encodeThreadedInterFrameRow` and its key
frame twin; `NextRow` and `Return` are the row loop and the dispatcher.
`rowProgress` and `abort` are the atomics, `aboveTok` the one token context array
all rows share.

**Vp8RowPool** puts those frames behind the handshake that starts and joins them,
call after call. The encoder's goroutine moves through stages: `StartRows` begins
an attempt, `Dispatch` rewrites the job's fields, `Send` hands out one start token
at a time, `OwnRows` is the part of the work it does itself, `Joined` the guard of
`waitHelperWorkers`; `StartTrial` tries a pair of loop filter levels, `StartApply`
filters beside the packet writer, and an attempt may be repeated. A helper takes
its token (`Take`), works (`HelperRows`) and counts itself back (`Done`); `Exit`
answers `Close`. The rows of a `rows` job are steps of `Vp8RowWavefront`, whose
initial state every attempt starts from; a trial and a filter job are one step of
their worker. `MCVp8RowPool` chooses which macroblocks may fail.

**Vp8DecPipeline** is `ReconstructAndLoopFilterPipelined`, call after call on
one pooled state: `Decode` resets and starts, `ReconRow`, `ReconFails`,
`ReconRaises`, `ReconReleases` are one goroutine (the three stores of its error
path are three steps), `FilterLoadsProgress`, `FilterLoadsFlag`, `FilterRow`,
`FilterFails` the other, `Return` is the join.

**Vp9EncWorkers** nests two pools. Lane `<<t, 0>>` is the goroutine of tile column
`t`, lane `<<t, w>>` a row helper of that column. `StartCount`, `StartWrite`,
`StartFilter` launch the three kinds of jobs, `TakeJob` and `Collect` are their
tokens. Within a count job `Dispatch`, `SendStart`, `Claim`, `ReadAbove`, `CodeSb`,
`EndRow` and `Join` are `vp9RowWorkerPool`; `Cloned`, `OpenGate` and `PassGate`
are the barrier between the helpers' copies of the encoder and the first tile
written; `replay` is the promise that the recorded tokens of a count pass stand for
the frame; `LfRead`, `FilterSb`, `LfBail`, `LfEnd` filter every `LfWorkers`-th
row.

### Queues

**FrameQueue** is what a caller of an encoder with lookahead relies on: accepted
frames are held until encoded, oldest first, each once, at most one in a call;
a caller is turned away only for an invalid argument; a flush shows the oldest
frame. Both lookahead modules implement it as long as `overfull` (section 6) has
not come about (`ImplementsFrameQueue`).

**Vp8Lookahead.** `EncodeInto` is the disjunction of the outcomes of
`autoAltRefMaybeEncode` and `encodeLookaheadInto` (`EncodeDrainRefused`,
`EncodeBadFlags`, `EncodeHidden`, `EncodeShifted`, `EncodeRefused`,
`EncodeQueued`, `EncodeHead`), `Flush` that of `FlushInto`; there are also
`SetReferenceFrame`, `ChangeResolution` and `Reset`. The ring is modelled with
its indices, since it has one slot more than its depth and wraps by hand. The
ring and the stash pass through a call as a record (`Drained`, `Push`, `Pop`,
`SetRing`), in the order the code has it. `Schedule` is the ARF countdown; what
depends on pixels or rate control (the kind of frame, a drop, a failure, the
plan of a golden section) is a free choice.

**Vp9Lookahead** has the same shape for VP9: `EncodePending`, `EncodeStaged`,
`EncodeBatch`, `EncodeHidden`, `EncodeHead` and so on are the outcomes of
`encodeVP9LookaheadIntoWithFlagsResult`, `FlushStaged` to `FlushHead` those of
`FlushIntoWithResult`. A batch is one step: its helpers work on clones taken
before it starts and are joined before it ends, so no other step can see it
half done (`Vp9RefPool` looks inside, for what the clones share). `ref` and
`decRef` are the versions of one reference on the encoder's and on the decoder's
side; `drifted` collects the frames predicted from different ones. The ring is a
sequence here.

### References and packets

**Vp9RefPool.** An operation of the pool is a few steps of the one goroutine that
owns it, slot by slot where the code loops: `Prepare` and `BeginFrame` find the
buffer that the frame is written into, `Recode` writes it again,
`KeepReferences`, `RefreshReferences` and `AliasSlot` end it, `StoreCopy` is the
copying fallback, `ChangeResolution` and `ReleaseSlot` give everything up.
`BeginBatch` records what the clones of a frame-parallel batch see; they read it
until `HelperReturns`, while a frame of the batch goes through the pool; `EndBatch`
waits for them. Buffer contents are the number of the picture they
show.

**Vp9DecFrames** is the decoder's counterpart. The storage of `VP9Decoder` is a
record that a call takes through the functions of the source, in their order:
`Allocate` lets go of what was on show and finds a buffer (`Vacate`, `Lowest`),
`RefreshSlot` gives a slot the new picture, `Output` and `CopyOut` post-process and
align, `Keep` and `RetainLast` hold what is shown, `Release` and `Retain` count.
The actions are the calls: `DecodeFrame`, `ShowExisting`, `Conceal`, `DecodeFails`
(`FailedStates` lists how far a failing call may get), `NextFrame`,
`DecSetReference`, `DecReset`. `opts` says whether the application lends buffers
and whether pictures are post-processed, aligned or concealed; a lent buffer that is
given back becomes `Junk`. `due` is the picture that the one on show has to be.

**Vp9Slots, Vp9Codec.** `Vp9Codec` joins the two by a channel that loses and damages
packets but keeps their order: a frame that refreshes slots or keeps them makes a
packet (`Refreshes`, `Keeps`), which arrives, fails or is lost. References may be
replaced on one side or on both, existing frames shown, the decoder reset. A
picture decoded from references that may be wrong is `Junk`. `told` is as in
`Vp8Codec` below. `MCVp9Codec` declares the slots symmetric, since the code tells
them apart only by number, and compares states by `Visible`, which leaves out the
contents of free storage: it is painted over before it is looked at again.

**Vp8Refs, Vp8EncRefs, Vp8DecState, Vp8Codec.** `Vp8Refs` has what both sides
keep: three reference pictures and one set of probabilities, each a name, and the
packet. The encoder gives a new picture or table a name it does not hold itself
(`NewPic`, `NewProbs`), so a finite set of names serves a stream without end; a
decoder that still holds what had the name before is one of which nothing is
claimed. `Vp8EncRefs` has one action per outcome of `encodeSourceInto`:
`CommitKey`, `CommitInter`, `Drop`, `EncodeFails`, with `Arm` for the flags that
wait for a packet, `RefsAfter` and `AliasesAfter` for the reference update;
`ForceKeyFrame`, `EncReset` and `EncSetReference` besides. `Vp8DecState` has one
action per outcome of `Decode`: `DecodeWhole`, `ConcealModes`, `ConcealResidual`,
`DecodeFails`, `Refuse`, `DecodeMissing`, and `DecReset`, `DecSetReference`.
`Vp8Codec` joins the two by a channel that loses and damages packets but keeps
their order, so that a packet and what becomes of it are one step. `told` says that
the application knows the decoder to be incomplete (a loss, an error,
`FrameInfo.Corrupted`); `parted` that the encoder has left what any decoder could
follow (section 6). `MCVp8Codec` compares states by `View`: once `told` or
`parted`, the properties claim nothing of the decoder's references and tables, and
the key frame that ends this replaces all of them, so states that differ in nothing
else have the same future.

**TemporalLayers** has `temporal.go` as operators on a record: `Pattern`, the
thirteen layering modes and a disabled one; `NextFrame`, `KeyFrameMeta`,
`LayerSync`, `FinishFrame`, `FinishDroppedFrame` and `RestartAfterKeyFrame`.

**Vp9WebRTCSender** takes an access unit through the sending loop of
`examples/webrtc-vp9/main.go`: encoded (`EncodeInter`, `EncodeKey`,
`EncodeDropped`, `EncodeFails`), sized (`Size`, `GiveUp`), packetized (`Packetize`,
`PacketizeFails`, `HandDropped`), sent or held back (`Send`, `Withhold`). The
packetizer `pk` is changed by `ConsumeDropped`, `Unsent`, `EncodedUnsent` and
`Packetized`, in both descriptor families (`flexible`). `heeds = FALSE` is an
application that ignores the packetizer's requests for key frames. One receiver
gets all that is sent; the other stands behind a forwarder that may thin out layers
at any time and adds one only at a frame marked as a switching point.

## 3. The runs

Run a configuration with `tlc -config <cfg> <module>`. Runs marked V state what
the repository's documentation says and end in a counterexample: section 6.

| Run | Configuration | Bounds | States | What it shows |
|---|---|---|---|---|
| `tilepool_varying` | `Vp9TilePoolVarying.cfg` | 2 helpers, 3 frames of 1 or 2 helpers, then Close at any point | 309 000 | `JobsExclusive`: the decoding goroutine never touches a record in use. `EveryJobRan`: no started helper is missed. `CallsReturn`: no wakeup is lost, by a frame or by Close |
| `tilepool_serial` V | `Vp9TilePoolSerial.cfg` | 2 helpers, 2 frames | - | a helper left out of one frame may run the next frame's job twice |
| `rowmt_frames` | `Vp9RowMTFrames.cfg` | 2 workers, 3 rows of 2 superblocks in 1 or 2 tiles, sync range 2, filter on or off, a parse, reconstruction or filter job failing in the first or the middle row, data ending early with one tile | 931 000 | `ImplementsFrameOrder`, `VerdictMatchesContent`: the frame is rejected exactly if its content is bad, and filtered once. `FrameReturns`, also after a row failed to parse or while it was filtered |
| `rowmt_hang` V | `Vp9RowMTHang.cfg` | 3 workers, 4 rows, one row not decodable | - | Decode may never return |
| `rowpool_calls` | `Vp8RowPoolCalls.cfg` (module `MCVp8RowPool`) | 3 workers, 4 rows of 4 macroblocks, up to 2 failing, 2 attempts per frame, 1 trial each, any number of calls | 107 000 | `AboveRightReady`, `ContextsMatchSerial`, `VerdictIsRight` of every frame of every call; `PoolQuiet`: no helper is in a job whose fields are rewritten; `CallReturns` |
| `vp8pipe_rows` | `Vp8DecPipelineRows.cfg` | any number of frames of 2 to 4 rows on one pooled state, failures anywhere in both stages | 757 | `BorderIntact`, `OkMeansComplete`, `CauseReported`, `CallReturns` |
| `encworkers` | `Vp9EncWorkersSmall.cfg` | 2 tile columns of 2 row workers, 3 rows, 2 columns each, 2 count passes | 226 000 | `NeighboursReady` in both wavefronts; `CloneQuiescent`: nothing is written before the last copy is taken; `ReplayIsComplete`; `FrameReturns` |
| `vp8look_calls` | `Vp8LookaheadCalls.cfg` | depth 2, 5 frames, one reference replacement, every kind of frame, drops, failures, invalid flags | 54 000 | `FramesInOrder`, `NewestSetKept`, `OverlayIsLive`, `ImplementsFrameQueue`, `FlushDrains` |
| `vp9look_calls` | `Vp9LookaheadCalls.cfg` | depth 4, 6 frames, batches of 2, ARFs, forced and scheduled key frames, small buffers | 418 000 | `NoDriftWhileFrozen`, `ImplementsFrameQueue`, `FlushDrains` |
| `vp9codec_faults` | `Vp9CodecFaults.cfg` (module `MCVp9Codec`) | 2 slots; encoder: 4 buffers, 1 clone, 4 pictures; decoder: 3 frames of its own, 3 lent, five sets of options | 328 000 | `CountsExact`, `ReferencesIntact`, `PoolSuffices`, `HelpersReadIntact` of the encoder's pool; `LeasesExact`, `ShownIsIntact` of the decoder's storage; `DecoderAgrees`: no buffer of either side is used again while a slot shows it |
| `sender_layers` | `Vp9WebRTCSenderLayers.cfg` | every temporal pattern, 14 frames, 2 faults, both descriptor families, ids wrapping at 16 | 1 347 000 | `SentIsDecodable`, `LayersDecodable`, `PictureIdsAligned`, `DescriptorMatchesFrame` |
| `vp8codec_faults` | `Vp8CodecFaults.cfg` (module `MCVp8Codec`) | streams without end, refreshes asked for of GOLDEN, ALTREF or nothing, with and without concealment | 282 000 | `DecoderAgrees`: a decoder about which nothing was reported holds the encoder's references and tables. `AliasesMatchBuffers` |

Why these bounds are enough to be interesting:

- *Tile pool.* Two helpers is the least at which a frame can use fewer helpers
  than there are; three frames let a helper miss one frame and meet the next
  with a stale token in its channel. A frame that uses no helper does not go
  through the pool.
- *Row multi-threading.* Two tiles are needed for `rowTiles` to matter, three
  rows for a row with both neighbours, a sync range of two for progress that is
  published less often than made. Two workers let any two kinds of jobs meet; the
  hang needs the third.
- *VP8 row pool.* Four columns and a sync range of one give the wait at every
  column, the sentinel at the end and a worker (of three) that comes back for
  the fourth row; two attempts and a trial give every order of two kinds of jobs.
  A larger sync range only makes rows wait longer; the theorems hold for all.
- *VP9 encoder workers.* Two of each kind of worker, three rows so that a row
  worker claims a second row, two passes so that one follows an aborted one.
- *Lookahead.* Depth 2 gives the VP8 ring three slots, room for a hidden ARF
  ahead of the head, and wrap-around within five frames. Depth 4 is the least at
  which VP9 produces hidden ARFs (`vp9MinLookaheadForARFs`): the first comes with
  the fifth frame, and the sixth finds the visible frame it left pending
  (`EncodePending`).
- *VP9 codec.* Two slots can share a buffer or differ. The encoder has two buffers
  more than slots, the least the assumption allows (the code has four more), and the
  decoder one: what is on show is let go before a frame is allocated, so a third
  frame is always free, and a lease not returned is felt at once. Four pictures use
  a buffer a second time, and leave room for a clone that still reads. The theorems
  about the encoder's pool hold for any numbers.
- *Sender.* Fourteen frames pass the longest period of a pattern but one
  (`FiveLayers` has sixteen, of which the last two repeat earlier flags), with
  picture ids that wrap and a reference that can become too old (`MaxDiff`).
  Two faults: the second strikes while the recovery from the first is under way.
- *VP8 codec.* Four names for pictures and five for tables are all it ever needs
  (`TypesHold`); the number of frames, losses and resets is not bounded.

`MaxDispatch`, `MaxFrames`, `MaxSets`, `MaxRows`, `MaxTrials`, `MaxAttempts`,
`MaxPasses`, `MaxPictures`, `MaxHelpers`, `AppBuffers`, `OptionSets`, `MaxFaults`,
`StreamModes`, `FailKinds`, `FailRows`, `FailTiles`, `TruncatedIn`, `Masks` and
`BadChoices` are bounds of the models, not of the code; each is named in its module.
A bound on frames appears only in guards of submissions.

Deadlock is checked except in `rowmt_frames` and `rowmt_hang`: workers may be left
waiting for ever. With two workers that takes a row that fails while it is
reconstructed, or one whose filter masks cannot be prepared (`Stranding`), and
`FrameReturns` of `rowmt_frames` shows that no other frame does it. With three it
takes no more than a row that fails to parse, which is what `rowmt_hang` is about.

## 4. Fairness

- *Goroutines* (`Vp9TilePool`, `Vp9RowMT`, `Vp8RowPool`, `Vp9EncWorkers`,
  `Vp8DecPipeline`): weak fairness of each goroutine's steps. Go's scheduler is
  preemptive and runs every runnable goroutine; the spinning loops yield. A
  `sync.Cond` or a channel with a single waiter wakes that waiter. The arrival
  of frames, `Reset` and `Close` are the application's choice and have no fairness;
  nor has another count pass of `Vp9EncWorkers`, but what follows the last one has
  (`StartWrite`, `FinishFrame`).
- *VP8 flush* (`FlushFairness`): the caller keeps calling `FlushInto` (weak
  fairness), and a hidden ARF that is tried again and again is eventually coded
  rather than dropped or failing each time (strong fairness of
  `FlushHidden /\ ~arf'.pending`). Without the second a caller whose output
  buffer is always too small flushes for ever, in the code as well.
- *VP9 flush*: weak fairness of `FlushInto /\ Held' # Held`: the caller keeps
  flushing and comes back with a larger buffer when told it was too small. A
  call with the same small buffer leaves the packet staged, each time.
- The codecs and the sender have no liveness property: they run as their caller
  does.

## 5. What is proved

All proofs hold for every value of the constants that satisfies the modules'
assumptions (`HelperCountAssumption`, `PoolAssumption` and so on, which TLC
evaluates for the instances). Check a module with `tlapm <module>.tla`.

**Vp9DecWorkers_proof**, row multi-threading (`Vp9RowMT`): `RefinesFrameOrder`
(`ImplementsFrameOrder`) and `VerdictIsRight` (`VerdictMatchesContent`), for every
number of workers, shape of frame, sync range and failing job. The second has the
hypothesis `TruncatedIn \subseteq {1}`: frames of several tiles do not end early,
which the code does not look for (section 6). The inductive invariant `RowMTInv` has
two halves. `VerdictInv` says what makes a frame be rejected, and is all that
survives a failed job, after which rows are released out of order. While nobody
has failed, the rest follows a job from queue to
filter: no job is queued or held twice (`QueueInv`, `HandInv`), which is why the
queue never refuses one (`Room`); a tile is parsed at most once (`ParseInv`), a row's
counter is the number of its tiles that are through, and the last of them alone
releases the filter (`RowsInv`, `ReconInv`); a superblock is filtered only after
what `vp9LfSync` waited for (`FilterInv`, `WaitedFor`). `EndInv` says that the queue
is terminated only when nothing is left to queue, so that workers who find it empty
and terminated leave a frame that is complete (`AllOver`): every superblock belongs
to the columns of one tile, whose jobs are done.

The tile pool (`Vp9TilePool`): `TypeCorrect`, `JobsAreExclusive`, `EveryJobIsRun`, for
every number of helpers and frames. `JobsExclusive` is not inductive: that no
helper is inside `run` while the decoder writes records follows from where its
local epoch stands. The strengthening `IInv` adds `EpochInv` (a helper's epoch
and done epoch never pass the pool's), `QuietInv` (outside a dispatch the
helpers counted by `activeHelpers` have finished the current epoch), `RunInv` (a
helper that runs is one of the active ones), `DispatchInv` (what each
stage of the dispatcher has fixed) and `RanInv` (a helper that stored the
current epoch has run its job). Under the hypothesis that every frame uses every
helper, `RunsOnce` and `ResultIsSerial` prove what `tilepool_serial` refutes in
general: the hypothesis is exactly what the finding lacks.

**Vp8RowPool_proof**, first part, about one frame (`Vp8RowWavefront`). `TypeCorrect`,
`NeighboursReady`, `ContextsAreSerial`, `VerdictsAreRight`, for every frame size, number of workers,
sync range and set of failing macroblocks. `IInv` relates what a row has published
to what it has encoded (`PubInv`, `FreshInv`, `PastInv`), fixes which worker owns a
row and where it stands (`OwnerInv`, `PosInv`), records that a worker past its wait
knows the row above to be far enough ahead (`WaitInv`), that rows are ordered
downwards (`MonoInv`), and that the token contexts of a column belong to the last
row to pass it (`TokInv`). `MonoInv` is the key: with it, no row below has
overwritten a context that is still to be read. `StepIInv` is that `IInv` survives a
step, for use in the second part.

Second part, about the pool: `PoolStaysQuiet` (a property of `rowpool_calls`) and
`EveryFrameIsSound`: the four properties of the wavefront hold of every frame of
every call, whatever jobs come before and after it. `CountInv` says that
`doneCount` is the number of started helpers that are back, so a counter that
has reached its target leaves no helper inside (`AllBack`, by cardinality of the
set of helpers); `EndInv` ties a worker's row loop to its helper's state;
`FrameInv` is the wavefront's `IInv` within a rows job and the verdict on the last
frame outside it. A step of the pool either is a step of the wavefront, to which
`StepIInv` applies, leaves it alone, or begins a frame afresh, which is safe because
nobody is inside one.

**Vp9Encoder_proof**, first part, about the workers (`Vp9EncWorkers`).
`CopiesAreQuiescent`, `ReplaysAreComplete`,
`NeighboursAreReady`, the three safety properties of `encworkers`, for every number of
tile columns and row workers, every frame and every sync range of the filter. `IInv`
has a part for each thing that hands work over. `JobInv`: completion tokens are as
many as the helpers that have finished, so the dispatcher that collects them all
leaves nobody in a job (`HelperSets`, by cardinality). `PrepInv`: the barrier's
counter is the number of helpers that have copied the encoder. `SignalInv`: within a
column the done counter is the number of started row helpers that have left.
`RowInv`: a row has one lane, its progress is exactly how far that lane has come,
and progress is never ahead of what was coded. From those, `ColumnComplete`: a batch
that was joined and not aborted has claimed every row and left none, so the column is
complete, which `CountInv` keeps until tokens are replayed. `FilterInv` does for the
filter what `RowInv` does for rows, with the groups of columns between two waits
(`FilterGroups`). A step in the middle of a job leaves launches alone (`SameJob`),
one outside batches leaves rows alone (`SameRows`), and one within a batch leaves the
other columns alone (`OtherColumns`); what remains is one argument per action.

Second part, about the lookahead (`Vp9Lookahead`), for every depth, thread count,
cadence and outcome of an encode. `NeverDriftsWhileFrozen`: the property speaks of
packets delivered, but what is staged is delivered later, when the encoder has moved
on; `DriftInv` therefore says of every staged packet that it leaves the decoder's
reference alone and predicts from it (`FrozenInv`), and that packets are staged only
in the mode in which no hidden ARF can move the reference meanwhile (`ModeInv`).
`LookaheadRefinesFrameQueue`: staged packets, the pending frame and the ring stand in
one line (`Lined`), numbered upwards and after all frames shown. Each call is composed
of four moves of that line (`LineJoined`, `LineUnstaged`, `LinePending`, `LineHead`,
`LineMoved` and `LineBatched` say what each makes of it), and so a step of the
frame queue or none (`Joins`, `JoinsAndLeaves`, `OnlyLeaves`). A pending frame has a
ring one short of full behind it, which is why a resolution change, refused while
frames are queued, never loses one. The capacity, `2 * Depth`, is a full batch
and a full ring (`HeldBounded`).

**Vp8DecPipeline_proof.** `TypeCorrect`, `BorderStaysIntact`, `OkIsComplete`,
`CauseIsReported`, for every frame height and any sequence of frames. The
invariant `Inv` ties the two goroutines together: while the reconstruction has
not ended, its counter is the number of rows done, the error path before its
last store included, and `errFlag` is up only if the reconstruction failed
(`ReconInv`); a filter that gave up on the pipeline did so because of that
(`FilterInv`); the caller is told only when both have ended (`ResultInv`).

**Vp8Lookahead_proof.** `TypeCorrect`, `FramesShownInOrder` (an action
property), `NothingLostUntilOverfull` and, without the ARF driver,
`NothingLostWithoutArf`, for every depth and every length of stream. The
invariant describes the ring as an ordered sequence without reference to where
it starts; one lemma for each ring operation (push, pop, drain, stash, clear)
shows that it keeps this, and each API call is a composition of those lemmas.
`NothingLostWithoutArf` shows that the loss at an overfull queue (section 6)
needs the ARF driver. `NewestReplacementKept` and `OverlayNeverStale` are about
deferred reference replacements: a call uses up the replacements of at most one
frame (`UsesUp`), and every other one stays in the ring, in the stash or with the
frame to come (`SetsStep`), so the newest is there or applied and the overlay of
`CopyReferenceFrame` is that of a frame still held. `RefinesFrameQueue`
(`ImplementsFrameQueue`) maps a ring to the set of its frames (`HeldIn`); the lemmas
about the ring's operations, restated for that set, make every call a step of the
frame queue or none, as long as no call has left the queue at its depth.

**Vp9Codec_proof**, the encoder: `CountsStayExact`, `PoolAlwaysSuffices`,
`ReferencesStayIntact`, `HelpersReadUndisturbed`, in `Vp9Codec`, for
every number of slots and clones and every pool with two buffers more than slots
(`CodecHasPool`: the encoder takes the same steps there as alone). Counts are compared with
`Cardinality` of the set of slots that point to a buffer; `HoldersMoved` says how
that set changes when one slot moves. From exact counts a pigeonhole argument
(`Pigeonhole`) finds a free buffer whenever one is asked for, so the copying
fallback and the frame without a buffer never occur. For the clones (`BatchInv`):
their view is that of the slots until the batch's own frame refreshes them, so a
buffer in it has an owner and is not the one written, and after that refresh
nothing is written until the batch is over.

The decoder, and both together: `LeasesStayExact`, `ShownStaysIntact`,
`DecoderStaysInStep`, for every number of slots smaller than that of the decoder's
frames and of the application's buffers (`DecFramesAssumption`; the code has 8
slots and 12 frames, and asks the application for more than 8 buffers). In a call the
decoder's storage passes from one function to the next as a record, so `DecInv` is a
predicate on such a record and each function has its lemma. Slots are refreshed one by
one with `FoldSet`; the library states what it computes through an operator the
provers cannot instantiate, so `FoldRule` proves, by well-founded induction over
subsets, that a relation between the set folded and the result which one element
preserves holds at the end. Leases are exact because a slot that moves takes one with
it (`HoldersMoved` again); with exact leases, a pigeonhole (`IndexLeft`) finds
storage that no slot and no picture on show uses, so what is shown is never
decoded over. `DecoderStaysInStep` needs to speak of the middle of a frame: `CodecInv`
says that a slot refreshed and not yet sent shows the packet's picture, and every other
one what the decoder's slot shows, unless the application was told of a loss.

**Vp9WebRTCSender_proof.** `SentFramesDecode` and `PictureIdsStayAligned`, for
every pattern, any number of frames and faults, both descriptor families, and an
application that may ignore requests. The first rests on the invariant that either
the receiver holds what the encoder's references hold, the access unit in hand
aside, or the packetizer insists on a key frame; the second on each frame taking
one id, modulo `IdMod`, on each of the paths that end an access unit.
`LayersStayDecodable` is about a receiver that gets the lower temporal layers
only. What it needs of a pattern is one predicate (`Behaves`): at every position, a
frame refers only to references that may belong to its layer or a lower one, and
leaves alone those that may belong to its own or lower layers unless it is of them. It
is proved pattern by pattern (14 lemmas, cited together as `PatternsBehave`), from the
tables of `temporal.go`. Then `ThinInv` carries over any sequence of drops and losses:
such a receiver holds what the encoder holds in all references of its level and below,
and at a switching point in those of the next level too. `DescriptorsMatch`: the
picture ids the packetizer has noted for the references, and the counts of base
layer frames in packetizer or encoder, are those of the frames the receiver has
(`CountInv`, `RefIdInv`) unless a key frame is required; a difference of ids modulo
`IdMod` then names the frame meant (`DiffBack`, `DiffsNameReferences`).

**Vp8Codec_proof.** `DecoderStaysInStep`, `AliasesStayTrue`, `TypesHold`, for
every set of refresh masks, resilient or not, and any number of frames.
`AliasesMatchBuffers` alone is not inductive: a replacement writes one reference and
its aliases, which leaves no half-replaced pair only because aliases are transitive
(`AliasesTransitive`). `DecoderAgrees` is then split by what becomes of a packet
(`TakenOrTold`): it is taken by a decoder in step, or the application is told.
`TypesHold` rests on `NewNames`: a new name exists and differs from those the
encoder holds, so a decoder cannot agree by accident.

**Only model-checked.** Everything under fairness, since the prover has no
rules for ENABLED: `CallsReturn`, `FrameReturns`, `CallReturns`, `FlushDrains`. Every safety property
and every refinement that a passing run checks is proved.

## 6. Disagreements between the code and its documentation

Two have a run whose counterexample is the schedule; `PROJECT.json` quotes the
documentation.

1. `tilepool_serial`: a helper that a frame did not use may be between its two
   loads of `workerLoop` when the next frame raises `activeHelpers`. It then
   runs its new job under the old epoch, reports that epoch, and runs the same
   record again, whose descriptors are gone. A valid frame is reported as
   invalid. It takes a stream whose number of tile columns grows.
2. `rowmt_hang`: `reconMapRead` does not look at termination. If a job fails,
   the worker of the row above may leave without publishing its last
   superblock, and a third worker waits for it for ever. A failing RECON job
   strands the rows below it in the same way, with two workers. So does a filter
   job whose masks cannot be prepared: `applyVP9LoopFilterRowMT` then returns
   (`vp9_encoder_lf_workers.go:213`) without the `write` and `markRowsDone` of its
   other failure, and the next row waits in `vp9LfSync.read`, although the comment at
   line 143 says that siblings blocked there never deadlock. Both failures of a
   filter job are checks of what the decoder itself has set up.

Met while modelling, without a run of their own. Queues:

- `vp8_encoder_altref_driver.go`: an ARF planned while the stash is in use makes a
  call drain the stash, emit the ARF without popping, and fill the stash again. The
  queue is then at its depth, the next call loses the stashed frame although it was
  accepted, and every later call is refused until a flush. `overfull` is this
  condition; `ImplementsFrameQueue` claims nothing after it.
- `vp9_encoder_frame_parallel.go:194` and `vp9_lookahead.go:236`: a staged
  packet that does not fit, or a hidden ARF that fails, leaves the VP9 queue at
  its depth, with the same consequence (`overfull` of `Vp9Lookahead`).
- `vp9_encoder_frame_parallel.go`: a batch member with a forced golden or ARF flag
  refreshes the slot that the batch promises to keep. `thawed` in the model is
  this condition; `NoDriftWhileFrozen` holds until it occurs.
- `vp9_encoder_frame_parallel.go:247` against `:210`: a batch is declined
  for requested key frames, so that none is encoded inside one, but neither the
  key frame cadence nor a changed deadline is looked at, and both make a member
  a key frame.
- `vp8_encoder_reference_controls.go:31` against `:12`: a replacement
  issued while frames are queued waits for the next frame submitted; after a
  flush there may be none, and `CopyReferenceFrame` goes on showing a picture
  that no reference buffer holds.

Workers:

- `vp9_decoder_threading.go`: with more than one tile column the row
  multi-threading never asks the tile readers whether they ran past their data,
  which the one-tile path does, so a truncated frame is returned as decoded.
  `VerdictMatchesContent` fails if `TruncatedIn` contains 2.
- `internal/vp8/decoder/threading.go:44` documents
  `ErrThreadingPipelineFailure` as a result; `CauseReported` (proved) says that
  it is never returned.
- `vp9_encoder_tile_workers.go:210` says that `read` makes the above-right
  superblock available; with the only sync range in use, one, it waits for the
  superblock directly above, which is what `NeighboursReady` states and what the
  row needs. With a range above one its target would not cover even that.
- `vp9_encoder_mode_block.go:355`: a row worker's mark that leaf stores were
  omitted stays on its clone and never reaches the tile worker, so the second
  count at `vp9_encoder_frame.go:550` would not happen. Only a capacity set by a
  test gets there.

References, packets and layers:

- `vp8_encoder_entropy.go:303`: when a frame without entropy refresh is dropped,
  the tables go back to those saved with an earlier such frame, or to all-zero ones
  if there was none, while the decoder has moved on with the frames in between.
  Inter frames are then decoded wrongly up to a key frame; with the all-zero
  context the B-mode table stays zero even beyond it. libvpx does the same.
  `parted` in `Vp8Codec` is this condition.
- `vp8_encoder_reference_controls.go:224`: the encoder's `SetReferenceFrame`
  replaces every alias of a reference, the decoder's only the one named, so a
  replacement mirrored on both sides while references are aliased makes them
  differ (`parted` again).
- `vp8_encoder_reference_buffers.go:163`: with ALTREF copied from GOLDEN and GOLDEN
  from LAST in one frame, the two would be marked as aliases although they are not.
  The encoder never asks for both.
- `vp8_decoder.go`: a key frame of a new size that fails to decode leaves the
  references blank while `needKey` stays down. Sizes are not modelled.
- `vp8_encoder_frame.go:969`: a key frame forced in the middle of a temporal
  pattern keeps the enhancement layer's id and TL0PICIDX, which the VP9 encoder
  resets.
- `vp9_webrtc_packetizer_flexible.go`: a reference 2^15 pictures old would have a
  difference that looks recent; a sender never gets that far without a refresh.
- `vp9_decoder.go:1895`: `NextFrame` "returns the most recent visible VP9 frame
  decoded". `frameReady` is cleared only by a frame that decodes, so after a call that
  fails it still returns the earlier picture if that was not taken yet, from storage
  the failing call has let go of and may have painted in part; `CopyCurrentFrame`
  copies from there as well. `ShownIsIntact` claims nothing after a failing call.
- `vp9_reference_controls.go:69`: `SetReferenceFrame` writes the slot's own copy in
  place. If that copy is on show, through a show-existing frame or concealment, the
  picture in the application's hands changes before "the next Decode or Close call",
  until which `vp9_decoder.go:1893` says it is valid.
- `vp9_encoder_ref_pool.go`: without a free buffer `acquireVP9ReconFrameBuffer`
  would leave the frame writing into a buffer that slots still show, contrary to
  its comment; `PoolAlwaysSuffices` proves that it does not come to this.
- In the WebRTC example the application's own `forceKey` and the packetizer's
  `keyFrameRequired` each suffice; `heeds = FALSE` shows it for the second.

## 7. What is not modelled

Within the modelled components:

- pixels and bits: a macroblock, a superblock, a tile or a packet is one step that
  may fail;
- the choice between threaded and serial paths, and argument checks made before
  any state is touched;
- building, resizing and closing of the VP9 encoder's worker pools;
- in the VP8 lookahead the key-frame and loop-filter requests that travel with a
  frame; in the VP9 lookahead Close, temporal layers, intra-only and show-existing
  frames, and the retry loop of the allocating wrapper
  (`vp9_encoder_alloc.go:47`), which submits anew; one reference buffer stands for
  all in both, the replacement of one never depending on another;
- in the VP8 codec resolution changes, `ErrorResilientPartitions`, segmentation and
  quantizer state, post-processing, and the snapshots of probabilities that only
  the rate-distortion search uses;
- in the VP9 decoder probability contexts, motion vector history, the segmentation map,
  sizes and formats that change, `SetByteAlignment` between frames, and superframes of
  several frames (each is a call of its own here);
- in the sender fragmentation into payloads, spatial superframes,
  `SetTemporalLayerID`, bitrates of layers, and the refresh mask that a frame
  dropped before encoding leaves to the next.

Go's atomics are sequentially consistent, so interleaving them is exact; plain
memory shared by two goroutines is modelled where exclusive access is the
property (`JobsExclusive`, `ContextsMatchSerial`, `HelpersReadIntact`), not as a
data race.

Not modelled at all: rate control, entropy coding, transforms, prediction and
mode decision, whose correctness is numeric and is tested bit for bit by the
repository; file formats, tools and the oracle harness. They are by far the larger
part of the source, so the share of its lines that the models stand for is small;
of the part that has state, order and failure it is most.

## 8. Plan

1. The probability contexts of `Vp9Codec`: four per side, saved, reset and adapted by
   header bits and error resilience, and in step like the references; then sizes.
2. Spatial SVC over `Vp9WebRTCSender`: a superframe of which one layer fails or is
   dropped, and inter-layer references.
3. Resolution changes and the recovery of a decoder as a liveness property of
   `Vp8Codec`, given an application that asks and a channel that sometimes delivers.
4. The loop-filter pool and the buffer-per-tile schedule of the VP9 decoder.
5. RTP fragmentation and reassembly and superframes as bounded functions
   checked against a definition of the payload they carry.

Proofs follow the models: each addition above extends an inductive invariant of
section 5. The models avoid RECURSIVE operators and name their constants'
assumptions so that this needs no restatement.
