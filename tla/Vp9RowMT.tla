------------------------------ MODULE Vp9RowMT ------------------------------
(***************************************************************************)
(* The VP9 decoder's row multi-threading (vp9_decoder_threading.go,        *)
(* vp9_decoder_rowmt_modes.go, and the loop filter wavefront of            *)
(* vp9_encoder_lf_workers.go): one frame decoded by workers that pull      *)
(* PARSE, RECON and LPF jobs of superblock rows from a shared FIFO.        *)
(*                                                                         *)
(* PARSE(r) of a tile queues RECON(r) and PARSE(r+1).  RECON(r) waits,     *)
(* superblock by superblock, for the row above; the last tile to finish    *)
(* row r queues LPF(r-1), and LPF(r) if r is the last row.  LPF rows run   *)
(* as a wavefront.  Any failure terminates the queue.                      *)
(*                                                                         *)
(* Each queue operation and publication is a step, and so is the work on a *)
(* superblock together with the wait before it: what a wait asks for stays *)
(* true.  Bitstream content is abstracted to the jobs it makes fail and    *)
(* the tiles that end early.                                               *)
(***************************************************************************)
EXTENDS Integers, Sequences

CONSTANTS
  Worker,         \* the decoding goroutine and the pool's helpers
  SbRows, SbCols,
  TileCounts,     \* the numbers of tile columns a frame may have
  SyncRange,      \* columns between wavefront publications (1, 2, 4 or 8)
  FailKinds,      \* job types the frame may make fail, at most one job
  FailRows, FailTiles,   \* bounds of the model: where that job may lie
  TruncatedIn     \* numbers of tile columns with which data may end early

ASSUME ShapeAssumption ==
  /\ Worker # {}
  /\ SbRows \in Nat \ {0} /\ SbCols \in Nat \ {0}
  /\ TileCounts \subseteq 1..SbCols
ASSUME SyncRangeAssumption == SyncRange \in {1, 2, 4, 8}
ASSUME FailKindsAssumption ==
  /\ FailKinds \subseteq {"parse", "recon", "lpf"} /\ FailRows \subseteq Nat
  /\ FailTiles \subseteq Nat /\ TruncatedIn \subseteq TileCounts

Row == 0..(SbRows - 1)
Col == 0..(SbCols - 1)
SB == Row \X Col
LastRow == SbRows - 1

RowJob(type, r, t) == [type |-> type, row |-> r, tile |-> t]
NoJob == RowJob("none", 0, 0)

VARIABLES
  tileCols,       \* storage.tileCols
  lfActive,       \* storage.loopFilterActive
  failing,        \* the job this frame makes fail, or NoJob
  masksFail,      \* if that is a LPF job: it fails in its mask preparation
  truncated,      \* tiles whose reader runs past the end of its data
  jobq, read, terminated,   \* the queue: q.jobs, q.read, q.terminated
  reconMap,       \* superblocks published by reconMapWrite
  rowTiles,       \* lfSync.tilesDone[row]
  tilesDone,      \* storage.tilesDone
  curSbCol,       \* lfSync.curSbCol[row]
  lfApplied,      \* storage.loopFilterApplied
  stage, job, col,   \* where each worker stands, its job and column
  err,            \* each worker's j.err is set
  verdict,        \* "none" until the frame's decoding returns
  recon, filtered \* history: superblocks reconstructed, filtered

frame == <<tileCols, lfActive, failing, masksFail, truncated>>
queueV == <<jobq, read, terminated>>
sync == <<reconMap, rowTiles, tilesDone, curSbCol>>
local == <<stage, job, col, err>>
hist == <<recon, filtered>>
rowMTVars == <<frame, queueV, sync, local, lfApplied, verdict, hist>>

Tile == 0..(tileCols - 1)
Jobs == [type : {"parse", "recon", "lpf"}, row : Row, tile : Tile]

\* Faulty variant of JobCap: no room for the LPF jobs.
JobCapNoLpf == tileCols * SbRows * 2

JobCap == tileCols * SbRows * 2 + SbRows

\* A LPF job is queued with tileCol 0 and no tile of its own.
FailingJobs ==
  {j \in Jobs : /\ j.type \in FailKinds /\ j.row \in FailRows
                /\ IF j.type = "lpf" THEN j.tile = 0 ELSE j.tile \in FailTiles}

RowMTInit ==
  /\ tileCols \in TileCounts
  /\ lfActive \in BOOLEAN
  /\ failing \in {j \in FailingJobs : j.type = "lpf" => lfActive} \cup {NoJob}
  /\ masksFail \in IF failing.type = "lpf" THEN BOOLEAN ELSE {FALSE}
  /\ truncated \in IF tileCols \in TruncatedIn THEN SUBSET Tile ELSE {{}}
  /\ jobq = [i \in 1..tileCols |-> RowJob("parse", 0, i - 1)]
  /\ read = 0
  /\ terminated = FALSE
  /\ reconMap = {}
  /\ rowTiles = [r \in Row |-> 0]
  /\ tilesDone = 0
  /\ curSbCol = [r \in Row |-> -1]
  /\ lfApplied = FALSE
  /\ stage = [w \in Worker |-> "idle"]
  /\ job = [w \in Worker |-> NoJob]
  /\ col = [w \in Worker |-> 0]
  /\ err = [w \in Worker |-> FALSE]
  /\ verdict = "none"
  /\ recon = {}
  /\ filtered = {}

MoveTo(w, from, to) == stage[w] = from /\ stage' = [stage EXCEPT ![w] = to]
FirstCol(t) == (t * SbCols) \div tileCols
LastCol(t) == FirstCol(t + 1) - 1
Fails(w) == job[w] = failing

\* Faulty variant of Fail: the others are not told.
FailAlone(w, from) ==
  /\ MoveTo(w, from, "exit")
  /\ err' = [err EXCEPT ![w] = TRUE]
  /\ UNCHANGED terminated

\* j.err is set, the queue terminated, and the worker leaves runRowMT.
Fail(w, from) ==
  /\ MoveTo(w, from, "exit")
  /\ err' = [err EXCEPT ![w] = TRUE]
  /\ terminated' = TRUE

\* jobq.queue(j): refused when terminated or full, and a refusal fails the
\* job that asked for it.
CanQueue == ~terminated /\ Len(jobq) < JobCap

QueueOrFail(w, j, from, to) ==
  \/ /\ CanQueue
     /\ jobq' = Append(jobq, j)
     /\ MoveTo(w, from, to)
     /\ UNCHANGED <<terminated, err>>
  \/ /\ ~CanQueue
     /\ Fail(w, from)
     /\ UNCHANGED jobq

\* What lfSync.write(r, c) makes of the row's published column.
Published(old, c) ==
  IF c = SbCols - 1 THEN SbCols + SyncRange
  ELSE IF c % SyncRange = 0 THEN c ELSE old

\* lfSync.read(r, c): in a column that synchronizes, the row above is ahead.
RowAboveFar(w) ==
  LET r == job[w].row IN
  (r > 0 /\ col[w] % SyncRange = 0) => col[w] <= curSbCol[r - 1] - SyncRange

-----------------------------------------------------------------------------
(* Faulty variants of actions below.  They are not part of RowMTNext: each *)
(* one is a slip against which a property is validated.                    *)

\* The first tile to finish a row releases its filter jobs.
TileRowDoneFirst(w) ==
  LET r == job[w].row
      first == rowTiles[r] = 0
  IN /\ MoveTo(w, "rowDone",
               IF first /\ r > 0 THEN "queueLpfAbove"
               ELSE IF first /\ r = LastRow THEN "queueLpfLast" ELSE "reconWrite")
     /\ rowTiles' = [rowTiles EXCEPT ![r] = @ + 1]
     /\ UNCHANGED <<frame, queueV, reconMap, tilesDone, curSbCol, job, col, err,
                    lfApplied, verdict, hist>>

-----------------------------------------------------------------------------
(* The worker loop: runRowMT.                                              *)

\* dequeue(false) with a job left; it ignores terminated.
Dequeue(w) ==
  LET j == jobq[read + 1]
  IN /\ read < Len(jobq)
     /\ MoveTo(w, "idle", j.type)
     /\ read' = read + 1
     /\ job' = [job EXCEPT ![w] = j]
     /\ col' = [col EXCEPT ![w] = IF j.type = "recon" THEN FirstCol(j.tile) ELSE 0]
     /\ UNCHANGED <<frame, jobq, terminated, sync, err, lfApplied, verdict, hist>>

\* Nothing left and done(): the queue is terminated and drained.
Leave(w) ==
  /\ read = Len(jobq) /\ terminated
  /\ MoveTo(w, "idle", "exit")
  /\ UNCHANGED <<frame, queueV, sync, job, col, err, lfApplied, verdict, hist>>

-----------------------------------------------------------------------------
(* PARSE: runRowMTParse.                                                   *)

\* Parse the row of the tile, then queue its RECON job.
Parse(w) ==
  /\ stage[w] = "parse"
  /\ \/ Fails(w) /\ Fail(w, "parse") /\ UNCHANGED jobq
     \/ ~Fails(w) /\ QueueOrFail(w, [job[w] EXCEPT !.type = "recon"], "parse",
                       IF job[w].row < LastRow THEN "queueParse" ELSE "idle")
  /\ UNCHANGED <<frame, read, sync, job, col, lfApplied, verdict, hist>>

\* Queue the PARSE job of the tile's next row.
QueueParse(w) ==
  /\ QueueOrFail(w, [job[w] EXCEPT !.row = @ + 1], "queueParse", "idle")
  /\ UNCHANGED <<frame, read, sync, job, col, lfApplied, verdict, hist>>

-----------------------------------------------------------------------------
(* RECON: reconstructVP9{Intra,Inter}ModeTileRowMTRow.                     *)

\* reconMapRead: only the publication of the superblock above ends the wait,
\* the queue's termination does not.
AboveReady(w) == job[w].row > 0 => <<job[w].row - 1, col[w]>> \in reconMap

Reconstruct(w) ==
  /\ AboveReady(w)
  /\ \/ /\ Fails(w)
        /\ Fail(w, "recon")
        /\ UNCHANGED recon
     \/ /\ ~Fails(w)
        /\ recon' = recon \cup {<<job[w].row, col[w]>>}
        /\ MoveTo(w, "recon",
                IF col[w] = LastCol(job[w].tile) /\ lfActive
                  THEN "rowDone" ELSE "reconWrite")
        /\ UNCHANGED <<terminated, err>>
  /\ UNCHANGED <<frame, jobq, read, sync, job, col, lfApplied, verdict, filtered>>

\* queueLoopFilterJobs, first lfSync.tileRowDone: is this the last tile of
\* the row?
TileRowDone(w) ==
  LET r == job[w].row
      last == rowTiles[r] + 1 = tileCols
  IN /\ MoveTo(w, "rowDone",
               IF last /\ r > 0 THEN "queueLpfAbove"
               ELSE IF last /\ r = LastRow THEN "queueLpfLast" ELSE "reconWrite")
     /\ rowTiles' = [rowTiles EXCEPT ![r] = @ + 1]
     /\ UNCHANGED <<frame, queueV, reconMap, tilesDone, curSbCol, job, col, err,
                    lfApplied, verdict, hist>>

QueueLpfAbove(w) ==
  /\ QueueOrFail(w, RowJob("lpf", job[w].row - 1, 0), "queueLpfAbove",
                 IF job[w].row = LastRow THEN "queueLpfLast" ELSE "reconWrite")
  /\ UNCHANGED <<frame, read, sync, job, col, lfApplied, verdict, hist>>

QueueLpfLast(w) ==
  /\ QueueOrFail(w, RowJob("lpf", job[w].row, 0), "queueLpfLast", "reconWrite")
  /\ UNCHANGED <<frame, read, sync, job, col, lfApplied, verdict, hist>>

\* reconMapWrite, then the next column.
ReconWrite(w) ==
  LET last == col[w] = LastCol(job[w].tile)
  IN /\ MoveTo(w, "reconWrite",
               IF ~last THEN "recon"
               ELSE IF job[w].row = LastRow /\ ~lfActive THEN "tileDone" ELSE "idle")
     /\ reconMap' = reconMap \cup {<<job[w].row, col[w]>>}
     /\ col' = [col EXCEPT ![w] = IF last THEN @ ELSE @ + 1]
     /\ UNCHANGED <<frame, queueV, rowTiles, tilesDone, curSbCol, job, err,
                    lfApplied, verdict, hist>>

\* Without a loop filter the last tile to finish terminates the queue.
TileDone(w) ==
  /\ MoveTo(w, "tileDone", "idle")
  /\ tilesDone' = tilesDone + 1
  /\ terminated' = (terminated \/ tilesDone + 1 = tileCols)
  /\ UNCHANGED <<frame, jobq, read, reconMap, rowTiles, curSbCol, job, col, err,
                 lfApplied, verdict, hist>>

-----------------------------------------------------------------------------
(* LPF: applyVP9LoopFilterRowMT under vp9LfSync.                           *)

\* prepareVP9LoopFilterMasksCached fails, before the row has waited for the
\* one above: the job ends without publishing anything.
PrepareFails(w) ==
  /\ Fails(w) /\ masksFail
  /\ Fail(w, "lpf")
  /\ UNCHANGED <<frame, jobq, read, sync, job, col, lfApplied, verdict, hist>>

\* Filter the superblock and publish it; a failure here publishes this row and
\* every row below as finished.
Filter(w) ==
  LET r == job[w].row
      last == col[w] = SbCols - 1
  IN
  /\ RowAboveFar(w)
  /\ \/ /\ Fails(w) /\ ~masksFail
        /\ Fail(w, "lpf")
        /\ curSbCol' = [k \in Row |-> IF k >= r THEN SbCols + SyncRange
                                                ELSE curSbCol[k]]
        /\ UNCHANGED <<col, lfApplied, filtered>>
     \/ /\ ~Fails(w)
        /\ filtered' = filtered \cup {<<r, col[w]>>}
        /\ curSbCol' = [curSbCol EXCEPT ![r] = Published(@, col[w])]
        /\ col' = [col EXCEPT ![w] = IF last THEN @ ELSE @ + 1]
        /\ MoveTo(w, "lpf", IF last THEN "idle" ELSE "lpf")
        /\ lfApplied' = (lfApplied \/ (last /\ r = LastRow))
        /\ terminated' = (terminated \/ (last /\ r = LastRow))
        /\ UNCHANGED err
  /\ UNCHANGED <<frame, jobq, read, reconMap, rowTiles, tilesDone, job, verdict,
                 recon>>

WorkerStep(w) ==
  \/ Dequeue(w) \/ Leave(w)
  \/ Parse(w) \/ QueueParse(w)
  \/ Reconstruct(w) \/ TileRowDone(w) \/ QueueLpfAbove(w)
  \/ QueueLpfLast(w) \/ ReconWrite(w) \/ TileDone(w)
  \/ PrepareFails(w) \/ Filter(w)

\* waitHelperWorkers returns and the errors are merged.  The one-tile path
\* also asks its reader whether the data ended early; with several tiles
\* nobody asks.
Join ==
  /\ verdict = "none"
  /\ \A w \in Worker : stage[w] = "exit"
  /\ verdict' = IF \/ \E w \in Worker : err[w]
                   \/ tileCols = 1 /\ truncated # {}
                THEN "err" ELSE "ok"
  /\ UNCHANGED <<frame, queueV, sync, local, lfApplied, hist>>

Returned == verdict # "none" /\ UNCHANGED rowMTVars

RowMTNext == Join \/ Returned \/ \E w \in Worker : WorkerStep(w)

RowMTSpec == RowMTInit /\ [][RowMTNext]_rowMTVars

\* Go schedules every runnable goroutine.  sync.Cond wakes the only waiter of
\* each superblock row, so a wait whose condition holds is left.
RowMTFairSpec ==
  RowMTSpec /\ WF_rowMTVars(Join) /\ \A w \in Worker : WF_rowMTVars(WorkerStep(w))

-----------------------------------------------------------------------------
(* Properties.                                                             *)

\* The frame is decoded in an order whose output is that of the serial
\* decoder: see Vp9FrameOrder. Once a job has failed the order is free: a
\* failing filter row releases the rows below it, and the frame is rejected.
Order == INSTANCE Vp9FrameOrder WITH loopFilter <- lfActive, outcome <- verdict
NobodyFailed == \A w \in Worker : ~err[w]
ImplementsFrameOrder ==
  Order!OrderInit /\ [][NobodyFailed' => [Order!OrderNext]_(Order!orderVars)]_rowMTVars

\* Decode accepts exactly the frames the serial decoder accepts. A valid frame is
\* decoded: the queue has room for every job, and nobody terminates it while a
\* job is still to be queued. One with a row that cannot be decoded is reported
\* as invalid, whichever worker met the error, and so is one whose data end early.
\* A decoded frame is filtered once: the caller filters all of it again unless
\* loopFilterApplied is set (vp9_decoder.go:975).
VerdictMatchesContent ==
  /\ verdict # "none" => (verdict = "ok" <=> failing = NoJob /\ truncated = {})
  /\ verdict = "ok" => (lfApplied <=> lfActive) /\ (lfApplied => filtered = SB)

\* Decode returns: no worker is left waiting for a superblock, a filtered row
\* or a job that never comes, also when a row fails to parse or fails while it
\* is filtered, which releases the rows below (markRowsDone). The exceptions are
\* the two failures that release nobody: a row that fails while it is
\* reconstructed (reconMapRead waits on), and one whose filter masks cannot be
\* prepared (lfSync.read waits on).
Stranding == failing.type = "recon" \/ masksFail
FrameReturns == ~Stranding => <>(verdict # "none")
=============================================================================
