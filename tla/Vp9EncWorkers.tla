---------------------------- MODULE Vp9EncWorkers ----------------------------
(***************************************************************************)
(* The worker goroutines of the VP9 encoder. A pool of tile workers codes  *)
(* one tile column each and runs three kinds of jobs within a frame: count *)
(* passes, the write pass and the loop filter (vp9_encoder_tile_workers.go,*)
(* vp9_encoder_lf_workers.go). In a count pass every tile column has row   *)
(* workers of its own, which claim superblock rows and follow each other   *)
(* in a wavefront (vp9_encoder_row_workers.go).                            *)
(*                                                                         *)
(* Lane <<t, 0>> is the goroutine of tile column t, the dispatcher being   *)
(* that of column 0; lane <<t, w>>, w > 0, is a row helper of column t.    *)
(***************************************************************************)
EXTENDS Integers, FiniteSets

CONSTANTS
  TileCols,       \* tile columns, which is the number of tile workers
  RowThreads,     \* row workers of a tile column (vp9RowMTThreadsPerTile)
  SbRows, SbCols, \* superblock rows of a frame, and columns of a tile
  LfRange,        \* vp9LfSyncRange
  MaxPasses       \* bound of the model: count passes

ASSUME SizesAssumption ==
  /\ TileCols \in Nat /\ TileCols >= 2
  /\ RowThreads \in Nat /\ RowThreads >= 2
  /\ SbRows \in Nat /\ RowThreads <= SbRows
  /\ SbCols \in Nat \ {0}
  /\ LfRange \in Nat \ {0} /\ MaxPasses \in Nat

SyncRange == 1

Tile == 0..(TileCols - 1)
Lane == Tile \X (0..(RowThreads - 1))
Main(t) == <<t, 0>>
TileHelper == Tile \ {0}
Row == 0..(SbRows - 1)
Col == 0..(SbCols - 1)
FrameCols == TileCols * SbCols
LfWorkers == IF TileCols < SbRows THEN TileCols ELSE SbRows

VARIABLES
  jobKind, byRows,  \* the kind of the current jobs; whether count jobs use
                    \*   the row workers
  start, done,      \* tile helpers with a launch token, completion tokens
  prepDone, encodeStart,
  at, row, col,     \* where a lane is
  nextRow, doneCount, sent, abort, rowErr,  \* the row pools of the columns
  curCol,           \* vp9RowMTSync
  coded,            \* superblocks coded since the count pass began
  failed,           \* columns whose job reported an error
  replay,           \* the write pass replays the tokens of the count pass
  lfCol, filtered, lfBailed,  \* vp9LfSync, superblocks filtered, a worker gave up
  passes

tilePool == <<jobKind, byRows, start, done, prepDone, encodeStart>>
rowPool == <<nextRow, doneCount, sent, abort, rowErr, curCol>>
filter == <<lfCol, filtered, lfBailed>>
vars == <<jobKind, byRows, start, done, prepDone, encodeStart, at, row, col,
          nextRow, doneCount, sent, abort, rowErr, curCol, coded, failed, replay,
          lfCol, filtered, lfBailed, passes>>

Init ==
  /\ jobKind = "none" /\ byRows = FALSE
  /\ start = {} /\ done = 0 /\ prepDone = 0 /\ encodeStart = FALSE
  /\ at = [l \in Lane |-> IF l = Main(0) THEN "idle" ELSE "wait"]
  /\ row = [l \in Lane |-> 0] /\ col = [l \in Lane |-> 0]
  /\ nextRow = [t \in Tile |-> 0] /\ doneCount = [t \in Tile |-> 0]
  /\ sent = [t \in Tile |-> 0]
  /\ abort = [t \in Tile |-> FALSE] /\ rowErr = [t \in Tile |-> FALSE]
  /\ curCol = [t \in Tile |-> [r \in Row |-> -1]]
  /\ coded = [t \in Tile |-> {}]
  /\ failed = {} /\ replay = FALSE
  /\ lfCol = [r \in Row |-> -1] /\ filtered = {} /\ lfBailed = FALSE
  /\ passes = 0

-----------------------------------------------------------------------------
(* The tile pool. Definitions named after another one with a suffix are    *)
(* faulty variants of it, which Next does not use.                         *)

\* startHelperWorkers
Launch(kind) == jobKind' = kind /\ start' = TileHelper

\* The end of a job: helpers post a token, the dispatcher goes on to collect.
EndJob(t) ==
  /\ at' = [at EXCEPT ![Main(t)] = IF t = 0 THEN "collect" ELSE "wait"]
  /\ done' = IF t = 0 THEN done ELSE done + 1
  /\ row' = [row EXCEPT ![Main(t)] = 0] /\ col' = [col EXCEPT ![Main(t)] = 0]

\* workerLoop receives the launch token.
TakeJob(t) ==
  /\ t \in start /\ at[Main(t)] = "wait"
  /\ start' = start \ {t}
  /\ at' = [at EXCEPT ![Main(t)] = IF jobKind = "count" THEN "job"
                                   ELSE IF jobKind = "write" THEN "clone" ELSE "lfread"]
  /\ row' = [row EXCEPT ![Main(t)] = IF jobKind # "filter" THEN 0
                                    ELSE IF t < LfWorkers THEN t ELSE SbRows]
  /\ col' = [col EXCEPT ![Main(t)] = 0]
  /\ UNCHANGED <<jobKind, byRows, done, prepDone, encodeStart, rowPool, coded,
                 failed, replay, filter, passes>>

\* The encode call is over, and what was recorded of it.
EndFrame ==
  /\ at' = [at EXCEPT ![Main(0)] = "idle"]
  /\ coded' = [t \in Tile |-> {}] /\ filtered' = {} /\ lfBailed' = FALSE
  /\ failed' = {} /\ replay' = FALSE

\* waitHelperWorkers
Collect ==
  /\ at[Main(0)] = "collect" /\ done = TileCols - 1
  /\ done' = 0
  /\ \/ /\ jobKind = "filter" /\ EndFrame
     \/ /\ jobKind # "filter"
        /\ at' = [at EXCEPT ![Main(0)] =
                    IF jobKind = "count" THEN "counted" ELSE "written"]
        /\ UNCHANGED <<coded, filtered, lfBailed, failed, replay>>
  /\ UNCHANGED <<jobKind, byRows, start, prepDone, encodeStart, row, col, rowPool,
                 lfCol, passes>>

-----------------------------------------------------------------------------
(* Count passes.                                                           *)

\* collectVP9FrameTileCountsWithPool: the first pass of a frame, or a second
\* one after the transform mode was reduced or tokens did not fit.
StartCount ==
  /\ at[Main(0)] \in {"idle", "counted"} /\ passes < MaxPasses
  /\ passes' = passes + 1
  /\ Launch("count")
  /\ byRows' \in BOOLEAN
  /\ at' = [at EXCEPT ![Main(0)] = "job"]
  /\ coded' = [t \in Tile |-> {}] /\ failed' = {} /\ replay' = FALSE
  /\ UNCHANGED <<done, prepDone, encodeStart, row, col, rowPool, filter>>

\* runVP9CountTileJobNoWG without row workers: key frames, for one.
CountTile(t) ==
  /\ at[Main(t)] = "job" /\ ~byRows
  /\ coded' = [coded EXCEPT ![t] = Row \X Col]
  /\ failed' \in {failed, failed \cup {t}}
  /\ EndJob(t)
  /\ UNCHANGED <<jobKind, byRows, start, prepDone, encodeStart, rowPool,
                 replay, filter, passes>>

\* Faulty variant of Dispatch: doneCount is left at what the last batch made it.
DispatchStale(t) ==
  /\ at[Main(t)] = "job" /\ byRows
  /\ nextRow' = [nextRow EXCEPT ![t] = 0]
  /\ sent' = [sent EXCEPT ![t] = 0]
  /\ abort' = [abort EXCEPT ![t] = FALSE] /\ rowErr' = [rowErr EXCEPT ![t] = FALSE]
  /\ curCol' = [curCol EXCEPT ![t] = [r \in Row |-> -1]]
  /\ at' = [at EXCEPT ![Main(t)] = "send"]
  /\ UNCHANGED <<tilePool, row, col, doneCount, coded, failed, replay, filter, passes>>

\* runVP9CountTileRows and vp9RowWorkerPool.dispatch up to the start signals.
Dispatch(t) ==
  /\ at[Main(t)] = "job" /\ byRows
  /\ nextRow' = [nextRow EXCEPT ![t] = 0]
  /\ doneCount' = [doneCount EXCEPT ![t] = 0]
  /\ sent' = [sent EXCEPT ![t] = 0]
  /\ abort' = [abort EXCEPT ![t] = FALSE] /\ rowErr' = [rowErr EXCEPT ![t] = FALSE]
  /\ curCol' = [curCol EXCEPT ![t] = [r \in Row |-> -1]]
  /\ at' = [at EXCEPT ![Main(t)] = "send"]
  /\ UNCHANGED <<tilePool, row, col, coded, failed, replay, filter, passes>>

\* An unbuffered start channel: the next helper takes the signal, and after the
\* last one the column's own goroutine takes part as worker 0.
SendStart(t) ==
  LET w == sent[t] + 1
  IN
  /\ at[Main(t)] = "send" /\ at[<<t, w>>] = "wait"
  /\ sent' = [sent EXCEPT ![t] = w]
  /\ at' = [at EXCEPT ![<<t, w>>] = "claim",
                      ![Main(t)] = IF w = RowThreads - 1 THEN "claim" ELSE "send"]
  /\ UNCHANGED <<tilePool, row, col, nextRow, doneCount, abort, rowErr, curCol,
                 coded, failed, replay, filter, passes>>

\* consumeRows returns: a helper counts itself done, worker 0 goes on to join.
Leave(l) ==
  /\ at' = [at EXCEPT ![l] = IF l[2] = 0 THEN "join" ELSE "wait"]
  /\ doneCount' = [doneCount EXCEPT ![l[1]] = IF l[2] = 0 THEN @ ELSE @ + 1]
  /\ row' = [row EXCEPT ![l] = 0] /\ col' = [col EXCEPT ![l] = 0]

\* consumeRows claims a row.
Claim(l) ==
  /\ at[l] = "claim"
  /\ \/ abort[l[1]] /\ Leave(l) /\ UNCHANGED nextRow
     \/ /\ ~abort[l[1]]
        /\ nextRow' = [nextRow EXCEPT ![l[1]] = @ + 1]
        /\ IF nextRow[l[1]] >= SbRows
             THEN Leave(l)
             ELSE /\ row' = [row EXCEPT ![l] = nextRow[l[1]]]
                  /\ col' = [col EXCEPT ![l] = 0]
                  /\ at' = [at EXCEPT ![l] = "read"]
                  /\ UNCHANGED doneCount
  /\ UNCHANGED <<tilePool, sent, abort, rowErr, curCol, coded, failed, replay,
                 filter, passes>>

\* Faulty variant of ReadTarget: one column short.
ReadTargetShort(c) == c - SyncRange

\* The progress of the row above that vp9RowMTSync.read waits for.
ReadTarget(c) == c - SyncRange + 1

ReadAbove(l) ==
  /\ at[l] = "read"
  /\ row[l] > 0 /\ col[l] % SyncRange = 0 =>
       curCol[l[1]][row[l] - 1] >= ReadTarget(col[l])
  /\ at' = [at EXCEPT ![l] = "code"]
  /\ UNCHANGED <<tilePool, row, col, rowPool, coded, failed, replay, filter, passes>>

\* Faulty variant of CodeSb: a row ends where its tokens stop fitting.
CodeSbGivesUp(l) ==
  /\ at[l] = "code"
  /\ \E fits \in BOOLEAN :
       IF fits
         THEN /\ coded' = [coded EXCEPT ![l[1]] = @ \cup {<<row[l], col[l]>>}]
              /\ curCol' = [curCol EXCEPT ![l[1]][row[l]] =
                   IF col[l] < SbCols - 1 THEN col[l] ELSE SbCols + SyncRange]
              /\ IF col[l] < SbCols - 1
                   THEN /\ col' = [col EXCEPT ![l] = @ + 1]
                        /\ at' = [at EXCEPT ![l] = "read"]
                   ELSE at' = [at EXCEPT ![l] = "ended"] /\ UNCHANGED col
         ELSE at' = [at EXCEPT ![l] = "ended"] /\ UNCHANGED <<coded, curCol, col>>
  /\ UNCHANGED <<tilePool, row, nextRow, doneCount, sent, abort, rowErr, failed,
                 replay, filter, passes>>

\* A superblock of writeVP9ModesTileRow and vp9RowMTSync.write. Tokens that no
\* longer fit do not end the row.
CodeSb(l) ==
  LET last == col[l] = SbCols - 1
  IN
  /\ at[l] = "code"
  /\ coded' = [coded EXCEPT ![l[1]] = @ \cup {<<row[l], col[l]>>}]
  /\ curCol' = [curCol EXCEPT ![l[1]][row[l]] =
                  IF last THEN SbCols + SyncRange
                  ELSE IF col[l] % SyncRange = SyncRange - 1 THEN col[l] ELSE @]
  /\ col' = [col EXCEPT ![l] = IF last THEN @ ELSE @ + 1]
  /\ at' = [at EXCEPT ![l] = IF last THEN "ended" ELSE "read"]
  /\ UNCHANGED <<tilePool, row, nextRow, doneCount, sent, abort, rowErr, failed,
                 replay, filter, passes>>

\* runVP9CountTileRow returns: tokens that did not fit abort the batch.
EndRow(l) ==
  /\ at[l] = "ended"
  /\ \/ /\ at' = [at EXCEPT ![l] = "claim"]
        /\ UNCHANGED <<row, col, doneCount, abort, rowErr>>
     \/ /\ Leave(l)
        /\ abort' = [abort EXCEPT ![l[1]] = TRUE]
        /\ rowErr' = [rowErr EXCEPT ![l[1]] = TRUE]
  /\ UNCHANGED <<tilePool, nextRow, sent, curCol, coded, failed, replay,
                 filter, passes>>

\* The end of dispatch, and the rows' tokens put together.
Join(t) ==
  /\ at[Main(t)] = "join" /\ doneCount[t] >= RowThreads - 1
  /\ failed' = IF rowErr[t] THEN failed \cup {t} ELSE failed
  /\ EndJob(t)
  /\ UNCHANGED <<jobKind, byRows, start, prepDone, encodeStart, rowPool,
                 coded, replay, filter, passes>>

-----------------------------------------------------------------------------
(* The write pass.                                                         *)

\* Faulty variant of StartWrite: encodePrepDone is not reset.
StartWriteStale ==
  /\ at[Main(0)] = "counted"
  /\ encodeStart' = FALSE
  /\ Launch("write")
  /\ replay' \in {failed = {}, FALSE} /\ failed' = {}
  /\ at' = [at EXCEPT ![Main(0)] = "prep"]
  /\ UNCHANGED <<byRows, done, prepDone, row, col, rowPool, coded, filter, passes>>

\* writeVP9FrameTilesThreaded. Tokens are replayed if all columns have theirs.
StartWrite ==
  /\ at[Main(0)] = "counted"
  /\ prepDone' = 0 /\ encodeStart' = FALSE
  /\ Launch("write")
  /\ replay' \in {failed = {}, FALSE} /\ failed' = {}
  /\ at' = [at EXCEPT ![Main(0)] = "prep"]
  /\ UNCHANGED <<byRows, done, row, col, rowPool, coded, filter, passes>>

\* runVP9EncodeTilePrepJob: a helper has copied the encoder.
Cloned(t) ==
  /\ at[Main(t)] = "clone"
  /\ prepDone' = prepDone + 1
  /\ at' = [at EXCEPT ![Main(t)] = "gate"]
  /\ UNCHANGED <<jobKind, byRows, start, done, encodeStart, row, col, rowPool,
                 coded, failed, replay, filter, passes>>

OpenGate ==
  /\ at[Main(0)] = "prep" /\ prepDone >= TileCols - 1
  /\ encodeStart' = TRUE
  /\ at' = [at EXCEPT ![Main(0)] = "write"]
  /\ UNCHANGED <<jobKind, byRows, start, done, prepDone, row, col, rowPool, coded,
                 failed, replay, filter, passes>>

PassGate(t) ==
  /\ at[Main(t)] = "gate" /\ encodeStart
  /\ at' = [at EXCEPT ![Main(t)] = "write"]
  /\ UNCHANGED <<tilePool, row, col, rowPool, coded, failed, replay, filter, passes>>

\* runVP9EncodeTileJob, which fails if the output is too small.
WriteTile(t) ==
  /\ at[Main(t)] = "write"
  /\ failed' \in {failed, failed \cup {t}}
  /\ EndJob(t)
  /\ UNCHANGED <<jobKind, byRows, start, prepDone, encodeStart, rowPool,
                 coded, replay, filter, passes>>

-----------------------------------------------------------------------------
(* The loop filter.                                                        *)

\* The call returns if the headers do not fit, a column failed, or the frame is
\* not filtered.
FinishFrame ==
  /\ at[Main(0)] \in {"counted", "written"}
  /\ EndFrame
  /\ UNCHANGED <<tilePool, row, col, rowPool, lfCol, passes>>

\* applyVP9EncoderLoopFilterMT
StartFilter ==
  /\ at[Main(0)] = "written" /\ failed = {}
  /\ Launch("filter")
  /\ lfCol' = [r \in Row |-> -1] /\ filtered' = {} /\ lfBailed' = FALSE
  /\ at' = [at EXCEPT ![Main(0)] = "lfread"]
  /\ row' = [row EXCEPT ![Main(0)] = 0] /\ col' = [col EXCEPT ![Main(0)] = 0]
  /\ UNCHANGED <<byRows, done, prepDone, encodeStart, rowPool, coded, failed,
                 replay, passes>>

\* vp9LfSync.read
LfRead(t) ==
  LET r == row[Main(t)]  c == col[Main(t)]
  IN
  /\ at[Main(t)] = "lfread" /\ r < SbRows
  /\ r > 0 /\ c % LfRange = 0 => lfCol[r - 1] >= c + LfRange
  /\ at' = [at EXCEPT ![Main(t)] = "lf"]
  /\ UNCHANGED <<tilePool, row, col, rowPool, coded, failed, replay, filter, passes>>

\* vp9FilterLoopBlock and vp9LfSync.write
FilterSb(t) ==
  LET r == row[Main(t)]  c == col[Main(t)]  last == c = FrameCols - 1
  IN
  /\ at[Main(t)] = "lf"
  /\ filtered' = filtered \cup {<<r, c>>}
  /\ lfCol' = [lfCol EXCEPT ![r] = IF last THEN FrameCols + LfRange
                                   ELSE IF c % LfRange = 0 THEN c ELSE @]
  /\ col' = [col EXCEPT ![Main(t)] = IF last THEN 0 ELSE c + 1]
  /\ row' = [row EXCEPT ![Main(t)] = IF last THEN r + LfWorkers ELSE r]
  /\ at' = [at EXCEPT ![Main(t)] = "lfread"]
  /\ UNCHANGED <<tilePool, rowPool, coded, failed, replay, lfBailed, passes>>

\* A block without its mask: the rows this worker still has are released.
LfBail(t) ==
  LET r == row[Main(t)]
  IN
  /\ at[Main(t)] = "lf"
  /\ lfCol' = [q \in Row |-> IF q >= r /\ (q - r) % LfWorkers = 0
                               THEN FrameCols + LfRange ELSE lfCol[q]]
  /\ lfBailed' = TRUE
  /\ EndJob(t)
  /\ UNCHANGED <<jobKind, byRows, start, prepDone, encodeStart, rowPool,
                 coded, failed, replay, filtered, passes>>

LfEnd(t) ==
  /\ at[Main(t)] = "lfread" /\ row[Main(t)] >= SbRows
  /\ EndJob(t)
  /\ UNCHANGED <<jobKind, byRows, start, prepDone, encodeStart, rowPool,
                 coded, failed, replay, filter, passes>>

-----------------------------------------------------------------------------
LaneStep(l) == Claim(l) \/ ReadAbove(l) \/ CodeSb(l) \/ EndRow(l)

TileStep(t) ==
  \/ TakeJob(t)
  \/ CountTile(t) \/ Dispatch(t) \/ SendStart(t) \/ Join(t)
  \/ Cloned(t) \/ PassGate(t) \/ WriteTile(t)
  \/ LfRead(t) \/ FilterSb(t) \/ LfBail(t) \/ LfEnd(t)

\* The encoder's caller, between jobs.
NextPass == StartCount \/ StartWrite \/ FinishFrame \/ StartFilter

\* Nothing more is encoded, in the model.
Rest == at[Main(0)] = "idle" /\ passes = MaxPasses /\ UNCHANGED vars

Next ==
  \/ NextPass \/ Collect \/ OpenGate \/ Rest
  \/ \E t \in Tile : TileStep(t)
  \/ \E l \in Lane : LaneStep(l)

Spec == Init /\ [][Next]_vars

\* Goroutines are scheduled, and the encoder goes on within a frame.
FairSpec ==
  /\ Spec
  /\ WF_vars(StartWrite) /\ WF_vars(FinishFrame)
  /\ WF_vars(Collect) /\ WF_vars(OpenGate)
  /\ \A t \in Tile : WF_vars(TileStep(t))
  /\ \A l \in Lane : WF_vars(LaneStep(l))

-----------------------------------------------------------------------------
(* Properties.                                                             *)

\* A superblock is coded after the one above it, whichever worker got which
\* row, and also while a batch is being aborted; one is filtered after those
\* above it and above to the right, unless a worker has given up.
NeighboursReady ==
  /\ \A l \in Lane : at[l] = "code" /\ row[l] > 0 =>
       <<row[l] - 1, col[l]>> \in coded[l[1]]
  /\ \A t \in Tile : at[Main(t)] = "lf" /\ row[Main(t)] > 0 /\ ~lfBailed =>
       \A c \in {col[Main(t)], col[Main(t)] + 1} \cap 0..(FrameCols - 1) :
         <<row[Main(t)] - 1, c>> \in filtered

\* Tile column 0 is quiescent until every helper has copied the encoder.
CloneQuiescent ==
  at[Main(0)] = "write" =>
    \A t \in TileHelper : t \notin start /\ at[Main(t)] # "clone"

\* Tokens are replayed only if every superblock of every column was coded and
\* put its tokens: an aborted batch, or one joined too early, never passes.
ReplayIsComplete ==
  replay => \A t \in Tile : coded[t] = Row \X Col

\* A frame is always finished: no row waits for a row above that was given up,
\* and no worker for a launch or completion token that never comes.
FrameReturns == at[Main(0)] # "idle" ~> at[Main(0)] = "idle"
=============================================================================
