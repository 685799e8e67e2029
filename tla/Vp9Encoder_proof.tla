-------------------------- MODULE Vp9Encoder_proof --------------------------
(***************************************************************************)
(* Proofs about the VP9 encoder: its workers, for any number of tile       *)
(* columns and row workers, any frame size and any sync range of the       *)
(* filter; and its lookahead, for any depth, options and outcomes.         *)
(*                                                                         *)
(* The workers. Completion tokens count the helpers that have finished     *)
(* (JobInv) and the barrier counter those that have copied the encoder     *)
(* (PrepInv), so a counter that reaches its target leaves nobody behind.   *)
(* A row worker's counter does the same within a column (SignalInv).       *)
(* Progress is never ahead of what was coded or filtered, nor behind what  *)
(* a lane waited for (RowInv, FilterInv); and what a count pass leaves is  *)
(* complete unless its column failed (CountInv).                           *)
(*                                                                         *)
(* The lookahead. What is staged predicts from the decoder's reference     *)
(* while no member of a batch refreshed one (DriftInv); staged packets,    *)
(* the pending frame and the ring stand in one line (LineInv).             *)
(***************************************************************************)
EXTENDS Vp9EncWorkers, Vp9Lookahead, FiniteSetTheorems, TLAPS

-----------------------------------------------------------------------------
(* The invariant.                                                          *)

AtCode == {"read", "code"}
AtRow == AtCode \cup {"ended"}
AtBatch == AtRow \cup {"send", "claim", "join"}
AtCount == AtBatch \cup {"job"}
AtWrite == {"clone", "gate", "write"}
AtFilter == {"lfread", "lf"}

KindAt(kind) == IF kind = "count" THEN AtCount ELSE IF kind = "write" THEN AtWrite
                ELSE IF kind = "filter" THEN AtFilter ELSE {}

Place == AtCount \cup AtWrite \cup AtFilter
           \cup {"idle", "counted", "written", "prep", "collect", "wait"}

TypeInv ==
  /\ jobKind \in {"none", "count", "write", "filter"}
  /\ start \in SUBSET TileHelper /\ done \in Nat /\ prepDone \in Nat
  /\ at \in [Lane -> Place] /\ row \in [Lane -> Nat] /\ col \in [Lane -> Nat]
  /\ nextRow \in [Tile -> Nat] /\ doneCount \in [Tile -> Nat] /\ sent \in [Tile -> Nat]
  /\ abort \in [Tile -> BOOLEAN] /\ rowErr \in [Tile -> BOOLEAN]
  /\ curCol \in [Tile -> [Row -> Int]] /\ coded \in [Tile -> SUBSET (Row \X Col)]
  /\ failed \in SUBSET Tile /\ replay \in BOOLEAN
  /\ lfCol \in [Row -> Int] /\ lfBailed \in BOOLEAN

\* Helpers that have done the current job, and those past the copy of the encoder.
Finished == {t \in TileHelper : t \notin start /\ at[Main(t)] = "wait"}
Past == {t \in TileHelper : t \notin start /\ at[Main(t)] # "clone"}

Resting == at[Main(0)] \in {"idle", "counted", "written"}

\* Launch and completion tokens: the dispatcher rests only when every helper has
\* finished, and until then counts those that have.
JobInv ==
  /\ \/ at[Main(0)] \in {"idle", "counted", "written", "collect"}
     \/ jobKind = "count" /\ at[Main(0)] \in AtCount
     \/ jobKind = "write" /\ at[Main(0)] \in {"prep", "write"}
     \/ jobKind = "filter" /\ at[Main(0)] \in AtFilter
  /\ at[Main(0)] = "collect" => jobKind # "none"
  /\ \A t \in TileHelper : at[Main(t)] = "wait" \/ at[Main(t)] \in KindAt(jobKind)
  /\ \A t \in start : at[Main(t)] = "wait"
  /\ IF Resting THEN Finished = TileHelper /\ done = 0
                ELSE done = Cardinality(Finished)

\* The barrier of the write pass.
PrepInv ==
  jobKind = "write" /\ ~Resting =>
    /\ prepDone = Cardinality(Past)
    /\ at[Main(0)] = "write" => Past = TileHelper

\* The start signals and the done counter of a column's row workers.
Batch(t) == at[Main(t)] \in AtBatch
RowHelper == 1..(RowThreads - 1)
Back(t) == {w \in 1..sent[t] : at[<<t, w>>] = "wait"}

SignalOf(t) ==
  /\ \A w \in RowHelper :
       \/ at[<<t, w>>] = "wait"
       \/ Batch(t) /\ w <= sent[t] /\ at[<<t, w>>] \in AtRow \cup {"claim"}
  /\ Batch(t) => /\ sent[t] \in 0..(RowThreads - 1)
                 /\ at[Main(t)] = "send" <=> sent[t] < RowThreads - 1
                 /\ doneCount[t] = Cardinality(Back(t))
                 /\ abort[t] = rowErr[t]

SignalInv == \A t \in Tile : SignalOf(t)

\* Rows within a batch: who holds which, and how far they have come.
LaneInv(l) ==
  /\ at[l] \in AtRow => row[l] \in Row /\ row[l] < nextRow[l[1]]
  /\ at[l] \in AtCode => col[l] \in Col /\ curCol[l[1]][row[l]] = col[l] - 1
  /\ at[l] = "ended" => curCol[l[1]][row[l]] = SbCols + 1
  /\ at[l] = "code" /\ row[l] > 0 => curCol[l[1]][row[l] - 1] >= col[l]

Claimed(t, r) == \E l \in Lane : l[1] = t /\ at[l] \in AtRow /\ row[l] = r

ProgressInv(t) ==
  /\ \A r \in Row : r >= nextRow[t] => curCol[t][r] = -1
  /\ \A r \in Row : r < nextRow[t] => curCol[t][r] = SbCols + 1 \/ Claimed(t, r)
  /\ \A r \in Row, c \in Col : c <= curCol[t][r] => <<r, c>> \in coded[t]
  /\ at[Main(t)] = "join" => abort[t] \/ nextRow[t] >= SbRows

RowsOf(t) ==
  /\ \A l \in Lane : l[1] = t => LaneInv(l)
  /\ \A k, l \in Lane :
       /\ k[1] = t /\ l[1] = t /\ at[k] \in AtRow /\ at[l] \in AtRow
       /\ row[k] = row[l]
       => k = l
  /\ Batch(t) => ProgressInv(t)

RowInv == \A t \in Tile : RowsOf(t)

\* What a count pass leaves behind, column by column.
Counted(t) ==
  IF t = 0 THEN at[Main(0)] \in {"collect", "counted"} ELSE t \in Finished

CountInv ==
  /\ jobKind = "count" /\ at[Main(0)] # "idle" =>
       \A t \in Tile : Counted(t) => t \in failed \/ coded[t] = Row \X Col
  /\ replay => jobKind \in {"write", "filter"} /\ \A t \in Tile : coded[t] = Row \X Col
  /\ at[Main(0)] = "counted" => jobKind = "count"

\* The filter wavefront, as long as nobody has given up.
FilterGroup(c) == c - (c % LfRange)

LfLaneInv(t) ==
  LET r == row[Main(t)]  c == col[Main(t)]
  IN
  /\ t < LfWorkers => r % LfWorkers = t
  /\ t >= LfWorkers => r >= SbRows
  /\ c \in 0..(FrameCols - 1)
  /\ at[Main(t)] = "lf" => r < SbRows
  /\ r < SbRows =>
       /\ lfCol[r] < c
       /\ \A b \in 0..(c - 1) : <<r, b>> \in filtered
       /\ r > 0 /\ (at[Main(t)] = "lf" \/ c % LfRange # 0) =>
            lfCol[r - 1] >= FilterGroup(c) + LfRange

FilterInv ==
  jobKind = "filter" /\ ~Resting /\ ~lfBailed =>
    /\ \A t \in Tile : at[Main(t)] \in AtFilter => LfLaneInv(t)
    /\ \A t \in Tile, r \in Row :
         /\ r % LfWorkers = t
         /\ t \in start \/ (at[Main(t)] \in AtFilter /\ r > row[Main(t)])
         => lfCol[r] = -1
    /\ \A r \in Row, c \in 0..(FrameCols - 1) : c <= lfCol[r] => <<r, c>> \in filtered

IInv == TypeInv /\ JobInv /\ PrepInv /\ SignalInv /\ RowInv /\ CountInv /\ FilterInv

-----------------------------------------------------------------------------
(* Lanes, counting, and which job a lane is in.                            *)

LEMMA Sizes ==
  /\ TileCols \in Nat /\ TileCols >= 2 /\ RowThreads \in Nat /\ RowThreads >= 2
  /\ SbRows \in Nat /\ SbRows >= 2 /\ SbCols \in Nat /\ SbCols >= 1
  /\ LfRange \in Nat /\ LfRange >= 1 /\ FrameCols \in Nat /\ FrameCols >= 1
  /\ LfWorkers \in Nat /\ LfWorkers >= 1 /\ LfWorkers <= SbRows /\ LfWorkers <= TileCols
  /\ 0 \in Tile /\ 0 \notin TileHelper
  <1>1. /\ TileCols \in Nat /\ TileCols >= 2 /\ RowThreads \in Nat /\ RowThreads >= 2
        /\ SbRows \in Nat /\ SbRows >= 2 /\ SbCols \in Nat /\ SbCols >= 1
        /\ LfRange \in Nat /\ LfRange >= 1
        BY SizesAssumption
  <1>2. FrameCols \in Nat /\ FrameCols >= 1
        BY <1>1 DEF FrameCols
  <1> QED
      BY <1>1, <1>2 DEF LfWorkers, Tile, TileHelper

LEMMA Lanes ==
  /\ \A t \in Tile : Main(t) \in Lane /\ Main(t)[1] = t /\ Main(t)[2] = 0
  /\ \A t, u \in Tile : Main(t) = Main(u) => t = u
  /\ \A t \in Tile, w \in RowHelper :
       /\ <<t, w>> \in Lane
       /\ \A u \in Tile : <<t, w>> # Main(u)
  /\ \A l \in Lane :
       /\ l[1] \in Tile /\ l[2] \in 0..(RowThreads - 1)
       /\ l[2] = 0 => l = Main(l[1])
       /\ l[2] # 0 => l[2] \in RowHelper /\ l = <<l[1], l[2]>>
  BY Sizes DEF Main, Lane, RowHelper

LEMMA Helpers ==
  /\ IsFiniteSet(TileHelper) /\ Cardinality(TileHelper) = TileCols - 1
  /\ TileHelper \subseteq Tile
  <1>1. TileHelper = 1..(TileCols - 1)
        BY Sizes DEF TileHelper, Tile
  <1>2. IsFiniteSet(1..(TileCols - 1)) /\ Cardinality(1..(TileCols - 1)) = TileCols - 1
        BY Sizes, FS_Interval
  <1> QED
      BY <1>1, <1>2 DEF TileHelper

\* A set of helpers is counted, and full if its count is.
LEMMA HelperSets ==
  ASSUME NEW S \in SUBSET TileHelper
  PROVE  /\ IsFiniteSet(S) /\ Cardinality(S) \in Nat
         /\ Cardinality(S) >= TileCols - 1 => S = TileHelper
  BY Helpers, FS_Subset, FS_CardinalityType, Sizes

\* The job of a lane is the job that was launched.
LEMMA KindOf ==
  ASSUME TypeInv, JobInv, NEW t \in Tile
  PROVE  /\ at[Main(t)] \in AtCount => jobKind = "count" /\ ~Resting
         /\ at[Main(t)] \in AtWrite \cup {"prep"} => jobKind = "write" /\ ~Resting
         /\ at[Main(t)] \in AtFilter => jobKind = "filter" /\ ~Resting
         /\ t \in start => ~Resting /\ jobKind # "none"
         /\ Resting /\ t # 0 => at[Main(t)] = "wait"
  <1>1. t = 0 \/ t \in TileHelper
        BY DEF TileHelper
  <1>2. CASE t = 0
        BY <1>2, Sizes DEF JobInv, TypeInv, Resting, AtCount, AtBatch, AtRow, AtCode, AtWrite, AtFilter
  <1>3. CASE t \in TileHelper
    <2>1. at[Main(t)] = "wait" \/ at[Main(t)] \in KindAt(jobKind)
          BY <1>3 DEF JobInv
    <2>2. Resting => t \notin start /\ at[Main(t)] = "wait"
          BY <1>3 DEF JobInv, Finished
    <2>3. jobKind = "none" => Resting
          BY DEF JobInv, Resting, AtCount, AtWrite, AtFilter
    <2> QED
        BY <1>3, <2>1, <2>2, <2>3, Sizes
        DEF TypeInv, KindAt, AtCount, AtBatch, AtRow, AtCode, AtWrite, AtFilter
  <1> QED
      BY <1>1, <1>2, <1>3

\* Steps within a job: no lane of a tile column ends or begins one.
Steady(t) ==
  \/ at'[Main(t)] = at[Main(t)]
  \/ at[Main(t)] \in AtCount /\ at'[Main(t)] \in AtCount
  \/ at[Main(t)] \in AtFilter /\ at'[Main(t)] \in AtFilter
  \/ t # 0 /\ at[Main(t)] = "gate" /\ at'[Main(t)] = "write"

LEMMA SameJob ==
  ASSUME TypeInv, JobInv, PrepInv, UNCHANGED <<jobKind, start, done, prepDone>>,
         \A t \in Tile : Steady(t)
  PROVE  /\ JobInv' /\ PrepInv'
         /\ Resting' = Resting /\ Finished' = Finished
         /\ \A t \in Tile : Counted(t)' = Counted(t)
  <1> USE DEF AtCount, AtBatch, AtRow, AtCode, AtWrite, AtFilter
  <1>1. \A t \in Tile : /\ at'[Main(t)] = "wait" <=> at[Main(t)] = "wait"
                        /\ at'[Main(t)] = "clone" <=> at[Main(t)] = "clone"
        BY DEF Steady
  <1>2. Finished' = Finished /\ Past' = Past
        BY <1>1, Helpers DEF Finished, Past
  <1>3. \/ at'[Main(0)] = at[Main(0)]
        \/ at[Main(0)] \in AtCount /\ at'[Main(0)] \in AtCount
        \/ at[Main(0)] \in AtFilter /\ at'[Main(0)] \in AtFilter
        BY Sizes DEF Steady
  <1>4. Resting' = Resting
        BY <1>3 DEF Resting
  <1>5. \A t \in TileHelper : at'[Main(t)] = "wait" \/ at'[Main(t)] \in KindAt(jobKind)
    <2> TAKE t \in TileHelper
    <2>1. at[Main(t)] = "wait" \/ at[Main(t)] \in KindAt(jobKind)
          BY DEF JobInv
    <2>2. t \in Tile
          BY Helpers
    <2> QED
        BY <2>1, <2>2 DEF Steady, KindAt, TypeInv
  <1>6. JobInv'
    <2>1. \A t \in start : at'[Main(t)] = "wait"
          BY <1>1, Helpers DEF JobInv, TypeInv
    <2>2. /\ \/ at'[Main(0)] \in {"idle", "counted", "written", "collect"}
             \/ jobKind = "count" /\ at'[Main(0)] \in AtCount
             \/ jobKind = "write" /\ at'[Main(0)] \in {"prep", "write"}
             \/ jobKind = "filter" /\ at'[Main(0)] \in AtFilter
          /\ at'[Main(0)] = "collect" => jobKind # "none"
          BY <1>3 DEF JobInv
    <2> QED
        BY <1>2, <1>4, <1>5, <2>1, <2>2 DEF JobInv
  <1>7. PrepInv'
        BY <1>2, <1>3, <1>4 DEF PrepInv
  <1>8. \A t \in Tile : Counted(t)' = Counted(t)
        BY <1>2, <1>3 DEF Counted
  <1> QED
      BY <1>2, <1>4, <1>6, <1>7, <1>8

\* Steps outside batches: no lane of a batch moves, and no batch begins or ends.
Outside ==
  /\ UNCHANGED rowPool
  /\ \A t \in Tile, w \in RowHelper : at'[<<t, w>>] = at[<<t, w>>]
  /\ \A t \in Tile : Batch(t)' = Batch(t)
  /\ \A t \in Tile : Batch(t) => at'[Main(t)] = at[Main(t)] /\ coded'[t] = coded[t]
  /\ \A l \in Lane : Batch(l[1]) => row'[l] = row[l] /\ col'[l] = col[l]

LEMMA SameRows ==
  ASSUME TypeInv, SignalInv, RowInv, Outside
  PROVE  SignalInv' /\ RowInv'
  <1>1. SignalInv'
    <2> SUFFICES ASSUME NEW t \in Tile PROVE SignalOf(t)'
        BY DEF SignalInv
    <2>0. SignalOf(t)
          BY DEF SignalInv
    <2>1. ASSUME Batch(t) PROVE Back(t)' = Back(t)
      <3>1. sent'[t] = sent[t] /\ sent[t] \in 0..(RowThreads - 1)
            BY <2>0, <2>1 DEF Outside, rowPool, SignalOf
      <3>2. \A w \in 1..sent[t] : w \in RowHelper
            BY <3>1, Sizes DEF RowHelper
      <3>3. \A w \in 1..sent[t] : at'[<<t, w>>] = at[<<t, w>>]
            BY <3>2 DEF Outside
      <3> QED
          BY <3>1, <3>3 DEF Back
    <2> QED
        BY <2>0, <2>1 DEF Outside, rowPool, SignalOf
  <1>2. \A l \in Lane : at[l] \in AtRow \/ at'[l] \in AtRow
          => /\ Batch(l[1]) /\ Batch(l[1])' /\ at'[l] = at[l]
             /\ row'[l] = row[l] /\ col'[l] = col[l]
    <2> TAKE l \in Lane
    <2> HAVE at[l] \in AtRow \/ at'[l] \in AtRow
    <2>1. CASE l[2] = 0
      <3>1. l = Main(l[1]) /\ l[1] \in Tile
            BY <2>1, Lanes
      <3>2. Batch(l[1]) \/ Batch(l[1])'
            BY <3>1 DEF Batch, AtBatch
      <3> QED
          BY <3>1, <3>2 DEF Outside
    <2>2. CASE l[2] # 0
      <3>1. l[1] \in Tile /\ l[2] \in RowHelper /\ l = <<l[1], l[2]>>
            BY <2>2, Lanes
      <3>2. at'[l] = at[l]
            BY <3>1 DEF Outside
      <3>3. Batch(l[1])
            BY <3>1, <3>2 DEF SignalInv, SignalOf, AtRow, AtCode
      <3> QED
          BY <3>1, <3>2, <3>3 DEF Outside
    <2> QED
        BY <2>1, <2>2
  <1>3. \A l \in Lane : LaneInv(l)'
    <2> TAKE l \in Lane
    <2>1. LaneInv(l)
          BY Lanes DEF RowInv, RowsOf
    <2> QED
        BY <1>2, <2>1 DEF LaneInv, Outside, rowPool, AtRow, AtCode
  <1>4. \A t \in Tile, r \in Row : Claimed(t, r) => Claimed(t, r)'
        BY <1>2 DEF Claimed
  <1>5. ASSUME NEW t \in Tile PROVE RowsOf(t)'
    <2>0. RowsOf(t)
          BY DEF RowInv
    <2>1. Batch(t)' => ProgressInv(t)'
      <3> HAVE Batch(t)'
      <3>1. Batch(t) /\ ProgressInv(t)
            BY <2>0 DEF Outside, RowsOf
      <3> QED
          BY <1>4, <3>1 DEF ProgressInv, Outside, rowPool
    <2>2. \A k, l \in Lane :
            /\ k[1] = t /\ l[1] = t /\ at'[k] \in AtRow /\ at'[l] \in AtRow
            /\ row'[k] = row'[l]
            => k = l
          BY <1>2, <2>0 DEF RowsOf
    <2> QED
        BY <1>3, <2>1, <2>2 DEF RowsOf
  <1> QED
      BY <1>1, <1>5 DEF RowInv

-----------------------------------------------------------------------------
(* Types.                                                                  *)

LEMMA StepType ==
  ASSUME TypeInv, JobInv, RowInv, Next
  PROVE  TypeInv'
  <1> USE DEF Place, AtCount, AtBatch, AtRow, AtCode, AtWrite, AtFilter
  <1>0. /\ \A t \in Tile : Main(t) \in Lane
        /\ \A l \in Lane : l[1] \in Tile
        /\ TileHelper \subseteq Tile
        /\ Main(0) \in Lane /\ LfWorkers \in Nat /\ SbRows \in Nat /\ SbCols \in Nat
        /\ FrameCols \in Nat /\ LfRange \in Nat
        BY Sizes, Lanes, Helpers
  <1>1. ASSUME NextPass \/ Collect \/ OpenGate \/ Rest PROVE TypeInv'
    <2>1. ASSUME StartCount PROVE TypeInv'
          BY <1>0, <2>1 DEF StartCount, Launch, TypeInv, rowPool, filter
    <2>2. ASSUME StartWrite PROVE TypeInv'
          BY <1>0, <2>2 DEF StartWrite, Launch, TypeInv, rowPool, filter
    <2>3. ASSUME FinishFrame PROVE TypeInv'
          BY <1>0, <2>3 DEF FinishFrame, EndFrame, TypeInv, tilePool, rowPool
    <2>4. ASSUME StartFilter PROVE TypeInv'
      <3>1. at' \in [Lane -> Place] /\ row' \in [Lane -> Nat] /\ col' \in [Lane -> Nat]
            BY <1>0, <2>4 DEF StartFilter, TypeInv
      <3>2. lfCol' \in [Row -> Int]
            BY <2>4 DEF StartFilter
      <3> QED
          BY <1>0, <2>4, <3>1, <3>2 DEF StartFilter, Launch, TypeInv, rowPool
    <2>5. ASSUME Collect PROVE TypeInv'
      <3>1. CASE jobKind = "filter" /\ EndFrame
            BY <1>0, <2>5, <3>1 DEF Collect, EndFrame, TypeInv, rowPool
      <3>2. CASE ~(jobKind = "filter" /\ EndFrame)
            BY <1>0, <2>5, <3>2 DEF Collect, TypeInv, rowPool
      <3> QED
          BY <3>1, <3>2
    <2>6. ASSUME OpenGate PROVE TypeInv'
          BY <1>0, <2>6 DEF OpenGate, TypeInv, rowPool, filter
    <2>7. ASSUME Rest PROVE TypeInv'
          BY <1>0, <2>7 DEF Rest, TypeInv, vars
    <2> QED
        BY <1>1, <2>1, <2>2, <2>3, <2>4, <2>5, <2>6, <2>7 DEF NextPass
  <1>2. ASSUME NEW t \in Tile, TileStep(t) PROVE TypeInv'
    <2>1. ASSUME TakeJob(t) PROVE TypeInv'
      <3>1. jobKind \in {"count", "write", "filter"}
            BY <1>0, <2>1, KindOf DEF TakeJob, TypeInv
      <3> QED
          BY <1>0, <2>1, <3>1 DEF TakeJob, TypeInv, rowPool, filter, Tile
    <2>2. ASSUME CountTile(t) PROVE TypeInv'
          BY <1>0, <2>2 DEF CountTile, EndJob, TypeInv, rowPool, filter
    <2>3. ASSUME Dispatch(t) PROVE TypeInv'
          BY <1>0, <2>3 DEF Dispatch, TypeInv, tilePool, filter
    <2>4. ASSUME SendStart(t) PROVE TypeInv'
      <3> DEFINE one == [at EXCEPT ![<<t, sent[t] + 1>>] = "claim"]
                 two == [one EXCEPT ![Main(t)] = IF sent[t] + 1 = RowThreads - 1
                                                   THEN "claim" ELSE "send"]
      <3>1. one \in [Lane -> Place]
            BY DEF TypeInv
      <3>2. at' = two
            BY <2>4 DEF SendStart
      <3> HIDE DEF one
      <3>3. at' \in [Lane -> Place]
            BY <3>1, <3>2
      <3>4. sent' \in [Tile -> Nat]
            BY <2>4 DEF SendStart, TypeInv
      <3> QED
          BY <2>4, <3>3, <3>4 DEF SendStart, TypeInv, tilePool, filter
    <2>5. ASSUME Join(t) PROVE TypeInv'
          BY <1>0, <2>5 DEF Join, EndJob, TypeInv, rowPool, filter
    <2>6. ASSUME Cloned(t) PROVE TypeInv'
          BY <1>0, <2>6 DEF Cloned, TypeInv, rowPool, filter
    <2>7. ASSUME PassGate(t) PROVE TypeInv'
          BY <1>0, <2>7 DEF PassGate, TypeInv, tilePool, rowPool, filter
    <2>8. ASSUME WriteTile(t) PROVE TypeInv'
          BY <1>0, <2>8 DEF WriteTile, EndJob, TypeInv, rowPool, filter
    <2>9. ASSUME LfRead(t) PROVE TypeInv'
          BY <1>0, <2>9 DEF LfRead, TypeInv, tilePool, rowPool, filter
    <2>10. ASSUME FilterSb(t) PROVE TypeInv'
      <3>1. at' \in [Lane -> Place] /\ row' \in [Lane -> Nat] /\ col' \in [Lane -> Nat]
            BY <1>0, <2>10 DEF FilterSb, TypeInv
      <3>2. lfCol' \in [Row -> Int]
        <4> DEFINE r == row[Main(t)]  c == col[Main(t)]
        <4>1. /\ lfCol' = [lfCol EXCEPT ![r] = IF c = FrameCols - 1 THEN FrameCols + LfRange
                                               ELSE IF c % LfRange = 0 THEN c ELSE lfCol[r]]
              BY <2>10 DEF FilterSb
        <4>2. c \in Int /\ FrameCols + LfRange \in Int
              BY <1>0 DEF TypeInv
        <4> HIDE DEF r, c
        <4> QED
            BY <4>1, <4>2 DEF TypeInv
      <3> QED
          BY <1>0, <2>10, <3>1, <3>2 DEF FilterSb, TypeInv, tilePool, rowPool
    <2>11. ASSUME LfBail(t) PROVE TypeInv'
          BY <1>0, <2>11 DEF LfBail, EndJob, TypeInv, rowPool
    <2>12. ASSUME LfEnd(t) PROVE TypeInv'
          BY <1>0, <2>12 DEF LfEnd, EndJob, TypeInv, rowPool, filter
    <2> QED
        BY <1>2, <2>1, <2>2, <2>3, <2>4, <2>5, <2>6, <2>7, <2>8, <2>9, <2>10,
           <2>11, <2>12 DEF TileStep
  <1>3. ASSUME NEW l \in Lane, LaneStep(l) PROVE TypeInv'
    <2>0. ASSUME Leave(l)
          PROVE  /\ at' \in [Lane -> Place] /\ row' \in [Lane -> Nat]
                 /\ col' \in [Lane -> Nat] /\ doneCount' \in [Tile -> Nat]
      <3>1. at' \in [Lane -> Place] /\ row' \in [Lane -> Nat] /\ col' \in [Lane -> Nat]
            BY <2>0 DEF Leave, TypeInv
      <3>2. doneCount' \in [Tile -> Nat]
            BY <1>0, <2>0 DEF Leave, TypeInv
      <3> QED
          BY <3>1, <3>2
    <2>1. ASSUME Claim(l) PROVE TypeInv'
      <3>1. /\ at' \in [Lane -> Place] /\ row' \in [Lane -> Nat]
            /\ col' \in [Lane -> Nat] /\ doneCount' \in [Tile -> Nat]
        <4>1. CASE Leave(l)
              BY <2>0, <4>1
        <4>2. CASE ~Leave(l)
          <5>1. /\ row' = [row EXCEPT ![l] = nextRow[l[1]]]
                /\ col' = [col EXCEPT ![l] = 0]
                /\ at' = [at EXCEPT ![l] = "read"]
                /\ UNCHANGED doneCount
                BY <2>1, <4>2 DEF Claim
          <5> QED
              BY <1>0, <5>1 DEF TypeInv
        <4> QED
            BY <4>1, <4>2
      <3>2. nextRow' \in [Tile -> Nat]
        <4>1. nextRow' = nextRow \/ nextRow' = [nextRow EXCEPT ![l[1]] = nextRow[l[1]] + 1]
              BY <2>1 DEF Claim
        <4> QED
            BY <1>0, <4>1 DEF TypeInv
      <3> QED
          BY <2>1, <3>1, <3>2 DEF Claim, TypeInv, tilePool, filter
    <2>2. ASSUME ReadAbove(l) PROVE TypeInv'
          BY <1>0, <2>2 DEF ReadAbove, TypeInv, tilePool, rowPool, filter
    <2>3. ASSUME CodeSb(l) PROVE TypeInv'
      <3>1. row[l] \in Row /\ col[l] \in Col
            BY <1>0, <2>3 DEF CodeSb, RowInv, RowsOf, LaneInv, AtRow, AtCode
      <3>2. coded' \in [Tile -> SUBSET (Row \X Col)]
            BY <1>0, <2>3, <3>1 DEF CodeSb, TypeInv
      <3>3. curCol' \in [Tile -> [Row -> Int]]
            BY <1>0, <2>3, <3>1 DEF CodeSb, TypeInv, SyncRange
      <3> QED
          BY <1>0, <2>3, <3>2, <3>3 DEF CodeSb, TypeInv, tilePool, filter
    <2>4. ASSUME EndRow(l) PROVE TypeInv'
      <3>1. /\ at' \in [Lane -> Place] /\ row' \in [Lane -> Nat]
            /\ col' \in [Lane -> Nat] /\ doneCount' \in [Tile -> Nat]
            /\ abort' \in [Tile -> BOOLEAN] /\ rowErr' \in [Tile -> BOOLEAN]
        <4>1. CASE Leave(l)
          <5>1. abort' \in [Tile -> BOOLEAN] /\ rowErr' \in [Tile -> BOOLEAN]
                BY <2>4 DEF EndRow, TypeInv
          <5> QED
              BY <2>0, <4>1, <5>1
        <4>2. CASE ~Leave(l)
              BY <2>4, <4>2 DEF EndRow, TypeInv
        <4> QED
            BY <4>1, <4>2
      <3> QED
          BY <2>4, <3>1 DEF EndRow, TypeInv, tilePool, filter
    <2> QED
        BY <1>3, <2>1, <2>2, <2>3, <2>4 DEF LaneStep
  <1> QED
      BY <1>1, <1>2, <1>3 DEF Next
-----------------------------------------------------------------------------
(* Launches, completion tokens and the barrier.                            *)

\* Where a lane of a batch goes.
LEMMA LaneMove ==
  ASSUME TypeInv, NEW l \in Lane, LaneStep(l)
  PROVE  /\ at[l] \in AtRow \cup {"claim"}
         /\ at'[l] \in AtRow \cup {"claim"} \cup (IF l[2] = 0 THEN {"join"} ELSE {"wait"})
         /\ \A k \in Lane : k # l => at'[k] = at[k] /\ row'[k] = row[k] /\ col'[k] = col[k]
         /\ UNCHANGED <<tilePool, sent, failed, replay, filter, passes>>
  <1> USE DEF AtRow, AtCode
  <1>1. /\ at[l] \in AtRow \cup {"claim"}
        /\ UNCHANGED <<tilePool, sent, failed, replay, filter, passes>>
        BY DEF LaneStep, Claim, ReadAbove, CodeSb, EndRow, rowPool
  <1>2. \E p \in AtRow \cup {"claim"} \cup (IF l[2] = 0 THEN {"join"} ELSE {"wait"}) :
          at' = [at EXCEPT ![l] = p]
    <2>1. ASSUME Leave(l)
          PROVE  at' = [at EXCEPT ![l] = IF l[2] = 0 THEN "join" ELSE "wait"]
          BY <2>1 DEF Leave
    <2> QED
        BY <2>1 DEF LaneStep, Claim, ReadAbove, CodeSb, EndRow
  <1>3. /\ row' = row \/ \E n : row' = [row EXCEPT ![l] = n]
        /\ col' = col \/ \E n : col' = [col EXCEPT ![l] = n]
    <2>1. ASSUME Leave(l)
          PROVE  row' = [row EXCEPT ![l] = 0] /\ col' = [col EXCEPT ![l] = 0]
          BY <2>1 DEF Leave
    <2>2. CASE Leave(l)
          BY <2>1, <2>2
    <2>3. CASE ~Leave(l)
          BY <2>3 DEF LaneStep, Claim, ReadAbove, CodeSb, EndRow
    <2> QED
        BY <2>2, <2>3
  <1> QED
      BY <1>1, <1>2, <1>3 DEF TypeInv

\* Which helper takes a start signal.
LEMMA SendMove ==
  ASSUME TypeInv, SignalInv, NEW t \in Tile, SendStart(t)
  PROVE  /\ sent[t] + 1 \in RowHelper
         /\ at[Main(t)] = "send" /\ at[<<t, sent[t] + 1>>] = "wait"
         /\ at'[<<t, sent[t] + 1>>] = "claim"
         /\ at'[Main(t)] = IF sent[t] + 1 = RowThreads - 1 THEN "claim" ELSE "send"
         /\ \A k \in Lane : k # Main(t) /\ k # <<t, sent[t] + 1>> => at'[k] = at[k]
  <1>1. sent[t] \in 0..(RowThreads - 1) /\ sent[t] < RowThreads - 1
        BY DEF SendStart, SignalInv, SignalOf, Batch, AtBatch
  <1>2. sent[t] + 1 \in RowHelper
        BY <1>1, Sizes DEF RowHelper
  <1> DEFINE k == <<t, sent[t] + 1>>
             one == [at EXCEPT ![k] = "claim"]
             p == IF sent[t] + 1 = RowThreads - 1 THEN "claim" ELSE "send"
  <1>3. k \in Lane /\ Main(t) \in Lane /\ k # Main(t)
        BY <1>2, Lanes
  <1>4. at' = [one EXCEPT ![Main(t)] = p] /\ at[Main(t)] = "send" /\ at[k] = "wait"
        BY DEF SendStart
  <1> HIDE DEF k, p
  <1>5. /\ at'[k] = "claim" /\ at'[Main(t)] = p
        /\ \A j \in Lane : j # Main(t) /\ j # k => at'[j] = at[j]
        BY <1>3, <1>4 DEF TypeInv
  <1> QED
      BY <1>2, <1>4, <1>5 DEF k, p

\* Steps in the middle of a job.
WithinJob ==
  \/ \E t \in Tile : Dispatch(t) \/ SendStart(t) \/ PassGate(t) \/ LfRead(t) \/ FilterSb(t)
  \/ \E l \in Lane : LaneStep(l)

LEMMA WithinJobSteady ==
  ASSUME TypeInv, JobInv, SignalInv, WithinJob
  PROVE  /\ UNCHANGED <<jobKind, start, done, prepDone, replay, failed, passes>>
         /\ \A t \in Tile : Steady(t)
  <1> USE DEF AtCount, AtBatch, AtRow, AtCode, AtFilter, AtWrite
  <1>1. ASSUME NEW t \in Tile, Dispatch(t) \/ PassGate(t) \/ LfRead(t) \/ FilterSb(t)
        PROVE  /\ UNCHANGED <<jobKind, start, done, prepDone, replay, failed, passes>>
               /\ \A u \in Tile : Steady(u)
    <2>1. UNCHANGED <<jobKind, start, done, prepDone, replay, failed, passes>>
          BY <1>1 DEF Dispatch, PassGate, LfRead, FilterSb, tilePool
    <2>2. Steady(t)
      <3>1. Main(t) \in Lane
            BY Lanes
      <3>2. at[Main(t)] = "gate" => t # 0
            BY DEF JobInv
      <3> QED
          BY <1>1, <3>1, <3>2 DEF Dispatch, PassGate, LfRead, FilterSb, Steady, TypeInv
    <2>3. \A u \in Tile : u # t => at'[Main(u)] = at[Main(u)]
      <3>1. \A u \in Tile : Main(u) \in Lane /\ (u # t => Main(u) # Main(t))
            BY Lanes
      <3> QED
          BY <1>1, <3>1 DEF Dispatch, PassGate, LfRead, FilterSb, TypeInv
    <2> QED
        BY <2>1, <2>2, <2>3 DEF Steady
  <1>2. ASSUME NEW t \in Tile, SendStart(t)
        PROVE  /\ UNCHANGED <<jobKind, start, done, prepDone, replay, failed, passes>>
               /\ \A u \in Tile : Steady(u)
    <2>1. UNCHANGED <<jobKind, start, done, prepDone, replay, failed, passes>>
          BY <1>2 DEF SendStart, tilePool
    <2>2. Steady(t)
          BY <1>2, SendMove DEF Steady
    <2>3. \A u \in Tile : u # t => at'[Main(u)] = at[Main(u)]
      <3>1. \A u \in Tile : /\ Main(u) \in Lane /\ (u # t => Main(u) # Main(t))
                            /\ Main(u) # <<t, sent[t] + 1>>
            BY <1>2, SendMove, Lanes
      <3> QED
          BY <1>2, <3>1, SendMove
    <2> QED
        BY <2>1, <2>2, <2>3 DEF Steady
  <1>3. ASSUME NEW l \in Lane, LaneStep(l)
        PROVE  /\ UNCHANGED <<jobKind, start, done, prepDone, replay, failed, passes>>
               /\ \A u \in Tile : Steady(u)
    <2>1. UNCHANGED <<jobKind, start, done, prepDone, replay, failed, passes>>
          BY <1>3, LaneMove DEF tilePool
    <2>2. ASSUME NEW u \in Tile PROVE Steady(u)
      <3>1. Main(u) \in Lane /\ Main(u)[2] = 0
            BY Lanes
      <3> QED
          BY <1>3, <3>1, LaneMove DEF Steady
    <2> QED
        BY <2>1, <2>2
  <1> QED
      BY <1>1, <1>2, <1>3 DEF WithinJob
\* The end of a job adds one helper to those that have finished, or sends the
\* dispatcher to collect.
LEMMA EndMove ==
  ASSUME TypeInv, JobInv, PrepInv, NEW t \in Tile, EndJob(t),
         at[Main(t)] \in {"job", "join", "write", "lf", "lfread"},
         UNCHANGED <<jobKind, start, prepDone>>
  PROVE  /\ JobInv' /\ PrepInv'
         /\ Finished' = IF t = 0 THEN Finished ELSE Finished \cup {t}
         /\ at'[Main(t)] = IF t = 0 THEN "collect" ELSE "wait"
         /\ \A k \in Lane : k # Main(t) => at'[k] = at[k]
         /\ ~Resting /\ ~Resting'
  <1> USE DEF AtCount, AtBatch, AtRow, AtCode, AtFilter, AtWrite
  <1>1. /\ at'[Main(t)] = IF t = 0 THEN "collect" ELSE "wait"
        /\ \A k \in Lane : k # Main(t) => at'[k] = at[k]
        BY Lanes DEF EndJob, TypeInv
  <1>2. \A u \in Tile : u # t => at'[Main(u)] = at[Main(u)]
        BY <1>1, Lanes
  <1>3. ~Resting /\ jobKind # "none"
        BY KindOf DEF TypeInv
  <1>4. \A u \in TileHelper : u \in Tile /\ u # 0
        BY Helpers, Sizes
  <1>5. t \notin start
        BY DEF JobInv, TypeInv
  <1>6. Finished' = IF t = 0 THEN Finished ELSE Finished \cup {t}
    <2>1. CASE t = 0
          BY <1>2, <1>4, <2>1 DEF Finished
    <2>2. CASE t # 0
      <3>1. t \in TileHelper
            BY <2>2 DEF TileHelper
      <3> QED
          BY <1>1, <1>2, <1>4, <1>5, <2>2, <3>1 DEF Finished
    <2> QED
        BY <2>1, <2>2
  <1>7. Past' = Past
        BY <1>1, <1>2, <1>4 DEF Past
  <1>8. at'[Main(0)] = IF t = 0 THEN "collect" ELSE at[Main(0)]
        BY <1>1, <1>2, Sizes
  <1>9. ~Resting'
        BY <1>3, <1>8 DEF Resting
  <1>10. done' = Cardinality(Finished')
    <2>1. done = Cardinality(Finished) /\ Finished \in SUBSET TileHelper
          BY <1>3 DEF JobInv, Finished
    <2>2. CASE t = 0
          BY <1>6, <2>1, <2>2 DEF EndJob
    <2>3. CASE t # 0
      <3>1. t \notin Finished
            BY DEF Finished
      <3>2. IsFiniteSet(Finished) /\ Cardinality(Finished) \in Nat
            BY <2>1, HelperSets
      <3>3. Cardinality(Finished \cup {t}) = Cardinality(Finished) + 1
            BY <3>1, <3>2, FS_AddElement
      <3> QED
          BY <1>6, <2>1, <2>3, <3>3 DEF EndJob
    <2> QED
        BY <2>2, <2>3
  <1>11. JobInv'
    <2>1. \A u \in TileHelper : at'[Main(u)] = "wait" \/ at'[Main(u)] \in KindAt(jobKind)
          BY <1>1, <1>2, <1>4 DEF JobInv
    <2>2. \A u \in start : at'[Main(u)] = "wait"
          BY <1>2, <1>4, <1>5 DEF JobInv, TypeInv
    <2> QED
        BY <1>3, <1>8, <1>9, <1>10, <2>1, <2>2 DEF JobInv
  <1>12. PrepInv'
        BY <1>3, <1>7, <1>8, <1>9 DEF PrepInv
  <1> QED
      BY <1>1, <1>3, <1>6, <1>9, <1>11, <1>12

\* A launch, when every helper is waiting.
LEMMA LaunchMove ==
  ASSUME TypeInv, JobInv, Resting, NEW kind \in {"count", "write", "filter"},
         NEW p \in Place, p \in (IF kind = "count" THEN {"job"} ELSE IF kind = "write"
                                  THEN {"prep"} ELSE {"lfread"}),
         Launch(kind), at' = [at EXCEPT ![Main(0)] = p], UNCHANGED done,
         kind = "write" => prepDone' = 0
  PROVE  /\ JobInv' /\ PrepInv' /\ Finished' = {} /\ ~Resting'
  <1> USE DEF AtCount, AtBatch, AtRow, AtCode, AtFilter, AtWrite
  <1>1. at'[Main(0)] = p /\ \A t \in Tile : t # 0 => at'[Main(t)] = at[Main(t)]
        BY Lanes, Sizes DEF TypeInv
  <1>2. \A t \in TileHelper : t \in Tile /\ t # 0
        BY Helpers, Sizes
  <1>3. start' = TileHelper /\ jobKind' = kind
        BY DEF Launch
  <1>4. \A t \in TileHelper : at'[Main(t)] = "wait"
    <2>1. Finished = TileHelper
          BY DEF JobInv
    <2> QED
        BY <1>1, <1>2, <2>1 DEF Finished
  <1>5. Finished' = {} /\ Past' = {}
        BY <1>3 DEF Finished, Past
  <1>6. done' = Cardinality(Finished') /\ Cardinality(Past') = 0
        BY <1>5, FS_EmptySet DEF JobInv
  <1>7. ~Resting'
        BY <1>1 DEF Resting
  <1>8. JobInv'
        BY <1>1, <1>3, <1>4, <1>6, <1>7 DEF JobInv
  <1>9. PrepInv'
        BY <1>1, <1>3, <1>6 DEF PrepInv
  <1> QED
      BY <1>5, <1>7, <1>8, <1>9
LEMMA StepJob ==
  ASSUME TypeInv, JobInv, PrepInv, SignalInv, Next
  PROVE  JobInv' /\ PrepInv'
  <1> USE DEF AtCount, AtBatch, AtRow, AtCode, AtFilter, AtWrite
  <1>0. /\ \A t \in TileHelper : t \in Tile /\ t # 0
        /\ 0 \in Tile /\ \A t \in Tile : Main(t) \in Lane
        /\ \A t, u \in Tile : t # u => Main(t) # Main(u)
        BY Helpers, Sizes, Lanes
  <1>1. ASSUME StartCount PROVE JobInv' /\ PrepInv'
    <2>1. Resting /\ Launch("count") /\ UNCHANGED done /\ at' = [at EXCEPT ![Main(0)] = "job"]
          BY <1>1 DEF StartCount, Resting
    <2> QED
        BY <2>1, LaunchMove DEF Place
  <1>2. ASSUME StartWrite PROVE JobInv' /\ PrepInv'
    <2>1. /\ Resting /\ Launch("write") /\ UNCHANGED done /\ prepDone' = 0
          /\ at' = [at EXCEPT ![Main(0)] = "prep"]
          BY <1>2 DEF StartWrite, Resting
    <2> QED
        BY <2>1, LaunchMove DEF Place
  <1>3. ASSUME StartFilter PROVE JobInv' /\ PrepInv'
    <2>1. /\ Resting /\ Launch("filter") /\ UNCHANGED done
          /\ at' = [at EXCEPT ![Main(0)] = "lfread"]
          BY <1>3 DEF StartFilter, Resting
    <2> QED
        BY <2>1, LaunchMove DEF Place
  <1>4. ASSUME FinishFrame PROVE JobInv' /\ PrepInv'
    <2>1. /\ UNCHANGED <<jobKind, start, done, prepDone>> /\ Resting /\ Resting'
          /\ at'[Main(0)] = "idle"
          /\ \A t \in Tile : t # 0 => at'[Main(t)] = at[Main(t)]
          BY <1>0, <1>4 DEF FinishFrame, EndFrame, Resting, TypeInv, tilePool
    <2>2. Finished' = Finished
          BY <1>0, <2>1 DEF Finished
    <2> QED
        BY <1>0, <2>1, <2>2 DEF JobInv, PrepInv, TypeInv
  <1>5. ASSUME Collect PROVE JobInv' /\ PrepInv'
    <2>1. /\ UNCHANGED <<jobKind, start, prepDone>> /\ done' = 0 /\ done = TileCols - 1
          /\ at[Main(0)] = "collect"
          BY <1>5 DEF Collect
    <2>2. \E p \in {"idle", "counted", "written"} : at' = [at EXCEPT ![Main(0)] = p]
          BY <1>5 DEF Collect, EndFrame
    <2>3. /\ Resting' /\ at'[Main(0)] \in {"idle", "counted", "written"}
          /\ \A t \in Tile : t # 0 => at'[Main(t)] = at[Main(t)]
          BY <1>0, <2>2 DEF Resting, TypeInv
    <2>4. Finished = TileHelper
      <3>1. done = Cardinality(Finished) /\ Finished \in SUBSET TileHelper
            BY <2>1 DEF JobInv, Resting, Finished
      <3> QED
          BY <2>1, <3>1, HelperSets, Sizes
    <2>5. Finished' = Finished
          BY <1>0, <2>1, <2>3 DEF Finished
    <2> QED
        BY <1>0, <2>1, <2>3, <2>4, <2>5 DEF JobInv, PrepInv, TypeInv
  <1>6. ASSUME OpenGate PROVE JobInv' /\ PrepInv'
    <2>1. /\ UNCHANGED <<jobKind, start, done, prepDone>>
          /\ at[Main(0)] = "prep" /\ at'[Main(0)] = "write" /\ prepDone >= TileCols - 1
          /\ \A t \in Tile : t # 0 => at'[Main(t)] = at[Main(t)]
          BY <1>0, <1>6 DEF OpenGate, TypeInv
    <2>2. Finished' = Finished /\ Past' = Past
          BY <1>0, <2>1 DEF Finished, Past
    <2>3. jobKind = "write" /\ ~Resting /\ ~Resting'
          BY <2>1 DEF JobInv, Resting
    <2>4. Past = TileHelper
      <3>1. prepDone = Cardinality(Past) /\ Past \in SUBSET TileHelper
            BY <2>3 DEF PrepInv, Past
      <3> QED
          BY <2>1, <3>1, HelperSets, Sizes
    <2> QED
        BY <1>0, <2>1, <2>2, <2>3, <2>4 DEF JobInv, PrepInv, TypeInv
  <1>7. ASSUME NEW t \in Tile, TakeJob(t) PROVE JobInv' /\ PrepInv'
    <2>1. /\ UNCHANGED <<jobKind, done, prepDone>>
          /\ t \in start /\ at[Main(t)] = "wait" /\ start' = start \ {t}
          /\ at'[Main(t)] = IF jobKind = "count" THEN "job"
                            ELSE IF jobKind = "write" THEN "clone" ELSE "lfread"
          /\ \A u \in Tile : u # t => at'[Main(u)] = at[Main(u)]
          BY <1>0, <1>7 DEF TakeJob, TypeInv
    <2>2. t \in TileHelper /\ ~Resting /\ jobKind # "none"
          BY <2>1, KindOf DEF TypeInv
    <2>3. at'[Main(0)] = at[Main(0)] /\ ~Resting'
          BY <1>0, <2>1, <2>2 DEF Resting
    <2>4. Finished' = Finished
          BY <1>0, <2>1 DEF Finished
    <2>5. jobKind = "write" => Past' = Past
          BY <1>0, <2>1 DEF Past
    <2>6. at'[Main(t)] \in KindAt(jobKind)
          BY <2>1, <2>2 DEF KindAt, TypeInv
    <2>7. JobInv'
      <3>1. \A u \in TileHelper : at'[Main(u)] = "wait" \/ at'[Main(u)] \in KindAt(jobKind)
            BY <1>0, <2>1, <2>6 DEF JobInv
      <3>2. \A u \in start' : at'[Main(u)] = "wait"
            BY <1>0, <2>1 DEF JobInv, TypeInv
      <3> QED
          BY <2>1, <2>2, <2>3, <2>4, <3>1, <3>2 DEF JobInv
    <2>8. PrepInv'
          BY <2>1, <2>2, <2>3, <2>5 DEF PrepInv
    <2> QED
        BY <2>7, <2>8
  <1>8. ASSUME NEW t \in Tile, Cloned(t) PROVE JobInv' /\ PrepInv'
    <2>1. /\ UNCHANGED <<jobKind, start, done>>
          /\ at[Main(t)] = "clone" /\ at'[Main(t)] = "gate" /\ prepDone' = prepDone + 1
          /\ \A u \in Tile : u # t => at'[Main(u)] = at[Main(u)]
          BY <1>0, <1>8 DEF Cloned, TypeInv
    <2>2. t # 0 /\ t \in TileHelper /\ t \notin start
      <3>1. t # 0
            BY <2>1 DEF JobInv
      <3> QED
          BY <2>1, <3>1 DEF TileHelper, JobInv
    <2>3. at'[Main(0)] = at[Main(0)] /\ jobKind = "write" /\ ~Resting /\ ~Resting'
          BY <1>0, <2>1, <2>2, KindOf DEF Resting
    <2>4. Finished' = Finished
          BY <1>0, <2>1 DEF Finished
    <2>5. Past' = Past \cup {t} /\ t \notin Past
          BY <1>0, <2>1, <2>2 DEF Past
    <2>6. Cardinality(Past') = Cardinality(Past) + 1
          BY <2>5, HelperSets, FS_AddElement DEF Past
    <2>7. JobInv'
      <3>1. \A u \in TileHelper : at'[Main(u)] = "wait" \/ at'[Main(u)] \in KindAt(jobKind)
            BY <1>0, <2>1, <2>3 DEF JobInv, KindAt
      <3>2. \A u \in start : at'[Main(u)] = "wait"
            BY <1>0, <2>1, <2>2 DEF JobInv, TypeInv
      <3> QED
          BY <2>1, <2>3, <2>4, <3>1, <3>2 DEF JobInv
    <2>8. PrepInv'
          BY <2>1, <2>2, <2>3, <2>5, <2>6 DEF PrepInv
    <2> QED
        BY <2>7, <2>8
  <1>9. ASSUME NEW t \in Tile,
               CountTile(t) \/ Join(t) \/ WriteTile(t) \/ LfBail(t) \/ LfEnd(t)
        PROVE JobInv' /\ PrepInv'
    <2>1. /\ EndJob(t) /\ at[Main(t)] \in {"job", "join", "write", "lf", "lfread"}
          /\ UNCHANGED <<jobKind, start, prepDone>>
          BY <1>9 DEF CountTile, Join, WriteTile, LfBail, LfEnd
    <2> QED
        BY <2>1, EndMove
  <1>10. ASSUME WithinJob PROVE JobInv' /\ PrepInv'
         BY <1>10, WithinJobSteady, SameJob
  <1>11. ASSUME Rest PROVE JobInv' /\ PrepInv'
         BY <1>0, <1>11 DEF Rest, vars, JobInv, PrepInv, Resting, Finished, Past
  <1> QED
      BY <1>1, <1>2, <1>3, <1>4, <1>5, <1>6, <1>7, <1>8, <1>9, <1>10, <1>11
      DEF Next, NextPass, TileStep, WithinJob
-----------------------------------------------------------------------------
(* Rows.                                                                   *)

\* Steps of a column's own goroutine before and after a batch.
LEMMA OutsideMove ==
  ASSUME TypeInv, SignalInv, NEW t \in Tile, UNCHANGED rowPool,
         \A k \in Lane : k # Main(t) => at'[k] = at[k] /\ row'[k] = row[k] /\ col'[k] = col[k],
         at[Main(t)] \notin AtBatch, at'[Main(t)] \notin AtBatch,
         \A u \in Tile : Batch(u) => coded'[u] = coded[u]
  PROVE  Outside
  <1>1. \A u \in Tile, w \in RowHelper : at'[<<u, w>>] = at[<<u, w>>]
    <2> TAKE u \in Tile, w \in RowHelper
    <2>1. <<u, w>> \in Lane /\ <<u, w>> # Main(t)
          BY Lanes
    <2> QED
        BY <2>1
  <1>2. \A u \in Tile : u # t => at'[Main(u)] = at[Main(u)]
        BY Lanes
  <1>3. ~Batch(t) /\ ~Batch(t)'
        BY DEF Batch
  <1>4. \A u \in Tile : Batch(u)' = Batch(u)
        BY <1>2, <1>3 DEF Batch
  <1>5. \A u \in Tile : Batch(u) => at'[Main(u)] = at[Main(u)] /\ coded'[u] = coded[u]
        BY <1>2, <1>3
  <1>6. ASSUME NEW l \in Lane, Batch(l[1]) PROVE row'[l] = row[l] /\ col'[l] = col[l]
        BY <1>3, <1>6, Lanes
  <1> QED
      BY <1>1, <1>4, <1>5, <1>6 DEF Outside

\* When the counter says so, the row helpers of a column have all left.
LEMMA Joined ==
  ASSUME TypeInv, SignalInv, NEW t \in Tile, at[Main(t)] = "join",
         doneCount[t] >= RowThreads - 1
  PROVE  /\ \A w \in RowHelper : at[<<t, w>>] = "wait"
         /\ \A l \in Lane : l[1] = t => at[l] \notin AtRow
  <1>1. SignalOf(t) /\ Batch(t)
        BY DEF SignalInv, Batch, AtBatch
  <1>2. sent[t] = RowThreads - 1 /\ doneCount[t] = Cardinality(Back(t))
        BY <1>1, Sizes DEF SignalOf
  <1>3. /\ RowHelper = 1..(RowThreads - 1) /\ Back(t) \subseteq RowHelper
        /\ IsFiniteSet(RowHelper) /\ Cardinality(RowHelper) = RowThreads - 1
        BY <1>2, Sizes, FS_Interval DEF RowHelper, Back
  <1>4. Back(t) = RowHelper
    <2>1. Cardinality(Back(t)) \in Nat /\ Cardinality(Back(t)) <= Cardinality(RowHelper)
          BY <1>3, FS_Subset, FS_CardinalityType
    <2>2. Cardinality(Back(t)) = Cardinality(RowHelper)
          BY <1>2, <1>3, <2>1, Sizes
    <2> QED
        BY <1>3, <2>2, FS_Subset
  <1>5. \A w \in RowHelper : at[<<t, w>>] = "wait"
        BY <1>4 DEF Back
  <1>6. ASSUME NEW l \in Lane, l[1] = t PROVE at[l] \notin AtRow
        BY <1>5, <1>6, Lanes DEF AtRow, AtCode
  <1> QED
      BY <1>5, <1>6

\* A step within the batch of one column leaves the other columns alone.
LEMMA OtherColumns ==
  ASSUME TypeInv, SignalInv, RowInv, NEW t \in Tile,
         \A k \in Lane : k[1] # t => at'[k] = at[k] /\ row'[k] = row[k] /\ col'[k] = col[k],
         \A u \in Tile : u # t =>
           /\ nextRow'[u] = nextRow[u] /\ doneCount'[u] = doneCount[u] /\ sent'[u] = sent[u]
           /\ abort'[u] = abort[u] /\ rowErr'[u] = rowErr[u]
           /\ curCol'[u] = curCol[u] /\ coded'[u] = coded[u],
         SignalOf(t)', RowsOf(t)'
  PROVE  SignalInv' /\ RowInv'
  <1> SUFFICES ASSUME NEW u \in Tile, u # t PROVE SignalOf(u)' /\ RowsOf(u)'
      BY DEF SignalInv, RowInv
  <1>1. SignalOf(u) /\ RowsOf(u)
        BY DEF SignalInv, RowInv
  <1>2. /\ at'[Main(u)] = at[Main(u)]
        /\ \A w \in RowHelper : at'[<<u, w>>] = at[<<u, w>>]
    <2>1. Main(u) \in Lane /\ Main(u)[1] = u
          BY Lanes
    <2>2. \A w \in RowHelper : <<u, w>> \in Lane /\ <<u, w>>[1] = u
          BY Lanes
    <2> QED
        BY <2>1, <2>2
  <1>3. Batch(u)' = Batch(u)
        BY <1>2 DEF Batch
  <1>4. SignalOf(u)'
    <2>1. ASSUME Batch(u) PROVE Back(u)' = Back(u)
      <3>1. sent'[u] = sent[u] /\ sent[u] \in 0..(RowThreads - 1)
            BY <1>1, <2>1 DEF SignalOf
      <3>2. \A w \in 1..sent[u] : w \in RowHelper
            BY <3>1, Sizes DEF RowHelper
      <3> QED
          BY <1>2, <3>1, <3>2 DEF Back
    <2> QED
        BY <1>1, <1>2, <1>3, <2>1 DEF SignalOf
  <1>5. RowsOf(u)'
    <2>1. \A l \in Lane : l[1] = u => LaneInv(l)'
          BY <1>1 DEF RowsOf, LaneInv
    <2>2. \A r \in Row : Claimed(u, r) => Claimed(u, r)'
          BY DEF Claimed
    <2>3. Batch(u) => ProgressInv(u)'
          BY <1>1, <1>2, <2>2 DEF RowsOf, ProgressInv
    <2> QED
        BY <1>1, <1>3, <2>1, <2>3 DEF RowsOf
  <1> QED
      BY <1>4, <1>5
\* The start of a batch.
LEMMA DispatchRows ==
  ASSUME TypeInv, SignalInv, RowInv, NEW t \in Tile, Dispatch(t)
  PROVE  SignalInv' /\ RowInv'
  <1>0. Main(t) \in Lane /\ Main(t)[1] = t /\ Main(t)[2] = 0
        BY Lanes
  <1>1. /\ at[Main(t)] = "job" /\ at'[Main(t)] = "send"
        /\ \A k \in Lane : k # Main(t) => at'[k] = at[k]
        /\ row' = row /\ col' = col /\ coded' = coded
        BY <1>0 DEF Dispatch, TypeInv
  <1>2. /\ nextRow'[t] = 0 /\ doneCount'[t] = 0 /\ sent'[t] = 0
        /\ abort'[t] = FALSE /\ rowErr'[t] = FALSE /\ curCol'[t] = [r \in Row |-> -1]
        /\ \A u \in Tile : u # t =>
             /\ nextRow'[u] = nextRow[u] /\ doneCount'[u] = doneCount[u] /\ sent'[u] = sent[u]
             /\ abort'[u] = abort[u] /\ rowErr'[u] = rowErr[u] /\ curCol'[u] = curCol[u]
        BY DEF Dispatch, TypeInv
  <1>3. \A w \in RowHelper : at'[<<t, w>>] = "wait"
    <2> TAKE w \in RowHelper
    <2>1. at[<<t, w>>] = "wait"
          BY <1>1 DEF SignalInv, SignalOf, Batch, AtBatch, AtRow, AtCode
    <2>2. <<t, w>> \in Lane /\ <<t, w>> # Main(t)
          BY Lanes
    <2> QED
        BY <1>1, <2>1, <2>2
  <1>4. SignalOf(t)'
    <2>1. Back(t)' = {}
          BY <1>2 DEF Back
    <2>2. doneCount'[t] = Cardinality(Back(t)')
          BY <1>2, <2>1, FS_EmptySet
    <2>3. /\ sent'[t] \in 0..(RowThreads - 1) /\ sent'[t] < RowThreads - 1
          /\ at'[Main(t)] = "send"
          BY <1>1, <1>2, Sizes
    <2>4. abort'[t] = rowErr'[t]
          BY <1>2, Zenon
    <2> QED
        BY <1>3, <2>2, <2>3, <2>4 DEF SignalOf
  <1>5. RowsOf(t)'
    <2>1. \A l \in Lane : l[1] = t => at'[l] \in {"wait", "send"}
          BY <1>1, <1>3, Lanes
    <2>2. \A l \in Lane : l[1] = t => at'[l] \notin AtRow
          BY <2>1 DEF AtRow, AtCode
    <2>3. ProgressInv(t)'
      <3>1. \A r \in Row, c \in Col : ~(c <= curCol'[t][r])
            BY <1>2, Sizes DEF Col
      <3>2. \A r \in Row : ~(r < nextRow'[t])
            BY <1>2 DEF Row
      <3> QED
          BY <1>1, <1>2, <3>1, <3>2 DEF ProgressInv
    <2> QED
        BY <2>2, <2>3 DEF RowsOf, LaneInv, AtRow, AtCode
  <1>6. \A k \in Lane : k[1] # t => at'[k] = at[k]
        BY <1>0, <1>1
  <1> QED
      BY <1>1, <1>2, <1>4, <1>5, <1>6, OtherColumns

LEMMA SendRows ==
  ASSUME TypeInv, SignalInv, RowInv, NEW t \in Tile, SendStart(t)
  PROVE  SignalInv' /\ RowInv'
  <1> DEFINE w == sent[t] + 1
  <1>0. /\ Main(t) \in Lane /\ Main(t)[1] = t
        /\ w \in RowHelper /\ <<t, w>> \in Lane /\ <<t, w>>[1] = t
        BY SendMove, Lanes
  <1>1. /\ at[Main(t)] = "send" /\ at[<<t, w>>] = "wait" /\ at'[<<t, w>>] = "claim"
        /\ at'[Main(t)] = IF w = RowThreads - 1 THEN "claim" ELSE "send"
        /\ \A k \in Lane : k # Main(t) /\ k # <<t, w>> => at'[k] = at[k]
        BY SendMove
  <1>2. /\ row' = row /\ col' = col /\ coded' = coded /\ nextRow' = nextRow
        /\ doneCount' = doneCount /\ abort' = abort /\ rowErr' = rowErr /\ curCol' = curCol
        /\ sent'[t] = w /\ \A u \in Tile : u # t => sent'[u] = sent[u]
        BY DEF SendStart, TypeInv
  <1>3. SignalOf(t) /\ RowsOf(t) /\ Batch(t) /\ Batch(t)'
        BY <1>1 DEF SignalInv, RowInv, Batch, AtBatch
  <1>4. \A v \in RowHelper : v # w => at'[<<t, v>>] = at[<<t, v>>]
    <2> TAKE v \in RowHelper
    <2>1. <<t, v>> \in Lane /\ <<t, v>> # Main(t) /\ (v # w => <<t, v>> # <<t, w>>)
          BY Lanes
    <2> QED
        BY <1>1, <2>1
  <1>5. sent[t] \in 0..(RowThreads - 1) /\ w \in 1..(RowThreads - 1) /\ w = sent[t] + 1
        BY <1>0, <1>3 DEF SignalOf, RowHelper
  <1> HIDE DEF w
  <1>6. Back(t)' = Back(t)
    <2>1. \A v \in 1..w : v \in RowHelper
          BY <1>5, Sizes DEF RowHelper
    <2>2. 1..w = 1..sent[t] \cup {w} /\ w \notin 1..sent[t]
          BY <1>5
    <2>3. Back(t)' = {v \in 1..w : at'[<<t, v>>] = "wait"}
          BY <1>2 DEF Back
    <2>4. \A v \in 1..sent[t] : v \in RowHelper /\ v # w
          BY <2>1, <2>2
    <2>5. \A v \in 1..sent[t] : at'[<<t, v>>] = at[<<t, v>>]
          BY <1>4, <2>4
    <2>6. {v \in 1..w : at'[<<t, v>>] = "wait"} = {v \in 1..sent[t] : at[<<t, v>>] = "wait"}
          BY <1>1, <2>2, <2>5
    <2> QED
        BY <2>3, <2>6 DEF Back
  <1>7. SignalOf(t)'
    <2>1. \A v \in RowHelper :
            \/ at'[<<t, v>>] = "wait"
            \/ v <= sent'[t] /\ at'[<<t, v>>] \in AtRow \cup {"claim"}
      <3> TAKE v \in RowHelper
      <3>1. CASE v = w
            BY <1>1, <1>2, <1>5, <3>1
      <3>2. CASE v # w
        <4>1. at'[<<t, v>>] = "wait" \/ (v <= sent[t] /\ at'[<<t, v>>] \in AtRow \cup {"claim"})
              BY <1>3, <1>4, <3>2 DEF SignalOf
        <4> QED
            BY <1>2, <1>5, <4>1 DEF RowHelper
      <3> QED
          BY <3>1, <3>2
    <2>2. sent'[t] \in 0..(RowThreads - 1)
          BY <1>2, <1>5, Sizes
    <2>3. at'[Main(t)] = "send" <=> sent'[t] < RowThreads - 1
          BY <1>1, <1>2, <1>5, Sizes
    <2>4. doneCount'[t] = Cardinality(Back(t)') /\ abort'[t] = rowErr'[t]
          BY <1>2, <1>3, <1>6 DEF SignalOf
    <2> QED
        BY <1>3, <2>1, <2>2, <2>3, <2>4 DEF SignalOf
  <1>8. RowsOf(t)'
    <2>1. \A k \in Lane : at[k] \in AtRow \/ at'[k] \in AtRow => at'[k] = at[k]
          BY <1>1 DEF AtRow, AtCode
    <2>2. \A l \in Lane : l[1] = t => LaneInv(l)'
          BY <1>2, <1>3, <2>1 DEF RowsOf, LaneInv, AtRow, AtCode
    <2>3. \A r \in Row : Claimed(t, r) => Claimed(t, r)'
          BY <1>2, <2>1 DEF Claimed
    <2>4. ProgressInv(t)'
          BY <1>1, <1>2, <1>3, <2>3 DEF RowsOf, ProgressInv
    <2> QED
        BY <1>2, <1>3, <2>1, <2>2, <2>4 DEF RowsOf
  <1>9. \A k \in Lane : k[1] # t => at'[k] = at[k]
        BY <1>0, <1>1
  <1> QED
      BY <1>2, <1>7, <1>8, <1>9, OtherColumns

\* The end of a batch.
LEMMA JoinRows ==
  ASSUME TypeInv, SignalInv, RowInv, NEW t \in Tile, Join(t)
  PROVE  SignalInv' /\ RowInv'
  <1>0. Main(t) \in Lane /\ Main(t)[1] = t
        BY Lanes
  <1>1. /\ at[Main(t)] = "join" /\ at'[Main(t)] = IF t = 0 THEN "collect" ELSE "wait"
        /\ \A k \in Lane : k # Main(t) => at'[k] = at[k] /\ row'[k] = row[k] /\ col'[k] = col[k]
        /\ coded' = coded /\ UNCHANGED rowPool /\ doneCount[t] >= RowThreads - 1
        BY <1>0 DEF Join, EndJob, TypeInv
  <1>2. /\ \A w \in RowHelper : at[<<t, w>>] = "wait"
        /\ \A l \in Lane : l[1] = t => at[l] \notin AtRow
        BY <1>1, Joined
  <1>3. ~Batch(t)'
        BY <1>1 DEF Batch, AtBatch, AtRow, AtCode
  <1>4. SignalOf(t)'
    <2>1. \A w \in RowHelper : at'[<<t, w>>] = "wait"
      <3> TAKE w \in RowHelper
      <3>1. <<t, w>> \in Lane /\ <<t, w>> # Main(t)
            BY Lanes
      <3> QED
          BY <1>1, <1>2, <3>1
    <2> QED
        BY <1>3, <2>1 DEF SignalOf
  <1>5. RowsOf(t)'
    <2>1. \A l \in Lane : l[1] = t => at'[l] \notin AtRow
          BY <1>1, <1>2 DEF AtRow, AtCode
    <2> QED
        BY <1>3, <2>1 DEF RowsOf, LaneInv, AtRow, AtCode
  <1>6. \A k \in Lane : k[1] # t => at'[k] = at[k] /\ row'[k] = row[k] /\ col'[k] = col[k]
        BY <1>0, <1>1
  <1> QED
      BY <1>1, <1>4, <1>5, <1>6, OtherColumns DEF rowPool
\* A lane of a batch counts itself done exactly when it leaves.
LEMMA LaneSignal ==
  ASSUME TypeInv, SignalInv, NEW l \in Lane, LaneStep(l)
  PROVE  Batch(l[1]) /\ Batch(l[1])' /\ SignalOf(l[1])'
  <1> DEFINE t == l[1]
  <1>0. /\ t \in Tile /\ Main(t) \in Lane /\ (l[2] = 0 => l = Main(t))
        /\ l[2] # 0 => l[2] \in RowHelper /\ l = <<t, l[2]>> /\ l # Main(t)
        BY Lanes
  <1>1. /\ at[l] \in AtRow \cup {"claim"}
        /\ at'[l] \in AtRow \cup {"claim"} \cup (IF l[2] = 0 THEN {"join"} ELSE {"wait"})
        /\ \A k \in Lane : k # l => at'[k] = at[k]
        /\ sent' = sent
        BY LaneMove
  <1>2. SignalOf(t)
        BY <1>0 DEF SignalInv
  <1>3. doneCount'[t] = IF at'[l] = "wait" THEN doneCount[t] + 1 ELSE doneCount[t]
    <2>1. ASSUME Leave(l)
          PROVE doneCount'[t] = IF at'[l] = "wait" THEN doneCount[t] + 1 ELSE doneCount[t]
          BY <1>0, <2>1 DEF Leave, TypeInv
    <2>2. CASE Leave(l)
          BY <2>1, <2>2
    <2>3. CASE ~Leave(l)
      <3>1. doneCount' = doneCount
            BY <2>3 DEF LaneStep, Claim, ReadAbove, CodeSb, EndRow, rowPool
      <3>2. at'[l] # "wait"
        <4>1. \E p \in AtRow \cup {"claim"} : at' = [at EXCEPT ![l] = p]
              BY <2>3 DEF LaneStep, Claim, ReadAbove, CodeSb, EndRow, AtRow, AtCode
        <4> QED
            BY <4>1 DEF TypeInv, AtRow, AtCode
      <3> QED
          BY <3>1, <3>2
    <2> QED
        BY <2>2, <2>3
  <1>4. Batch(t)
    <2>1. CASE l[2] = 0
          BY <1>0, <1>1, <2>1 DEF Batch, AtBatch
    <2>2. CASE l[2] # 0
      <3>1. at[<<t, l[2]>>] # "wait"
            BY <1>0, <1>1, <2>2 DEF AtRow, AtCode
      <3> QED
          BY <1>0, <1>2, <2>2, <3>1 DEF SignalOf
    <2> QED
        BY <2>1, <2>2
  <1>5. Batch(t)' /\ (at'[Main(t)] = "send" <=> at[Main(t)] = "send")
    <2>1. CASE l[2] = 0
          BY <1>0, <1>1, <2>1 DEF Batch, AtBatch, AtRow, AtCode
    <2>2. CASE l[2] # 0
          BY <1>0, <1>1, <1>4, <2>2 DEF Batch
    <2> QED
        BY <2>1, <2>2
  <1>6. /\ sent[t] \in 0..(RowThreads - 1)
        /\ at[Main(t)] = "send" <=> sent[t] < RowThreads - 1
        /\ doneCount[t] = Cardinality(Back(t))
        BY <1>2, <1>4 DEF SignalOf
  <1>7. \A w \in 1..sent[t] : w \in RowHelper
        BY <1>6, Sizes DEF RowHelper
  <1>8. \A w \in RowHelper : <<t, w>> \in Lane /\ (<<t, w>> = l <=> w = l[2])
        BY <1>0, Lanes
  <1>9. IF at'[l] = "wait" THEN l[2] \in RowHelper /\ l[2] \in 1..sent[t] /\ l[2] \notin Back(t)
                                /\ Back(t)' = Back(t) \cup {l[2]}
                           ELSE Back(t)' = Back(t)
    <2>1. CASE l[2] = 0
      <3>1. \A w \in RowHelper : at'[<<t, w>>] = at[<<t, w>>]
            BY <1>0, <1>1, <1>8, <2>1 DEF RowHelper
      <3> QED
          BY <1>1, <1>7, <2>1, <3>1 DEF Back, AtRow, AtCode
    <2>2. CASE l[2] # 0
      <3>1. l[2] \in RowHelper /\ l = <<t, l[2]>> /\ at[<<t, l[2]>>] # "wait"
            BY <1>0, <1>1, <2>2 DEF AtRow, AtCode
      <3>2. l[2] \in 1..sent[t]
            BY <1>2, <1>6, <3>1 DEF SignalOf, RowHelper
      <3>3. \A w \in 1..sent[t] : w # l[2] => at'[<<t, w>>] = at[<<t, w>>]
            BY <1>1, <1>7, <1>8
      <3>4. Back(t) = {w \in 1..sent[t] : at[<<t, w>>] = "wait"}
            /\ Back(t)' = {w \in 1..sent[t] : at'[<<t, w>>] = "wait"}
            BY <1>1 DEF Back
      <3> HIDE DEF t
      <3> QED
          BY <3>1, <3>2, <3>3, <3>4
    <2> QED
        BY <2>1, <2>2
  <1>10. doneCount'[t] = Cardinality(Back(t)')
    <2>1. IsFiniteSet(Back(t))
      <3>1. IsFiniteSet(1..sent[t])
            BY <1>6, FS_Interval
      <3> QED
          BY <3>1, FS_Subset DEF Back
    <2> QED
        BY <1>3, <1>6, <1>9, <2>1, FS_AddElement
  <1>11. \A w \in RowHelper :
           \/ at'[<<t, w>>] = "wait"
           \/ w <= sent'[t] /\ at'[<<t, w>>] \in AtRow \cup {"claim"}
    <2> TAKE w \in RowHelper
    <2>1. CASE <<t, w>> = l
      <3>1. at[<<t, w>>] # "wait"
            BY <1>1, <2>1 DEF AtRow, AtCode
      <3>2. w <= sent[t]
            BY <1>2, <3>1 DEF SignalOf
      <3>3. l[2] = w /\ w # 0
            BY <1>8, <2>1 DEF RowHelper
      <3> QED
          BY <1>1, <2>1, <3>2, <3>3
    <2>2. CASE <<t, w>> # l
          BY <1>1, <1>2, <1>8, <2>2 DEF SignalOf
    <2> QED
        BY <2>1, <2>2
  <1>12. abort'[t] = rowErr'[t]
    <2>1. abort[t] = rowErr[t]
          BY <1>2, <1>4 DEF SignalOf
    <2>2. CASE abort' = abort /\ rowErr' = rowErr
          BY <2>1, <2>2
    <2>3. CASE abort' = [abort EXCEPT ![t] = TRUE] /\ rowErr' = [rowErr EXCEPT ![t] = TRUE]
      <3>1. abort'[t] = TRUE /\ rowErr'[t] = TRUE
            BY <1>0, <2>3 DEF TypeInv
      <3> QED
          BY <3>1, Zenon
    <2> QED
        BY <2>2, <2>3 DEF LaneStep, Claim, ReadAbove, CodeSb, EndRow, rowPool
  <1> HIDE DEF t
  <1>13. SignalOf(t)'
         BY <1>1, <1>5, <1>6, <1>10, <1>11, <1>12 DEF SignalOf
  <1> QED
      BY <1>4, <1>5, <1>13 DEF t
\* A row claimed, left, waited for and coded.
LEMMA LaneRows ==
  ASSUME TypeInv, SignalInv, RowInv, NEW l \in Lane, LaneStep(l)
  PROVE  RowsOf(l[1])'
  <1> DEFINE t == l[1]
  <1>0. t \in Tile /\ Main(t) \in Lane /\ (l[2] = 0 => l = Main(t)) /\ (l[2] # 0 => l # Main(t))
        BY Lanes
  <1>1. /\ at[l] \in AtRow \cup {"claim"}
        /\ at'[l] \in AtRow \cup {"claim"} \cup (IF l[2] = 0 THEN {"join"} ELSE {"wait"})
        /\ \A k \in Lane : k # l => at'[k] = at[k] /\ row'[k] = row[k] /\ col'[k] = col[k]
        BY LaneMove
  <1>2. RowsOf(t) /\ Batch(t) /\ Batch(t)'
        BY <1>0, LaneSignal DEF RowInv
  <1>3. ProgressInv(t) /\ \A k \in Lane : k[1] = t => LaneInv(k)
        BY <1>2 DEF RowsOf
  <1>4. at'[Main(t)] = "join" => at[Main(t)] = "join" \/ (l = Main(t) /\ at'[l] = "join")
        BY <1>0, <1>1
  <1>5. nextRow[t] \in Nat /\ curCol[t] \in [Row -> Int] /\ coded[t] \in SUBSET (Row \X Col)
        BY <1>0 DEF TypeInv
  <1>6. ASSUME at'[l] \notin AtRow PROVE RowsOf(t)'
    <2>1. /\ curCol' = curCol /\ coded' = coded
          /\ nextRow'[t] = nextRow[t] \/ (nextRow'[t] = nextRow[t] + 1 /\ nextRow[t] >= SbRows)
          /\ at[l] \in {"claim", "ended"}
      <3>1. ASSUME Claim(l)
            PROVE nextRow'[t] = nextRow[t] \/ (nextRow'[t] = nextRow[t] + 1 /\ nextRow[t] >= SbRows)
        <4>1. CASE nextRow' = nextRow
              BY <4>1
        <4>2. CASE nextRow' # nextRow
          <5>1. /\ nextRow' = [nextRow EXCEPT ![t] = nextRow[t] + 1]
                /\ nextRow[t] >= SbRows \/ at' = [at EXCEPT ![l] = "read"]
                BY <3>1, <4>2 DEF Claim
          <5>2. at' # [at EXCEPT ![l] = "read"]
                BY <1>6 DEF TypeInv, AtRow, AtCode
          <5> QED
              BY <1>0, <5>1, <5>2 DEF TypeInv
        <4> QED
            BY <4>1, <4>2
      <3>2. ~ReadAbove(l) /\ ~CodeSb(l)
            BY <1>6 DEF ReadAbove, CodeSb, TypeInv, AtRow, AtCode
      <3> QED
          BY <3>1, <3>2 DEF LaneStep, Claim, EndRow
    <2>2. /\ abort[t] => abort'[t]
          /\ at'[l] = "join" => abort'[t] \/ nextRow'[t] >= SbRows
      <3>1. CASE Claim(l)
        <4>1. abort' = abort
              BY <3>1 DEF Claim
        <4>2. ASSUME ~abort[t], at'[l] = "join" PROVE nextRow'[t] >= SbRows
          <5>1. /\ nextRow' = [nextRow EXCEPT ![t] = nextRow[t] + 1]
                /\ nextRow[t] >= SbRows \/ at' = [at EXCEPT ![l] = "read"]
                BY <3>1, <4>2 DEF Claim
          <5>2. at' # [at EXCEPT ![l] = "read"]
                BY <4>2 DEF TypeInv
          <5> QED
              BY <1>0, <1>5, <5>1, <5>2, Sizes DEF TypeInv
        <4> QED
            BY <4>1, <4>2
      <3>2. CASE EndRow(l)
        <4>1. CASE at' = [at EXCEPT ![l] = "claim"] /\ abort' = abort
              BY <4>1 DEF TypeInv
        <4>2. CASE abort' = [abort EXCEPT ![t] = TRUE]
              BY <1>0, <4>2 DEF TypeInv
        <4> QED
            BY <3>2, <4>1, <4>2 DEF EndRow
      <3>3. ~ReadAbove(l) /\ ~CodeSb(l)
            BY <1>6 DEF ReadAbove, CodeSb, TypeInv, AtRow, AtCode
      <3> QED
          BY <3>1, <3>2, <3>3 DEF LaneStep
    <2>3. \A k \in Lane : k[1] = t => LaneInv(k)'
          BY <1>1, <1>3, <1>5, <1>6, <2>1 DEF LaneInv, AtRow, AtCode, Row
    <2>4. \A r \in Row : Claimed(t, r) => Claimed(t, r)' \/ (at[l] \in AtRow /\ row[l] = r)
          BY <1>1 DEF Claimed
    <2>5. at[l] \in AtRow => curCol[t][row[l]] = SbCols + 1
          BY <1>3, <2>1 DEF LaneInv, AtRow, AtCode
    <2>6. ProgressInv(t)'
      <3>1. \A r \in Row : (r < nextRow'[t] => r < nextRow[t]) /\ (r >= nextRow'[t] => r >= nextRow[t])
            BY <1>5, <2>1, Sizes DEF Row
      <3>2. \A r \in Row : r < nextRow[t] => curCol[t][r] = SbCols + 1 \/ Claimed(t, r)'
            BY <1>3, <2>4, <2>5 DEF ProgressInv
      <3>3. at'[Main(t)] = "join" => abort'[t] \/ nextRow'[t] >= SbRows
        <4> SUFFICES ASSUME at'[Main(t)] = "join" PROVE abort'[t] \/ nextRow'[t] >= SbRows
            OBVIOUS
        <4>1. CASE at[Main(t)] = "join"
              BY <1>3, <1>5, <2>1, <2>2, <4>1, Sizes DEF ProgressInv
        <4>2. CASE l = Main(t) /\ at'[l] = "join"
              BY <2>2, <4>2
        <4> QED
            BY <1>4, <4>1, <4>2
      <3> QED
          BY <1>3, <2>1, <3>1, <3>2, <3>3 DEF ProgressInv
    <2>7. \A j, k \in Lane :
            j[1] = t /\ k[1] = t /\ at'[j] \in AtRow /\ at'[k] \in AtRow /\ row'[j] = row'[k]
              => j = k
          BY <1>1, <1>2, <1>6 DEF RowsOf
    <2> QED
        BY <1>2, <2>3, <2>6, <2>7 DEF RowsOf
  <1>7. ASSUME Claim(l), at'[l] \in AtRow PROVE RowsOf(t)'
    <2>1. /\ nextRow' = [nextRow EXCEPT ![t] = nextRow[t] + 1] /\ nextRow[t] < SbRows
          /\ row' = [row EXCEPT ![l] = nextRow[t]] /\ col' = [col EXCEPT ![l] = 0]
          /\ at' = [at EXCEPT ![l] = "read"]
          /\ curCol' = curCol /\ coded' = coded /\ abort' = abort /\ at[l] = "claim"
      <3>1. ~Leave(l)
            BY <1>7 DEF Leave, TypeInv, AtRow, AtCode
      <3> QED
          BY <1>5, <1>7, <3>1, Sizes DEF Claim
    <2>2. /\ nextRow'[t] = nextRow[t] + 1 /\ row'[l] = nextRow[t] /\ col'[l] = 0
          /\ at'[l] = "read" /\ nextRow[t] \in Row
      <3>1. nextRow'[t] = nextRow[t] + 1
            BY <1>0, <2>1 DEF TypeInv
      <3>2. row'[l] = nextRow[t] /\ col'[l] = 0 /\ at'[l] = "read"
            BY <2>1 DEF TypeInv
      <3>3. nextRow[t] \in Row
            BY <1>5, <2>1, Sizes DEF Row
      <3> QED
          BY <3>1, <3>2, <3>3
    <2>3. \A k \in Lane : k[1] = t => LaneInv(k)'
      <3> SUFFICES ASSUME NEW k \in Lane, k[1] = t PROVE LaneInv(k)'
          OBVIOUS
      <3>1. CASE k = l
        <4>1. curCol[t][nextRow[t]] = -1
              BY <1>3, <1>5, <2>2 DEF ProgressInv
        <4> QED
            BY <1>5, <2>1, <2>2, <3>1, <4>1, Sizes DEF LaneInv, AtRow, AtCode, Col
      <3>2. CASE k # l
            BY <1>1, <1>3, <1>5, <2>1, <2>2, <3>2 DEF LaneInv, AtRow, AtCode, Row
      <3> QED
          BY <3>1, <3>2
    <2>4. \A r \in Row : Claimed(t, r) => Claimed(t, r)'
          BY <1>1, <2>1 DEF Claimed, AtRow, AtCode
    <2>5. \A r \in Row : r = nextRow[t] => Claimed(t, r)'
          BY <2>2 DEF Claimed, AtRow, AtCode
    <2>6. ProgressInv(t)'
      <3>1. \A r \in Row : /\ r < nextRow'[t] => r < nextRow[t] \/ r = nextRow[t]
                           /\ r >= nextRow'[t] => r >= nextRow[t]
            BY <1>5, <2>2 DEF Row
      <3>2. \A r \in Row : r < nextRow'[t] => curCol[t][r] = SbCols + 1 \/ Claimed(t, r)'
            BY <1>3, <2>4, <2>5, <3>1 DEF ProgressInv
      <3>3. at'[Main(t)] = "join" => abort'[t] \/ nextRow'[t] >= SbRows
        <4>1. at'[Main(t)] = "join" => at[Main(t)] = "join"
              BY <1>4, <2>2
        <4> QED
            BY <1>3, <1>5, <2>1, <2>2, <4>1, Sizes DEF ProgressInv
      <3> QED
          BY <1>3, <2>1, <3>1, <3>2, <3>3 DEF ProgressInv
    <2>7. \A j, k \in Lane :
            j[1] = t /\ k[1] = t /\ at'[j] \in AtRow /\ at'[k] \in AtRow /\ row'[j] = row'[k]
              => j = k
      <3>1. \A k \in Lane : k # l /\ k[1] = t /\ at'[k] \in AtRow => row'[k] # row'[l]
            BY <1>1, <1>3, <1>5, <2>2 DEF LaneInv, Row
      <3> QED
          BY <1>1, <1>2, <3>1 DEF RowsOf
    <2> QED
        BY <1>2, <2>3, <2>6, <2>7 DEF RowsOf
  <1>8. ASSUME ReadAbove(l) PROVE RowsOf(t)'
    <2>1. /\ at[l] = "read" /\ at' = [at EXCEPT ![l] = "code"] /\ at'[l] = "code"
          /\ row' = row /\ col' = col /\ coded' = coded /\ UNCHANGED rowPool
          BY <1>8 DEF ReadAbove, TypeInv
    <2>2. row[l] > 0 => curCol[t][row[l] - 1] >= col[l]
      <3>1. col[l] \in Nat /\ col[l] % 1 = 0
            BY DEF TypeInv
      <3>2. row[l] > 0 => curCol[t][row[l] - 1] >= col[l] - 1 + 1
            BY <1>8, <3>1 DEF ReadAbove, ReadTarget, SyncRange
      <3> QED
          BY <3>1, <3>2
    <2>3. \A k \in Lane : at[k] \in AtRow <=> at'[k] \in AtRow
          BY <1>1, <2>1 DEF AtRow, AtCode
    <2>4. \A k \in Lane : k[1] = t => LaneInv(k)'
      <3> SUFFICES ASSUME NEW k \in Lane, k[1] = t PROVE LaneInv(k)'
          OBVIOUS
      <3>1. CASE k = l
            BY <1>3, <2>1, <2>2, <3>1 DEF LaneInv, AtRow, AtCode, rowPool
      <3>2. CASE k # l
            BY <1>1, <1>3, <2>1, <3>2 DEF LaneInv, rowPool
      <3> QED
          BY <3>1, <3>2
    <2>5. \A r \in Row : Claimed(t, r) => Claimed(t, r)'
          BY <2>1, <2>3 DEF Claimed
    <2>6. ProgressInv(t)'
          BY <1>3, <1>4, <2>1, <2>5 DEF ProgressInv, rowPool
    <2> QED
        BY <1>2, <2>1, <2>3, <2>4, <2>6 DEF RowsOf
  <1>9. ASSUME CodeSb(l) PROVE RowsOf(t)'
    <2> DEFINE r == row[l]  c == col[l]  last == c = SbCols - 1
    <2>1. /\ at[l] = "code" /\ row' = row /\ nextRow' = nextRow /\ abort' = abort
          /\ coded' = [coded EXCEPT ![t] = coded[t] \cup {<<r, c>>}]
          /\ col' = [col EXCEPT ![l] = IF last THEN c ELSE c + 1]
          /\ at' = [at EXCEPT ![l] = IF last THEN "ended" ELSE "read"]
          BY <1>9 DEF CodeSb
    <2>2. r \in Row /\ r < nextRow[t] /\ c \in Col /\ curCol[t][r] = c - 1
          BY <1>3, <2>1 DEF LaneInv, AtRow, AtCode
    <2>4. /\ curCol'[t][r] = IF last THEN SbCols + 1 ELSE c
          /\ \A q \in Row : q # r => curCol'[t][q] = curCol[t][q]
      <3> DEFINE progress == IF last THEN SbCols + SyncRange
                             ELSE IF c % SyncRange = SyncRange - 1 THEN c ELSE curCol[t][r]
      <3>1. curCol' = [curCol EXCEPT ![t][r] = progress]
            BY <1>9 DEF CodeSb
      <3>2. progress = IF last THEN SbCols + 1 ELSE c
        <4>1. c \in Nat /\ c % 1 = 0
              BY <2>2 DEF Col
        <4> QED
            BY <4>1 DEF SyncRange
      <3> HIDE DEF progress
      <3>3. curCol'[t][r] = progress /\ \A q \in Row : q # r => curCol'[t][q] = curCol[t][q]
            BY <1>0, <2>2, <3>1 DEF TypeInv
      <3> QED
          BY <3>2, <3>3
    <2>5. /\ coded'[t] = coded[t] \cup {<<r, c>>}
          /\ col'[l] = (IF last THEN c ELSE c + 1)
          /\ at'[l] = (IF last THEN "ended" ELSE "read")
          BY <1>0, <2>1 DEF TypeInv
    <2>6. \A k \in Lane : k # l /\ k[1] = t /\ at[k] \in AtRow => row[k] # r
          BY <1>2, <2>1 DEF RowsOf, AtRow, AtCode
    <2>7. \A k \in Lane : at[k] \in AtRow <=> at'[k] \in AtRow
          BY <1>1, <2>1, <2>5 DEF AtRow, AtCode
    <2>8. SbCols \in Nat /\ SbCols >= 1 /\ c \in 0..(SbCols - 1) /\ r \in Nat
          BY <2>2, Sizes DEF Col, Row
    <2> HIDE DEF r, c
    <2>9. \A k \in Lane : k[1] = t => LaneInv(k)'
      <3> SUFFICES ASSUME NEW k \in Lane, k[1] = t PROVE LaneInv(k)'
          OBVIOUS
      <3>1. CASE k = l
            BY <2>1, <2>2, <2>4, <2>5, <2>8, <3>1 DEF LaneInv, AtRow, AtCode, Col, r
      <3>2. CASE k # l
        <4>1. at'[k] = at[k] /\ row'[k] = row[k] /\ col'[k] = col[k]
              BY <1>1, <3>2
        <4>2. at[k] \in AtRow => row[k] # r /\ row[k] \in Row
              BY <1>3, <2>6, <3>2 DEF LaneInv
        <4>3. ASSUME at[k] = "code", row[k] > 0 PROVE curCol'[t][row[k] - 1] >= col[k]
          <5>1. row[k] \in Row /\ curCol[t][row[k] - 1] >= col[k] /\ col[k] \in Col
                BY <1>3, <4>3 DEF LaneInv, AtRow, AtCode
          <5>2. row[k] - 1 \in Row
                BY <4>3, <5>1, Sizes DEF Row
          <5>3. CASE row[k] - 1 = r
                BY <2>2, <2>4, <2>8, <5>1, <5>3 DEF Col
          <5>4. CASE row[k] - 1 # r
                BY <2>4, <5>1, <5>2, <5>4
          <5> QED
              BY <5>3, <5>4
        <4> QED
            BY <1>3, <2>1, <2>4, <4>1, <4>2, <4>3 DEF LaneInv, AtRow, AtCode
      <3> QED
          BY <3>1, <3>2
    <2>10. \A q \in Row : Claimed(t, q) => Claimed(t, q)'
          BY <2>1, <2>7 DEF Claimed
    <2>11. ProgressInv(t)'
      <3>1. \A q \in Row : q >= nextRow[t] => curCol'[t][q] = -1
            BY <1>3, <1>5, <2>2, <2>4, <2>8 DEF ProgressInv, Row
      <3>2. Claimed(t, r)'
        <4>1. r' = r /\ row'[l] = r /\ at'[l] \in AtRow
              BY <2>1, <2>7 DEF r, AtRow, AtCode
        <4> QED
            BY <4>1 DEF Claimed
      <3>3. \A q \in Row : q < nextRow[t] => curCol'[t][q] = SbCols + 1 \/ Claimed(t, q)'
        <4> TAKE q \in Row
        <4>1. CASE q = r
          <5>1. r' = r
                BY <2>1 DEF r
          <5> QED
              BY <3>2, <4>1, <5>1 DEF Claimed
        <4>2. CASE q # r
              BY <1>3, <2>4, <2>10, <4>2 DEF ProgressInv
        <4> QED
            BY <4>1, <4>2
      <3>4. \A q \in Row, d \in Col : d <= curCol'[t][q] => <<q, d>> \in coded'[t]
        <4> TAKE q \in Row, d \in Col
        <4> HAVE d <= curCol'[t][q]
        <4>1. CASE q = r /\ d = c
              BY <2>5, <4>1
        <4>2. CASE q = r /\ d # c
          <5>1. d <= c - 1
                BY <2>4, <2>8, <4>2 DEF Col
          <5> QED
              BY <1>3, <2>2, <2>5, <4>2, <5>1 DEF ProgressInv
        <4>3. CASE q # r
              BY <1>3, <2>4, <2>5, <4>3 DEF ProgressInv
        <4> QED
            BY <4>1, <4>2, <4>3
      <3>5. at'[Main(t)] = "join" => abort[t] \/ nextRow[t] >= SbRows
        <4>1. at'[l] # "join"
              BY <2>5
        <4> QED
            BY <1>3, <1>4, <4>1 DEF ProgressInv
      <3> QED
          BY <2>1, <3>1, <3>3, <3>4, <3>5 DEF ProgressInv
    <2>12. \A j, k \in Lane :
             j[1] = t /\ k[1] = t /\ at'[j] \in AtRow /\ at'[k] \in AtRow /\ row'[j] = row'[k]
               => j = k
          BY <1>2, <2>1, <2>7 DEF RowsOf
    <2> QED
        BY <1>2, <2>9, <2>11, <2>12 DEF RowsOf
  <1> QED
    <2>1. EndRow(l) => at'[l] \notin AtRow
          BY DEF EndRow, Leave, TypeInv, AtRow, AtCode
    <2> QED
        BY <1>6, <1>7, <1>8, <1>9, <2>1 DEF LaneStep
LEMMA LaneStepRows ==
  ASSUME TypeInv, SignalInv, RowInv, NEW l \in Lane, LaneStep(l)
  PROVE  SignalInv' /\ RowInv'
  <1> DEFINE t == l[1]
  <1>0. t \in Tile
        BY Lanes
  <1>1. \A k \in Lane : k[1] # t => at'[k] = at[k] /\ row'[k] = row[k] /\ col'[k] = col[k]
        BY LaneMove
  <1>2. /\ nextRow' = nextRow \/ \E x : nextRow' = [nextRow EXCEPT ![t] = x]
        /\ abort' = abort \/ \E x : abort' = [abort EXCEPT ![t] = x]
        /\ rowErr' = rowErr \/ \E x : rowErr' = [rowErr EXCEPT ![t] = x]
        /\ coded' = coded \/ \E x : coded' = [coded EXCEPT ![t] = x]
        BY DEF LaneStep, Claim, ReadAbove, CodeSb, EndRow, rowPool
  <1>3. doneCount' = doneCount \/ \E x : doneCount' = [doneCount EXCEPT ![t] = x]
    <2>1. ASSUME Leave(l) PROVE \E x : doneCount' = [doneCount EXCEPT ![t] = x]
      <3>1. doneCount' = [doneCount EXCEPT ![t] = IF l[2] = 0 THEN doneCount[t]
                                                  ELSE doneCount[t] + 1]
            BY <2>1 DEF Leave
      <3> QED
          BY <3>1
    <2>2. CASE Leave(l)
          BY <2>1, <2>2
    <2>3. CASE ~Leave(l)
          BY <2>3 DEF LaneStep, Claim, ReadAbove, CodeSb, EndRow, rowPool
    <2> QED
        BY <2>2, <2>3
  <1>4. \A u \in Tile : u # t => curCol'[u] = curCol[u]
    <2>1. CASE CodeSb(l)
          BY <2>1 DEF CodeSb, TypeInv
    <2>2. CASE ~CodeSb(l)
          BY <2>2 DEF LaneStep, Claim, ReadAbove, EndRow, rowPool
    <2> QED
        BY <2>1, <2>2
  <1>5. sent' = sent
        BY LaneMove
  <1>6. \A u \in Tile : u # t =>
          /\ nextRow'[u] = nextRow[u] /\ doneCount'[u] = doneCount[u] /\ sent'[u] = sent[u]
          /\ abort'[u] = abort[u] /\ rowErr'[u] = rowErr[u]
          /\ curCol'[u] = curCol[u] /\ coded'[u] = coded[u]
    <2> TAKE u \in Tile
    <2> HAVE u # t
    <2>1. nextRow'[u] = nextRow[u] /\ doneCount'[u] = doneCount[u]
          BY <1>2, <1>3 DEF TypeInv
    <2>2. abort'[u] = abort[u] /\ rowErr'[u] = rowErr[u]
          BY <1>2 DEF TypeInv
    <2>3. coded'[u] = coded[u]
          BY <1>2 DEF TypeInv
    <2> QED
        BY <1>4, <1>5, <2>1, <2>2, <2>3
  <1>7. SignalOf(t)' /\ RowsOf(t)'
        BY LaneSignal, LaneRows
  <1> HIDE DEF t
  <1> QED
      BY <1>0, <1>1, <1>6, <1>7, OtherColumns

LEMMA StepRows ==
  ASSUME TypeInv, JobInv, SignalInv, RowInv, Next
  PROVE  SignalInv' /\ RowInv'
  <1> USE DEF AtCount, AtBatch, AtRow, AtCode, AtFilter, AtWrite
  <1>0. 0 \in Tile /\ \A t \in Tile : Main(t) \in Lane
        BY Sizes, Lanes
  <1>1. ASSUME NEW t \in Tile,
               \/ TakeJob(t) \/ CountTile(t) \/ Cloned(t) \/ PassGate(t) \/ WriteTile(t)
               \/ LfRead(t) \/ FilterSb(t) \/ LfBail(t) \/ LfEnd(t)
        PROVE SignalInv' /\ RowInv'
    <2>1. /\ UNCHANGED rowPool
          /\ at[Main(t)] \in {"wait", "job", "clone", "gate", "write", "lfread", "lf"}
          /\ coded' = coded \/ (at[Main(t)] = "job" /\ coded' = [coded EXCEPT ![t] = Row \X Col])
          BY <1>1 DEF TakeJob, CountTile, Cloned, PassGate, WriteTile, LfRead, FilterSb,
                      LfBail, LfEnd
    <2>2. /\ at'[Main(t)] \in {"wait", "job", "clone", "gate", "write", "lfread", "lf", "collect"}
          /\ \A k \in Lane : k # Main(t) =>
               at'[k] = at[k] /\ row'[k] = row[k] /\ col'[k] = col[k]
      <3>1. ASSUME EndJob(t)
            PROVE  /\ at'[Main(t)] \in {"wait", "collect"}
                   /\ \A k \in Lane : k # Main(t) =>
                        at'[k] = at[k] /\ row'[k] = row[k] /\ col'[k] = col[k]
            BY <1>0, <3>1 DEF EndJob, TypeInv
      <3>2. ASSUME TakeJob(t)
            PROVE  /\ at'[Main(t)] \in {"job", "clone", "lfread"}
                   /\ \A k \in Lane : k # Main(t) =>
                        at'[k] = at[k] /\ row'[k] = row[k] /\ col'[k] = col[k]
            BY <1>0, <3>2 DEF TakeJob, TypeInv
      <3>3. ASSUME Cloned(t) \/ PassGate(t) \/ LfRead(t) \/ FilterSb(t)
            PROVE  /\ at'[Main(t)] \in {"gate", "write", "lf", "lfread"}
                   /\ \A k \in Lane : k # Main(t) =>
                        at'[k] = at[k] /\ row'[k] = row[k] /\ col'[k] = col[k]
            BY <1>0, <3>3 DEF Cloned, PassGate, LfRead, FilterSb, TypeInv
      <3> QED
          BY <1>1, <3>1, <3>2, <3>3 DEF CountTile, WriteTile, LfBail, LfEnd
    <2>3. \A u \in Tile : Batch(u) => coded'[u] = coded[u]
          BY <2>1 DEF Batch, TypeInv
    <2>4. Outside
          BY <2>1, <2>2, <2>3, OutsideMove
    <2> QED
        BY <2>4, SameRows
  <1>2. ASSUME OpenGate \/ NextPass \/ Collect PROVE SignalInv' /\ RowInv'
    <2>1. /\ UNCHANGED rowPool
          /\ at[Main(0)] \in {"prep", "idle", "counted", "written", "collect"}
          /\ \E p \in {"job", "prep", "lfread", "write", "idle", "counted", "written"} :
               at' = [at EXCEPT ![Main(0)] = p]
          /\ row' = row \/ row' = [row EXCEPT ![Main(0)] = 0]
          /\ col' = col \/ col' = [col EXCEPT ![Main(0)] = 0]
          BY <1>2 DEF OpenGate, NextPass, StartCount, StartWrite, StartFilter, FinishFrame,
                      Collect, EndFrame
    <2>2. /\ at'[Main(0)] \in {"job", "prep", "lfread", "write", "idle", "counted", "written"}
          /\ \A k \in Lane : k # Main(0) => at'[k] = at[k] /\ row'[k] = row[k] /\ col'[k] = col[k]
          BY <1>0, <2>1 DEF TypeInv
    <2>3. OpenGate => coded' = coded
          BY DEF OpenGate
    <2>4. ASSUME NextPass \/ Collect, NEW u \in Tile PROVE ~Batch(u)
      <3>1. u = 0 \/ u \in TileHelper
            BY DEF TileHelper
      <3>2. CASE u = 0
            BY <2>4, <3>2 DEF Batch, NextPass, StartCount, StartWrite, StartFilter, FinishFrame,
                              Collect
      <3>3. CASE u \in TileHelper
        <4>1. Finished = TileHelper
          <5>1. CASE Collect
            <6>1. done = Cardinality(Finished) /\ Finished \in SUBSET TileHelper
                  BY <5>1 DEF Collect, JobInv, Resting, Finished
            <6> QED
                BY <5>1, <6>1, HelperSets, Sizes DEF Collect
          <5>2. CASE NextPass
                BY <5>2 DEF NextPass, StartCount, StartWrite, StartFilter, FinishFrame,
                            JobInv, Resting
          <5> QED
              BY <2>4, <5>1, <5>2
        <4>2. at[Main(u)] = "wait"
              BY <3>3, <4>1 DEF Finished
        <4> QED
            BY <4>2 DEF Batch
      <3> QED
          BY <3>1, <3>2, <3>3
    <2>5. \A u \in Tile : Batch(u) => coded'[u] = coded[u]
          BY <1>2, <2>3, <2>4
    <2>6. Outside
          BY <1>0, <2>1, <2>2, <2>5, OutsideMove
    <2> QED
        BY <2>6, SameRows
  <1>3. ASSUME Rest PROVE SignalInv' /\ RowInv'
    <2>1. Outside
          BY <1>3 DEF Rest, vars, Outside, rowPool, Batch
    <2> QED
        BY <2>1, SameRows
  <1>4. ASSUME NEW t \in Tile, Dispatch(t) \/ SendStart(t) \/ Join(t)
        PROVE SignalInv' /\ RowInv'
        BY <1>4, DispatchRows, SendRows, JoinRows
  <1> QED
      BY <1>1, <1>2, <1>3, <1>4, LaneStepRows DEF Next, TileStep
-----------------------------------------------------------------------------
(* What a count pass leaves.                                               *)

\* A batch that was not aborted has coded the column.
LEMMA ColumnComplete ==
  ASSUME TypeInv, SignalInv, RowInv, NEW t \in Tile, Join(t)
  PROVE  rowErr[t] \/ coded[t] = Row \X Col
  <1>1. /\ at[Main(t)] = "join" /\ doneCount[t] >= RowThreads - 1
        /\ Batch(t) /\ SignalOf(t) /\ RowsOf(t)
        BY DEF Join, Batch, AtBatch, SignalInv, RowInv
  <1>2. \A r \in Row : ~Claimed(t, r)
        BY <1>1, Joined DEF Claimed
  <1>3. abort[t] = rowErr[t] /\ ProgressInv(t)
        BY <1>1 DEF SignalOf, RowsOf
  <1>4. CASE abort[t]
        BY <1>3, <1>4
  <1>5. CASE ~abort[t]
    <2>1. nextRow[t] \in Nat /\ nextRow[t] >= SbRows /\ coded[t] \in SUBSET (Row \X Col)
          BY <1>1, <1>3, <1>5 DEF ProgressInv, TypeInv
    <2>2. \A r \in Row : curCol[t][r] = SbCols + 1
          BY <1>2, <1>3, <2>1, Sizes DEF ProgressInv, Row
    <2>3. \A r \in Row, c \in Col : <<r, c>> \in coded[t]
      <3> TAKE r \in Row, c \in Col
      <3>1. c <= curCol[t][r]
            BY <2>2, Sizes DEF Col
      <3> QED
          BY <1>3, <3>1 DEF ProgressInv
    <2> QED
        BY <2>1, <2>3
  <1> QED
      BY <1>4, <1>5

\* The end of a job, seen from the count pass.
LEMMA EndCount ==
  ASSUME TypeInv, JobInv, PrepInv, CountInv, NEW t \in Tile, EndJob(t),
         at[Main(t)] \in {"job", "join", "write", "lf", "lfread"},
         UNCHANGED <<jobKind, start, prepDone, replay>>,
         failed \subseteq failed',
         \A u \in Tile : u # t => coded'[u] = coded[u],
         at[Main(t)] \in {"job", "join"} => t \in failed' \/ coded'[t] = Row \X Col,
         at[Main(t)] \notin {"job", "join"} => coded' = coded
  PROVE  CountInv'
  <1> USE DEF AtCount, AtBatch, AtRow, AtCode, AtFilter, AtWrite
  <1>1. /\ Finished' = IF t = 0 THEN Finished ELSE Finished \cup {t}
        /\ at'[Main(t)] = IF t = 0 THEN "collect" ELSE "wait"
        /\ \A k \in Lane : k # Main(t) => at'[k] = at[k]
        BY EndMove
  <1>2. at'[Main(0)] = IF t = 0 THEN "collect" ELSE at[Main(0)]
    <2>1. t # 0 => Main(0) # Main(t) /\ Main(0) \in Lane
          BY Lanes, Sizes
    <2> QED
        BY <1>1, <2>1
  <1>3. CASE at[Main(t)] \in {"job", "join"}
    <2>1. jobKind = "count" /\ ~replay
          BY <1>3, KindOf DEF CountInv
    <2>2. \A u \in Tile : Counted(u)' => u = t \/ Counted(u)
          BY <1>1, <1>2 DEF Counted
    <2>3. at[Main(0)] # "idle"
          BY <1>3, KindOf DEF Resting
    <2> QED
        BY <1>2, <1>3, <2>1, <2>2, <2>3 DEF CountInv
  <1>4. CASE at[Main(t)] \notin {"job", "join"}
    <2>1. jobKind # "count" /\ at[Main(0)] # "counted"
          BY <1>4, KindOf DEF Resting
    <2> QED
        BY <1>2, <1>4, <2>1 DEF CountInv
  <1> QED
      BY <1>3, <1>4

LEMMA StepCount ==
  ASSUME TypeInv, JobInv, PrepInv, SignalInv, RowInv, CountInv, Next
  PROVE  CountInv'
  <1> USE DEF AtCount, AtBatch, AtRow, AtCode, AtFilter, AtWrite
  <1>0. /\ 0 \in Tile /\ \A t \in Tile : Main(t) \in Lane
        /\ \A t, u \in Tile : t # u => Main(t) # Main(u)
        /\ \A t \in TileHelper : t \in Tile /\ t # 0
        /\ \A t \in Tile : t = 0 \/ t \in TileHelper
        BY Sizes, Lanes, Helpers DEF TileHelper
  <1>1. ASSUME StartCount PROVE CountInv'
    <2>1. /\ Finished' = {} /\ at'[Main(0)] = "job" /\ replay' = FALSE
      <3>1. Resting /\ Launch("count") /\ UNCHANGED done /\ at' = [at EXCEPT ![Main(0)] = "job"]
            BY <1>1 DEF StartCount, Resting
      <3>2. Finished' = {}
            BY <3>1, LaunchMove DEF Place
      <3> QED
          BY <1>0, <1>1, <3>1, <3>2 DEF StartCount, TypeInv
    <2>2. \A t \in Tile : ~Counted(t)'
          BY <2>1 DEF Counted
    <2> QED
        BY <2>1, <2>2 DEF CountInv
  <1>2. ASSUME StartWrite PROVE CountInv'
    <2>1. /\ at[Main(0)] = "counted" /\ at'[Main(0)] = "prep" /\ jobKind' = "write"
          /\ replay' => failed = {}
          /\ coded' = coded
          BY <1>0, <1>2 DEF StartWrite, Launch, TypeInv
    <2>2. \A t \in Tile : Counted(t)
          BY <1>0, <2>1 DEF Counted, JobInv, Resting
    <2> QED
        BY <2>1, <2>2 DEF CountInv
  <1>3. ASSUME StartFilter PROVE CountInv'
    <2>1. at'[Main(0)] = "lfread" /\ jobKind' = "filter" /\ replay' = replay /\ coded' = coded
          BY <1>0, <1>3 DEF StartFilter, Launch, TypeInv
    <2> QED
        BY <2>1 DEF CountInv
  <1>4. ASSUME FinishFrame PROVE CountInv'
    <2>1. at'[Main(0)] = "idle" /\ replay' = FALSE
          BY <1>0, <1>4 DEF FinishFrame, EndFrame, TypeInv
    <2> QED
        BY <2>1 DEF CountInv
  <1>5. ASSUME Collect PROVE CountInv'
    <2>1. CASE jobKind = "filter" /\ EndFrame
      <3>1. at'[Main(0)] = "idle" /\ replay' = FALSE
            BY <1>0, <2>1 DEF EndFrame, TypeInv
      <3> QED
          BY <3>1 DEF CountInv
    <2>2. CASE ~(jobKind = "filter" /\ EndFrame)
      <3>1. /\ at[Main(0)] = "collect"
            /\ at'[Main(0)] = IF jobKind = "count" THEN "counted" ELSE "written"
            /\ UNCHANGED <<jobKind, start, coded, failed, replay>>
            /\ \A t \in Tile : t # 0 => at'[Main(t)] = at[Main(t)]
            BY <1>0, <1>5, <2>2 DEF Collect, TypeInv
      <3>2. Finished' = Finished
            BY <1>0, <3>1 DEF Finished
      <3>3. \A t \in Tile : Counted(t)' => Counted(t)
            BY <3>1, <3>2 DEF Counted
      <3> QED
          BY <3>1, <3>3 DEF CountInv
    <2> QED
        BY <2>1, <2>2
  <1>6. ASSUME OpenGate \/ (\E t \in Tile : TakeJob(t) \/ Cloned(t)) PROVE CountInv'
    <2>1. UNCHANGED <<jobKind, coded, failed, replay>>
          BY <1>6 DEF OpenGate, TakeJob, Cloned
    <2>2. PICK t \in Tile :
            /\ \/ t = 0 /\ at[Main(0)] = "prep" /\ at'[Main(0)] = "write" /\ start' = start
               \/ at[Main(t)] = "clone" /\ at'[Main(t)] = "gate" /\ start' = start
               \/ t \in start /\ at'[Main(t)] \in {"job", "clone", "lfread"} /\ start' = start \ {t}
            /\ \A u \in Tile : u # t => at'[Main(u)] = at[Main(u)]
      <3>1. CASE OpenGate
            BY <1>0, <3>1 DEF OpenGate, TypeInv
      <3>2. CASE \E t \in Tile : TakeJob(t)
            BY <1>0, <3>2 DEF TakeJob, TypeInv
      <3>3. CASE \E t \in Tile : Cloned(t)
            BY <1>0, <3>3 DEF Cloned, TypeInv
      <3> QED
          BY <1>6, <3>1, <3>2, <3>3
    <2>3. /\ at'[Main(0)] = "counted" => at[Main(0)] = "counted"
          /\ at'[Main(0)] = "collect" => at[Main(0)] = "collect"
          /\ at[Main(0)] # "idle" \/ at'[Main(0)] = "idle"
      <3>1. t = 0 => at[Main(0)] # "idle"
            BY <2>2, Sizes, KindOf DEF JobInv, TypeInv, TileHelper
      <3> QED
          BY <1>0, <2>2, <3>1
    <2>4. \A u \in Tile : Counted(u)' => Counted(u)
      <3>1. \A u \in TileHelper : u \in Finished' => u \in Finished
            BY <1>0, <2>2 DEF Finished
      <3> QED
          BY <2>3, <3>1 DEF Counted, Finished
    <2> QED
        BY <2>1, <2>3, <2>4 DEF CountInv
  <1>7. ASSUME NEW t \in Tile, CountTile(t) PROVE CountInv'
    <2>1. /\ EndJob(t) /\ at[Main(t)] = "job" /\ UNCHANGED <<jobKind, start, prepDone, replay>>
          /\ failed \subseteq failed'
          /\ coded'[t] = Row \X Col /\ \A u \in Tile : u # t => coded'[u] = coded[u]
          BY <1>7 DEF CountTile, TypeInv
    <2> QED
        BY <2>1, EndCount
  <1>8. ASSUME NEW t \in Tile, Join(t) PROVE CountInv'
    <2>1. /\ EndJob(t) /\ at[Main(t)] = "join" /\ UNCHANGED <<jobKind, start, prepDone, replay>>
          /\ failed \subseteq failed' /\ (rowErr[t] => t \in failed') /\ coded' = coded
          BY <1>8 DEF Join
    <2>2. t \in failed' \/ coded'[t] = Row \X Col
          BY <1>8, <2>1, ColumnComplete
    <2> QED
        BY <2>1, <2>2, EndCount
  <1>9. ASSUME NEW t \in Tile, WriteTile(t) \/ LfBail(t) \/ LfEnd(t) PROVE CountInv'
    <2>1. /\ EndJob(t) /\ at[Main(t)] \in {"write", "lf", "lfread"}
          /\ UNCHANGED <<jobKind, start, prepDone, replay, coded>> /\ failed \subseteq failed'
          BY <1>9 DEF WriteTile, LfBail, LfEnd
    <2> QED
        BY <2>1, EndCount
  <1>10. ASSUME WithinJob PROVE CountInv'
    <2>1. /\ UNCHANGED <<jobKind, replay, failed>> /\ \A t \in Tile : Steady(t)
          /\ \A t \in Tile : Counted(t)' = Counted(t)
          BY <1>10, WithinJobSteady, SameJob
    <2>2. /\ at'[Main(0)] = "counted" => at[Main(0)] = "counted"
          /\ at[Main(0)] # "idle" \/ at'[Main(0)] = "idle"
          BY <1>0, <2>1 DEF Steady
    <2>3. CASE coded' = coded
          BY <2>1, <2>2, <2>3 DEF CountInv
    <2>4. CASE coded' # coded
      <3>1. PICK l \in Lane : CodeSb(l)
            BY <1>10, <2>4 DEF WithinJob, LaneStep, Dispatch, SendStart, PassGate, LfRead, FilterSb,
                               Claim, ReadAbove, EndRow
      <3>2. LaneStep(l)
            BY <3>1 DEF LaneStep
      <3>3. l[1] \in Tile /\ Batch(l[1])
            BY <3>2, LaneSignal, Lanes
      <3>4. jobKind = "count" /\ ~replay
            BY <3>3, KindOf DEF Batch, CountInv
      <3>5. ~Counted(l[1])
            BY <3>3 DEF Batch, Counted, Finished
      <3>6. \A u \in Tile : u # l[1] => coded'[u] = coded[u]
            BY <3>1 DEF CodeSb, TypeInv
      <3> QED
          BY <2>1, <2>2, <3>4, <3>5, <3>6 DEF CountInv
    <2> QED
        BY <2>3, <2>4
  <1>11. ASSUME Rest PROVE CountInv'
    <2>1. UNCHANGED <<jobKind, start, at, coded, failed, replay>>
          BY <1>11 DEF Rest, vars
    <2>2. \A t \in Tile : Counted(t)' = Counted(t)
          BY <2>1 DEF Counted, Finished
    <2> QED
        BY <2>1, <2>2 DEF CountInv
  <1> QED
      BY <1>1, <1>2, <1>3, <1>4, <1>5, <1>6, <1>7, <1>8, <1>9, <1>10, <1>11
      DEF Next, NextPass, TileStep, WithinJob
-----------------------------------------------------------------------------
(* The filter.                                                             *)

\* Quotient and remainder.
LEMMA DivMod ==
  ASSUME NEW a \in Nat, NEW m \in Nat \ {0}
  PROVE  a \div m \in Nat /\ a % m \in 0..(m - 1) /\ a = m * (a \div m) + (a % m)
  BY SMT

LEMMA SmallRemainder ==
  ASSUME NEW m \in Nat \ {0}, NEW a \in 0..(m - 1)
  PROVE  a % m = a
  BY SMT

\* A tile worker's next row is its own too.
LEMMA NextRowRemainder ==
  ASSUME NEW a \in Nat, NEW m \in Nat \ {0}
  PROVE  (a + m) % m = a % m
  <1> DEFINE p == a \div m  x == a % m
             q == (a + m) \div m  y == (a + m) % m
  <1>1. p \in Nat /\ x \in 0..(m - 1) /\ a = m * p + x
        BY DivMod
  <1>2. q \in Nat /\ y \in 0..(m - 1) /\ a + m = m * q + y
    <2>1. a + m \in Nat
          OBVIOUS
    <2> QED
        BY <2>1, DivMod
  <1> HIDE DEF p, q, x, y
  <1>3. m * (p + 1) + x = m * q + y
        BY <1>1, <1>2
  <1>4. p + 1 = q
        BY <1>1, <1>2, <1>3
  <1> QED
      BY <1>1, <1>2, <1>3, <1>4 DEF x, y

\* Columns between two waits belong to the group of the wait before them.
LEMMA FilterGroups ==
  ASSUME NEW c \in Nat
  PROVE  /\ FilterGroup(c) \in Nat /\ FilterGroup(c) <= c /\ c < FilterGroup(c) + LfRange
         /\ c % LfRange = 0 => FilterGroup(c) = c
         /\ (c + 1) % LfRange # 0 => FilterGroup(c + 1) = FilterGroup(c)
  <1> DEFINE m == LfRange
             p == c \div m  x == c % m
             q == (c + 1) \div m  y == (c + 1) % m
  <1>0. m \in Nat \ {0}
        BY Sizes
  <1>1. p \in Nat /\ x \in 0..(m - 1) /\ c = m * p + x
        BY <1>0, DivMod
  <1>2. q \in Nat /\ y \in 0..(m - 1) /\ c + 1 = m * q + y
    <2>1. c + 1 \in Nat
          OBVIOUS
    <2> QED
        BY <1>0, <2>1, DivMod
  <1>3. FilterGroup(c) = c - x /\ FilterGroup(c + 1) = c + 1 - y
        BY <1>0, <1>1, <1>2 DEF FilterGroup
  <1> HIDE DEF m, p, q, x, y
  <1>4. c - x \in Nat /\ c - x <= c /\ c < c - x + m /\ (x = 0 => c - x = c)
    <2>1. m * p \in Nat
          BY <1>0, <1>1
    <2> QED
        BY <1>0, <1>1, <2>1
  <1>5. ASSUME y # 0 PROVE c + 1 - y = c - x
    <2>1. m * p + x + 1 = m * q + y
          BY <1>1, <1>2
    <2>0. m * p \in Nat /\ m * q \in Nat
          BY <1>0, <1>1, <1>2
    <2>2. p = q
      <3>1. ~(q >= p + 1)
        <4>1. ASSUME q >= p + 1 PROVE m * q >= m * p + m
          <5>1. m * (q - p) >= m
                BY <1>0, <1>1, <1>2, <4>1
          <5>2. m * (q - p) = m * q - m * p
                BY <1>0, <1>1, <1>2
          <5> QED
              BY <1>0, <2>0, <5>1, <5>2
        <4> DEFINE mp == m * p  mq == m * q
        <4>2. mp \in Nat /\ mq \in Nat /\ mp + x + 1 = mq + y /\ (q >= p + 1 => mq >= mp + m)
              BY <2>0, <2>1, <4>1
        <4> HIDE DEF mp, mq
        <4> QED
            BY <1>0, <1>1, <1>2, <1>5, <4>2
      <3>2. ~(p >= q + 1)
        <4>1. ASSUME p >= q + 1 PROVE m * p >= m * q + m
          <5>1. m * (p - q) >= m
                BY <1>0, <1>1, <1>2, <4>1
          <5>2. m * (p - q) = m * p - m * q
                BY <1>0, <1>1, <1>2
          <5> QED
              BY <1>0, <2>0, <5>1, <5>2
        <4> DEFINE mp == m * p  mq == m * q
        <4>2. mp \in Nat /\ mq \in Nat /\ mp + x + 1 = mq + y /\ (p >= q + 1 => mp >= mq + m)
              BY <2>0, <2>1, <4>1
        <4> HIDE DEF mp, mq
        <4> QED
            BY <1>0, <1>1, <1>2, <4>2
      <3> QED
          BY <1>1, <1>2, <3>1, <3>2
    <2>3. x + 1 = y
      <3> DEFINE mp == m * p
      <3>1. mp \in Nat /\ mp + x + 1 = mp + y
            BY <2>0, <2>1, <2>2
      <3> HIDE DEF mp
      <3> QED
          BY <1>1, <1>2, <3>1
    <2> QED
        BY <1>1, <1>2, <2>3
  <1> QED
      BY <1>3, <1>4, <1>5 DEF m, x, y
\* A worker that takes up the filter starts at its first row.
LEMMA TakeFilter ==
  ASSUME TypeInv, JobInv, FilterInv, NEW t \in Tile, TakeJob(t)
  PROVE  FilterInv'
  <1>0. Main(t) \in Lane /\ \A u \in Tile : Main(u) \in Lane /\ (u # t => Main(u) # Main(t))
        BY Lanes
  <1>1. /\ UNCHANGED <<jobKind, filter>> /\ t \in start /\ start' = start \ {t}
        /\ jobKind = "filter" =>
             /\ at'[Main(t)] = "lfread" /\ col'[Main(t)] = 0
             /\ row'[Main(t)] = IF t < LfWorkers THEN t ELSE SbRows
        /\ \A u \in Tile : u # t => /\ at'[Main(u)] = at[Main(u)]
                                    /\ row'[Main(u)] = row[Main(u)] /\ col'[Main(u)] = col[Main(u)]
        BY <1>0 DEF TakeJob, TypeInv
  <1>2. t # 0 /\ ~Resting
        BY <1>1, KindOf, Sizes DEF TypeInv
  <1>3. SUFFICES ASSUME jobKind = "filter", ~lfBailed PROVE FilterInv'
        BY <1>1 DEF FilterInv, filter
  <1>4. /\ \A u \in Tile : at[Main(u)] \in AtFilter => LfLaneInv(u)
        /\ \A u \in Tile, r \in Row :
             /\ r % LfWorkers = u
             /\ u \in start \/ (at[Main(u)] \in AtFilter /\ r > row[Main(u)])
             => lfCol[r] = -1
        /\ \A r \in Row, c \in 0..(FrameCols - 1) : c <= lfCol[r] => <<r, c>> \in filtered
        BY <1>2, <1>3 DEF FilterInv
  <1>5. LfLaneInv(t)'
    <2>1. t \in Nat /\ (t < LfWorkers => t \in Row /\ t % LfWorkers = t)
      <3>1. t \in Nat
            BY DEF Tile
      <3>2. t < LfWorkers => t \in Row /\ t \in 0..(LfWorkers - 1) /\ LfWorkers \in Nat \ {0}
            BY <3>1, Sizes DEF Row
      <3> QED
          BY <3>1, <3>2, SmallRemainder
    <2>2. t < LfWorkers => lfCol[t] = -1
          BY <1>1, <1>4, <2>1
    <2>3. 0 % LfRange = 0
          BY Sizes, SmallRemainder
    <2>4. 0 \in 0..(FrameCols - 1) /\ \A b \in 0..(0 - 1) : FALSE
          BY Sizes
    <2> QED
        BY <1>1, <1>3, <2>1, <2>2, <2>3, <2>4, Sizes DEF LfLaneInv, filter
  <1>6. \A u \in Tile : u # t /\ at[Main(u)] \in AtFilter => LfLaneInv(u)'
        BY <1>1, <1>4 DEF LfLaneInv, filter
  <1> QED
      BY <1>1, <1>4, <1>5, <1>6 DEF FilterInv, filter

\* A block is filtered after those above it and above to the right.
LEMMA FilterStep ==
  ASSUME TypeInv, JobInv, FilterInv, NEW t \in Tile, FilterSb(t)
  PROVE  FilterInv'
  <1> DEFINE r == row[Main(t)]  c == col[Main(t)]  last == c = FrameCols - 1
  <1>0. Main(t) \in Lane /\ \A u \in Tile : Main(u) \in Lane /\ (u # t => Main(u) # Main(t))
        BY Lanes
  <1>1. /\ at[Main(t)] = "lf" /\ at'[Main(t)] = "lfread"
        /\ UNCHANGED <<jobKind, start, lfBailed>>
        /\ filtered' = filtered \cup {<<r, c>>}
        /\ col'[Main(t)] = (IF last THEN 0 ELSE c + 1)
        /\ row'[Main(t)] = (IF last THEN r + LfWorkers ELSE r)
        /\ \A u \in Tile : u # t => /\ at'[Main(u)] = at[Main(u)]
                                    /\ row'[Main(u)] = row[Main(u)] /\ col'[Main(u)] = col[Main(u)]
        BY <1>0 DEF FilterSb, TypeInv, tilePool
  <1>2. jobKind = "filter" /\ ~Resting
        BY <1>1, KindOf DEF AtFilter
  <1>3. SUFFICES ASSUME ~lfBailed PROVE FilterInv'
        BY <1>1 DEF FilterInv
  <1>4. /\ \A u \in Tile : at[Main(u)] \in AtFilter => LfLaneInv(u)
        /\ \A u \in Tile, q \in Row :
             /\ q % LfWorkers = u
             /\ u \in start \/ (at[Main(u)] \in AtFilter /\ q > row[Main(u)])
             => lfCol[q] = -1
        /\ \A q \in Row, d \in 0..(FrameCols - 1) : d <= lfCol[q] => <<q, d>> \in filtered
        BY <1>2, <1>3 DEF FilterInv
  <1>5. /\ r \in Nat /\ c \in 0..(FrameCols - 1) /\ r < SbRows /\ lfCol[r] < c
        /\ t < LfWorkers /\ r % LfWorkers = t
        /\ \A b \in 0..(c - 1) : <<r, b>> \in filtered
        /\ r > 0 => lfCol[r - 1] >= FilterGroup(c) + LfRange
    <2>1. LfLaneInv(t) /\ r \in Nat /\ t \in Nat
          BY <1>0, <1>1, <1>4 DEF AtFilter, TypeInv, Tile
    <2> QED
        BY <1>1, <2>1, Sizes DEF LfLaneInv
  <1>6. r \in Row /\ lfCol[r] \in Int
    <2> HIDE DEF r
    <2>1. r \in Row
          BY <1>5, Sizes DEF Row
    <2> QED
        BY <2>1 DEF TypeInv
  <1>7. /\ lfCol'[r] = IF last THEN FrameCols + LfRange
                       ELSE IF c % LfRange = 0 THEN c ELSE lfCol[r]
        /\ \A q \in Row : q # r => lfCol'[q] = lfCol[q]
        BY <1>6 DEF FilterSb, TypeInv
  <1>8. FrameCols \in Nat /\ LfRange \in Nat /\ LfRange >= 1 /\ LfWorkers \in Nat /\ LfWorkers >= 1
        /\ SbRows \in Nat
        BY Sizes
  <1> HIDE DEF r, c
  <1>9. lfCol'[r] \in Int /\ lfCol'[r] >= lfCol[r] /\ (~last => lfCol'[r] <= c)
        BY <1>5, <1>6, <1>7, <1>8
  <1>10. \A u \in Tile, q \in Row : q % LfWorkers = u /\ u # t => q # r
         BY <1>5
  <1>11. LfLaneInv(t)'
    <2>1. CASE last
      <3>1. row'[Main(t)] = r + LfWorkers /\ col'[Main(t)] = 0
            BY <1>1, <2>1
      <3>2. (r + LfWorkers) % LfWorkers = t
        <4>1. LfWorkers \in Nat \ {0}
              BY <1>8
        <4> QED
            BY <1>5, <4>1, NextRowRemainder
      <3>3. r + LfWorkers < SbRows => lfCol'[r + LfWorkers] = -1
        <4> SUFFICES ASSUME r + LfWorkers < SbRows PROVE lfCol'[r + LfWorkers] = -1
            OBVIOUS
        <4>1. r + LfWorkers \in Row /\ r + LfWorkers > r /\ r + LfWorkers # r
              BY <1>5, <1>8 DEF Row
        <4>2. lfCol[r + LfWorkers] = -1
              BY <1>1, <1>4, <3>2, <4>1 DEF AtFilter, r
        <4> QED
            BY <1>7, <4>1, <4>2
      <3>4. 0 % LfRange = 0 /\ \A b \in 0..(0 - 1) : FALSE
            BY <1>8, SmallRemainder
      <3>5. 0 \in 0..(FrameCols - 1) /\ r + LfWorkers \in Nat
            BY <1>5, <1>8
      <3> QED
          BY <1>1, <1>5, <1>8, <3>1, <3>2, <3>3, <3>4, <3>5 DEF LfLaneInv
    <2>2. CASE ~last
      <3>1. row'[Main(t)] = r /\ col'[Main(t)] = c + 1 /\ c + 1 \in 0..(FrameCols - 1)
            BY <1>1, <1>5, <1>8, <2>2
      <3>2. \A b \in 0..((c + 1) - 1) : <<r, b>> \in filtered'
        <4> TAKE b \in 0..((c + 1) - 1)
        <4>1. b \in 0..(c - 1) \/ b = c
              BY <1>5
        <4> QED
            BY <1>1, <1>5, <4>1
      <3>3. ASSUME r > 0, (c + 1) % LfRange # 0
            PROVE lfCol'[r - 1] >= FilterGroup(c + 1) + LfRange
        <4>1. FilterGroup(c + 1) = FilterGroup(c)
              BY <1>5, <1>8, <3>3, FilterGroups
        <4>2. r - 1 \in Row /\ r - 1 # r
              BY <1>5, <1>8, <3>3 DEF Row
        <4> QED
            BY <1>5, <1>7, <3>3, <4>1, <4>2
      <3>4. lfCol'[r] < c + 1
            BY <1>5, <1>9, <2>2
      <3> QED
          BY <1>1, <1>5, <1>8, <3>1, <3>2, <3>3, <3>4 DEF LfLaneInv, FilterGroup
    <2> QED
        BY <2>1, <2>2
  <1>12. ASSUME NEW u \in Tile, u # t, at[Main(u)] \in AtFilter PROVE LfLaneInv(u)'
    <2> DEFINE q == row[Main(u)]  d == col[Main(u)]
    <2>1. /\ LfLaneInv(u) /\ at'[Main(u)] = at[Main(u)]
          /\ row'[Main(u)] = q /\ col'[Main(u)] = d /\ q \in Nat /\ d \in Nat
          BY <1>0, <1>1, <1>4, <1>12 DEF TypeInv
    <2>2. u \in Nat /\ LfWorkers \in Nat
          BY Sizes DEF Tile
    <2>3. ASSUME q < SbRows
          PROVE  /\ lfCol'[q] < d /\ \A b \in 0..(d - 1) : <<q, b>> \in filtered'
                 /\ q > 0 /\ (at[Main(u)] = "lf" \/ d % LfRange # 0) =>
                      lfCol'[q - 1] >= FilterGroup(d) + LfRange
      <3>1. q \in Row /\ q % LfWorkers = u
            BY <1>8, <2>1, <2>2, <2>3 DEF LfLaneInv, Row
      <3>2. q # r
            BY <1>10, <1>12, <3>1
      <3>3. lfCol'[q] < d /\ \A b \in 0..(d - 1) : <<q, b>> \in filtered'
            BY <1>1, <1>7, <2>1, <2>3, <3>1, <3>2 DEF LfLaneInv
      <3>4. ASSUME q > 0, at[Main(u)] = "lf" \/ d % LfRange # 0
            PROVE  lfCol'[q - 1] >= FilterGroup(d) + LfRange
        <4>1. lfCol[q - 1] >= FilterGroup(d) + LfRange
              BY <2>1, <2>3, <3>4 DEF LfLaneInv
        <4>2. q - 1 \in Row /\ lfCol[q - 1] \in Int /\ FilterGroup(d) \in Nat
          <5> HIDE DEF q, d
          <5>1. q - 1 \in Row
                BY <1>8, <2>1, <2>3, <3>4 DEF Row
          <5>2. lfCol[q - 1] \in Int
                BY <5>1 DEF TypeInv
          <5> QED
              BY <2>1, <5>1, <5>2, FilterGroups
        <4>3. lfCol'[q - 1] \in Int /\ lfCol'[q - 1] >= lfCol[q - 1]
              BY <1>7, <1>9, <4>2
        <4> QED
            BY <1>8, <4>1, <4>2, <4>3
      <3> QED
          BY <3>3, <3>4
    <2> QED
        BY <2>1, <2>3 DEF LfLaneInv, FilterGroup
  <1>13. ASSUME NEW u \in Tile, NEW q \in Row, q % LfWorkers = u,
                u \in start \/ (at'[Main(u)] \in AtFilter /\ q > row'[Main(u)])
         PROVE lfCol'[q] = -1
    <2>1. CASE u = t
      <3>1. t \notin start
        <4>1. t \in start => at[Main(t)] = "wait"
              BY DEF JobInv
        <4> QED
            BY <1>1, <4>1
      <3>2. row'[Main(t)] >= r /\ q \in Nat /\ q > row'[Main(t)]
            BY <1>1, <1>5, <1>8, <1>13, <2>1, <3>1 DEF Row
      <3>3. q > r
            BY <1>1, <1>5, <1>8, <3>2
      <3>4. lfCol[q] = -1
            BY <1>1, <1>4, <1>13, <2>1, <3>3 DEF AtFilter, r
      <3> QED
          BY <1>5, <1>7, <3>3, <3>4
    <2>2. CASE u # t
          BY <1>1, <1>4, <1>7, <1>10, <1>13, <2>2
    <2> QED
        BY <2>1, <2>2
  <1>14. ASSUME NEW q \in Row, NEW d \in 0..(FrameCols - 1), d <= lfCol'[q]
         PROVE <<q, d>> \in filtered'
    <2>1. CASE q # r
          BY <1>1, <1>4, <1>7, <1>14, <2>1
    <2>2. CASE q = r
      <3>1. d <= c
            BY <1>5, <1>8, <1>9, <1>14, <2>2
      <3>2. d \in 0..(c - 1) \/ d = c
            BY <1>5, <3>1
      <3> QED
          BY <1>1, <1>5, <2>2, <3>2
    <2> QED
        BY <2>1, <2>2
  <1> QED
      BY <1>1, <1>11, <1>12, <1>13, <1>14 DEF FilterInv
LEMMA StepFilter ==
  ASSUME TypeInv, JobInv, PrepInv, SignalInv, FilterInv, Next
  PROVE  FilterInv'
  <1> USE DEF AtCount, AtBatch, AtRow, AtCode, AtFilter, AtWrite
  <1>0. /\ 0 \in Tile /\ \A t \in Tile : Main(t) \in Lane
        /\ \A t, u \in Tile : t # u => Main(t) # Main(u)
        BY Sizes, Lanes
  <1>1. ASSUME StartCount \/ StartWrite PROVE FilterInv'
    <2>1. jobKind' # "filter"
          BY <1>1 DEF StartCount, StartWrite, Launch
    <2> QED
        BY <2>1 DEF FilterInv
  <1>2. ASSUME FinishFrame \/ Collect PROVE FilterInv'
    <2>1. \E p \in {"idle", "counted", "written"} : at' = [at EXCEPT ![Main(0)] = p]
          BY <1>2 DEF FinishFrame, Collect, EndFrame
    <2>2. Resting'
          BY <1>0, <2>1 DEF Resting, TypeInv
    <2> QED
        BY <2>2 DEF FilterInv
  <1>3. ASSUME StartFilter PROVE FilterInv'
    <2>1. /\ lfCol' = [r \in Row |-> -1] /\ at'[Main(0)] = "lfread"
          /\ row'[Main(0)] = 0 /\ col'[Main(0)] = 0
          /\ \A t \in Tile : t # 0 => at'[Main(t)] = at[Main(t)]
          BY <1>0, <1>3 DEF StartFilter, TypeInv
    <2>2. \A t \in Tile : t # 0 => at'[Main(t)] = "wait"
      <3>1. Resting
            BY <1>3 DEF StartFilter, Resting
      <3> QED
          BY <2>1, <3>1, KindOf
    <2>3. LfLaneInv(0)'
      <3>1. 0 % LfWorkers = 0 /\ 0 % LfRange = 0 /\ 0 \in Row /\ 0 \in 0..(FrameCols - 1)
            BY Sizes, SmallRemainder DEF Row
      <3>2. \A b \in 0..(0 - 1) : FALSE
            OBVIOUS
      <3> QED
          BY <2>1, <3>1, <3>2, Sizes DEF LfLaneInv
    <2>4. \A r \in Row, c \in 0..(FrameCols - 1) : ~(c <= lfCol'[r])
          BY <2>1, Sizes
    <2> QED
        BY <2>1, <2>2, <2>3, <2>4 DEF FilterInv
  <1>4. ASSUME NEW t \in Tile, CountTile(t) \/ Join(t) \/ WriteTile(t) PROVE FilterInv'
    <2>1. jobKind # "filter" /\ jobKind' = jobKind
      <3>1. at[Main(t)] \in {"job", "join", "write"} /\ jobKind' = jobKind
            BY <1>4 DEF CountTile, Join, WriteTile
      <3>2. t = 0 \/ t \in TileHelper
            BY DEF TileHelper
      <3> QED
          BY <3>1, KindOf
    <2> QED
        BY <2>1 DEF FilterInv
  <1>5. ASSUME OpenGate \/ (\E t \in Tile : Cloned(t) \/ PassGate(t) \/ Dispatch(t) \/ SendStart(t))
        PROVE FilterInv'
    <2>1. jobKind' = jobKind
          BY <1>5 DEF OpenGate, Cloned, PassGate, Dispatch, SendStart, tilePool
    <2>2. \E t \in Tile : at[Main(t)] \in {"prep", "clone", "gate", "job", "send"}
          BY <1>0, <1>5 DEF OpenGate, Cloned, PassGate, Dispatch, SendStart
    <2>3. jobKind # "filter"
          BY <2>2, KindOf
    <2> QED
        BY <2>1, <2>3 DEF FilterInv
  <1>6. ASSUME NEW l \in Lane, LaneStep(l) PROVE FilterInv'
    <2>1. jobKind' = jobKind
          BY <1>6, LaneMove DEF tilePool
    <2>2. l[1] \in Tile /\ Batch(l[1])
          BY <1>6, LaneSignal, Lanes
    <2>3. jobKind # "filter"
          BY <2>2, KindOf DEF Batch
    <2> QED
        BY <2>1, <2>3 DEF FilterInv
  <1>7. ASSUME NEW t \in Tile, LfRead(t) PROVE FilterInv'
    <2> DEFINE r == row[Main(t)]  c == col[Main(t)]
    <2>1. /\ at[Main(t)] = "lfread" /\ at'[Main(t)] = "lf" /\ r < SbRows
          /\ r > 0 /\ c % LfRange = 0 => lfCol[r - 1] >= c + LfRange
          /\ UNCHANGED <<jobKind, start, row, col, lfCol, filtered, lfBailed>>
          /\ \A u \in Tile : u # t => at'[Main(u)] = at[Main(u)]
          BY <1>0, <1>7 DEF LfRead, TypeInv, tilePool, filter
    <2>2. jobKind = "filter" /\ ~Resting
          BY <2>1, KindOf
    <2>3. ASSUME ~lfBailed PROVE FilterInv'
      <3>1. LfLaneInv(t)
            BY <2>1, <2>2, <2>3 DEF FilterInv
      <3>2. c \in Nat
            BY <1>0 DEF TypeInv
      <3>3. LfLaneInv(t)'
        <4>1. c % LfRange = 0 => FilterGroup(c) = c
              BY <3>2, FilterGroups
        <4>2. r > 0 => lfCol[r - 1] >= FilterGroup(c) + LfRange
              BY <2>1, <3>1, <4>1 DEF LfLaneInv
        <4> QED
            BY <2>1, <3>1, <4>2 DEF LfLaneInv, FilterGroup
      <3>4. \A u \in Tile : u # t /\ at[Main(u)] \in AtFilter => LfLaneInv(u)'
            BY <2>1, <2>2, <2>3 DEF FilterInv, LfLaneInv, FilterGroup
      <3> QED
          BY <2>1, <2>2, <2>3, <3>3, <3>4 DEF FilterInv
    <2> QED
        BY <2>1, <2>3 DEF FilterInv
  <1>8. ASSUME NEW t \in Tile, LfBail(t) PROVE FilterInv'
        BY <1>8 DEF LfBail, FilterInv
  <1>9. ASSUME NEW t \in Tile, LfEnd(t) PROVE FilterInv'
    <2>1. /\ EndJob(t) /\ at[Main(t)] = "lfread"
          /\ UNCHANGED <<jobKind, start, prepDone, lfCol, filtered, lfBailed>>
          BY <1>9 DEF LfEnd, filter
    <2>2. /\ at'[Main(t)] = (IF t = 0 THEN "collect" ELSE "wait") /\ ~Resting
          /\ \A u \in Tile : u # t => at'[Main(u)] = at[Main(u)]
          BY <1>0, <2>1, EndMove
    <2>3. \A u \in Tile : u # t => row'[Main(u)] = row[Main(u)] /\ col'[Main(u)] = col[Main(u)]
          BY <1>0, <2>1 DEF EndJob, TypeInv
    <2>4. t \notin start
          BY <2>1 DEF JobInv
    <2>5. \A u \in Tile : at'[Main(u)] \in AtFilter => u # t /\ at[Main(u)] \in AtFilter
          BY <2>2
    <2> SUFFICES ASSUME jobKind = "filter", ~lfBailed PROVE FilterInv'
        BY <2>1 DEF FilterInv
    <2>6. \A u \in Tile : at'[Main(u)] \in AtFilter => LfLaneInv(u)'
          BY <2>1, <2>2, <2>3, <2>5 DEF FilterInv, LfLaneInv, FilterGroup
    <2>7. \A u \in Tile, q \in Row :
            /\ q % LfWorkers = u
            /\ u \in start' \/ (at'[Main(u)] \in AtFilter /\ q > row'[Main(u)])
            => lfCol'[q] = -1
          BY <2>1, <2>2, <2>3, <2>4, <2>5 DEF FilterInv
    <2> QED
        BY <2>1, <2>2, <2>6, <2>7 DEF FilterInv
  <1>10. ASSUME Rest PROVE FilterInv'
         BY <1>10 DEF Rest, vars, FilterInv, LfLaneInv, FilterGroup, Resting
  <1> QED
      BY <1>1, <1>2, <1>3, <1>4, <1>5, <1>6, <1>7, <1>8, <1>9, <1>10, TakeFilter, FilterStep
      DEF Next, NextPass, TileStep

-----------------------------------------------------------------------------
(* The theorems.                                                           *)

LEMMA InitIInv == Init => IInv
  <1> SUFFICES ASSUME Init PROVE IInv
      OBVIOUS
  <1>0. /\ 0 \in Tile /\ \A t \in Tile : Main(t) \in Lane
        /\ \A t \in TileHelper : t \in Tile /\ t # 0
        /\ \A t \in Tile : t # 0 => Main(t) # Main(0)
        /\ SbRows \in Nat
        BY Sizes, Lanes, Helpers
  <1>1. at[Main(0)] = "idle" /\ \A l \in Lane : l # Main(0) => at[l] = "wait"
        BY <1>0 DEF Init
  <1>2. TypeInv
    <2>1. at \in [Lane -> Place] /\ row \in [Lane -> Nat] /\ col \in [Lane -> Nat]
          BY DEF Init, Place
    <2>2. /\ nextRow \in [Tile -> Nat] /\ doneCount \in [Tile -> Nat] /\ sent \in [Tile -> Nat]
          /\ abort \in [Tile -> BOOLEAN] /\ rowErr \in [Tile -> BOOLEAN]
          BY DEF Init
    <2>3. curCol \in [Tile -> [Row -> Int]] /\ coded \in [Tile -> SUBSET (Row \X Col)]
          BY DEF Init
    <2>4. lfCol \in [Row -> Int]
          BY DEF Init
    <2> QED
        BY <2>1, <2>2, <2>3, <2>4 DEF Init, TypeInv
  <1>3. Resting /\ Finished = TileHelper
        BY <1>0, <1>1 DEF Init, Resting, Finished
  <1>4. JobInv
    <2>1. \A t \in TileHelper : at[Main(t)] = "wait"
          BY <1>0, <1>1
    <2> QED
        BY <1>1, <1>3, <2>1 DEF Init, JobInv
  <1>5. PrepInv
        BY <1>3 DEF PrepInv
  <1>6. \A l \in Lane : at[l] \notin AtBatch
        BY <1>1 DEF AtBatch, AtRow, AtCode
  <1>7. \A t \in Tile : ~Batch(t)
        BY <1>0, <1>6 DEF Batch
  <1>8. SignalInv
    <2>1. \A t \in Tile, w \in RowHelper : at[<<t, w>>] = "wait"
      <3> TAKE t \in Tile, w \in RowHelper
      <3>1. <<t, w>> \in Lane /\ <<t, w>> # Main(0)
            BY <1>0, Lanes
      <3> QED
          BY <1>1, <3>1
    <2> QED
        BY <1>7, <2>1 DEF SignalInv, SignalOf
  <1>9. RowInv
        BY <1>6, <1>7 DEF RowInv, RowsOf, LaneInv, AtBatch, AtRow, AtCode
  <1>10. CountInv
         BY <1>1 DEF Init, CountInv
  <1>11. FilterInv
         BY <1>3 DEF FilterInv
  <1> QED
      BY <1>2, <1>4, <1>5, <1>8, <1>9, <1>10, <1>11 DEF IInv

LEMMA StutterIInv == IInv /\ UNCHANGED vars => IInv'
  <1> SUFFICES ASSUME IInv, UNCHANGED vars PROVE IInv'
      OBVIOUS
  <1>1. TypeInv' /\ JobInv' /\ PrepInv'
        BY DEF vars, IInv, TypeInv, JobInv, Resting, Finished, PrepInv, Past
  <1>2. SignalInv' /\ RowInv'
    <2>1. Outside
          BY DEF vars, Outside, rowPool, Batch
    <2> QED
        BY <2>1, SameRows DEF IInv
  <1>3. CountInv'
        BY DEF vars, IInv, CountInv, Counted, Finished
  <1>4. FilterInv'
        BY DEF vars, IInv, FilterInv, LfLaneInv, FilterGroup, Resting
  <1> QED
      BY <1>1, <1>2, <1>3, <1>4 DEF IInv

LEMMA StepIInv == IInv /\ [Next]_vars => IInv'
  <1>1. ASSUME IInv, Next PROVE IInv'
        BY <1>1, StepType, StepJob, StepRows, StepCount, StepFilter DEF IInv
  <1> QED
      BY <1>1, StutterIInv

\* The inductive invariant holds in every state.
THEOREM Invariance == Spec => []IInv
  BY InitIInv, StepIInv, PTL DEF Spec

\* Whatever the number of columns, nobody writes column 0 while a helper has
\* yet to copy the encoder (runVP9EncodeTilePrepJob).
THEOREM CopiesAreQuiescent == Spec => []CloneQuiescent
  <1>1. IInv => CloneQuiescent
    <2> SUFFICES ASSUME IInv, at[Main(0)] = "write", NEW t \in TileHelper
                 PROVE  t \notin start /\ at[Main(t)] # "clone"
        BY DEF CloneQuiescent
    <2>1. jobKind = "write" /\ ~Resting
          BY Sizes, KindOf DEF IInv, AtWrite
    <2>2. Past = TileHelper
          BY <2>1 DEF IInv, PrepInv
    <2> QED
        BY <2>2 DEF Past
  <1> QED
      BY <1>1, Invariance, PTL

\* Whatever the row workers' pace, tokens are replayed only when every column
\* has coded all its superblocks (writeVP9FrameTilesThreaded).
THEOREM ReplaysAreComplete == Spec => []ReplayIsComplete
  <1>1. IInv => ReplayIsComplete
        BY DEF IInv, CountInv, ReplayIsComplete
  <1> QED
      BY <1>1, Invariance, PTL

\* For every frame size, worker count and sync range of the filter, what a
\* superblock is predicted or filtered from is there (vp9RowMTSync.read,
\* vp9LfSync.read).
THEOREM NeighboursAreReady == Spec => []NeighboursReady
  <1>1. IInv => NeighboursReady
    <2> SUFFICES ASSUME IInv PROVE NeighboursReady
        OBVIOUS
    <2>1. ASSUME NEW l \in Lane, at[l] = "code", row[l] > 0
          PROVE  <<row[l] - 1, col[l]>> \in coded[l[1]]
      <3> DEFINE t == l[1]
      <3>1. t \in Tile /\ RowsOf(t) /\ SignalOf(t)
            BY Lanes DEF IInv, RowInv, SignalInv
      <3>2. /\ row[l] \in Row /\ col[l] \in Col /\ curCol[t][row[l] - 1] >= col[l]
            BY <2>1, <3>1 DEF RowsOf, LaneInv, AtRow, AtCode
      <3>3. row[l] - 1 \in Row /\ curCol[t][row[l] - 1] \in Int
        <4>1. row[l] - 1 \in Row
              BY <2>1, <3>2, Sizes DEF Row
        <4> QED
            BY <3>1, <4>1 DEF IInv, TypeInv
      <3>4. Batch(t)
        <4>1. CASE l[2] = 0
              BY <2>1, <4>1, Lanes DEF Batch, AtBatch, AtRow, AtCode
        <4>2. CASE l[2] # 0
          <5>1. l[2] \in RowHelper /\ at[<<t, l[2]>>] # "wait"
                BY <2>1, <4>2, Lanes
          <5> QED
              BY <3>1, <5>1 DEF SignalOf
        <4> QED
            BY <4>1, <4>2
      <3>5. col[l] <= curCol[t][row[l] - 1]
            BY <3>2, <3>3 DEF Col
      <3> QED
          BY <3>1, <3>2, <3>3, <3>4, <3>5 DEF RowsOf, ProgressInv
    <2>2. ASSUME NEW t \in Tile, at[Main(t)] = "lf", row[Main(t)] > 0, ~lfBailed,
                 NEW c \in {col[Main(t)], col[Main(t)] + 1} \cap 0..(FrameCols - 1)
          PROVE  <<row[Main(t)] - 1, c>> \in filtered
      <3> DEFINE r == row[Main(t)]  b == col[Main(t)]
      <3>1. jobKind = "filter" /\ ~Resting
            BY <2>2, KindOf DEF IInv, AtFilter
      <3>2. LfLaneInv(t)
            BY <2>2, <3>1 DEF IInv, FilterInv, AtFilter
      <3>3. r \in Nat /\ r > 0 /\ r < SbRows /\ b \in 0..(FrameCols - 1)
            /\ lfCol[r - 1] >= FilterGroup(b) + LfRange
            BY <2>2, <3>2, Lanes DEF IInv, TypeInv, LfLaneInv
      <3>4. r - 1 \in Row /\ lfCol[r - 1] \in Int
        <4>1. r - 1 \in Row
              BY <3>3, Sizes DEF Row
        <4> QED
            BY <4>1 DEF IInv, TypeInv
      <3>5. FilterGroup(b) \in Nat /\ b < FilterGroup(b) + LfRange
            BY <3>3, FilterGroups
      <3>6. c <= lfCol[r - 1]
        <4> HIDE DEF r, b
        <4>1. c = b \/ c = b + 1
              BY DEF b
        <4> QED
            BY <3>3, <3>4, <3>5, <4>1, Sizes
      <3> QED
          BY <2>2, <3>1, <3>4, <3>6 DEF IInv, FilterInv
    <2> QED
        BY <2>1, <2>2 DEF NeighboursReady
  <1> QED
      BY <1>1, Invariance, PTL

-----------------------------------------------------------------------------
(***************************************************************************)
(* The lookahead: what every packet predicts from.                         *)
(*                                                                         *)
(* Batches and hidden ARFs exclude each other, so packets are staged only  *)
(* while nothing is pending, and whatever is staged when no member of a    *)
(* batch refreshed the reference leaves the decoder's reference alone.     *)
(***************************************************************************)

\* A packet that changes no reference and predicts from the decoder's.
Keeps(r) == ~r.refreshes /\ (r.outcome = "coded" => r.uses = decRef)

LookaheadTypeInv ==
  /\ threads \in Nat
  /\ queue \in Seq(Entry) /\ Len(queue) <= Depth
  /\ pending \in Entry \cup {NoEntry}
  /\ staged \in Seq(Result) /\ Len(staged) <= Depth
  /\ ref \in Picture \cup {NoPicture}
  /\ submitted \in 0..MaxFrames

ModeInv ==
  /\ ~(autoAltRef /\ threads >= 2)
  /\ pending # NoEntry => autoAltRef
  /\ staged # <<>> => threads >= 2

FrozenInv ==
  ~thawed =>
    /\ drifted = {}
    /\ ref # NoPicture => ref = decRef
    /\ \A i \in 1..Len(staged) : Keeps(staged[i])

DriftInv == LookaheadTypeInv /\ ModeInv /\ FrozenInv

\* The two ways an encode may end.
LEMMA ResultCases ==
  ASSUME NEW f, NEW picture, NEW outcomes, NEW key, NEW refreshing,
         NEW r \in Results(f, picture, key, outcomes, refreshing)
  PROVE  \/ \E o \in outcomes \ {"coded"} : r = Refused(f, picture, o)
         \/ "coded" \in outcomes /\ \E s \in refreshing : r = Coded(f, picture, key, s)
  BY Zenon DEF Results

\* What one encode comes to.
LEMMA ResultFacts ==
  ASSUME NEW f, NEW picture, NEW outcomes, NEW key \in BOOLEAN,
         NEW refreshing \in SUBSET BOOLEAN,
         NEW r \in Results(f, picture, key, outcomes, refreshing)
  PROVE  /\ r.frame = f
         /\ r.outcome # "coded" => ~r.refreshes
         /\ r.outcome = "coded" /\ key => r.refreshes /\ r.key
         /\ r.outcome = "coded" /\ ~key => r.uses = ref /\ ~r.key
         /\ r.refreshes => r.outcome = "coded" /\ r.picture = picture
  <1>1. CASE \E o \in outcomes \ {"coded"} : r = Refused(f, picture, o)
    BY <1>1 DEF Refused
  <1>2. CASE "coded" \in outcomes /\ \E s \in refreshing : r = Coded(f, picture, key, s)
    BY <1>2 DEF Coded
  <1> QED  BY <1>1, <1>2, ResultCases

LEMMA ResultTyped ==
  ASSUME NEW f \in Frame, NEW picture \in Picture,
         NEW outcomes \in SUBSET OutcomeValues, NEW key \in BOOLEAN,
         NEW refreshing \in SUBSET BOOLEAN, ref \in Picture \cup {NoPicture},
         NEW r \in Results(f, picture, key, outcomes, refreshing)
  PROVE  r \in Result
  <1>1. CASE \E o \in outcomes \ {"coded"} : r = Refused(f, picture, o)
    BY <1>1 DEF Refused, Result
  <1>2. CASE "coded" \in outcomes /\ \E s \in refreshing : r = Coded(f, picture, key, s)
    <2>1. PICK s \in refreshing : r = Coded(f, picture, key, s)  BY <1>2
    <2>2. (key \/ s) \in BOOLEAN
      OBVIOUS
    <2>3. (IF key THEN NoPicture ELSE ref) \in Picture \cup {NoPicture}
      OBVIOUS
    <2>4. "coded" \in OutcomeValues
      BY DEF OutcomeValues
    <2> QED  BY <2>1, <2>2, <2>3, <2>4 DEF Coded, Result
  <1> QED  BY <1>1, <1>2, ResultCases
\* A frame coded alone leaves both sides with one reference; one that could not
\* be delivered leaves them as they were.
LEMMA AloneAgrees ==
  ASSUME FrozenInv, staged = <<>>, staged' = <<>>, ref \in Picture \cup {NoPicture},
         NEW f \in Frame, NEW picture \in Picture,
         NEW outcomes \in SUBSET OutcomeValues, NEW key \in BOOLEAN,
         NEW refreshing \in SUBSET BOOLEAN, NEW visible \in BOOLEAN,
         NEW r \in Results(f, picture, key, outcomes, refreshing),
         ref = NoPicture => key,
         Commit(r, visible),
         Decode(r) \/ (r.outcome = "full" /\ UNCHANGED decoder)
  PROVE  FrozenInv' /\ ref' \in Picture \cup {NoPicture}
  <1>1. /\ r.outcome # "coded" => ~r.refreshes
        /\ r.outcome = "coded" /\ key => r.refreshes /\ r.key
        /\ r.outcome = "coded" /\ ~key => r.uses = ref /\ ~r.key
        /\ r.refreshes => r.outcome = "coded" /\ r.picture = picture
    BY ResultFacts
  <1>2. ref' = (IF r.refreshes THEN r.picture ELSE ref) /\ thawed' = thawed
    BY DEF Commit
  <1>3. ref' \in Picture \cup {NoPicture}  BY <1>1, <1>2
  <1>4. ASSUME ~thawed PROVE drifted' = {} /\ (ref' # NoPicture => ref' = decRef')
    <2>1. drifted = {} /\ (ref # NoPicture => ref = decRef)  BY <1>4 DEF FrozenInv
    <2>2. CASE Decode(r)
      <3>1. /\ decRef' = (IF r.refreshes THEN r.picture ELSE decRef)
            /\ drifted' = IF r.outcome = "coded" /\ ~r.key /\ r.uses # decRef
                          THEN drifted \cup {r.frame} ELSE drifted
        BY <2>2 DEF Decode
      <3> QED  BY <1>1, <1>2, <2>1, <3>1
    <2>3. CASE r.outcome = "full" /\ UNCHANGED decoder
      BY <1>1, <1>2, <2>1, <2>3 DEF decoder
    <2> QED  BY <2>2, <2>3
  <1> QED  BY <1>2, <1>3, <1>4 DEF FrozenInv

LEMMA SerialTyped ==
  ASSUME LookaheadAssumption, NEW entry \in Entry
  PROVE  /\ entry.frame \in Frame /\ entry.frame \in Picture
         /\ Outcomes \in SUBSET OutcomeValues
         /\ \A i : IsKey(entry.flag, i) \in BOOLEAN
         /\ \A i : ref = NoPicture => IsKey(entry.flag, i)
         /\ (IF entry.flag = "forceRef" THEN {TRUE} ELSE BOOLEAN) \in SUBSET BOOLEAN
         /\ {entry.flag = "forceRef"} \in SUBSET BOOLEAN
  <1>1. entry.frame \in Frame  BY DEF Entry
  <1>2. entry.frame \in Picture  BY <1>1 DEF Frame, Picture, LookaheadAssumption
  <1> QED  BY <1>1, <1>2 DEF IsKey, LookaheadAssumption

LEMMA SerialAgrees ==
  ASSUME LookaheadAssumption, FrozenInv, staged = <<>>, staged' = <<>>,
         ref \in Picture \cup {NoPicture},
         NEW entry \in Entry, NEW r \in Serial(entry), Commit(r, TRUE),
         Decode(r) \/ (r.outcome = "full" /\ UNCHANGED decoder)
  PROVE  FrozenInv' /\ ref' \in Picture \cup {NoPicture}
  <1>1. r \in Results(entry.frame, entry.frame, IsKey(entry.flag, frameIndex), Outcomes,
                      IF entry.flag = "forceRef" THEN {TRUE} ELSE BOOLEAN)
    BY DEF Serial
  <1> QED  BY <1>1, SerialTyped, AloneAgrees, Zenon

\* A batch: its members encode the head of the queue, one each, in order, and
\* one packet is delivered or none.
Delivers(results, new) ==
  \/ /\ staged' = Tail(results)
     /\ shown' = shown \cup {results[1].frame}
     /\ accepted' \in {accepted, accepted \cup new}
  \/ staged' = results /\ UNCHANGED <<shown, accepted>>

LEMMA PopDelivers ==
  ASSUME NEW new, NEW results \in Seq(Result), results # <<>>,
         PopStaged(results, new)
  PROVE  Delivers(results, new)
  <1>1. Head(results) = results[1]  OBVIOUS
  <1> QED  BY <1>1 DEF PopStaged, Answer, Delivers

LEMMA BatchFacts ==
  ASSUME LookaheadAssumption, ref \in Picture \cup {NoPicture}, threads \in Nat,
         NEW q \in Seq(Entry), Len(q) <= Depth, NEW drain, CanBatch(q, drain),
         NEW new, RunBatch(q, new)
  PROVE  /\ BatchSize(q) \in 1..Len(q) /\ ref # NoPicture
         /\ queue' = SubSeq(q, BatchSize(q) + 1, Len(q))
         /\ \E results \in Seq(Result) :
              /\ Len(results) = BatchSize(q)
              /\ \A i \in 1..Len(results) : results[i].frame = q[i].frame
              /\ \A i \in 1..Len(results) :
                    /\ results[i].outcome = "coded" /\ ~results[i].refreshes
                         => results[i].uses = ref
                    /\ results[i].outcome # "coded" => ~results[i].refreshes
              /\ ref' = IF results[1].refreshes THEN results[1].picture ELSE ref
              /\ thawed' = (thawed \/ \E i \in 1..Len(results) : results[i].refreshes)
              /\ PopStaged(results, new)
  <1> DEFINE n == BatchSize(q)
  <1>1. n \in 1..Len(q) /\ ref # NoPicture
    BY DEF CanBatch, BatchSize, Threads, LookaheadAssumption
  <1>2. PICK results \in [1..n -> UNION {InBatch(q[i], i) : i \in 1..n}] :
          /\ \A i \in 1..n : results[i] \in InBatch(q[i], i)
          /\ queue' = SubSeq(q, n + 1, Len(q))
          /\ ref' = IF results[1].refreshes THEN results[1].picture ELSE ref
          /\ thawed' = (thawed \/ \E i \in 1..n : results[i].refreshes)
          /\ PopStaged(results, new)
    BY Zenon DEF RunBatch
  <1>3. ASSUME NEW i \in 1..n
        PROVE  /\ results[i] \in Result
               /\ results[i].frame = q[i].frame
               /\ results[i].outcome = "coded" /\ ~results[i].refreshes
                    => results[i].uses = ref
               /\ results[i].outcome # "coded" => ~results[i].refreshes
    <2>1. q[i] \in Entry  BY <1>1, <1>3
    <2> DEFINE entry == q[i]
               key == IsKey(entry.flag, frameIndex + i - 1)
               r == results[i]
               refreshing == {entry.flag = "forceRef"}
    <2>2. r \in Results(entry.frame, entry.frame, key, Outcomes, refreshing)
      BY <1>2, <1>3, Zenon DEF InBatch
    <2>3. /\ entry.frame \in Frame /\ entry.frame \in Picture
          /\ Outcomes \in SUBSET OutcomeValues
          /\ refreshing \in SUBSET BOOLEAN
      BY <2>1, SerialTyped, Zenon
    <2>4. key \in BOOLEAN
      BY <2>1, SerialTyped, Zenon
    <2> HIDE DEF key, entry, r, refreshing
    <2>5. r \in Result  BY <2>2, <2>3, <2>4, ResultTyped, Zenon
    <2>6. /\ r.frame = entry.frame
          /\ r.outcome # "coded" => ~r.refreshes
          /\ r.outcome = "coded" /\ key => r.refreshes /\ r.key
          /\ r.outcome = "coded" /\ ~key => r.uses = ref /\ ~r.key
      BY <2>2, <2>3, <2>4, ResultFacts
    <2> QED  BY <2>5, <2>6 DEF entry, r
  <1>4. results \in [1..n -> Result]
    BY <1>2, <1>3
  <1>5. n \in Nat  BY <1>1
  <1> HIDE DEF n
  <1>6. results \in Seq(Result) /\ Len(results) = n
    BY <1>4, <1>5
  <1>7. \A i \in 1..Len(results) : results[i].frame = q[i].frame
    BY <1>3, <1>6
  <1>8. \A i \in 1..Len(results) :
          /\ results[i].outcome = "coded" /\ ~results[i].refreshes => results[i].uses = ref
          /\ results[i].outcome # "coded" => ~results[i].refreshes
    BY <1>3, <1>6
  <1>9. /\ thawed' = (thawed \/ \E i \in 1..Len(results) : results[i].refreshes)
        /\ queue' = SubSeq(q, n + 1, Len(q))
        /\ ref' = IF results[1].refreshes THEN results[1].picture ELSE ref
        /\ PopStaged(results, new)
    BY <1>2, <1>6
  <1> QED  BY <1>1, <1>6, <1>7, <1>8, <1>9, Zenon DEF n

LEMMA SubmittedFrame ==
  ASSUME LookaheadAssumption, LookaheadTypeInv, Submitting
  PROVE  /\ submitted' = submitted + 1 /\ submitted' \in 0..MaxFrames
         /\ NextFrame = submitted' /\ NextFrame \in Frame
         /\ \A flag \in Flags : New(flag) \in Entry /\ New(flag).frame = NextFrame
  BY DEF Submitting, NextFrame, LookaheadTypeInv, New, Entry, Frame, LookaheadAssumption

\* A frame pushed while there is room.
LEMMA PushTyped ==
  ASSUME LookaheadAssumption, LookaheadTypeInv, Submitting, ~Full(queue),
         NEW flag \in Flags
  PROVE  /\ Push(queue, New(flag)) \in Seq(Entry)
         /\ Len(Push(queue, New(flag))) = Len(queue) + 1
         /\ Len(queue) + 1 <= Depth
         /\ Push(queue, New(flag)) # <<>>
  BY SubmittedFrame DEF Push, Full, LookaheadTypeInv, LookaheadAssumption

LEMMA CompletedTyped ==
  ASSUME LookaheadAssumption, LookaheadTypeInv, NEW q, Completes(q)
  PROVE  /\ q \in Seq(Entry) /\ Len(q) = Depth /\ q # <<>>
         /\ Head(q) \in Entry /\ Tail(q) \in Seq(Entry) /\ Len(Tail(q)) = Depth - 1
         /\ pending = NoEntry /\ staged = <<>>
         /\ submitted' \in 0..MaxFrames
         /\ \E flag \in Flags : q = Append(queue, New(flag))
  <1>1. /\ q \in Seq(Entry) /\ Len(q) = Depth /\ q # <<>>
        /\ pending = NoEntry /\ staged = <<>> /\ submitted' \in 0..MaxFrames
        /\ \E flag \in Flags : q = Append(queue, New(flag))
    BY PushTyped, SubmittedFrame DEF Completes, Push
  <1> QED  BY <1>1 DEF LookaheadAssumption

\* What is left of a queue whose head was taken.
LEMMA TailTyped ==
  ASSUME NEW S, NEW q \in Seq(S), q # <<>>
  PROVE  /\ Head(q) \in S /\ Head(q) = q[1] /\ Tail(q) \in Seq(S)
         /\ Len(Tail(q)) = Len(q) - 1 /\ Len(q) \in Nat \ {0}
         /\ \A i \in 1..Len(Tail(q)) : Tail(q)[i] = q[i + 1] /\ i + 1 \in 1..Len(q)
  OBVIOUS

\* What a batch leaves.
LEMMA BatchAgrees ==
  ASSUME LookaheadAssumption, LookaheadTypeInv, FrozenInv, staged = <<>>,
         NEW q \in Seq(Entry), Len(q) <= Depth, NEW drain, CanBatch(q, drain),
         NEW new, RunBatch(q, new)
  PROVE  /\ FrozenInv'
         /\ queue' \in Seq(Entry) /\ Len(queue') <= Depth
         /\ staged' \in Seq(Result) /\ Len(staged') <= Depth
         /\ ref' \in Picture \cup {NoPicture}
  <1>1. /\ BatchSize(q) \in 1..Len(q) /\ ref # NoPicture
        /\ queue' = SubSeq(q, BatchSize(q) + 1, Len(q))
    BY BatchFacts DEF LookaheadTypeInv
  <1>2. PICK results \in Seq(Result) :
          /\ Len(results) = BatchSize(q)
          /\ \A i \in 1..Len(results) :
                /\ results[i].outcome = "coded" /\ ~results[i].refreshes
                     => results[i].uses = ref
                /\ results[i].outcome # "coded" => ~results[i].refreshes
          /\ ref' = IF results[1].refreshes THEN results[1].picture ELSE ref
          /\ thawed' = (thawed \/ \E i \in 1..Len(results) : results[i].refreshes)
          /\ PopStaged(results, new)
    BY BatchFacts DEF LookaheadTypeInv
  <1>3. results # <<>> /\ Len(results) \in 1..Len(q)  BY <1>1, <1>2
  <1>4. /\ Head(results) = results[1] /\ results[1] \in Result
        /\ Tail(results) \in Seq(Result) /\ Len(Tail(results)) = Len(results) - 1
        /\ \A i \in 1..Len(Tail(results)) :
             Tail(results)[i] = results[i + 1] /\ i + 1 \in 1..Len(results)
    BY <1>2, <1>3, TailTyped
  <1>5. staged' = results \/ staged' = Tail(results)  BY <1>2 DEF PopStaged
  <1>6. /\ staged' \in Seq(Result) /\ Len(staged') <= Depth
        /\ \A i \in 1..Len(staged') : \E j \in 1..Len(results) : staged'[i] = results[j]
    <2>1. Len(results) \in Nat /\ Len(results) <= Depth
      BY <1>2, <1>3 DEF LookaheadAssumption
    <2>2. CASE staged' = results  BY <1>2, <2>1, <2>2
    <2>3. CASE staged' = Tail(results)
      <3>1. staged' \in Seq(Result) /\ Len(staged') <= Depth
        BY <1>4, <2>1, <2>3 DEF LookaheadAssumption
      <3>2. \A i \in 1..Len(staged') : \E j \in 1..Len(results) : staged'[i] = results[j]
        BY <1>4, <2>3
      <3> QED  BY <3>1, <3>2
    <2> QED  BY <1>5, <2>2, <2>3
  <1>7. queue' \in Seq(Entry) /\ Len(queue') <= Depth  BY <1>1 DEF LookaheadAssumption
  <1>8. ref' \in Picture \cup {NoPicture}
    <2>1. results[1].picture \in Picture  BY <1>4 DEF Result
    <2> QED  BY <1>2, <2>1 DEF LookaheadTypeInv
  <1>9. ASSUME ~thawed'
        PROVE  /\ drifted' = {} /\ decRef' = decRef /\ ref' = decRef'
               /\ \A i \in 1..Len(staged') : /\ ~staged'[i].refreshes
                                             /\ staged'[i].outcome = "coded"
                                                  => staged'[i].uses = decRef'
    <2>1. ~thawed /\ \A i \in 1..Len(results) : ~results[i].refreshes
      BY <1>2, <1>9
    <2>2. drifted = {} /\ ref = decRef  BY <1>1, <2>1 DEF FrozenInv
    <2>3. ref' = ref  BY <1>2, <1>3, <2>1
    <2>4. \A i \in 1..Len(results) : results[i].outcome = "coded" => results[i].uses = decRef
      BY <1>2, <2>1, <2>2
    <2>5. decRef' = decRef /\ drifted' = drifted
      <3>1. ~results[1].refreshes /\ (results[1].outcome = "coded" => results[1].uses = decRef)
        BY <1>3, <2>1, <2>4
      <3>2. CASE Answer(Head(results), new)
        BY <1>4, <3>1, <3>2 DEF Answer, Decode
      <3> QED  BY <1>2, <3>2 DEF PopStaged, decoder
    <2> QED  BY <1>6, <2>1, <2>2, <2>3, <2>4, <2>5
  <1>10. FrozenInv'  BY <1>9 DEF FrozenInv, Keeps
  <1> QED  BY <1>6, <1>7, <1>8, <1>10

\* A staged packet returned by a later call.
LEMMA StagedAgrees ==
  ASSUME LookaheadTypeInv, FrozenInv, staged # <<>>, NEW new,
         PopStaged(staged, new), ref' = ref, thawed' = thawed
  PROVE  FrozenInv' /\ staged' \in Seq(Result) /\ Len(staged') <= Len(staged)
  <1>1. /\ Head(staged) = staged[1] /\ Len(staged) \in Nat \ {0}
        /\ Tail(staged) \in Seq(Result) /\ Len(Tail(staged)) = Len(staged) - 1
        /\ \A i \in 1..Len(Tail(staged)) :
             Tail(staged)[i] = staged[i + 1] /\ i + 1 \in 1..Len(staged)
    BY TailTyped DEF LookaheadTypeInv
  <1>2. /\ staged' \in Seq(Result) /\ Len(staged') <= Len(staged)
        /\ \A i \in 1..Len(staged') : \E j \in 1..Len(staged) : staged'[i] = staged[j]
    <2>1. CASE staged' = staged
      BY <1>1, <2>1 DEF LookaheadTypeInv
    <2>2. CASE staged' = Tail(staged)
      BY <1>1, <2>2
    <2> QED  BY <2>1, <2>2 DEF PopStaged
  <1>3. ASSUME ~thawed
        PROVE  drifted' = {} /\ decRef' = decRef
    <2>1. drifted = {} /\ Keeps(staged[1])  BY <1>1, <1>3 DEF FrozenInv
    <2>2. CASE Answer(Head(staged), new)
      BY <1>1, <2>1, <2>2 DEF Answer, Decode, Keeps
    <2> QED  BY <2>1, <2>2 DEF PopStaged, decoder
  <1>4. ASSUME ~thawed, NEW i \in 1..Len(staged')
        PROVE  /\ ~staged'[i].refreshes
               /\ staged'[i].outcome = "coded" => staged'[i].uses = decRef'
    <2>1. PICK j \in 1..Len(staged) : staged'[i] = staged[j]  BY <1>2, <1>4
    <2>2. Keeps(staged[j])  BY <1>4, <2>1 DEF FrozenInv
    <2> QED  BY <1>3, <1>4, <2>1, <2>2 DEF Keeps
  <1> QED  BY <1>2, <1>3, <1>4 DEF FrozenInv, Keeps

LEMMA HeadAgrees ==
  ASSUME LookaheadAssumption, FrozenInv, staged = <<>>, ref \in Picture \cup {NoPicture},
         NEW q \in Seq(Entry), NEW drain, NEW new, ShowHead(q, drain, new)
  PROVE  /\ FrozenInv' /\ ref' \in Picture \cup {NoPicture}
         /\ queue' \in Seq(Entry) /\ Len(queue') <= Len(q)
  <1>1. q # <<>>  BY DEF ShowHead, CanPop
  <1>2. Head(q) \in Entry /\ Tail(q) \in Seq(Entry) /\ Len(Tail(q)) <= Len(q)
    BY <1>1
  <1>3. PICK r \in Serial(Head(q)) : Commit(r, TRUE) /\ Answer(r, new)  BY DEF ShowHead
  <1>4. staged' = <<>> /\ queue' = Tail(q)  BY DEF ShowHead
  <1> QED  BY <1>2, <1>3, <1>4, SerialAgrees DEF Answer

LEMMA DriftStep ==
  ASSUME LookaheadAssumption, DriftInv, [LookaheadNext]_lookaheadVars
  PROVE  DriftInv'
  <1> USE LookaheadAssumption
  <1>1. /\ LookaheadTypeInv /\ ModeInv /\ FrozenInv
        /\ threads \in Nat /\ queue \in Seq(Entry) /\ Len(queue) <= Depth
        /\ pending \in Entry \cup {NoEntry}
        /\ staged \in Seq(Result) /\ Len(staged) <= Depth
        /\ ref \in Picture \cup {NoPicture} /\ submitted \in 0..MaxFrames
    BY DEF DriftInv, LookaheadTypeInv
  <1>2. CASE EncodeRefused /\ Returns
    <2>1. UNCHANGED <<queue, pending, staged, ref, thawed, decRef, drifted, threads, autoAltRef>>
      BY <1>2 DEF EncodeRefused, Returns, settings, coder, decoder
    <2>2. submitted' \in 0..MaxFrames  BY <1>1, <1>2, SubmittedFrame DEF EncodeRefused
    <2> QED  BY <1>1, <2>1, <2>2 DEF DriftInv, LookaheadTypeInv, ModeInv, FrozenInv, Keeps
  <1>3. CASE EncodePending /\ Returns
    <2>1. PICK r \in Serial(pending), flag \in Flags :
            /\ Commit(r, TRUE)
            /\ IF r.outcome = "full"
               THEN UNCHANGED <<queue, pending, decoder, shown, accepted>>
               ELSE LET q == Push(queue, New(flag)) IN
                    /\ Answer(r, {NextFrame})
                    /\ IF CanPop(q, FALSE)
                       THEN pending' = Head(q) /\ queue' = Tail(q)
                       ELSE pending' = NoEntry /\ queue' = q
      BY <1>3 DEF EncodePending
    <2>2. /\ Submitting /\ pending # NoEntry /\ ~Full(queue) /\ staged' = staged
          /\ threads' = threads /\ autoAltRef' = autoAltRef
      BY <1>3 DEF EncodePending, Returns, settings
    <2>3. staged = <<>> /\ staged' = <<>> /\ autoAltRef /\ pending \in Entry
      BY <1>1, <2>2 DEF ModeInv
    <2>4. Decode(r) \/ (r.outcome = "full" /\ UNCHANGED decoder)
      BY <2>1 DEF Answer
    <2>5. FrozenInv' /\ ref' \in Picture \cup {NoPicture}
      BY <1>1, <2>1, <2>3, <2>4, SerialAgrees
    <2>6. /\ queue' \in Seq(Entry) /\ Len(queue') <= Depth /\ pending' \in Entry \cup {NoEntry}
          /\ submitted' \in 0..MaxFrames
      <3> DEFINE q == Push(queue, New(flag))
      <3>1. /\ q \in Seq(Entry) /\ Len(q) <= Depth /\ q # <<>>
            /\ submitted' \in 0..MaxFrames
        BY <1>1, <2>2, PushTyped, SubmittedFrame
      <3> HIDE DEF q
      <3>2. /\ Head(q) \in Entry /\ Tail(q) \in Seq(Entry) /\ Len(Tail(q)) <= Depth
        BY <3>1
      <3>3. \/ queue' = queue /\ pending' = pending
            \/ pending' = Head(q) /\ queue' = Tail(q)
            \/ pending' = NoEntry /\ queue' = q
        BY <2>1 DEF q
      <3> QED  BY <1>1, <3>1, <3>2, <3>3
    <2> QED  BY <1>1, <2>2, <2>3, <2>5, <2>6 DEF DriftInv, LookaheadTypeInv, ModeInv
  <1>4. CASE EncodeStaged /\ Returns
    <2>1. /\ Submitting /\ ~Full(queue) /\ staged # <<>> /\ PopStaged(staged, {NextFrame})
          /\ \E flag \in Flags : queue' = Push(queue, New(flag))
          /\ UNCHANGED <<pending, ref, thawed, threads, autoAltRef>>
      BY <1>4 DEF EncodeStaged, Returns, settings, coder
    <2>2. FrozenInv' /\ staged' \in Seq(Result) /\ Len(staged') <= Depth
      BY <1>1, <2>1, StagedAgrees
    <2>3. queue' \in Seq(Entry) /\ Len(queue') <= Depth /\ submitted' \in 0..MaxFrames
      BY <1>1, <2>1, PushTyped, SubmittedFrame
    <2> QED  BY <1>1, <2>1, <2>2, <2>3 DEF DriftInv, LookaheadTypeInv, ModeInv
  <1>5. CASE EncodeQueued /\ Returns
    <2>1. /\ Submitting /\ ~Full(queue)
          /\ \E flag \in Flags : queue' = Push(queue, New(flag))
          /\ UNCHANGED <<pending, staged, ref, thawed, decRef, drifted, threads, autoAltRef>>
      BY <1>5 DEF EncodeQueued, Returns, settings, coder, decoder
    <2>2. queue' \in Seq(Entry) /\ Len(queue') <= Depth /\ submitted' \in 0..MaxFrames
      BY <1>1, <2>1, PushTyped, SubmittedFrame
    <2> QED  BY <1>1, <2>1, <2>2 DEF DriftInv, LookaheadTypeInv, ModeInv, FrozenInv, Keeps
  <1>6. CASE EncodeBatch /\ Returns
    <2>1. PICK q : Completes(q) /\ CanBatch(q, FALSE) /\ RunBatch(q, {NextFrame})
      BY <1>6 DEF EncodeBatch
    <2>2. /\ q \in Seq(Entry) /\ Len(q) <= Depth /\ staged = <<>> /\ submitted' \in 0..MaxFrames
      BY <1>1, <2>1, CompletedTyped
    <2>3. /\ FrozenInv' /\ queue' \in Seq(Entry) /\ Len(queue') <= Depth
          /\ staged' \in Seq(Result) /\ Len(staged') <= Depth
          /\ ref' \in Picture \cup {NoPicture}
      BY <1>1, <2>1, <2>2, BatchAgrees
    <2>4. UNCHANGED <<pending, threads, autoAltRef>> /\ threads >= 2
      BY <1>6, <2>1 DEF EncodeBatch, Returns, settings, CanBatch
    <2> QED  BY <1>1, <2>2, <2>3, <2>4 DEF DriftInv, LookaheadTypeInv, ModeInv
  <1>7. CASE EncodeHidden /\ Returns
    <2>1. PICK q : /\ Completes(q) /\ HiddenDue
                   /\ \E r \in Results(q[Depth].frame, Hidden(q[Depth].frame),
                                       IsKey("none", frameIndex), HiddenOutcomes, BOOLEAN) :
                        /\ Commit(r, FALSE) /\ Decode(r)
                        /\ \/ queue' = q /\ UNCHANGED pending
                           \/ pending' = Head(q) /\ queue' = Tail(q)
                        /\ UNCHANGED <<staged, shown>>
      BY <1>7 DEF EncodeHidden
    <2>2. /\ q \in Seq(Entry) /\ Len(q) = Depth /\ staged = <<>> /\ submitted' \in 0..MaxFrames
          /\ Head(q) \in Entry /\ Tail(q) \in Seq(Entry) /\ Len(Tail(q)) <= Depth
      BY <1>1, <2>1, CompletedTyped DEF LookaheadAssumption
    <2> DEFINE f == q[Depth].frame
               key == IsKey("none", frameIndex)
    <2>3. PICK r \in Results(f, Hidden(f), key, HiddenOutcomes, BOOLEAN) :
            /\ Commit(r, FALSE) /\ Decode(r)
            /\ \/ queue' = q /\ UNCHANGED pending
               \/ pending' = Head(q) /\ queue' = Tail(q)
            /\ UNCHANGED <<staged, shown>>
      BY <2>1, Zenon
    <2>4. f \in Frame /\ Hidden(f) \in Picture
      <3>1. q[Depth] \in Entry  BY <2>2 DEF LookaheadAssumption
      <3>2. f \in Frame  BY <3>1 DEF Entry
      <3> QED  BY <3>2 DEF LookaheadAssumption, Frame, Hidden, Picture
    <2>5. key \in BOOLEAN /\ (ref = NoPicture => key)  BY DEF IsKey
    <2>6. HiddenOutcomes \in SUBSET OutcomeValues
      BY DEF LookaheadAssumption, OutcomeValues
    <2> HIDE DEF f, key
    <2>7. FrozenInv' /\ ref' \in Picture \cup {NoPicture}
      BY <1>1, <2>2, <2>3, <2>4, <2>5, <2>6, AloneAgrees
    <2>8. UNCHANGED <<threads, autoAltRef>> /\ autoAltRef
      BY <1>7, <2>1 DEF Returns, settings, HiddenDue
    <2> QED  BY <1>1, <2>2, <2>3, <2>7, <2>8 DEF DriftInv, LookaheadTypeInv, ModeInv
  <1>8. CASE EncodeHead /\ Returns
    <2>1. PICK q : Completes(q) /\ ShowHead(q, FALSE, {NextFrame})
      BY <1>8 DEF EncodeHead
    <2>2. /\ q \in Seq(Entry) /\ Len(q) <= Depth /\ staged = <<>> /\ submitted' \in 0..MaxFrames
      BY <1>1, <2>1, CompletedTyped
    <2>3. /\ FrozenInv' /\ queue' \in Seq(Entry) /\ Len(queue') <= Len(q)
          /\ ref' \in Picture \cup {NoPicture}
      BY <1>1, <2>1, <2>2, HeadAgrees, Zenon
    <2>4. UNCHANGED <<pending, staged, threads, autoAltRef>>
      BY <1>8, <2>1 DEF ShowHead, Returns, settings
    <2> QED  BY <1>1, <2>2, <2>3, <2>4 DEF DriftInv, LookaheadTypeInv, ModeInv
  <1>9. CASE FlushStaged /\ Returns
    <2>1. /\ staged # <<>> /\ PopStaged(staged, {})
          /\ UNCHANGED <<queue, pending, ref, thawed, submitted, threads, autoAltRef>>
      BY <1>9 DEF FlushStaged, Returns, settings, coder
    <2>2. FrozenInv' /\ staged' \in Seq(Result) /\ Len(staged') <= Depth
      BY <1>1, <2>1, StagedAgrees
    <2> QED  BY <1>1, <2>1, <2>2 DEF DriftInv, LookaheadTypeInv, ModeInv
  <1>10. CASE FlushPending /\ Returns
    <2>1. PICK r \in Serial(pending) :
            /\ Commit(r, TRUE)
            /\ IF r.outcome = "full"
               THEN UNCHANGED <<pending, decoder, shown, accepted>>
               ELSE pending' = NoEntry /\ Answer(r, {})
      BY <1>10 DEF FlushPending
    <2>2. /\ staged = <<>> /\ pending # NoEntry
          /\ UNCHANGED <<queue, staged, submitted, threads, autoAltRef>>
      BY <1>10 DEF FlushPending, Returns, settings
    <2>3. staged' = <<>> /\ pending \in Entry /\ pending' \in {pending, NoEntry}
      BY <1>1, <2>1, <2>2
    <2>4. Decode(r) \/ (r.outcome = "full" /\ UNCHANGED decoder)
      BY <2>1 DEF Answer
    <2>5. FrozenInv' /\ ref' \in Picture \cup {NoPicture}
      BY <1>1, <2>1, <2>2, <2>3, <2>4, SerialAgrees
    <2> QED  BY <1>1, <2>2, <2>3, <2>5 DEF DriftInv, LookaheadTypeInv, ModeInv
  <1>11. CASE FlushBatch /\ Returns
    <2>1. /\ staged = <<>> /\ CanBatch(queue, TRUE) /\ RunBatch(queue, {})
          /\ UNCHANGED <<pending, submitted, threads, autoAltRef>> /\ threads >= 2
      BY <1>11 DEF FlushBatch, Returns, settings, CanBatch
    <2>2. /\ FrozenInv' /\ queue' \in Seq(Entry) /\ Len(queue') <= Depth
          /\ staged' \in Seq(Result) /\ Len(staged') <= Depth
          /\ ref' \in Picture \cup {NoPicture}
      BY <1>1, <2>1, BatchAgrees
    <2> QED  BY <1>1, <2>1, <2>2 DEF DriftInv, LookaheadTypeInv, ModeInv
  <1>12. CASE FlushHead /\ Returns
    <2>1. /\ staged = <<>> /\ ShowHead(queue, TRUE, {})
          /\ UNCHANGED <<pending, staged, submitted, threads, autoAltRef>>
      BY <1>12 DEF FlushHead, ShowHead, Returns, settings
    <2>2. /\ FrozenInv' /\ queue' \in Seq(Entry) /\ Len(queue') <= Len(queue)
          /\ ref' \in Picture \cup {NoPicture}
      BY <1>1, <2>1, HeadAgrees, Zenon
    <2> QED  BY <1>1, <2>1, <2>2 DEF DriftInv, LookaheadTypeInv, ModeInv
  <1>13. CASE ForceKeyFrame \/ SetDeadline \/ UNCHANGED lookaheadVars
    <2>1. UNCHANGED <<queue, pending, staged, ref, thawed, decRef, drifted, submitted,
                      threads, autoAltRef>>
      BY <1>13 DEF ForceKeyFrame, SetDeadline, lookaheadVars, decoder, caller, settings
    <2> QED  BY <1>1, <2>1 DEF DriftInv, LookaheadTypeInv, ModeInv, FrozenInv, Keeps
  <1>14. CASE ChangeResolution
    <2>1. /\ pending' = NoEntry /\ ref' = NoPicture
          /\ UNCHANGED <<queue, staged, thawed, decRef, drifted, submitted,
                         threads, autoAltRef>>
      BY <1>14 DEF ChangeResolution, decoder, caller, settings
    <2> QED  BY <1>1, <2>1 DEF DriftInv, LookaheadTypeInv, ModeInv, FrozenInv, Keeps
  <1>15. CASE SetFrameParallelEncoderThreads
    <2>1. /\ staged = <<>> /\ threads' \in Nat /\ ~(autoAltRef /\ threads' >= 2)
          /\ UNCHANGED <<autoAltRef, queue, pending, staged, ref, thawed, decRef,
                         drifted, submitted>>
      BY <1>15
      DEF SetFrameParallelEncoderThreads, LookaheadAssumption, coder, decoder, caller
    <2> QED  BY <1>1, <2>1 DEF DriftInv, LookaheadTypeInv, ModeInv, FrozenInv, Keeps
  <1>16. CASE SetAutoAltRef
    <2>1. /\ staged = <<>> /\ pending = NoEntry /\ ~(autoAltRef' /\ threads >= 2)
          /\ UNCHANGED <<threads, queue, pending, staged, ref, thawed, decRef,
                         drifted, submitted>>
      BY <1>16 DEF SetAutoAltRef, coder, decoder, caller
    <2> QED  BY <1>1, <2>1 DEF DriftInv, LookaheadTypeInv, ModeInv, FrozenInv, Keeps
  <1> QED
    BY <1>2, <1>3, <1>4, <1>5, <1>6, <1>7, <1>8, <1>9, <1>10, <1>11, <1>12, <1>13,
       <1>14, <1>15, <1>16
    DEF LookaheadNext, EncodeInto, FlushInto, Flush

\* As long as no member of a batch refreshed a reference, every packet predicts
\* from the picture the decoder holds: a clone, the encoder after a batch and a
\* hidden ARF never use a reference the decoder does not have.
THEOREM NeverDriftsWhileFrozen == LookaheadSpec => []NoDriftWhileFrozen
  <1>1. LookaheadInit => DriftInv
    BY LookaheadAssumption
    DEF LookaheadInit, DriftInv, LookaheadTypeInv, ModeInv, FrozenInv, LookaheadAssumption
  <1>2. DriftInv /\ [LookaheadNext]_lookaheadVars => DriftInv'
    BY DriftStep, LookaheadAssumption
  <1>3. DriftInv => NoDriftWhileFrozen
    BY DEF DriftInv, FrozenInv, NoDriftWhileFrozen
  <1> QED  BY <1>1, <1>2, <1>3, PTL DEF LookaheadSpec

-----------------------------------------------------------------------------
(***************************************************************************)
(* The lookahead implements the frame queue while no call leaves it at its *)
(* depth. Staged packets, the pending frame and the ring stand in one line *)
(* (Lined), and every call is made of four moves: a frame joins at the     *)
(* end, the first one leaves, the head of the ring becomes the pending     *)
(* frame, the head of the ring becomes a batch of staged packets.          *)
(***************************************************************************)
Rising(s) == \A i, j \in 1..Len(s) : i < j => s[i].frame < s[j].frame
Before(A, B) == \A f \in A, g \in B : f < g

Line(st, pd, q) == FramesOf(st) \cup FramesOf(q) \cup ({pd.frame} \ {NoFrame})

\* The frames of the line are among 1..high, after those in prior, and increase.
Lined(st, pd, q, prior, high) ==
  /\ prior \subseteq 1..high /\ Line(st, pd, q) \subseteq 1..high
  /\ Before(prior, Line(st, pd, q))
  /\ Rising(st) /\ Rising(q) /\ Before(FramesOf(st), FramesOf(q))
  /\ pd # NoEntry => Before({pd.frame}, FramesOf(q))

\* f leaves the line first.
Leaves(f, before, after) ==
  f \in before /\ (\A g \in before : f <= g) /\ after = before \ {f}

LineInv ==
  /\ Lined(staged, pending, queue, shown, submitted)
  /\ pending # NoEntry => Len(queue) = Depth - 1 /\ Depth >= MinLookaheadForARFs

LEMMA FramesPush ==
  ASSUME NEW S, NEW s \in Seq(S), NEW e \in S
  PROVE  FramesOf(Append(s, e)) = FramesOf(s) \cup {e.frame}
  <1>1. /\ DOMAIN s = 1..Len(s) /\ DOMAIN Append(s, e) = 1..(Len(s) + 1)
        /\ \A i \in 1..Len(s) : Append(s, e)[i] = s[i]
        /\ Append(s, e)[Len(s) + 1] = e /\ Len(s) \in Nat
    OBVIOUS
  <1>2. \A i \in 1..(Len(s) + 1) : i \in 1..Len(s) \/ i = Len(s) + 1  BY <1>1
  <1>3. \A i \in 1..Len(s) : i \in 1..(Len(s) + 1)  BY <1>1
  <1>4. Len(s) + 1 \in 1..(Len(s) + 1)  BY <1>1
  <1> QED  BY <1>1, <1>2, <1>3, <1>4, Zenon DEF FramesOf

LEMMA FramesWithin ==
  ASSUME NEW s, NEW t,
         \A i \in DOMAIN s : \E j \in DOMAIN t : s[i].frame = t[j].frame
  PROVE  FramesOf(s) \subseteq FramesOf(t)
  BY Zenon DEF FramesOf

LEMMA FramesCovered ==
  ASSUME NEW s, NEW X, \A i \in DOMAIN s : s[i].frame \in X
  PROVE  FramesOf(s) \subseteq X
  BY Zenon DEF FramesOf

LEMMA FramesTail ==
  ASSUME NEW S, NEW s \in Seq(S), s # <<>>, Rising(s), FramesOf(s) \subseteq Int
  PROVE  /\ FramesOf(s) = {Head(s).frame} \cup FramesOf(Tail(s))
         /\ Before({Head(s).frame}, FramesOf(Tail(s)))
         /\ Rising(Tail(s))
  <1>1. /\ DOMAIN s = 1..Len(s) /\ DOMAIN Tail(s) = 1..Len(Tail(s))
        /\ Head(s) = s[1] /\ Len(Tail(s)) = Len(s) - 1 /\ Len(s) \in Nat \ {0}
        /\ \A i \in 1..Len(Tail(s)) : Tail(s)[i] = s[i + 1]
    OBVIOUS
  <1>2. \A i \in 1..Len(Tail(s)) : i + 1 \in 1..Len(s) /\ 1 < i + 1  BY <1>1
  <1>3. \A i \in 1..Len(s) : i = 1 \/ (i - 1 \in 1..Len(Tail(s)) /\ (i - 1) + 1 = i)
    BY <1>1
  <1>4. 1 \in 1..Len(s)  BY <1>1
  <1>5. FramesOf(s) = {Head(s).frame} \cup FramesOf(Tail(s))
    <2>1. \A f \in FramesOf(s) : f = Head(s).frame \/ f \in FramesOf(Tail(s))
      <3>1. ASSUME NEW i \in 1..Len(s)
            PROVE  s[i].frame \in {Head(s).frame} \cup FramesOf(Tail(s))
        <4>1. CASE i = 1  BY <1>1, <4>1
        <4>2. CASE i # 1
          <5>1. i - 1 \in 1..Len(Tail(s)) /\ (i - 1) + 1 = i  BY <1>3, <4>2
          <5>2. s[i].frame = Tail(s)[i - 1].frame  BY <1>1, <5>1
          <5> QED  BY <1>1, <5>1, <5>2 DEF FramesOf
        <4> QED  BY <4>1, <4>2
      <3>2. FramesOf(s) \subseteq {Head(s).frame} \cup FramesOf(Tail(s))
        BY <1>1, <3>1, FramesCovered
      <3> QED  BY <3>2
    <2>2. FramesOf(Tail(s)) \subseteq FramesOf(s)
      <3>1. \A i \in DOMAIN Tail(s) : \E j \in DOMAIN s : Tail(s)[i].frame = s[j].frame
        BY <1>1, <1>2
      <3> QED  BY <3>1, FramesWithin
    <2>3. Head(s).frame \in FramesOf(s)  BY <1>1, <1>4 DEF FramesOf
    <2> QED  BY <2>1, <2>2, <2>3
  <1>6. Before({Head(s).frame}, FramesOf(Tail(s)))
    <2>1. \A i \in 1..Len(Tail(s)) : s[1].frame < Tail(s)[i].frame
      BY <1>1, <1>2, <1>4 DEF Rising
    <2> QED  BY <1>1, <2>1 DEF Before, FramesOf
  <1>7. Rising(Tail(s))
    BY <1>1, <1>2 DEF Rising
  <1> QED  BY <1>5, <1>6, <1>7

\* The first n entries and the rest; members have the frames of the first n.
LEMMA FramesSplit ==
  ASSUME NEW S, NEW s \in Seq(S), NEW n \in 1..Len(s), Rising(s),
         FramesOf(s) \subseteq Int,
         NEW R, NEW members \in Seq(R), Len(members) = n,
         \A i \in 1..n : members[i].frame = s[i].frame
  PROVE  /\ FramesOf(s) = FramesOf(members) \cup FramesOf(SubSeq(s, n + 1, Len(s)))
         /\ Before(FramesOf(members), FramesOf(SubSeq(s, n + 1, Len(s))))
         /\ Rising(members) /\ Rising(SubSeq(s, n + 1, Len(s)))
  <1> DEFINE rest == SubSeq(s, n + 1, Len(s))
  <1>1. /\ DOMAIN s = 1..Len(s) /\ DOMAIN members = 1..n /\ Len(s) \in Nat /\ n \in Nat
        /\ rest \in Seq(S) /\ DOMAIN rest = 1..Len(rest) /\ Len(rest) = Len(s) - n
        /\ \A i \in 1..Len(rest) : rest[i] = s[n + i]
    OBVIOUS
  <1> HIDE DEF rest
  <1>2. \A i \in 1..Len(rest) : n + i \in 1..Len(s)  BY <1>1
  <1>3. \A i \in 1..n : i \in 1..Len(s)  BY <1>1
  <1>4. \A i \in 1..Len(s) : i \in 1..n \/ (i - n \in 1..Len(rest) /\ n + (i - n) = i)
    BY <1>1
  <1>5. FramesOf(s) = FramesOf(members) \cup FramesOf(rest)
    <2>1. \A f \in FramesOf(s) : f \in FramesOf(members) \/ f \in FramesOf(rest)
      BY <1>1, <1>4 DEF FramesOf
    <2>2. FramesOf(members) \subseteq FramesOf(s)
      <3>1. \A i \in DOMAIN members : \E j \in DOMAIN s : members[i].frame = s[j].frame
        BY <1>1, <1>3
      <3> QED  BY <3>1, FramesWithin
    <2>3. FramesOf(rest) \subseteq FramesOf(s)
      <3>1. \A i \in DOMAIN rest : \E j \in DOMAIN s : rest[i].frame = s[j].frame
        BY <1>1, <1>2
      <3> QED  BY <3>1, FramesWithin
    <2> QED  BY <2>1, <2>2, <2>3
  <1>6. \A i \in 1..n, j \in 1..Len(rest) : members[i].frame < rest[j].frame
    <2> SUFFICES ASSUME NEW i \in 1..n, NEW j \in 1..Len(rest)
                 PROVE  members[i].frame < rest[j].frame
      OBVIOUS
    <2>1. i \in 1..Len(s) /\ n + j \in 1..Len(s) /\ i < n + j  BY <1>1
    <2>2. s[i].frame < s[n + j].frame  BY <2>1 DEF Rising
    <2> QED  BY <1>1, <2>2
  <1>7. Before(FramesOf(members), FramesOf(rest))
    BY <1>1, <1>6 DEF Before, FramesOf
  <1>8. Rising(members)  BY <1>1, <1>3 DEF Rising
  <1>9. Rising(rest)
    <2> SUFFICES ASSUME NEW i \in 1..Len(rest), NEW j \in 1..Len(rest), i < j
                 PROVE  rest[i].frame < rest[j].frame
      BY DEF Rising
    <2>1. n + i \in 1..Len(s) /\ n + j \in 1..Len(s) /\ n + i < n + j  BY <1>1
    <2>2. s[n + i].frame < s[n + j].frame  BY <2>1 DEF Rising
    <2> QED  BY <1>1, <2>2
  <1> QED  BY <1>5, <1>7, <1>8, <1>9 DEF rest

\* The moves of the line.

\* A frame numbered after all others joins at the end.
LEMMA LineJoined ==
  ASSUME NEW st, NEW pd, NEW q \in Seq(Entry), NEW prior,
         NEW high \in Nat, Lined(st, pd, q, prior, high),
         NEW e \in Entry, NEW next, next = high + 1, e.frame = next
  PROVE  /\ Lined(st, pd, Append(q, e), prior, next)
         /\ Line(st, pd, Append(q, e)) = Line(st, pd, q) \cup {next}
  <1>1. FramesOf(Append(q, e)) = FramesOf(q) \cup {high + 1}  BY FramesPush
  <1>2. Line(st, pd, Append(q, e)) = Line(st, pd, q) \cup {high + 1}
    BY <1>1 DEF Line
  <1>3. /\ prior \subseteq 1..high /\ Line(st, pd, q) \subseteq 1..high
        /\ Before(prior, Line(st, pd, q))
        /\ Rising(st) /\ Rising(q) /\ Before(FramesOf(st), FramesOf(q))
        /\ pd # NoEntry => Before({pd.frame}, FramesOf(q))
    BY DEF Lined
  <1>4. /\ prior \subseteq 1..(high + 1)
        /\ Line(st, pd, Append(q, e)) \subseteq 1..(high + 1)
    BY <1>2, <1>3
  <1>5. Before(prior, Line(st, pd, Append(q, e)))
    BY <1>2, <1>3 DEF Before
  <1>6. \A f \in FramesOf(st) \cup FramesOf(q) : f \in 1..high
    BY <1>3 DEF Line
  <1>7. Before(FramesOf(st), FramesOf(Append(q, e)))
    BY <1>1, <1>3, <1>6 DEF Before
  <1>8. pd # NoEntry => Before({pd.frame}, FramesOf(Append(q, e)))
    <2>1. CASE pd.frame = NoFrame
      <3>1. \A g \in FramesOf(Append(q, e)) : 0 < g  BY <1>1, <1>6
      <3> QED  BY <2>1, <3>1 DEF Before, NoFrame
    <2>2. CASE pd.frame # NoFrame
      <3>1. pd.frame \in 1..high  BY <1>3, <2>2 DEF Line
      <3> QED  BY <1>1, <1>3, <3>1 DEF Before
    <2> QED  BY <2>1, <2>2
  <1>9. Rising(Append(q, e))
    <2>1. /\ \A i \in 1..Len(q) : q[i].frame \in 1..high
      <3>1. \A i \in 1..Len(q) : q[i].frame \in FramesOf(q)  BY DEF FramesOf
      <3> QED  BY <1>6, <3>1
    <2>2. /\ Len(Append(q, e)) = Len(q) + 1 /\ Len(q) \in Nat
          /\ \A i \in 1..Len(q) : Append(q, e)[i] = q[i]
          /\ Append(q, e)[Len(q) + 1] = e
      OBVIOUS
    <2> SUFFICES ASSUME NEW i \in 1..(Len(q) + 1), NEW j \in 1..(Len(q) + 1), i < j
                 PROVE  Append(q, e)[i].frame < Append(q, e)[j].frame
      BY <2>2 DEF Rising
    <2>3. i \in 1..Len(q)  BY <2>2
    <2>4. CASE j = Len(q) + 1  BY <2>1, <2>2, <2>3, <2>4
    <2>5. CASE j \in 1..Len(q)
      <3>1. q[i].frame < q[j].frame  BY <1>3, <2>3, <2>5 DEF Rising
      <3> QED  BY <2>2, <2>3, <2>5, <3>1
    <2> QED  BY <2>2, <2>4, <2>5
  <1> QED  BY <1>2, <1>3, <1>4, <1>5, <1>7, <1>8, <1>9 DEF Lined

\* A frame that precedes the rest of the line leaves it.
LEMMA LineAfter ==
  ASSUME NEW line, NEW rest, NEW f, NEW prior, NEW high \in Nat,
         prior \subseteq 1..high, line \subseteq 1..high, Before(prior, line),
         line = {f} \cup rest, Before({f}, rest)
  PROVE  /\ Leaves(f, line, rest)
         /\ prior \cup {f} \subseteq 1..high /\ rest \subseteq 1..high
         /\ Before(prior \cup {f}, rest)
  <1>1. f \in 1..high /\ \A g \in rest : g \in 1..high /\ f < g  BY DEF Before
  <1>2. f \notin rest /\ \A g \in line : f <= g  BY <1>1
  <1> QED  BY <1>1, <1>2 DEF Leaves, Before

\* The first staged packet leaves; batches exclude a pending frame.
LEMMA LineUnstaged ==
  ASSUME NEW S, NEW R, NEW st \in Seq(R), st # <<>>, NEW q \in Seq(S), NEW prior,
         NEW high \in Nat, Lined(st, NoEntry, q, prior, high)
  PROVE  /\ Lined(Tail(st), NoEntry, q, prior \cup {Head(st).frame}, high)
         /\ Leaves(Head(st).frame, Line(st, NoEntry, q), Line(Tail(st), NoEntry, q))
  <1>1. \A x : Line(x, NoEntry, q) = FramesOf(x) \cup FramesOf(q)
    BY DEF Line, NoEntry
  <1>2. /\ prior \subseteq 1..high /\ Line(st, NoEntry, q) \subseteq 1..high
        /\ Before(prior, Line(st, NoEntry, q))
        /\ Rising(st) /\ Rising(q) /\ Before(FramesOf(st), FramesOf(q))
    BY DEF Lined
  <1>3. FramesOf(st) \subseteq Int  BY <1>1, <1>2
  <1>4. /\ FramesOf(st) = {Head(st).frame} \cup FramesOf(Tail(st))
        /\ Before({Head(st).frame}, FramesOf(Tail(st))) /\ Rising(Tail(st))
    BY <1>2, <1>3, FramesTail
  <1>5. /\ Before({Head(st).frame}, Line(Tail(st), NoEntry, q))
        /\ Before(FramesOf(Tail(st)), FramesOf(q))
    BY <1>1, <1>2, <1>4 DEF Before
  <1>6. Line(st, NoEntry, q) = {Head(st).frame} \cup Line(Tail(st), NoEntry, q)
    BY <1>1, <1>4
  <1> QED  BY <1>2, <1>4, <1>5, <1>6, LineAfter DEF Lined

\* The pending frame leaves.
LEMMA LinePending ==
  ASSUME NEW S, NEW q \in Seq(S), NEW pd \in Entry, NEW prior,
         NEW high \in Nat, Lined(<<>>, pd, q, prior, high)
  PROVE  /\ Lined(<<>>, NoEntry, q, prior \cup {pd.frame}, high)
         /\ Leaves(pd.frame, Line(<<>>, pd, q), Line(<<>>, NoEntry, q))
  <1>1. pd.frame \in Nat /\ pd.frame # NoFrame /\ pd # NoEntry
    BY DEF Entry, Frame, NoFrame, NoEntry
  <1>2. FramesOf(<<>>) = {}  BY DEF FramesOf
  <1>3. Line(<<>>, pd, q) = {pd.frame} \cup FramesOf(q) /\ Line(<<>>, NoEntry, q) = FramesOf(q)
    BY <1>1, <1>2 DEF Line, NoEntry
  <1>4. /\ prior \subseteq 1..high /\ Line(<<>>, pd, q) \subseteq 1..high
        /\ Before(prior, Line(<<>>, pd, q)) /\ Before({pd.frame}, FramesOf(q))
        /\ Rising(<<>>) /\ Rising(q) /\ Before(FramesOf(<<>>), FramesOf(q))
    BY <1>1 DEF Lined
  <1> QED  BY <1>3, <1>4, LineAfter DEF Lined

\* The head of the ring leaves.
LEMMA LineHead ==
  ASSUME NEW S, NEW q \in Seq(S), q # <<>>, NEW prior,
         NEW high \in Nat, Lined(<<>>, NoEntry, q, prior, high)
  PROVE  /\ Lined(<<>>, NoEntry, Tail(q), prior \cup {Head(q).frame}, high)
         /\ Leaves(Head(q).frame, Line(<<>>, NoEntry, q), Line(<<>>, NoEntry, Tail(q)))
  <1>1. FramesOf(<<>>) = {}  BY DEF FramesOf
  <1>2. \A x : Line(<<>>, NoEntry, x) = FramesOf(x)
    BY <1>1 DEF Line, NoEntry
  <1>3. /\ prior \subseteq 1..high /\ FramesOf(q) \subseteq 1..high
        /\ Before(prior, FramesOf(q)) /\ Rising(<<>>) /\ Rising(q)
    BY <1>2 DEF Lined
  <1>4. FramesOf(q) \subseteq Int  BY <1>3
  <1>5. /\ FramesOf(q) = {Head(q).frame} \cup FramesOf(Tail(q))
        /\ Before({Head(q).frame}, FramesOf(Tail(q))) /\ Rising(Tail(q))
    BY <1>3, <1>4, FramesTail
  <1>6. /\ Leaves(Head(q).frame, FramesOf(q), FramesOf(Tail(q)))
        /\ prior \cup {Head(q).frame} \subseteq 1..high /\ FramesOf(Tail(q)) \subseteq 1..high
        /\ Before(prior \cup {Head(q).frame}, FramesOf(Tail(q)))
    BY <1>3, <1>5, LineAfter
  <1>7. Before(FramesOf(<<>>), FramesOf(Tail(q)))  BY <1>1 DEF Before
  <1>8. /\ Line(<<>>, NoEntry, q) = FramesOf(q)
        /\ Line(<<>>, NoEntry, Tail(q)) = FramesOf(Tail(q))
    BY <1>2
  <1> QED  BY <1>3, <1>5, <1>6, <1>7, <1>8 DEF Lined

\* The head of the ring becomes the pending frame.
LEMMA LineMoved ==
  ASSUME NEW q \in Seq(Entry), q # <<>>, NEW prior,
         NEW high \in Nat, Lined(<<>>, NoEntry, q, prior, high)
  PROVE  /\ Lined(<<>>, Head(q), Tail(q), prior, high)
         /\ Line(<<>>, Head(q), Tail(q)) = Line(<<>>, NoEntry, q)
  <1>1. FramesOf(<<>>) = {}  BY DEF FramesOf
  <1>2. Head(q) \in Entry  OBVIOUS
  <1>3. Head(q).frame # NoFrame  BY <1>2 DEF Entry, Frame, NoFrame
  <1>4. /\ Line(<<>>, NoEntry, q) = FramesOf(q)
        /\ Line(<<>>, Head(q), Tail(q)) = {Head(q).frame} \cup FramesOf(Tail(q))
    BY <1>1, <1>3 DEF Line, NoEntry
  <1>5. /\ prior \subseteq 1..high /\ FramesOf(q) \subseteq 1..high
        /\ Before(prior, FramesOf(q)) /\ Rising(<<>>) /\ Rising(q)
    BY <1>4 DEF Lined
  <1>6. FramesOf(q) \subseteq Int  BY <1>5
  <1>7. /\ FramesOf(q) = {Head(q).frame} \cup FramesOf(Tail(q))
        /\ Before({Head(q).frame}, FramesOf(Tail(q))) /\ Rising(Tail(q))
    BY <1>5, <1>6, FramesTail
  <1>8. Before(FramesOf(<<>>), FramesOf(Tail(q)))  BY <1>1 DEF Before
  <1> QED  BY <1>4, <1>5, <1>7, <1>8 DEF Lined

\* The first n frames of the ring become the staged packets of a batch.
LEMMA LineBatched ==
  ASSUME NEW S, NEW q \in Seq(S), NEW n \in 1..Len(q), NEW R, NEW members \in Seq(R),
         Len(members) = n, \A i \in 1..n : members[i].frame = q[i].frame,
         NEW prior, NEW high \in Nat, Lined(<<>>, NoEntry, q, prior, high)
  PROVE  LET rest == SubSeq(q, n + 1, Len(q))
         IN  /\ Lined(members, NoEntry, rest, prior, high)
             /\ Line(members, NoEntry, rest) = Line(<<>>, NoEntry, q)
  <1> DEFINE rest == SubSeq(q, n + 1, Len(q))
  <1>1. FramesOf(<<>>) = {}  BY DEF FramesOf
  <1>2. /\ Line(<<>>, NoEntry, q) = FramesOf(q)
        /\ Line(members, NoEntry, rest) = FramesOf(members) \cup FramesOf(rest)
    BY <1>1 DEF Line, NoEntry
  <1>3. /\ prior \subseteq 1..high /\ FramesOf(q) \subseteq 1..high
        /\ Before(prior, FramesOf(q)) /\ Rising(q)
    BY <1>2 DEF Lined
  <1>4. FramesOf(q) \subseteq Int  BY <1>3
  <1>5. /\ FramesOf(q) = FramesOf(members) \cup FramesOf(rest)
        /\ Before(FramesOf(members), FramesOf(rest))
        /\ Rising(members) /\ Rising(rest)
    BY <1>3, <1>4, FramesSplit
  <1> QED  BY <1>2, <1>3, <1>5 DEF Lined

\* A line holds at most as many frames as it has places.
LEMMA FramesCounted ==
  ASSUME NEW S, NEW s \in Seq(S)
  PROVE  /\ IsFiniteSet(FramesOf(s)) /\ Cardinality(FramesOf(s)) \in Nat
         /\ Cardinality(FramesOf(s)) <= Len(s)
  <1> DEFINE f == [k \in 1..Len(s) |-> s[k].frame]
  <1>1. Len(s) \in Nat /\ DOMAIN s = 1..Len(s)  OBVIOUS
  <1>2. f \in Surjection(1..Len(s), FramesOf(s))
    <2>1. \A k \in 1..Len(s) : f[k] \in FramesOf(s)  BY <1>1 DEF FramesOf
    <2>2. \A g \in FramesOf(s) : \E k \in 1..Len(s) : f[k] = g  BY <1>1 DEF FramesOf
    <2> QED  BY <2>1, <2>2 DEF Surjection
  <1> HIDE DEF f
  <1>3. IsFiniteSet(1..Len(s)) /\ Cardinality(1..Len(s)) = Len(s)
    BY <1>1, FS_Interval
  <1>4. IsFiniteSet(FramesOf(s)) /\ Cardinality(FramesOf(s)) <= Len(s)
    BY <1>2, <1>3, FS_Surjection
  <1> QED  BY <1>4, FS_CardinalityType

LEMMA LineCounted ==
  ASSUME NEW S, NEW R, NEW st \in Seq(R), NEW pd, NEW q \in Seq(S)
  PROVE  /\ Cardinality(Line(st, pd, q)) \in Nat
         /\ Cardinality(Line(st, pd, q)) <= Len(st) + Len(q) + 1
         /\ pd = NoEntry => Cardinality(Line(st, pd, q)) <= Len(st) + Len(q)
  <1> DEFINE A == FramesOf(st)
             B == FramesOf(q)
             C == {pd.frame} \ {NoFrame}
  <1>1. /\ IsFiniteSet(A) /\ Cardinality(A) \in Nat /\ Cardinality(A) <= Len(st)
        /\ IsFiniteSet(B) /\ Cardinality(B) \in Nat /\ Cardinality(B) <= Len(q)
        /\ Len(st) \in Nat /\ Len(q) \in Nat
    BY FramesCounted
  <1> HIDE DEF A, B
  <1>2. /\ IsFiniteSet(A \cup B) /\ Cardinality(A \cup B) \in Nat
        /\ Cardinality(A \cup B) <= Len(st) + Len(q)
    <2>1. /\ IsFiniteSet(A \cup B) /\ IsFiniteSet(A \cap B)
          /\ Cardinality(A \cup B) = Cardinality(A) + Cardinality(B) - Cardinality(A \cap B)
      BY <1>1, FS_Union, FS_Intersection
    <2>2. Cardinality(A \cap B) \in Nat /\ Cardinality(A \cup B) \in Nat
      BY <2>1, FS_CardinalityType
    <2> QED  BY <1>1, <2>1, <2>2
  <1>3. CASE C = {}
    <2>1. Line(st, pd, q) = A \cup B  BY <1>3 DEF Line, A, B
    <2> QED  BY <1>1, <1>2, <2>1
  <1>4. CASE C # {}
    <2>1. Line(st, pd, q) = (A \cup B) \cup {pd.frame}  BY <1>4 DEF Line, A, B
    <2>2. /\ IsFiniteSet((A \cup B) \cup {pd.frame})
          /\ Cardinality((A \cup B) \cup {pd.frame}) <= Cardinality(A \cup B) + 1
      <3> DEFINE D == A \cup B
                 x == pd.frame
      <3>1. IsFiniteSet(D) /\ Cardinality(D) \in Nat  BY <1>2
      <3> HIDE DEF D, x
      <3>2. IsFiniteSet(D \cup {x}) /\ Cardinality(D \cup {x}) <= Cardinality(D) + 1
        <4>1. /\ IsFiniteSet(D \cup {x})
              /\ Cardinality(D \cup {x})
                   = IF x \in D THEN Cardinality(D) ELSE Cardinality(D) + 1
          BY <3>1, FS_AddElement, Zenon
        <4> QED  BY <3>1, <4>1
      <3> QED  BY <3>2 DEF D, x
    <2>3. Cardinality((A \cup B) \cup {pd.frame}) \in Nat
      BY <2>2, FS_CardinalityType
    <2>4. pd # NoEntry  BY <1>4 DEF NoEntry
    <2> QED  BY <1>1, <1>2, <2>1, <2>2, <2>3, <2>4
  <1> QED  BY <1>3, <1>4

LEMMA HeldIsLine == Held = Line(staged, pending, queue)
  BY DEF Held, Line

\* The capacity: a full batch and a full ring, or a pending frame and a ring.
LEMMA HeldBounded ==
  ASSUME LookaheadAssumption, DriftInv', LineInv'
  PROVE  Cardinality(Held') <= 2 * Depth
  <1>1. /\ queue' \in Seq(Entry) /\ Len(queue') <= Depth
        /\ staged' \in Seq(Result) /\ Len(staged') <= Depth
        /\ ~(pending' # NoEntry /\ staged' # <<>>)
        /\ pending' # NoEntry => Len(queue') = Depth - 1
    BY DEF DriftInv, LookaheadTypeInv, ModeInv, LineInv
  <1>2. Held' = Line(staged', pending', queue')  BY DEF Held, Line
  <1> DEFINE c == Cardinality(Line(staged', pending', queue'))
  <1>3. /\ c \in Nat /\ c <= Len(staged') + Len(queue') + 1
        /\ pending' = NoEntry => c <= Len(staged') + Len(queue')
    BY <1>1, LineCounted
  <1>4. Len(staged') \in Nat /\ Len(queue') \in Nat /\ (staged' = <<>> => Len(staged') = 0)
    BY <1>1
  <1> HIDE DEF c
  <1>5. c <= 2 * Depth  BY <1>1, <1>3, <1>4 DEF LookaheadAssumption
  <1> QED  BY <1>2, <1>5 DEF c

LEMMA SameCount == ASSUME NEW S PROVE Frames!Cardinality(S) = Cardinality(S)
  BY DEF Frames!Cardinality, Cardinality

\* The steps of the frame queue the encoder takes.
LEMMA Joins ==
  ASSUME Submitting, Held' = Held \cup {submitted'}, shown' = shown,
         accepted' \in {accepted, accepted \cup {NextFrame}},
         Cardinality(Held') <= 2 * Depth
  PROVE  Frames!QueueNext
  BY SameCount DEF Submitting, NextFrame, Frames!QueueNext, Frames!Submit

LEMMA JoinsAndLeaves ==
  ASSUME Submitting, NEW f, Leaves(f, Held \cup {submitted'}, Held'),
         shown' = shown \cup {f},
         accepted' \in {accepted, accepted \cup {NextFrame}},
         Cardinality(Held') <= 2 * Depth
  PROVE  Frames!QueueNext
  BY SameCount
  DEF Submitting, NextFrame, Leaves, Frames!QueueNext, Frames!Submit, Frames!ShowOldest

LEMMA OnlyLeaves ==
  ASSUME NEW f, Leaves(f, Held, Held'), shown' = shown \cup {f},
         accepted' = accepted, submitted' = submitted
  PROVE  Frames!QueueNext
  BY DEF Leaves, Frames!QueueNext, Frames!Flush, Frames!ShowOldest

\* A submitted frame at the end of the ring.
LEMMA LinePushed ==
  ASSUME LookaheadAssumption, DriftInv, LineInv, Submitting, NEW flag \in Flags
  PROVE  /\ Lined(staged, pending, Append(queue, New(flag)), shown, submitted')
         /\ Line(staged, pending, Append(queue, New(flag))) = Held \cup {submitted'}
  <1>1. /\ LookaheadTypeInv /\ queue \in Seq(Entry) /\ staged \in Seq(Result)
        /\ submitted \in Nat /\ Lined(staged, pending, queue, shown, submitted)
    BY DEF DriftInv, LookaheadTypeInv, LineInv
  <1> DEFINE e == New(flag)
  <1>2. submitted' = submitted + 1 /\ e \in Entry /\ e.frame = submitted + 1
    BY <1>1, SubmittedFrame
  <1> HIDE DEF e
  <1>3. /\ Lined(staged, pending, Append(queue, e), shown, submitted')
        /\ Line(staged, pending, Append(queue, e))
             = Line(staged, pending, queue) \cup {submitted'}
    <2>1. e \in Entry /\ submitted' = submitted + 1 /\ e.frame = submitted'  BY <1>2
    <2>2. \A x \in Entry : \A n :
            n = submitted + 1 /\ x.frame = n =>
              /\ Lined(staged, pending, Append(queue, x), shown, n)
              /\ Line(staged, pending, Append(queue, x)) = Line(staged, pending, queue) \cup {n}
      BY <1>1, LineJoined
    <2> QED  BY <2>1, <2>2, Zenon
  <1> QED  BY <1>3, HeldIsLine DEF e

\* A packet of the staged ones is returned or none, with the ring as queue' has it.
LEMMA StagedStep ==
  ASSUME NEW st \in Seq(Result), st # <<>>, NEW q \in Seq(Entry), NEW high \in Nat,
         NEW new, Delivers(st, new), pending' = NoEntry, queue' = q,
         Lined(st, NoEntry, q, shown, high)
  PROVE  /\ Lined(staged', pending', queue', shown', high)
         /\ \/ Held' = Line(st, NoEntry, q) /\ shown' = shown /\ accepted' = accepted
            \/ /\ \E f : Leaves(f, Line(st, NoEntry, q), Held') /\ shown' = shown \cup {f}
               /\ accepted' \in {accepted, accepted \cup new}
  <1>1. Held' = Line(staged', pending', queue')  BY DEF Held, Line
  <1>2. CASE staged' = st /\ UNCHANGED <<shown, accepted>>
    BY <1>1, <1>2
  <1>3. CASE /\ staged' = Tail(st) /\ shown' = shown \cup {st[1].frame}
             /\ accepted' \in {accepted, accepted \cup new}
    <2>1. Head(st) = st[1]  OBVIOUS
    <2>2. /\ Lined(Tail(st), NoEntry, q, shown \cup {Head(st).frame}, high)
          /\ Leaves(Head(st).frame, Line(st, NoEntry, q), Line(Tail(st), NoEntry, q))
      BY LineUnstaged
    <2> QED  BY <1>1, <1>3, <2>1, <2>2
  <1> QED  BY <1>2, <1>3 DEF Delivers

\* A batch: the head of the ring is staged and a packet returned or none.
LEMMA BatchStep ==
  ASSUME LookaheadAssumption, LookaheadTypeInv, NEW q \in Seq(Entry), Len(q) <= Depth,
         NEW drain, CanBatch(q, drain), NEW new, RunBatch(q, new), NEW high \in Nat,
         pending' = NoEntry, Lined(<<>>, NoEntry, q, shown, high)
  PROVE  /\ Lined(staged', pending', queue', shown', high)
         /\ \/ Held' = Line(<<>>, NoEntry, q) /\ shown' = shown /\ accepted' = accepted
            \/ /\ \E f : Leaves(f, Line(<<>>, NoEntry, q), Held') /\ shown' = shown \cup {f}
               /\ accepted' \in {accepted, accepted \cup new}
  <1> DEFINE n == BatchSize(q)
             rest == SubSeq(q, n + 1, Len(q))
  <1>1. n \in 1..Len(q) /\ queue' = rest
    BY BatchFacts DEF LookaheadTypeInv
  <1>2. PICK results \in Seq(Result) :
          /\ Len(results) = n
          /\ \A i \in 1..Len(results) : results[i].frame = q[i].frame
          /\ PopStaged(results, new)
    BY BatchFacts DEF LookaheadTypeInv
  <1>3. results # <<>> /\ rest \in Seq(Entry)  BY <1>1, <1>2
  <1>4. Delivers(results, new)  BY <1>2, <1>3, PopDelivers
  <1>5. \A i \in 1..n : results[i].frame = q[i].frame  BY <1>2
  <1> HIDE DEF n
  <1>6. /\ Lined(results, NoEntry, rest, shown, high)
        /\ Line(results, NoEntry, rest) = Line(<<>>, NoEntry, q)
    BY <1>1, <1>2, <1>5, LineBatched
  <1> HIDE DEF rest
  <1> QED  BY <1>1, <1>2, <1>3, <1>4, <1>6, StagedStep

LEMMA SerialFrame ==
  ASSUME LookaheadAssumption, NEW entry \in Entry, NEW r \in Serial(entry)
  PROVE  r.frame = entry.frame
  <1> DEFINE key == IsKey(entry.flag, frameIndex)
             refreshing == IF entry.flag = "forceRef" THEN {TRUE} ELSE BOOLEAN
  <1>1. r \in Results(entry.frame, entry.frame, key, Outcomes, refreshing)
    BY Zenon DEF Serial
  <1>2. key \in BOOLEAN /\ refreshing \in SUBSET BOOLEAN
    BY SerialTyped, Zenon
  <1> HIDE DEF key, refreshing
  <1> QED  BY <1>1, <1>2, ResultFacts

\* The head of the ring is shown.
LEMMA HeadStep ==
  ASSUME LookaheadAssumption, NEW q \in Seq(Entry), NEW drain, NEW new,
         ShowHead(q, drain, new), NEW high \in Nat, staged = <<>>, pending = NoEntry,
         Lined(<<>>, NoEntry, q, shown, high)
  PROVE  /\ Lined(staged', pending', queue', shown', high)
         /\ \E f : Leaves(f, Line(<<>>, NoEntry, q), Held') /\ shown' = shown \cup {f}
         /\ accepted' \in {accepted, accepted \cup new}
  <1>1. /\ q # <<>> /\ queue' = Tail(q) /\ pending' = NoEntry /\ staged' = <<>>
    BY DEF ShowHead, CanPop
  <1>2. PICK r \in Serial(Head(q)) : Answer(r, new)  BY DEF ShowHead
  <1>3. Head(q) \in Entry  BY <1>1
  <1>4. r.frame = Head(q).frame  BY <1>2, <1>3, SerialFrame
  <1>5. /\ shown' = shown \cup {Head(q).frame}
        /\ accepted' \in {accepted, accepted \cup new}
    BY <1>2, <1>4 DEF Answer
  <1>6. /\ Lined(<<>>, NoEntry, Tail(q), shown \cup {Head(q).frame}, high)
        /\ Leaves(Head(q).frame, Line(<<>>, NoEntry, q), Line(<<>>, NoEntry, Tail(q)))
    BY <1>1, LineHead
  <1>7. Held' = Line(staged', pending', queue')  BY DEF Held, Line
  <1> QED  BY <1>1, <1>5, <1>6, <1>7

LEMMA LineStep ==
  ASSUME LookaheadAssumption, DriftInv, LineInv, [LookaheadNext]_lookaheadVars
  PROVE  LineInv' /\ (~overfull' => [Frames!QueueNext]_(Frames!queueVars))
  <1> USE LookaheadAssumption
  <1>1. /\ LookaheadTypeInv /\ queue \in Seq(Entry) /\ Len(queue) <= Depth
        /\ staged \in Seq(Result) /\ submitted \in Nat
        /\ pending \in Entry \cup {NoEntry}
        /\ pending # NoEntry => staged = <<>>
        /\ Lined(staged, pending, queue, shown, submitted)
        /\ Held = Line(staged, pending, queue)
    BY HeldIsLine DEF DriftInv, LookaheadTypeInv, ModeInv, LineInv
  <1>2. Submitting => submitted' = submitted + 1 /\ submitted' \in Nat
    BY <1>1 DEF Submitting, NextFrame
  <1>3. UNCHANGED <<submitted, accepted, shown>> /\ Held' = Held => UNCHANGED Frames!queueVars
    BY DEF Frames!queueVars
  <1>4. Lined(staged, pending, queue, shown, submitted + 1)
    <2>1. \A S : S \subseteq 1..submitted => S \subseteq 1..(submitted + 1)  BY <1>1
    <2> QED  BY <1>1, <2>1 DEF Lined
  <1>5. CASE EncodeRefused /\ Returns
    <2>1. /\ Submitting /\ Full(queue) /\ overfull' = (overfull \/ Len(queue') = Depth)
          /\ UNCHANGED <<queue, pending, staged, shown>>
      BY <1>5 DEF EncodeRefused, Returns
    <2>2. Len(queue) = Depth  BY <1>1, <2>1 DEF Full, LookaheadAssumption
    <2>3. Lined(staged', pending', queue', shown', submitted')  BY <1>2, <1>4, <2>1
    <2> QED  BY <2>1, <2>2, <2>3 DEF LineInv
  <1>6. CASE EncodePending /\ Returns
    <2>1. PICK r \in Serial(pending), flag \in Flags :
            IF r.outcome = "full"
            THEN UNCHANGED <<queue, pending, decoder, shown, accepted>>
            ELSE LET q == Push(queue, New(flag)) IN
                 /\ Answer(r, {NextFrame})
                 /\ IF CanPop(q, FALSE)
                    THEN pending' = Head(q) /\ queue' = Tail(q)
                    ELSE pending' = NoEntry /\ queue' = q
      BY <1>6 DEF EncodePending
    <2>2. Submitting /\ pending # NoEntry /\ ~Full(queue) /\ staged' = staged
      BY <1>6 DEF EncodePending
    <2>3. pending \in Entry /\ staged = <<>> /\ staged' = <<>>  BY <1>1, <2>2
    <2>4. CASE r.outcome = "full"
      <3>1. UNCHANGED <<queue, pending, shown, accepted>>  BY <2>1, <2>4
      <3>2. Lined(staged', pending', queue', shown', submitted')
        BY <1>2, <1>4, <2>2, <3>1
      <3>3. Held' = Held  BY <2>2, <3>1 DEF Held
      <3>4. Frames!QueueNext
        BY <2>2, <3>1, <3>3 DEF Submitting, NextFrame, Frames!QueueNext, Frames!TurnAway
      <3> QED  BY <3>1, <3>2, <3>4 DEF LineInv
    <2>5. CASE r.outcome # "full"
      <3> DEFINE q == Append(queue, New(flag))
      <3>1. /\ Answer(r, {NextFrame})
            /\ \/ CanPop(q, FALSE) /\ pending' = Head(q) /\ queue' = Tail(q)
               \/ pending' = NoEntry /\ queue' = q
        BY <2>1, <2>5 DEF Push
      <3>2. q \in Seq(Entry) /\ Len(q) \in Nat
        BY <1>1, <2>2, PushTyped DEF Push
      <3>3. Lined(<<>>, pending, q, shown, submitted') /\ Line(<<>>, pending, q) = Held \cup {submitted'}
        BY <2>2, <2>3, LinePushed
      <3> HIDE DEF q
      <3>4. r.frame = pending.frame  BY <2>3, SerialFrame
      <3>5. /\ shown' = shown \cup {pending.frame}
            /\ accepted' \in {accepted, accepted \cup {NextFrame}}
        BY <3>1, <3>4 DEF Answer
      <3>6. /\ Lined(<<>>, NoEntry, q, shown', submitted')
            /\ Leaves(pending.frame, Held \cup {submitted'}, Line(<<>>, NoEntry, q))
        BY <1>2, <2>2, <2>3, <3>2, <3>3, <3>5, LinePending
      <3>7. Held' = Line(<<>>, pending', queue')  BY <2>3 DEF Held, Line
      <3>8. CASE CanPop(q, FALSE) /\ pending' = Head(q) /\ queue' = Tail(q)
        <4>1. q # <<>> /\ Len(q) = Depth  BY <3>8 DEF CanPop
        <4>2. /\ Lined(<<>>, pending', queue', shown', submitted')
              /\ Line(<<>>, pending', queue') = Line(<<>>, NoEntry, q)
          BY <1>2, <2>2, <3>2, <3>6, <3>8, <4>1, LineMoved
        <4>3. Len(queue') = Depth - 1 /\ Depth >= MinLookaheadForARFs
          BY <2>2, <3>2, <3>8, <4>1, TailTyped DEF LineInv
        <4>4. LineInv'  BY <2>3, <4>2, <4>3 DEF LineInv
        <4>5. Leaves(pending.frame, Held \cup {submitted'}, Held')  BY <3>6, <3>7, <4>2
        <4> QED  BY <2>2, <3>5, <4>4, <4>5, JoinsAndLeaves, HeldBounded, DriftStep
      <3>9. CASE pending' = NoEntry /\ queue' = q
        <4>1. LineInv'  BY <2>3, <3>6, <3>9 DEF LineInv
        <4>2. Leaves(pending.frame, Held \cup {submitted'}, Held')  BY <3>6, <3>7, <3>9
        <4> QED  BY <2>2, <3>5, <4>1, <4>2, JoinsAndLeaves, HeldBounded, DriftStep
      <3> QED  BY <3>1, <3>8, <3>9
    <2> QED  BY <2>4, <2>5
  <1>7. CASE EncodeStaged /\ Returns
    <2>1. /\ Submitting /\ ~Full(queue) /\ staged # <<>> /\ PopStaged(staged, {NextFrame})
          /\ pending = NoEntry /\ pending' = NoEntry
      BY <1>7 DEF EncodeStaged
    <2>2. PICK flag \in Flags : queue' = Append(queue, New(flag))
      BY <1>7 DEF EncodeStaged, Push
    <2>3. queue' \in Seq(Entry)  BY <1>1, <2>1, <2>2, PushTyped DEF Push
    <2>4. /\ Lined(staged, NoEntry, queue', shown, submitted')
          /\ Line(staged, NoEntry, queue') = Held \cup {submitted'}
      BY <2>1, <2>2, LinePushed
    <2>5. Delivers(staged, {NextFrame})  BY <1>1, <2>1, PopDelivers
    <2>6. /\ Lined(staged', pending', queue', shown', submitted')
          /\ \/ Held' = Line(staged, NoEntry, queue') /\ shown' = shown /\ accepted' = accepted
             \/ /\ \E f : Leaves(f, Line(staged, NoEntry, queue'), Held') /\ shown' = shown \cup {f}
                /\ accepted' \in {accepted, accepted \cup {NextFrame}}
      <3>1. /\ staged \in Seq(Result) /\ staged # <<>> /\ queue' \in Seq(Entry)
            /\ submitted' \in Nat /\ pending' = NoEntry /\ Delivers(staged, {NextFrame})
            /\ Lined(staged, NoEntry, queue', shown, submitted')
        BY <1>1, <1>2, <2>1, <2>3, <2>4, <2>5
      <3> QED  BY <3>1, StagedStep
    <2>7. LineInv'  BY <2>1, <2>6 DEF LineInv
    <2> QED  BY <2>1, <2>4, <2>6, <2>7, Joins, JoinsAndLeaves, HeldBounded, DriftStep
  <1>8. CASE EncodeQueued /\ Returns
    <2>1. /\ Submitting /\ pending = NoEntry /\ pending' = NoEntry
          /\ accepted' = accepted \cup {NextFrame} /\ UNCHANGED <<staged, shown>>
      BY <1>8 DEF EncodeQueued
    <2>2. PICK flag \in Flags : queue' = Append(queue, New(flag))
      BY <1>8 DEF EncodeQueued, Push
    <2>3. /\ Lined(staged', pending', queue', shown', submitted')
          /\ Line(staged', pending', queue') = Held \cup {submitted'}
      BY <2>1, <2>2, LinePushed
    <2>4. LineInv'  BY <2>1, <2>3 DEF LineInv
    <2>5. Held' = Held \cup {submitted'}  BY <2>3 DEF Held, Line
    <2> QED  BY <2>1, <2>4, <2>5, Joins, HeldBounded, DriftStep
  <1>9. ASSUME NEW q, Completes(q)
        PROVE  /\ Submitting /\ pending = NoEntry /\ staged = <<>>
               /\ q \in Seq(Entry) /\ Len(q) = Depth /\ q # <<>>
               /\ Lined(<<>>, NoEntry, q, shown, submitted')
               /\ Line(<<>>, NoEntry, q) = Held \cup {submitted'}
    <2>1. /\ q \in Seq(Entry) /\ Len(q) = Depth /\ q # <<>> /\ pending = NoEntry
          /\ staged = <<>> /\ \E flag \in Flags : q = Append(queue, New(flag))
      BY <1>1, <1>9, CompletedTyped
    <2>2. Submitting  BY <1>9 DEF Completes
    <2>3. PICK flag \in Flags : q = Append(queue, New(flag))  BY <2>1
    <2>4. /\ Lined(<<>>, NoEntry, q, shown, submitted')
          /\ Line(<<>>, NoEntry, q) = Held \cup {submitted'}
      BY <2>1, <2>2, <2>3, LinePushed
    <2> QED  BY <2>1, <2>2, <2>4
  <1>10. CASE EncodeBatch /\ Returns
    <2>1. PICK q : Completes(q) /\ CanBatch(q, FALSE) /\ RunBatch(q, {NextFrame})
      BY <1>10 DEF EncodeBatch
    <2>2. /\ Submitting /\ pending = NoEntry /\ pending' = NoEntry
          /\ q \in Seq(Entry) /\ Len(q) <= Depth /\ submitted' \in Nat
          /\ Lined(<<>>, NoEntry, q, shown, submitted')
          /\ Line(<<>>, NoEntry, q) = Held \cup {submitted'}
      BY <1>2, <1>9, <1>10, <2>1 DEF EncodeBatch, LookaheadAssumption
    <2>3. /\ Lined(staged', pending', queue', shown', submitted')
          /\ \/ Held' = Line(<<>>, NoEntry, q) /\ shown' = shown /\ accepted' = accepted
             \/ /\ \E f : Leaves(f, Line(<<>>, NoEntry, q), Held') /\ shown' = shown \cup {f}
                /\ accepted' \in {accepted, accepted \cup {NextFrame}}
      BY <1>1, <2>1, <2>2, BatchStep
    <2>4. LineInv'  BY <2>2, <2>3 DEF LineInv
    <2> QED  BY <2>2, <2>3, <2>4, Joins, JoinsAndLeaves, HeldBounded, DriftStep
  <1>11. CASE EncodeHidden /\ Returns
    <2>1. PICK q : /\ Completes(q) /\ HiddenDue
                   /\ \/ queue' = q /\ UNCHANGED <<pending, accepted>>
                      \/ /\ pending' = Head(q) /\ queue' = Tail(q)
                         /\ accepted' = accepted \cup {NextFrame}
                   /\ UNCHANGED <<staged, shown>>
      BY <1>11 DEF EncodeHidden
    <2>2. /\ Submitting /\ pending = NoEntry /\ staged = <<>>
          /\ q \in Seq(Entry) /\ Len(q) = Depth /\ q # <<>> /\ submitted' \in Nat
          /\ Lined(<<>>, NoEntry, q, shown, submitted')
          /\ Line(<<>>, NoEntry, q) = Held \cup {submitted'}
      BY <1>2, <1>9, <2>1
    <2>3. CASE queue' = q /\ UNCHANGED <<pending, accepted>>
      <3>1. Lined(staged', pending', queue', shown', submitted')
        BY <2>1, <2>2, <2>3
      <3>2. LineInv'  BY <2>2, <2>3, <3>1 DEF LineInv
      <3>3. overfull'  BY <1>11, <2>2, <2>3 DEF Returns
      <3> QED  BY <3>2, <3>3
    <2>4. CASE /\ pending' = Head(q) /\ queue' = Tail(q)
               /\ accepted' = accepted \cup {NextFrame}
      <3>1. /\ Lined(<<>>, Head(q), Tail(q), shown, submitted')
            /\ Line(<<>>, Head(q), Tail(q)) = Line(<<>>, NoEntry, q)
        BY <2>2, LineMoved
      <3>2. Len(queue') = Depth - 1 /\ Depth >= MinLookaheadForARFs
        BY <2>1, <2>2, <2>4, TailTyped DEF HiddenDue
      <3>3. /\ staged' = <<>> /\ shown' = shown
            /\ Lined(staged', pending', queue', shown', submitted')
        BY <2>1, <2>2, <2>4, <3>1
      <3>4. LineInv'  BY <3>2, <3>3 DEF LineInv
      <3>5. Held' = Held \cup {submitted'}
        BY <2>2, <2>4, <3>1, <3>3 DEF Held, Line
      <3> QED  BY <2>2, <2>4, <3>3, <3>4, <3>5, Joins, HeldBounded, DriftStep
    <2> QED  BY <2>1, <2>3, <2>4
  <1>12. CASE EncodeHead /\ Returns
    <2>1. PICK q : Completes(q) /\ ShowHead(q, FALSE, {NextFrame})
      BY <1>12 DEF EncodeHead
    <2>2. /\ Submitting /\ pending = NoEntry /\ pending' = NoEntry /\ staged = <<>>
          /\ q \in Seq(Entry) /\ submitted' \in Nat
          /\ Lined(<<>>, NoEntry, q, shown, submitted')
          /\ Line(<<>>, NoEntry, q) = Held \cup {submitted'}
      BY <1>2, <1>9, <2>1 DEF ShowHead
    <2>3. /\ Lined(staged', pending', queue', shown', submitted')
          /\ \E f : Leaves(f, Line(<<>>, NoEntry, q), Held') /\ shown' = shown \cup {f}
          /\ accepted' \in {accepted, accepted \cup {NextFrame}}
      BY <2>1, <2>2, HeadStep, Zenon
    <2>4. LineInv'  BY <2>2, <2>3 DEF LineInv
    <2> QED  BY <2>2, <2>3, <2>4, JoinsAndLeaves, HeldBounded, DriftStep
  <1>13. CASE FlushStaged /\ Returns
    <2>1. /\ staged # <<>> /\ PopStaged(staged, {})
          /\ UNCHANGED <<queue, pending, submitted>>
      BY <1>13 DEF FlushStaged
    <2>2. pending = NoEntry /\ pending' = NoEntry  BY <1>1, <2>1
    <2>3. Delivers(staged, {})  BY <1>1, <2>1, PopDelivers
    <2>4. /\ Lined(staged', pending', queue', shown', submitted)
          /\ \/ Held' = Line(staged, NoEntry, queue) /\ shown' = shown /\ accepted' = accepted
             \/ /\ \E f : Leaves(f, Line(staged, NoEntry, queue), Held') /\ shown' = shown \cup {f}
                /\ accepted' \in {accepted, accepted \cup {}}
      BY <1>1, <2>1, <2>2, <2>3, StagedStep
    <2>5. LineInv'  BY <2>1, <2>2, <2>4 DEF LineInv
    <2>6. Line(staged, NoEntry, queue) = Held /\ accepted \cup {} = accepted
      BY <1>1, <2>2
    <2> QED  BY <1>3, <2>1, <2>4, <2>5, <2>6, OnlyLeaves
  <1>14. CASE FlushPending /\ Returns
    <2>1. PICK r \in Serial(pending) :
            IF r.outcome = "full"
            THEN UNCHANGED <<pending, decoder, shown, accepted>>
            ELSE pending' = NoEntry /\ Answer(r, {})
      BY <1>14 DEF FlushPending
    <2>2. staged = <<>> /\ pending # NoEntry /\ UNCHANGED <<queue, staged, submitted>>
      BY <1>14 DEF FlushPending
    <2>3. pending \in Entry /\ staged' = <<>>  BY <1>1, <2>2
    <2>4. CASE r.outcome = "full"
      <3>1. UNCHANGED <<pending, shown, accepted>>  BY <2>1, <2>4
      <3>2. LineInv'  BY <2>2, <3>1 DEF LineInv
      <3>3. Held' = Held  BY <2>2, <3>1 DEF Held
      <3> QED  BY <1>3, <2>2, <3>1, <3>2, <3>3
    <2>5. CASE r.outcome # "full"
      <3>1. pending' = NoEntry /\ Answer(r, {})  BY <2>1, <2>5
      <3>2. r.frame = pending.frame  BY <2>3, SerialFrame
      <3>3. shown' = shown \cup {pending.frame} /\ accepted' = accepted
        BY <3>1, <3>2 DEF Answer
      <3>4. /\ Lined(<<>>, NoEntry, queue, shown \cup {pending.frame}, submitted)
            /\ Leaves(pending.frame, Line(<<>>, pending, queue), Line(<<>>, NoEntry, queue))
        BY <1>1, <2>2, <2>3, LinePending
      <3>5. LineInv'  BY <2>2, <2>3, <3>1, <3>3, <3>4 DEF LineInv
      <3>6. Held = Line(<<>>, pending, queue) /\ Held' = Line(<<>>, NoEntry, queue)
        BY <2>2, <3>1 DEF Held, Line
      <3> QED  BY <2>2, <3>3, <3>4, <3>5, <3>6, OnlyLeaves
    <2> QED  BY <2>4, <2>5
  <1>15. CASE FlushBatch /\ Returns
    <2>1. /\ staged = <<>> /\ pending = NoEntry /\ CanBatch(queue, TRUE)
          /\ RunBatch(queue, {}) /\ pending' = NoEntry /\ submitted' = submitted
      BY <1>15 DEF FlushBatch
    <2>2. Lined(<<>>, NoEntry, queue, shown, submitted) /\ Line(<<>>, NoEntry, queue) = Held
      BY <1>1, <2>1
    <2>3. /\ Lined(staged', pending', queue', shown', submitted)
          /\ \/ Held' = Line(<<>>, NoEntry, queue) /\ shown' = shown /\ accepted' = accepted
             \/ /\ \E f : Leaves(f, Line(<<>>, NoEntry, queue), Held') /\ shown' = shown \cup {f}
                /\ accepted' \in {accepted, accepted \cup {}}
      BY <1>1, <2>1, <2>2, BatchStep
    <2>4. LineInv'  BY <2>1, <2>3 DEF LineInv
    <2>5. accepted \cup {} = accepted  OBVIOUS
    <2> QED  BY <1>3, <2>1, <2>2, <2>3, <2>4, <2>5, OnlyLeaves
  <1>16. CASE FlushHead /\ Returns
    <2>1. /\ staged = <<>> /\ pending = NoEntry /\ ShowHead(queue, TRUE, {})
          /\ pending' = NoEntry /\ submitted' = submitted
      BY <1>16 DEF FlushHead, ShowHead
    <2>2. Lined(<<>>, NoEntry, queue, shown, submitted) /\ Line(<<>>, NoEntry, queue) = Held
      BY <1>1, <2>1
    <2>3. /\ Lined(staged', pending', queue', shown', submitted)
          /\ \E f : Leaves(f, Line(<<>>, NoEntry, queue), Held') /\ shown' = shown \cup {f}
          /\ accepted' \in {accepted, accepted \cup {}}
      BY <1>1, <2>1, <2>2, HeadStep, Zenon
    <2>4. LineInv'  BY <2>1, <2>3 DEF LineInv
    <2>5. accepted \cup {} = accepted  OBVIOUS
    <2> QED  BY <2>1, <2>2, <2>3, <2>4, <2>5, OnlyLeaves
  <1>17. CASE ChangeResolution \/ ForceKeyFrame \/ SetDeadline
              \/ SetFrameParallelEncoderThreads \/ SetAutoAltRef
              \/ UNCHANGED lookaheadVars
    <2>1. queue = <<>> => pending = NoEntry
      BY <1>1 DEF LineInv, MinLookaheadForARFs
    <2>2. UNCHANGED <<queue, pending, staged, submitted, accepted, shown>>
      BY <1>17, <2>1
      DEF ChangeResolution, ForceKeyFrame, SetDeadline, SetFrameParallelEncoderThreads,
          SetAutoAltRef, lookaheadVars, caller
    <2>3. LineInv'  BY <2>2 DEF LineInv
    <2>4. Held' = Held  BY <2>2 DEF Held
    <2> QED  BY <1>3, <2>2, <2>3, <2>4
  <1> QED
    BY <1>5, <1>6, <1>7, <1>8, <1>10, <1>11, <1>12, <1>13, <1>14, <1>15, <1>16, <1>17
    DEF LookaheadNext, EncodeInto, FlushInto, Flush

\* Until a call leaves the queue at its depth the encoder implements the frame
\* queue its callers rely on: a frame it accepts is held, the oldest frame is
\* encoded first and once, and at most 2 * Depth frames wait between calls.
THEOREM LookaheadRefinesFrameQueue == LookaheadSpec => ImplementsFrameQueue
  <1>1. LookaheadInit => DriftInv
    BY LookaheadAssumption
    DEF LookaheadInit, DriftInv, LookaheadTypeInv, ModeInv, FrozenInv, LookaheadAssumption
  <1>2. LookaheadInit => LineInv /\ Frames!QueueInit
    <2> SUFFICES ASSUME LookaheadInit PROVE LineInv /\ Frames!QueueInit
      OBVIOUS
    <2>1. /\ queue = <<>> /\ staged = <<>> /\ pending = NoEntry
          /\ submitted = 0 /\ shown = {} /\ accepted = {}
      BY DEF LookaheadInit
    <2>2. FramesOf(<<>>) = {} /\ Line(<<>>, NoEntry, <<>>) = {}
      BY DEF FramesOf, Line, NoEntry
    <2>3. Held = {}  BY <2>1, <2>2, HeldIsLine
    <2> QED
      BY <2>1, <2>2, <2>3 DEF LineInv, Lined, Before, Rising, Frames!QueueInit
  <1>3. DriftInv /\ LineInv /\ [LookaheadNext]_lookaheadVars
          => /\ DriftInv' /\ LineInv'
             /\ ~overfull' => [Frames!QueueNext]_(Frames!queueVars)
    BY DriftStep, LineStep, LookaheadAssumption
  <1> QED  BY <1>1, <1>2, <1>3, PTL DEF LookaheadSpec, ImplementsFrameQueue
=============================================================================
