------------------------ MODULE Vp9DecWorkers_proof ------------------------
(***************************************************************************)
(* Proofs about the workers of the VP9 decoder: the row multi-threading of *)
(* a frame (Vp9RowMT), and the pool of helpers (Vp9TilePool).              *)
(*                                                                         *)
(* Row multi-threading, for every number of workers, every shape of frame  *)
(* and every content.  The queue holds no job twice and only jobs of the   *)
(* frame, so it always has room for the next one (Room).  A job is in one  *)
(* worker's hands from Dequeue until it is over; what is over, in hand and *)
(* queued determines which jobs are queued next (ParseInv, RowsInv) and    *)
(* which superblocks are done (ReconInv, FilterInv).  The tile counter of  *)
(* a row counts the tiles that are through with it, so the last one, and   *)
(* no other, releases the filter; hence the queue is terminated only when  *)
(* nothing is left to be queued (AllQueued), and a queue operation is      *)
(* refused only after a failure.  All of this holds until the first job    *)
(* fails; after it only VerdictInv is left, and is enough.                 *)
(*                                                                         *)
(* The pool, for every number of helpers, every sequence of frames and     *)
(* every bound MaxDispatch.  A helper is Busy from the moment it sees a    *)
(* new jobEpoch until it stores it in doneEpoch, so doneEpoch[w] <         *)
(* epoch[w] exactly then.  While the decoding goroutine is outside the     *)
(* window from AddEpoch to the end of WaitHelper, every helper below       *)
(* activeHelpers has stored the current epoch; a helper that lags behind   *)
(* is not below activeHelpers and cannot start a run until that window     *)
(* opens again.                                                            *)
(***************************************************************************)
EXTENDS Vp9TilePool, Vp9RowMT, FiniteSetTheorems, TLAPS

-----------------------------------------------------------------------------
(* Row multi-threading.                                                    *)

ParseJob(r, t) == RowJob("parse", r, t)
ReconJob(r, t) == RowJob("recon", r, t)
LpfJob(r) == RowJob("lpf", r, 0)

\* The jobs queued so far, those taken from the queue, those a worker has in
\* one of the stages S, and those that are over.
Queued == {jobq[i] : i \in 1..Len(jobq)}
Taken == {jobq[i] : i \in 1..read}
At(S) == {job[w] : w \in {v \in Worker : stage[v] \in S}}
ReconStage == {"recon", "rowDone", "queueLpfAbove", "queueLpfLast",
               "reconWrite", "tileDone"}
InJob == {"parse", "queueParse", "lpf"} \cup ReconStage
Finished == Taken \ At(InJob)

StagesOf(type) ==
  IF type = "parse" THEN {"parse", "queueParse"}
  ELSE IF type = "recon" THEN ReconStage ELSE {"lpf"}

\* The columns of a tile.
Cols(t) == FirstCol(t)..LastCol(t)

\* The frame and its workers are typed.
FrameInv ==
  /\ tileCols \in TileCounts
  /\ lfActive \in BOOLEAN
  /\ failing \in Jobs \cup {NoJob}
  /\ failing.type = "lpf" => lfActive /\ failing.tile = 0
  /\ truncated # {} => tileCols \in TruncatedIn
  /\ stage \in [Worker -> InJob \cup {"idle", "exit"}]
  /\ job \in [Worker -> Jobs \cup {NoJob}]
  /\ col \in [Worker -> Int]
  /\ err \in [Worker -> BOOLEAN]

\* The queue holds no job twice.
QueueInv ==
  /\ jobq \in Seq(Jobs) /\ read \in 0..Len(jobq)
  /\ \A i, k \in 1..Len(jobq) : jobq[i] = jobq[k] => i = k
  /\ \A j \in Queued : j.type = "lpf" => j.tile = 0 /\ lfActive

\* A job is in one worker's hands.
HandInv ==
  /\ \A w \in Worker : stage[w] \in InJob =>
       job[w] \in Taken /\ stage[w] \in StagesOf(job[w].type)
  /\ \A w, v \in Worker :
       stage[w] \in InJob /\ stage[v] \in InJob /\ job[w] = job[v] => w = v

\* A tile is parsed row by row, and each row parsed is queued for reconstruction.
ParseInv ==
  /\ \A w \in Worker : stage[w] = "queueParse" => job[w].row < LastRow
  /\ \A t \in Tile :
       /\ ParseJob(0, t) \in Queued
       /\ \A r \in Row :
            /\ ParseJob(r, t) \in Queued =>
                 \A q \in 0..(r - 1) : ParseJob(q, t) \in Finished
            /\ ReconJob(r, t) \in Queued <=> ParseJob(r, t) \in Taken \ At({"parse"})
            /\ r < LastRow /\ ParseJob(r, t) \in Finished =>
                 ParseJob(r + 1, t) \in Queued

\* A worker before the last superblock's tileRowDone.
BeforeRowDone(w) ==
  \/ stage[w] \in {"recon", "rowDone"}
  \/ stage[w] = "reconWrite" /\ col[w] # LastCol(job[w].tile)
Unready == {job[w] : w \in {v \in Worker : BeforeRowDone(v)}}
ReadyTiles(r) == {t \in Tile : ReconJob(r, t) \in Taken \ Unready}

\* The row that releases the filter of row r, and the workers about to queue it.
Below(r) == IF r < LastRow THEN r + 1 ELSE LastRow
Owes(w, r) ==
  \/ stage[w] = "queueLpfAbove" /\ Below(r) = job[w].row
  \/ stage[w] = "queueLpfLast" /\ r = LastRow

\* The last tile of a row releases its filter jobs, once.
RowsInv ==
  /\ rowTiles \in [Row -> Nat]
  /\ \A r \in Row : rowTiles[r] = IF lfActive THEN Cardinality(ReadyTiles(r)) ELSE 0
  /\ \A w \in Worker : stage[w] \in {"queueLpfAbove", "queueLpfLast"} =>
       /\ lfActive
       /\ rowTiles[job[w].row] = tileCols
       /\ stage[w] = "queueLpfAbove" => job[w].row > 0
       /\ stage[w] = "queueLpfLast" => job[w].row = LastRow
  /\ \A w, v \in Worker :
       /\ stage[w] \in {"queueLpfAbove", "queueLpfLast"}
       /\ stage[v] \in {"queueLpfAbove", "queueLpfLast"}
       /\ job[w].row = job[v].row
       => w = v
  /\ \A r \in Row :
       LpfJob(r) \in Queued <=>
         rowTiles[Below(r)] = tileCols /\ \A w \in Worker : ~Owes(w, r)

\* Rows are reconstructed from left to right and from the top.
ReconInv ==
  /\ reconMap \subseteq recon /\ recon \subseteq SB
  /\ \A w \in Worker : stage[w] \in ReconStage =>
       /\ col[w] \in Cols(job[w].tile)
       /\ \A c \in Cols(job[w].tile) :
            <<job[w].row, c>> \in recon <=>
              c < col[w] \/ (c = col[w] /\ stage[w] # "recon")
       /\ stage[w] \notin {"recon", "reconWrite"} => col[w] = LastCol(job[w].tile)
       /\ stage[w] \in {"rowDone", "queueLpfAbove", "queueLpfLast"} => lfActive
       /\ stage[w] = "tileDone" => job[w].row = LastRow /\ ~lfActive
  /\ \A r \in Row, t \in Tile : \A c \in Cols(t) :
       /\ <<r, c>> \in recon => ReconJob(r, t) \in Taken
       /\ ReconJob(r, t) \in Finished => <<r, c>> \in recon
  /\ \A r \in Row, c \in Col : <<r, c>> \in recon =>
       \A q \in 0..(r - 1) : <<q, c>> \in recon

\* Without a loop filter the tiles that are through are counted.
DoneInv ==
  tilesDone = IF lfActive THEN 0
              ELSE Cardinality({t \in Tile : ReconJob(LastRow, t) \in Finished})

\* The last column that a superblock in column c has waited for, above.
WaitedFor(c) == c - (c % SyncRange) + SyncRange

\* Rows are filtered from left to right, and behind the row above.
FilterInv ==
  /\ filtered \subseteq SB
  /\ curSbCol \in [Row -> Int]
  /\ \A w \in Worker : stage[w] = "lpf" =>
       /\ lfActive
       /\ col[w] \in Col
       /\ \A c \in Col : <<job[w].row, c>> \in filtered <=> c < col[w]
  /\ \A r \in Row, c \in Col :
       /\ <<r, c>> \in filtered => LpfJob(r) \in Taken
       /\ LpfJob(r) \in Finished => <<r, c>> \in filtered
       /\ c <= curSbCol[r] => <<r, c>> \in filtered
       /\ <<r, c>> \in filtered =>
            /\ r > 0 => \A d \in Col : d <= WaitedFor(c) => <<r - 1, d>> \in filtered
            /\ \A q \in 0..(r - 1) : <<q, c>> \in filtered
  /\ lfApplied <=> <<LastRow, SbCols - 1>> \in filtered

\* The queue is terminated when nothing is left to queue, and a worker leaves
\* when nothing is left to do. The job that is to fail has not got past that.
EndInv ==
  /\ terminated \in BOOLEAN
  /\ terminated => IF lfActive THEN lfApplied ELSE tilesDone = tileCols
  /\ \A w \in Worker : stage[w] = "exit" => terminated /\ read = Len(jobq)
  /\ failing \in Taken => failing \in At({failing.type})

SoundInv ==
  QueueInv /\ HandInv /\ ParseInv /\ RowsInv /\ ReconInv /\ DoneInv /\ FilterInv /\ EndInv

\* Only the failing job fails, and the verdict is about all workers.
VerdictInv ==
  /\ stage = [w \in Worker |-> stage[w]] /\ err \in [Worker -> BOOLEAN]
  /\ \A w \in Worker : err[w] => stage[w] = "exit" /\ failing # NoJob
  /\ verdict # "none" => \A w \in Worker : stage[w] = "exit"
  /\ verdict # "none" =>
       verdict = IF ~NobodyFailed \/ (tileCols = 1 /\ truncated # {}) THEN "err" ELSE "ok"

\* After a failure only what the verdict rests on is left.
RowMTInv == VerdictInv /\ (NobodyFailed => FrameInv /\ SoundInv)

-----------------------------------------------------------------------------
(* Arithmetic: the columns of the tiles partition those of the frame.      *)

\* What integer division is.
LEMMA DivBounds ==
  ASSUME NEW a \in Nat, NEW b \in Nat \ {0}
  PROVE  /\ a \div b \in Nat
         /\ (a \div b) * b <= a
         /\ a < (a \div b) * b + b
  <1>1. a = b * (a \div b) + (a % b) /\ a % b \in 0..(b - 1) /\ a \div b \in Int
    OBVIOUS
  <1> QED  BY <1>1

LEMMA TimesMono ==
  ASSUME NEW a \in Int, NEW c \in Int, NEW b \in Nat \ {0}, a <= c
  PROVE  a * b <= c * b
  OBVIOUS

\* A quotient is compared without dividing.
LEMMA DivLe ==
  ASSUME NEW a \in Nat, NEW b \in Nat \ {0}, NEW c \in Int
  PROVE  a \div b <= c <=> a < (c + 1) * b
  <1> DEFINE q == a \div b
  <1>1. q \in Nat /\ q * b <= a /\ a < q * b + b  BY DivBounds
  <1> HIDE DEF q
  <1>2. ASSUME q <= c PROVE a < (c + 1) * b
    <2>1. q * b <= c * b  BY <1>1, <1>2, TimesMono
    <2>2. (c + 1) * b = c * b + b  OBVIOUS
    <2>3. q * b \in Int /\ c * b \in Int  BY <1>1
    <2> QED  BY <1>1, <2>1, <2>2, <2>3
  <1>3. ASSUME q > c PROVE a >= (c + 1) * b
    <2>1. (c + 1) * b <= q * b  BY <1>1, <1>3, TimesMono
    <2>2. q * b \in Int /\ (c + 1) * b \in Int  BY <1>1
    <2> QED  BY <1>1, <2>1, <2>2
  <1>4. (c + 1) * b \in Int  OBVIOUS
  <1> QED  BY <1>1, <1>2, <1>3, <1>4 DEF q

\* The tiles of a frame.
LEMMA TileStart ==
  ASSUME FrameInv
  PROVE  /\ tileCols \in Nat \ {0} /\ SbCols \in Nat \ {0} /\ tileCols <= SbCols
         /\ \A t \in 0..tileCols :
              t * SbCols \in Nat /\ FirstCol(t) \in Nat
         /\ FirstCol(0) = 0 /\ FirstCol(tileCols) = SbCols
  <1>1. tileCols \in Nat \ {0} /\ SbCols \in Nat \ {0} /\ tileCols <= SbCols
    BY ShapeAssumption DEF FrameInv
  <1>2. ASSUME NEW t \in 0..tileCols
        PROVE  t * SbCols \in Nat /\ FirstCol(t) \in Nat
    <2>1. t * SbCols \in Nat  BY <1>1
    <2> QED  BY <1>1, <2>1, DivBounds DEF FirstCol
  <1>3. FirstCol(0) = 0
    <2>1. 0 * SbCols = 0  BY <1>1
    <2>2. 0 \div tileCols <= 0  BY <1>1, DivLe
    <2>3. 0 \div tileCols \in Nat  BY <1>1, DivBounds
    <2> QED  BY <2>1, <2>2, <2>3 DEF FirstCol
  <1>4. FirstCol(tileCols) = SbCols
    <2> DEFINE a == tileCols * SbCols
    <2>1. a \in Nat  BY <1>1
    <2>2. a < (SbCols + 1) * tileCols  BY <1>1
    <2>3. ~(a < (SbCols - 1 + 1) * tileCols)  BY <1>1
    <2>4. SbCols - 1 \in Int /\ SbCols \in Int  BY <1>1
    <2> HIDE DEF a
    <2>5. a \div tileCols <= SbCols  BY <1>1, <2>1, <2>2, <2>4, DivLe
    <2>6. ~(a \div tileCols <= SbCols - 1)  BY <1>1, <2>1, <2>3, <2>4, DivLe
    <2>7. a \div tileCols \in Nat  BY <1>1, <2>1, DivBounds
    <2> QED  BY <1>1, <2>5, <2>6, <2>7 DEF FirstCol, a
  <1> QED  BY <1>1, <1>2, <1>3, <1>4

\* Each tile begins after the one before.
LEMMA TileGrows ==
  ASSUME FrameInv, NEW t \in 0..tileCols, NEW u \in 0..tileCols, t < u
  PROVE  FirstCol(t) < FirstCol(u)
  <1> DEFINE f == FirstCol(t)
  <1>1. /\ tileCols \in Nat \ {0} /\ SbCols \in Nat \ {0} /\ tileCols <= SbCols
        /\ t * SbCols \in Nat /\ u * SbCols \in Nat /\ f \in Nat /\ FirstCol(u) \in Nat
    BY TileStart
  <1>2. f * tileCols <= t * SbCols  BY <1>1, DivBounds DEF FirstCol
  <1> HIDE DEF f
  <1>3. (f + 1) * tileCols = f * tileCols + tileCols  BY <1>1
  <1>4. (t + 1) * SbCols <= u * SbCols  BY <1>1, TimesMono
  <1>5. (t + 1) * SbCols = t * SbCols + SbCols  BY <1>1
  <1>6. f * tileCols \in Int /\ (f + 1) * tileCols \in Int  BY <1>1
  <1>7. ~(u * SbCols < (f + 1) * tileCols)  BY <1>1, <1>2, <1>3, <1>4, <1>5, <1>6
  <1>8. ~((u * SbCols) \div tileCols <= f)  BY <1>1, <1>7, DivLe
  <1> QED  BY <1>1, <1>8 DEF FirstCol, f

\* Each column is in a tile.
LEMMA TileOf ==
  ASSUME FrameInv, NEW c \in Col
  PROVE  \E t \in Tile : c \in Cols(t)
  <1> DEFINE a == (c + 1) * tileCols - 1
             t == a \div SbCols
  <1>1. /\ tileCols \in Nat \ {0} /\ SbCols \in Nat \ {0} /\ tileCols <= SbCols
        /\ \A u \in 0..tileCols : u * SbCols \in Nat /\ FirstCol(u) \in Nat
    BY TileStart
  <1>2. c \in Nat /\ c + 1 <= SbCols  BY <1>1 DEF Col
  <1>3. (c + 1) * tileCols \in Nat \ {0}  BY <1>1, <1>2
  <1>4. a \in Nat  BY <1>3
  <1>5. t \in Nat /\ t * SbCols <= a /\ a < t * SbCols + SbCols
    <2> HIDE DEF a
    <2> QED  BY <1>1, <1>4, DivBounds
  <1>6. (c + 1) * tileCols <= SbCols * tileCols  BY <1>1, <1>2, TimesMono
  <1>7. t < tileCols
    <2>1. a < (tileCols - 1 + 1) * SbCols
      <3>1. SbCols * tileCols = (tileCols - 1 + 1) * SbCols  BY <1>1
      <3>2. SbCols * tileCols \in Int  BY <1>1
      <3> QED  BY <1>3, <1>6, <3>1, <3>2
    <2>2. tileCols - 1 \in Int  BY <1>1
    <2> HIDE DEF a
    <2>3. t <= tileCols - 1  BY <1>1, <1>4, <2>1, <2>2, DivLe
    <2> QED  BY <1>1, <1>5, <2>3
  <1> HIDE DEF t
  <1>8. t \in Tile /\ t + 1 \in 0..tileCols  BY <1>1, <1>5, <1>7 DEF Tile
  <1>9. t * SbCols \in Nat /\ (t + 1) * SbCols \in Nat
        /\ (t + 1) * SbCols = t * SbCols + SbCols
    BY <1>1, <1>5
  <1>10. FirstCol(t) <= c
    <2>1. t * SbCols < (c + 1) * tileCols  BY <1>3, <1>5, <1>9
    <2> QED  BY <1>1, <1>2, <1>9, <2>1, DivLe DEF FirstCol
  <1>11. ~(FirstCol(t + 1) <= c)
    <2>1. ~((t + 1) * SbCols < (c + 1) * tileCols)  BY <1>3, <1>5, <1>9
    <2> QED  BY <1>1, <1>2, <1>9, <2>1, DivLe DEF FirstCol
  <1>12. FirstCol(t) \in Nat /\ FirstCol(t + 1) \in Nat  BY <1>1, <1>8 DEF Tile
  <1> QED  BY <1>2, <1>8, <1>10, <1>11, <1>12 DEF Cols, LastCol

\* The tiles' columns, as the proofs below use them.
LEMMA Tiles ==
  ASSUME FrameInv
  PROVE  /\ tileCols \in Nat \ {0} /\ SbCols \in Nat \ {0} /\ SbRows \in Nat \ {0}
         /\ \A t \in Tile :
              /\ FirstCol(t) \in Nat /\ LastCol(t) \in Nat /\ FirstCol(t) \in Cols(t)
              /\ LastCol(t) \in Cols(t) /\ Cols(t) \subseteq Col
         /\ \A t, u \in Tile : \A c \in Cols(t) : c \in Cols(u) => t = u
         /\ \A c \in Col : \E t \in Tile : c \in Cols(t)
  <1>1. /\ tileCols \in Nat \ {0} /\ SbCols \in Nat \ {0} /\ tileCols <= SbCols
        /\ \A u \in 0..tileCols : FirstCol(u) \in Nat
        /\ FirstCol(0) = 0 /\ FirstCol(tileCols) = SbCols
    BY TileStart
  <1>2. \A t, u \in 0..tileCols : t < u => FirstCol(t) < FirstCol(u)  BY TileGrows
  <1>3. \A c \in Col : \E t \in Tile : c \in Cols(t)  BY TileOf
  <1>4. SbRows \in Nat \ {0}  BY ShapeAssumption
  <1>5. ASSUME NEW t \in Tile
        PROVE  /\ FirstCol(t) \in Nat /\ LastCol(t) \in Nat /\ FirstCol(t) <= LastCol(t)
               /\ LastCol(t) < SbCols
    <2>1. t \in 0..tileCols /\ t + 1 \in 0..tileCols /\ t < t + 1  BY <1>1 DEF Tile
    <2>2. FirstCol(t) < FirstCol(t + 1)  BY <1>2, <2>1
    <2>3. FirstCol(t + 1) <= SbCols
      BY <1>1, <1>2, <2>1
    <2>4. FirstCol(t) \in Nat /\ FirstCol(t + 1) \in Nat  BY <1>1, <2>1
    <2> QED  BY <1>1, <2>2, <2>3, <2>4 DEF LastCol
  <1>6. ASSUME NEW t \in Tile, NEW u \in Tile, NEW c \in Cols(t), c \in Cols(u), t < u
        PROVE  FALSE
    <2>1. t + 1 \in 0..tileCols /\ u \in 0..tileCols /\ (t + 1 = u \/ t + 1 < u)
      BY <1>1, <1>6 DEF Tile
    <2>2. FirstCol(t + 1) <= FirstCol(u)  BY <1>1, <1>2, <2>1
    <2>3. FirstCol(t + 1) \in Nat /\ FirstCol(u) \in Nat  BY <1>1, <2>1
    <2> QED  BY <1>6, <2>2, <2>3 DEF Cols, LastCol
  <1>7. \A t, u \in Tile : \A c \in Cols(t) : c \in Cols(u) => t = u
    <2>1. \A t, u \in Tile : t < u \/ t = u \/ u < t  BY <1>1 DEF Tile
    <2> QED  BY <1>6, <2>1
  <1>8. ASSUME NEW t \in Tile
        PROVE  FirstCol(t) \in Cols(t) /\ LastCol(t) \in Cols(t) /\ Cols(t) \subseteq Col
    BY <1>1, <1>5 DEF Cols, Col
  <1> QED  BY <1>1, <1>3, <1>4, <1>5, <1>7, <1>8

-----------------------------------------------------------------------------
(* The queue.                                                              *)

\* The jobs a frame has: one to parse and one to reconstruct each row of each
\* tile, and one to filter each row.
AllJobs == {j \in Jobs : j.type = "lpf" => j.tile = 0}

\* There are at most as many as the queue has room for.
LEMMA JobsCounted ==
  ASSUME FrameInv
  PROVE  /\ IsFiniteSet(AllJobs) /\ Cardinality(AllJobs) <= JobCap
         /\ JobCap \in Nat
  <1> DEFINE A == {"parse", "recon"} \X (Row \X Tile)
             B == {"lpf"} \X Row
             f == [j \in AllJobs |-> IF j.type = "lpf" THEN <<j.type, j.row>>
                                     ELSE <<j.type, <<j.row, j.tile>>>>]
  <1>1. tileCols \in Nat \ {0} /\ SbRows \in Nat \ {0}  BY Tiles
  <1>2. /\ IsFiniteSet(Row) /\ Cardinality(Row) = SbRows
        /\ IsFiniteSet(Tile) /\ Cardinality(Tile) = tileCols
    BY <1>1, FS_Interval DEF Row, Tile
  <1>3. /\ IsFiniteSet({"parse", "recon"}) /\ Cardinality({"parse", "recon"}) = 2
        /\ IsFiniteSet({"lpf"}) /\ Cardinality({"lpf"}) = 1
    <2>1. IsFiniteSet({"parse"}) /\ Cardinality({"parse"}) = 1  BY FS_Singleton
    <2>2. {"parse", "recon"} = {"parse"} \cup {"recon"} /\ "recon" \notin {"parse"}
      OBVIOUS
    <2>3. IsFiniteSet({"parse", "recon"}) /\ Cardinality({"parse", "recon"}) = 1 + 1
      BY <2>1, <2>2, FS_AddElement
    <2> QED  BY <2>3, FS_Singleton
  <1>4. IsFiniteSet(A) /\ Cardinality(A) = 2 * (SbRows * tileCols)
    <2>1. IsFiniteSet(Row \X Tile) /\ Cardinality(Row \X Tile) = SbRows * tileCols
      BY <1>2, FS_Product
    <2> QED  BY <1>3, <2>1, FS_Product
  <1>5. IsFiniteSet(B) /\ Cardinality(B) = 1 * SbRows  BY <1>2, <1>3, FS_Product
  <1>6. f \in Injection(AllJobs, A \cup B)
    <2>1. f \in [AllJobs -> A \cup B]  BY DEF AllJobs, Jobs
    <2>2. ASSUME NEW j \in AllJobs, NEW k \in AllJobs, f[j] = f[k] PROVE j = k
      <3>1. /\ j \in Jobs /\ k \in Jobs
            /\ j.type = "lpf" => j.tile = 0
            /\ k.type = "lpf" => k.tile = 0
        BY DEF AllJobs
      <3>2. j.type = k.type /\ j.row = k.row /\ j.tile = k.tile
        <4>1. f[j] = IF j.type = "lpf" THEN <<j.type, j.row>>
                     ELSE <<j.type, <<j.row, j.tile>>>>
          OBVIOUS
        <4>2. f[k] = IF k.type = "lpf" THEN <<k.type, k.row>>
                     ELSE <<k.type, <<k.row, k.tile>>>>
          OBVIOUS
        <4> HIDE DEF f
        <4>3. f[j][1] = j.type /\ f[k][1] = k.type  BY <4>1, <4>2
        <4>4. j.type = k.type  BY <2>2, <4>3
        <4>5. CASE j.type = "lpf"
          <5>1. f[j][2] = j.row /\ f[k][2] = k.row  BY <4>1, <4>2, <4>4, <4>5
          <5> QED  BY <2>2, <3>1, <4>4, <4>5, <5>1 DEF AllJobs
        <4>6. CASE j.type # "lpf"
          <5>1. f[j][2] = <<j.row, j.tile>> /\ f[k][2] = <<k.row, k.tile>>
            BY <4>1, <4>2, <4>4, <4>6
          <5> QED  BY <2>2, <4>4, <5>1
        <4> QED  BY <4>5, <4>6
      <3> QED  BY <3>1, <3>2 DEF Jobs
    <2> QED  BY <2>1, <2>2 DEF Injection, IsInjective
  <1>7. /\ IsFiniteSet(A \cup B)
        /\ Cardinality(A \cup B) =
             2 * (SbRows * tileCols) + 1 * SbRows - Cardinality(A \cap B)
    <2> HIDE DEF A, B
    <2> QED  BY <1>4, <1>5, FS_Union
  <1>8. Cardinality(A \cap B) \in Nat
    <2> HIDE DEF A, B
    <2>1. IsFiniteSet(A \cap B)  BY <1>4, FS_Subset
    <2> QED  BY <2>1, FS_CardinalityType
  <1>9. IsFiniteSet(AllJobs) /\ Cardinality(AllJobs) <= Cardinality(A \cup B)
    <2> HIDE DEF A, B, f
    <2> QED  BY <1>6, <1>7, FS_Injection
  <1>10. SbRows * tileCols \in Nat /\ tileCols * SbRows * 2 = 2 * (SbRows * tileCols)
    BY <1>1
  <1>11. Cardinality(AllJobs) \in Nat  BY <1>9, FS_CardinalityType
  <1> HIDE DEF A, B
  <1>12. JobCap = 2 * (SbRows * tileCols) + SbRows  BY <1>10 DEF JobCap
  <1> QED  BY <1>1, <1>7, <1>8, <1>9, <1>10, <1>11, <1>12

\* The queue has room for a job that is not in it.
LEMMA Room ==
  ASSUME FrameInv, QueueInv, NEW j \in AllJobs, j \notin Queued
  PROVE  Len(jobq) < JobCap
  <1> DEFINE n == Len(jobq)
             f == [i \in 1..(n + 1) |-> IF i <= n THEN jobq[i] ELSE j]
  <1>1. n \in Nat /\ \A i \in 1..n : jobq[i] \in Jobs
    BY DEF QueueInv
  <1>2. \A i \in 1..n : jobq[i] \in AllJobs /\ jobq[i] # j
    BY <1>1 DEF QueueInv, Queued, AllJobs
  <1>3. \A i, k \in 1..n : jobq[i] = jobq[k] => i = k  BY DEF QueueInv
  <1> HIDE DEF n
  <1>4. f \in Injection(1..(n + 1), AllJobs)
    <2>1. f \in [1..(n + 1) -> AllJobs]  BY <1>1, <1>2
    <2>2. \A i, k \in 1..(n + 1) : f[i] = f[k] => i = k  BY <1>1, <1>2, <1>3
    <2> QED  BY <2>1, <2>2 DEF Injection, IsInjective
  <1>5. Cardinality(1..(n + 1)) = n + 1
    <2>1. 1 \in Int /\ n + 1 \in Int /\ ~(1 > n + 1) /\ n + 1 - 1 + 1 = n + 1  BY <1>1
    <2> QED  BY <2>1, FS_Interval
  <1> HIDE DEF f
  <1>6. n + 1 <= Cardinality(AllJobs)  BY <1>4, <1>5, JobsCounted, FS_Injection
  <1>7. Cardinality(AllJobs) \in Nat  BY JobsCounted, FS_CardinalityType
  <1>8. Cardinality(AllJobs) <= JobCap /\ JobCap \in Nat  BY JobsCounted
  <1>9. n < JobCap  BY ONLY <1>1, <1>6, <1>7, <1>8
  <1> QED  BY <1>9 DEF n

\* A job joins the queue.
LEMMA Joined ==
  ASSUME FrameInv, QueueInv, NEW j \in AllJobs, j \notin Queued, j.type = "lpf" => lfActive,
         jobq' = Append(jobq, j), read' = read, UNCHANGED frame
  PROVE  QueueInv' /\ Queued' = Queued \cup {j} /\ Taken' = Taken
  <1> DEFINE n == Len(jobq)
  <1>1. n \in Nat /\ read \in 0..n /\ j \in Jobs /\ jobq \in Seq(Jobs)
    BY DEF QueueInv, AllJobs
  <1>2. /\ jobq' \in Seq(Jobs) /\ Len(jobq') = n + 1
        /\ \A i \in 1..n : jobq'[i] = jobq[i]
        /\ jobq'[n + 1] = j
    BY <1>1
  <1>3. Queued' = Queued \cup {j}
    <2>1. Queued' = {jobq'[i] : i \in 1..(n + 1)}  BY <1>2 DEF Queued
    <2>2. 1..(n + 1) = 1..n \cup {n + 1}  BY <1>1
    <2> HIDE DEF n
    <2>3. Queued = {jobq[i] : i \in 1..n}  BY DEF Queued, n
    <2> QED  BY <1>2, <2>1, <2>2, <2>3
  <1>4. Taken' = Taken  BY <1>1, <1>2 DEF Taken
  <1>5. Jobs' = Jobs  BY DEF Jobs, Tile, frame
  <1>6. \A i, k \in 1..Len(jobq') : jobq'[i] = jobq'[k] => i = k
    <2>1. \A i, k \in 1..n : jobq[i] = jobq[k] => i = k  BY DEF QueueInv
    <2>2. \A i \in 1..n : jobq[i] # j  BY DEF Queued
    <2> HIDE DEF n
    <2> QED  BY <1>1, <1>2, <2>1, <2>2
  <1>7. \A k \in Queued' : k.type = "lpf" => k.tile = 0 /\ lfActive'
    BY <1>3 DEF QueueInv, AllJobs, frame
  <1>8. jobq' \in Seq(Jobs') /\ read' \in 0..Len(jobq')  BY <1>1, <1>2, <1>5
  <1> QED  BY <1>3, <1>4, <1>6, <1>7, <1>8 DEF QueueInv

\* The queue is left alone.
LEMMA QueueSame ==
  ASSUME QueueInv, UNCHANGED <<frame, jobq, read>>
  PROVE  QueueInv' /\ Queued' = Queued /\ Taken' = Taken
  BY DEF QueueInv, Queued, Taken, Jobs, Tile, frame

\* Jobs queued are jobs of the frame, and those taken were queued.
LEMMA QueuedJobs ==
  ASSUME QueueInv
  PROVE  Taken \subseteq Queued /\ Queued \subseteq AllJobs
  BY DEF QueueInv, Queued, Taken, AllJobs

\* A worker in a job goes on to stage g, or leaves the job.
LEMMA AtMoved ==
  ASSUME FrameInv, HandInv, NEW w \in Worker, NEW g, NEW S \in SUBSET InJob,
         stage[w] \in InJob, stage' = [stage EXCEPT ![w] = g], job' = job
  PROVE  At(S)' = (At(S) \ {job[w]}) \cup (IF g \in S THEN {job[w]} ELSE {})
  <1>1. /\ stage'[w] = g /\ \A v \in Worker : v # w => stage'[v] = stage[v]
    BY DEF FrameInv
  <1>2. \A v \in Worker : v # w /\ stage[v] \in S => job[v] # job[w]
    BY DEF HandInv
  <1>3. ASSUME NEW j PROVE j \in At(S)' <=> \E v \in Worker : stage'[v] \in S /\ job[v] = j
    BY DEF At
  <1>4. ASSUME NEW j PROVE j \in At(S) <=> \E v \in Worker : stage[v] \in S /\ job[v] = j
    BY DEF At
  <1>5. ASSUME NEW j, j # job[w] PROVE j \in At(S)' <=> j \in At(S)
    BY <1>1, <1>3, <1>4, <1>5
  <1>6. job[w] \in At(S)' <=> g \in S
    BY <1>1, <1>2, <1>3
  <1>7. CASE g \in S  BY <1>5, <1>6, <1>7
  <1>8. CASE g \notin S  BY <1>5, <1>6, <1>8
  <1> QED  BY <1>7, <1>8

\* The same, by whether S is left, kept or entered.
LEMMA AtLeft ==
  ASSUME FrameInv, HandInv, NEW w \in Worker, NEW g, NEW S \in SUBSET InJob,
         stage[w] \in InJob, stage' = [stage EXCEPT ![w] = g], job' = job, g \notin S
  PROVE  At(S)' = At(S) \ {job[w]}
  <1>1. At(S)' = (At(S) \ {job[w]}) \cup (IF g \in S THEN {job[w]} ELSE {})
    BY AtMoved
  <1> QED  BY <1>1

LEMMA AtKept ==
  ASSUME FrameInv, HandInv, NEW w \in Worker, NEW g, NEW S \in SUBSET InJob,
         stage[w] \in S, stage' = [stage EXCEPT ![w] = g], job' = job, g \in S
  PROVE  At(S)' = At(S)
  <1>1. stage[w] \in InJob  OBVIOUS
  <1>2. At(S)' = (At(S) \ {job[w]}) \cup (IF g \in S THEN {job[w]} ELSE {})
    BY <1>1, AtMoved
  <1>3. job[w] \in At(S)  BY DEF At
  <1> QED  BY <1>2, <1>3

\* What a worker in a job has in hand.
LEMMA InHand ==
  ASSUME FrameInv, QueueInv, HandInv, NEW w \in Worker, stage[w] \in InJob
  PROVE  /\ job[w] \in Taken /\ job[w] \in AllJobs
         /\ job[w] = RowJob(job[w].type, job[w].row, job[w].tile)
         /\ job[w].type \in {"parse", "recon", "lpf"}
         /\ job[w].row \in Row /\ job[w].tile \in Tile
         /\ stage[w] \in {"parse", "queueParse"} <=> job[w].type = "parse"
         /\ stage[w] \in ReconStage <=> job[w].type = "recon"
         /\ stage[w] = "lpf" <=> job[w].type = "lpf"
         /\ job[w].type = "lpf" => job[w] = LpfJob(job[w].row)
  <1>1. job[w] \in Taken /\ stage[w] \in StagesOf(job[w].type)  BY DEF HandInv
  <1>2. job[w] \in AllJobs  BY <1>1, QueuedJobs
  <1>3. job[w] \in Jobs /\ (job[w].type = "lpf" => job[w].tile = 0)  BY <1>2 DEF AllJobs
  <1>4. /\ job[w].type \in {"parse", "recon", "lpf"}
        /\ job[w].row \in Row /\ job[w].tile \in Tile
        /\ job[w] = RowJob(job[w].type, job[w].row, job[w].tile)
    BY <1>3 DEF Jobs, RowJob
  <1>5. job[w].type = "lpf" => job[w] = LpfJob(job[w].row)
    BY <1>3, <1>4 DEF LpfJob
  <1> QED  BY <1>1, <1>2, <1>4, <1>5 DEF StagesOf, ReconStage

\* A worker goes on with its job or is done with it.
LEMMA HandMoved ==
  ASSUME FrameInv, HandInv, NEW w \in Worker, NEW g,
         stage[w] \in InJob, stage' = [stage EXCEPT ![w] = g], job' = job,
         g \in StagesOf(job[w].type) \cup {"idle", "exit"}, Taken' = Taken
  PROVE  HandInv'
  <1>1. /\ stage'[w] = g /\ \A v \in Worker : v # w => stage'[v] = stage[v]
    BY DEF FrameInv
  <1>2. \A v \in Worker : stage'[v] \in InJob => stage[v] \in InJob
    BY <1>1
  <1>3. "idle" \notin InJob /\ "exit" \notin InJob  BY DEF InJob, ReconStage
  <1>4. \A v \in Worker : stage'[v] \in InJob =>
          job'[v] \in Taken' /\ stage'[v] \in StagesOf(job'[v].type)
    BY <1>1, <1>2, <1>3 DEF HandInv
  <1>5. \A u, v \in Worker :
          stage'[u] \in InJob /\ stage'[v] \in InJob /\ job'[u] = job'[v] => u = v
    BY <1>2 DEF HandInv
  <1> QED  BY <1>4, <1>5 DEF HandInv

\* As many tiles as there are, are all of them.
LEMMA TilesCounted ==
  ASSUME FrameInv, NEW P \in SUBSET Tile
  PROVE  /\ IsFiniteSet(P) /\ Cardinality(P) \in Nat /\ Cardinality(P) <= tileCols
         /\ Cardinality(P) = tileCols <=> P = Tile
  <1>1. tileCols \in Nat \ {0}  BY Tiles
  <1>2. IsFiniteSet(Tile) /\ Cardinality(Tile) = tileCols
    BY <1>1, FS_Interval DEF Tile
  <1> QED  BY <1>1, <1>2, FS_Subset, FS_CardinalityType

\* What a released filter row says of the row that releases it.
LEMMA Released ==
  ASSUME FrameInv, SoundInv, NEW r \in Row, LpfJob(r) \in Queued
  PROVE  /\ lfActive /\ Below(r) \in Row
         /\ \A t \in Tile : ReconJob(Below(r), t) \in Taken \ Unready
  <1>1. Below(r) \in Row
    <2>1. SbRows \in Nat \ {0} /\ r \in 0..(SbRows - 1)  BY Tiles DEF Row
    <2> QED  BY <2>1 DEF Below, Row, LastRow
  <1>2. rowTiles[Below(r)] = tileCols  BY DEF SoundInv, RowsInv
  <1>3. tileCols \in Nat \ {0}  BY Tiles
  <1>4. lfActive /\ rowTiles[Below(r)] = Cardinality(ReadyTiles(Below(r)))
    BY <1>1, <1>2, <1>3 DEF SoundInv, RowsInv
  <1>5. ReadyTiles(Below(r)) \in SUBSET Tile  BY DEF ReadyTiles
  <1>6. ReadyTiles(Below(r)) = Tile  BY <1>2, <1>4, <1>5, TilesCounted
  <1> QED  BY <1>1, <1>4, <1>6 DEF ReadyTiles

\* A queue terminated without a failure has been given every job of the frame.
LEMMA AllQueued ==
  ASSUME FrameInv, SoundInv, terminated,
         NEW j \in AllJobs, j.type = "lpf" => lfActive
  PROVE  j \in Queued
  <1>1. LastRow \in Row /\ \A r \in Row : r <= LastRow /\ r \in Int
    BY Tiles DEF Row, LastRow
  <1>2. Taken \subseteq Queued  BY QueuedJobs DEF SoundInv
  <1>3. ASSUME lfActive, NEW r \in Row PROVE LpfJob(r) \in Queued
    <2>1. <<LastRow, SbCols - 1>> \in filtered  BY <1>3 DEF SoundInv, EndInv, FilterInv
    <2>2. SbCols - 1 \in Col  BY Tiles DEF Col
    <2>3. r = LastRow \/ r \in 0..(LastRow - 1)  BY <1>1 DEF Row
    <2>4. <<r, SbCols - 1>> \in filtered
      BY <1>1, <2>1, <2>2, <2>3 DEF SoundInv, FilterInv
    <2>5. LpfJob(r) \in Taken  BY <2>2, <2>4 DEF SoundInv, FilterInv
    <2> QED  BY <1>2, <2>5
  <1>4. ASSUME NEW t \in Tile PROVE ReconJob(LastRow, t) \in Queued
    <2>1. CASE lfActive
      <3>1. Below(LastRow) = LastRow  BY <1>1 DEF Below
      <3>2. LpfJob(LastRow) \in Queued  BY <1>1, <1>3, <2>1
      <3>3. ReconJob(LastRow, t) \in Taken  BY <1>1, <3>1, <3>2, Released
      <3> QED  BY <1>2, <3>3
    <2>2. CASE ~lfActive
      <3> DEFINE P == {u \in Tile : ReconJob(LastRow, u) \in Finished}
      <3>1. Cardinality(P) = tileCols  BY <2>2 DEF SoundInv, EndInv, DoneInv
      <3>2. P = Tile  BY <3>1, TilesCounted
      <3>3. ReconJob(LastRow, t) \in Taken  BY <3>2 DEF Finished
      <3> QED  BY <1>2, <3>3
    <2> QED  BY <2>1, <2>2
  <1>5. ASSUME NEW t \in Tile, NEW r \in Row
        PROVE  ParseJob(r, t) \in Queued /\ ReconJob(r, t) \in Queued
    <2>1. ParseJob(LastRow, t) \in Taken  BY <1>1, <1>4 DEF SoundInv, ParseInv
    <2>2. CASE r = LastRow  BY <1>2, <1>4, <2>1, <2>2
    <2>3. CASE r # LastRow
      <3>1. r \in 0..(LastRow - 1)  BY <1>1, <2>3 DEF Row
      <3>2. ParseJob(r, t) \in Finished
        BY <1>1, <1>2, <2>1, <3>1 DEF SoundInv, ParseInv
      <3>3. At({"parse"}) \subseteq At(InJob)  BY DEF At, InJob
      <3>4. ParseJob(r, t) \in Taken \ At({"parse"})  BY <3>2, <3>3 DEF Finished
      <3>5. ReconJob(r, t) \in Queued  BY <3>4 DEF SoundInv, ParseInv
      <3> QED  BY <1>2, <3>4, <3>5
    <2> QED  BY <2>2, <2>3
  <1>6. /\ j.type \in {"parse", "recon", "lpf"} /\ j.row \in Row /\ j.tile \in Tile
        /\ j = RowJob(j.type, j.row, j.tile)
        /\ j.type = "lpf" => j.tile = 0
    BY DEF AllJobs, Jobs, RowJob
  <1>7. CASE j.type = "parse"
    <2>1. j = ParseJob(j.row, j.tile)  BY <1>6, <1>7 DEF ParseJob
    <2> QED  BY <1>5, <1>6, <2>1
  <1>8. CASE j.type = "recon"
    <2>1. j = ReconJob(j.row, j.tile)  BY <1>6, <1>8 DEF ReconJob
    <2> QED  BY <1>5, <1>6, <2>1
  <1>9. CASE j.type = "lpf"
    <2>1. j = LpfJob(j.row)  BY <1>6, <1>9 DEF LpfJob
    <2> QED  BY <1>3, <1>6, <1>9, <2>1
  <1> QED  BY <1>6, <1>7, <1>8, <1>9

\* So a job that is not yet queued can be.
LEMMA NotRefused ==
  ASSUME FrameInv, SoundInv, NEW j \in AllJobs, j.type = "lpf" => lfActive, j \notin Queued
  PROVE  CanQueue
  <1>1. ~terminated  BY AllQueued
  <1>2. Len(jobq) < JobCap  BY Room DEF SoundInv
  <1> QED  BY <1>1, <1>2 DEF CanQueue

\* The jobs that workers queue are not yet queued.
LEMMA NewJobs ==
  ASSUME FrameInv, SoundInv, NEW w \in Worker
  PROVE  /\ stage[w] = "parse" =>
              LET j == [job[w] EXCEPT !.type = "recon"] IN
              j = ReconJob(job[w].row, job[w].tile) /\ j \in AllJobs /\ j \notin Queued
         /\ stage[w] = "queueParse" =>
              LET j == [job[w] EXCEPT !.row = @ + 1] IN
              j = ParseJob(job[w].row + 1, job[w].tile) /\ j \in AllJobs /\ j \notin Queued
         /\ stage[w] = "queueLpfAbove" =>
              LET j == RowJob("lpf", job[w].row - 1, 0) IN
              j = LpfJob(job[w].row - 1) /\ j \in AllJobs /\ j \notin Queued /\ lfActive
         /\ stage[w] = "queueLpfLast" =>
              LET j == RowJob("lpf", job[w].row, 0) IN
              j = LpfJob(LastRow) /\ j \in AllJobs /\ j \notin Queued /\ lfActive
  <1> DEFINE r == job[w].row
             t == job[w].tile
  <1>1. LastRow \in Row /\ LastRow \in Int /\ \A q \in Row : q <= LastRow /\ q \in Nat
    BY Tiles DEF Row, LastRow
  <1>2. 0 \in Tile  BY Tiles DEF Tile
  <1>3. ASSUME stage[w] \in {"parse", "queueParse"}
        PROVE  r \in Row /\ t \in Tile /\ job[w] = ParseJob(r, t)
    <2>1. stage[w] \in InJob  BY <1>3 DEF InJob
    <2> QED  BY <1>3, <2>1, InHand DEF SoundInv, ParseJob
  <1>4. ASSUME stage[w] \in {"queueLpfAbove", "queueLpfLast"} PROVE r \in Row
    <2>1. stage[w] \in InJob  BY <1>4 DEF InJob, ReconStage
    <2> QED  BY <2>1, InHand DEF SoundInv
  <1>5. ASSUME stage[w] = "parse"
        PROVE  /\ [job[w] EXCEPT !.type = "recon"] = ReconJob(r, t)
               /\ ReconJob(r, t) \in AllJobs /\ ReconJob(r, t) \notin Queued
    <2>1. r \in Row /\ t \in Tile /\ job[w] = ParseJob(r, t)  BY <1>3, <1>5
    <2>2. job[w] \in At({"parse"})  BY <1>5 DEF At
    <2>3. [job[w] EXCEPT !.type = "recon"] = ReconJob(r, t)
      BY <2>1 DEF ParseJob, ReconJob, RowJob
    <2>4. ReconJob(r, t) \in AllJobs  BY <2>1 DEF ReconJob, RowJob, AllJobs, Jobs
    <2>5. ReconJob(r, t) \notin Queued
      BY <2>1, <2>2 DEF SoundInv, ParseInv
    <2> QED  BY <2>3, <2>4, <2>5
  <1>6. ASSUME stage[w] = "queueParse"
        PROVE  /\ [job[w] EXCEPT !.row = @ + 1] = ParseJob(r + 1, t)
               /\ ParseJob(r + 1, t) \in AllJobs /\ ParseJob(r + 1, t) \notin Queued
    <2>1. r \in Row /\ t \in Tile /\ job[w] = ParseJob(r, t)  BY <1>3, <1>6
    <2>2. r < LastRow  BY <1>6 DEF SoundInv, ParseInv
    <2>3. r + 1 \in Row /\ r \in 0..(r + 1 - 1)
      BY <1>1, <2>1, <2>2, Tiles DEF Row, LastRow
    <2>4. ParseJob(r, t) \notin Finished
      BY <1>6, <2>1 DEF Finished, At, InJob
    <2>5. [job[w] EXCEPT !.row = @ + 1] = ParseJob(r + 1, t)
      BY <2>1 DEF ParseJob, RowJob
    <2>6. ParseJob(r + 1, t) \in AllJobs
      BY <2>1, <2>3 DEF ParseJob, RowJob, AllJobs, Jobs
    <2>7. ParseJob(r + 1, t) \notin Queued
      BY <2>1, <2>3, <2>4 DEF SoundInv, ParseInv
    <2> QED  BY <2>5, <2>6, <2>7
  <1>7. ASSUME stage[w] = "queueLpfAbove"
        PROVE  LpfJob(r - 1) \in AllJobs /\ LpfJob(r - 1) \notin Queued /\ lfActive
    <2>1. r \in Row /\ r > 0 /\ lfActive  BY <1>4, <1>7 DEF SoundInv, RowsInv
    <2>2. r - 1 \in Row /\ Below(r - 1) = r
      BY <1>1, <2>1 DEF Row, Below, LastRow
    <2>3. Owes(w, r - 1)  BY <1>7, <2>2 DEF Owes
    <2>4. LpfJob(r - 1) \notin Queued  BY <2>2, <2>3 DEF SoundInv, RowsInv
    <2>5. LpfJob(r - 1) \in AllJobs
      BY <1>2, <2>2 DEF LpfJob, RowJob, AllJobs, Jobs
    <2> QED  BY <2>1, <2>4, <2>5
  <1>8. ASSUME stage[w] = "queueLpfLast"
        PROVE  /\ r = LastRow /\ LpfJob(LastRow) \in AllJobs
               /\ LpfJob(LastRow) \notin Queued /\ lfActive
    <2>1. r = LastRow /\ lfActive  BY <1>8 DEF SoundInv, RowsInv
    <2>2. Owes(w, LastRow)  BY <1>8 DEF Owes
    <2>3. LpfJob(LastRow) \notin Queued  BY <1>1, <2>2 DEF SoundInv, RowsInv
    <2>4. LpfJob(LastRow) \in AllJobs
      BY <1>1, <1>2 DEF LpfJob, RowJob, AllJobs, Jobs
    <2> QED  BY <2>1, <2>3, <2>4
  <1> QED  BY <1>5, <1>6, <1>7, <1>8 DEF LpfJob

-----------------------------------------------------------------------------
(* What a step does to the queue and to the workers' hands.                *)

\* A worker goes on to stage g or is done with its job, and queues the jobs N.
Moves(w, g, N) ==
  /\ w \in Worker /\ stage[w] \in InJob
  /\ g \in StagesOf(job[w].type) \cup {"idle"}
  /\ stage' = [stage EXCEPT ![w] = g]
  /\ job' = job
  /\ col' \in [Worker -> Int] /\ \A v \in Worker : v # w => col'[v] = col[v]
  /\ err' = err
  /\ UNCHANGED frame
  /\ Queued' = Queued \cup N /\ Taken' = Taken

\* A worker that fails is one that has failed.
LEMMA FailShows ==
  ASSUME FrameInv, NEW w \in Worker, NEW from, Fail(w, from)
  PROVE  ~NobodyFailed'
  BY DEF FrameInv, Fail, NobodyFailed

\* A step that queues a job that is not yet queued.
LEMMA QueueStep ==
  ASSUME FrameInv, SoundInv, NobodyFailed', NEW w \in Worker,
         NEW j \in AllJobs, j.type = "lpf" => lfActive, j \notin Queued,
         NEW from \in InJob, NEW to,
         to \in StagesOf(job[w].type) \cup {"idle"},
         QueueOrFail(w, j, from, to), UNCHANGED <<frame, read, job, col>>
  PROVE  /\ Moves(w, to, {j}) /\ stage[w] = from
         /\ QueueInv' /\ HandInv'
         /\ ~terminated /\ terminated' = FALSE
  <1>1. CanQueue  BY NotRefused
  <1>2. jobq' = Append(jobq, j) /\ stage[w] = from /\ stage' = [stage EXCEPT ![w] = to]
        /\ UNCHANGED <<terminated, err>>
    BY <1>1 DEF QueueOrFail, MoveTo
  <1>3. QueueInv' /\ Queued' = Queued \cup {j} /\ Taken' = Taken
    BY <1>2, Joined DEF SoundInv
  <1>4. HandInv'
    <2>1. to \in StagesOf(job[w].type) \cup {"idle", "exit"}  OBVIOUS
    <2> QED  BY <1>2, <1>3, <2>1, HandMoved DEF SoundInv
  <1>5. terminated = FALSE  BY <1>1 DEF CanQueue, SoundInv, EndInv
  <1> QED  BY <1>2, <1>3, <1>4, <1>5 DEF Moves, FrameInv

\* A step that leaves the queue alone.
LEMMA PlainStep ==
  ASSUME FrameInv, SoundInv, NEW w \in Worker, NEW g,
         stage[w] \in InJob, stage' = [stage EXCEPT ![w] = g],
         g \in StagesOf(job[w].type) \cup {"idle"},
         UNCHANGED <<frame, jobq, read, job, err>>,
         col' \in [Worker -> Int], \A v \in Worker : v # w => col'[v] = col[v]
  PROVE  Moves(w, g, {}) /\ QueueInv' /\ HandInv'
  <1>1. QueueInv' /\ Queued' = Queued /\ Taken' = Taken  BY QueueSame DEF SoundInv
  <1>2. g \in StagesOf(job[w].type) \cup {"idle", "exit"}  OBVIOUS
  <1>3. HandInv'  BY <1>1, <1>2, HandMoved DEF SoundInv
  <1> QED  BY <1>1, <1>3 DEF Moves

\* A job is taken from the queue.
LEMMA TakeStep ==
  ASSUME FrameInv, SoundInv, NEW w \in Worker, Dequeue(w)
  PROVE  LET j == jobq[read + 1] IN
         /\ j \in Queued /\ j \notin Taken /\ j \in AllJobs
         /\ QueueInv' /\ HandInv'
         /\ Queued' = Queued /\ Taken' = Taken \cup {j}
         /\ stage[w] = "idle" /\ stage'[w] = j.type /\ job'[w] = j
         /\ stage' \in [Worker -> InJob \cup {"idle", "exit"}]
         /\ \A v \in Worker : v # w =>
              stage'[v] = stage[v] /\ job'[v] = job[v] /\ col'[v] = col[v]
         /\ \A S \in SUBSET InJob :
              At(S)' = At(S) \cup (IF j.type \in S THEN {j} ELSE {})
  <1> DEFINE j == jobq[read + 1]
  <1>1. /\ read < Len(jobq) /\ stage[w] = "idle" /\ stage' = [stage EXCEPT ![w] = j.type]
        /\ read' = read + 1 /\ job' = [job EXCEPT ![w] = j]
        /\ col' = [col EXCEPT ![w] = IF j.type = "recon" THEN FirstCol(j.tile) ELSE 0]
        /\ jobq' = jobq /\ UNCHANGED frame
    BY DEF Dequeue, MoveTo
  <1>2. /\ read \in Nat /\ Len(jobq) \in Nat /\ jobq \in Seq(Jobs)
        /\ read + 1 \in 1..Len(jobq)
    BY <1>1 DEF SoundInv, QueueInv
  <1>3. j \in Queued /\ j \in AllJobs
    BY <1>2, QueuedJobs DEF Queued, SoundInv
  <1>4. j \notin Taken
    BY <1>2 DEF Taken, SoundInv, QueueInv
  <1>5. Queued' = Queued  BY <1>1 DEF Queued
  <1>6. Taken' = Taken \cup {j}
    <2>1. 1..(read + 1) = 1..read \cup {read + 1}  BY <1>2
    <2> QED  BY <1>1, <2>1 DEF Taken
  <1>7. QueueInv'
    <2>1. read' \in 0..Len(jobq') /\ Jobs' = Jobs
      BY <1>1, <1>2 DEF Jobs, Tile, frame
    <2> QED  BY <1>1, <1>2, <1>5, <2>1 DEF SoundInv, QueueInv, frame
  <1>8. j.type \in {"parse", "recon", "lpf"}  BY <1>3 DEF AllJobs, Jobs
  <1>9. /\ stage'[w] = j.type /\ job'[w] = j
        /\ stage' \in [Worker -> InJob \cup {"idle", "exit"}]
        /\ \A v \in Worker : v # w =>
             stage'[v] = stage[v] /\ job'[v] = job[v] /\ col'[v] = col[v]
    BY <1>1, <1>8 DEF FrameInv, InJob, ReconStage
  <1>10. "idle" \notin InJob  BY DEF InJob, ReconStage
  <1>11. HandInv'
    <2> HIDE DEF j
    <2>1. \A v \in Worker : stage[v] \in InJob => job[v] # j
      BY <1>4 DEF SoundInv, HandInv
    <2>2. j.type \in StagesOf(j.type)  BY <1>8 DEF StagesOf, ReconStage
    <2>3. \A v \in Worker : stage'[v] \in InJob =>
            job'[v] \in Taken' /\ stage'[v] \in StagesOf(job'[v].type)
      BY <1>6, <1>9, <2>2 DEF SoundInv, HandInv
    <2>4. \A u, v \in Worker :
            stage'[u] \in InJob /\ stage'[v] \in InJob /\ job'[u] = job'[v] => u = v
      BY <1>9, <2>1 DEF SoundInv, HandInv
    <2> QED  BY <2>3, <2>4 DEF HandInv
  <1>12. ASSUME NEW S \in SUBSET InJob
         PROVE  At(S)' = At(S) \cup (IF j.type \in S THEN {j} ELSE {})
    <2> HIDE DEF j
    <2>1. ASSUME NEW k PROVE k \in At(S)' <=> \E v \in Worker : stage'[v] \in S /\ job'[v] = k
      BY DEF At
    <2>2. ASSUME NEW k PROVE k \in At(S) <=> \E v \in Worker : stage[v] \in S /\ job[v] = k
      BY DEF At
    <2>3. stage[w] \notin S  BY <1>1, <1>10
    <2>4. ASSUME NEW k
          PROVE  k \in At(S)' <=> k \in At(S) \/ (k = j /\ j.type \in S)
      BY <1>9, <2>1, <2>2, <2>3
    <2>5. CASE j.type \in S  BY <2>4, <2>5
    <2>6. CASE j.type \notin S  BY <2>4, <2>6
    <2> QED  BY <2>5, <2>6
  <1> QED  BY <1>1, <1>3, <1>4, <1>5, <1>6, <1>7, <1>9, <1>11, <1>12

-----------------------------------------------------------------------------
(* Parsing.                                                                *)

\* The jobs of different kinds and places differ.
LEMMA JobsDiffer ==
  /\ \A r, t, q, u : ParseJob(r, t) = ParseJob(q, u) <=> r = q /\ t = u
  /\ \A r, t, q, u : ReconJob(r, t) = ReconJob(q, u) <=> r = q /\ t = u
  /\ \A r, q : LpfJob(r) = LpfJob(q) <=> r = q
  /\ \A r, t, q, u : ParseJob(r, t) # ReconJob(q, u)
  /\ \A r, t, q : ParseJob(r, t) # LpfJob(q) /\ ReconJob(r, t) # LpfJob(q)
  /\ \A r, t : ParseJob(r, t).type = "parse" /\ ReconJob(r, t).type = "recon"
  /\ \A r : LpfJob(r).type = "lpf"
  BY DEF ParseJob, ReconJob, LpfJob, RowJob

\* Steps of other jobs leave parsing alone.
LEMMA ParseKept ==
  ASSUME FrameInv, SoundInv, NEW w, NEW g, NEW N, Moves(w, g, N),
         job[w].type # "parse", \A j \in N : j.type = "lpf"
  PROVE  ParseInv'
  <1>1. /\ w \in Worker /\ stage[w] \in InJob /\ stage' = [stage EXCEPT ![w] = g]
        /\ job' = job /\ UNCHANGED frame /\ Queued' = Queued \cup N /\ Taken' = Taken
    BY DEF Moves
  <1>2. g \notin {"parse", "queueParse"}
    BY InHand DEF Moves, StagesOf, ReconStage, SoundInv
  <1>3. At({"parse"})' = At({"parse"}) \ {job[w]}
    <2>1. {"parse"} \in SUBSET InJob /\ g \notin {"parse"}  BY <1>2 DEF InJob
    <2> QED  BY <1>1, <2>1, AtLeft DEF SoundInv
  <1>4. At(InJob)' = (At(InJob) \ {job[w]}) \cup (IF g \in InJob THEN {job[w]} ELSE {})
    BY <1>1, AtMoved DEF SoundInv
  <1>5. ASSUME NEW j, j.type = "parse"
        PROVE  /\ j \in Queued' <=> j \in Queued
               /\ j \in Taken' <=> j \in Taken
               /\ j \in At({"parse"})' <=> j \in At({"parse"})
               /\ j \in Finished' <=> j \in Finished
    <2>1. j # job[w] /\ j \notin N  BY <1>5
    <2> QED  BY <1>1, <1>3, <1>4, <2>1 DEF Finished
  <1>6. ASSUME NEW j, j.type = "recon" PROVE j \in Queued' <=> j \in Queued
    <2>1. j \notin N  BY <1>6
    <2> QED  BY <1>1, <2>1
  <1>7. \A r, t : ParseJob(r, t).type = "parse" /\ ReconJob(r, t).type = "recon"
    BY JobsDiffer
  <1>8. Tile' = Tile  BY <1>1 DEF Tile, frame
  <1>9. \A v \in Worker : stage'[v] = "queueParse" => stage[v] = "queueParse"
    BY <1>1, <1>2 DEF FrameInv
  <1>10. ParseInv  BY DEF SoundInv
  <1> QED  BY <1>1, <1>5, <1>6, <1>7, <1>8, <1>9, <1>10 DEF ParseInv

\* A row has been parsed.
LEMMA ParseParsed ==
  ASSUME FrameInv, SoundInv, NEW w, NEW g,
         Moves(w, g, {ReconJob(job[w].row, job[w].tile)}), stage[w] = "parse",
         g = IF job[w].row < LastRow THEN "queueParse" ELSE "idle"
  PROVE  ParseInv'
  <1> DEFINE r == job[w].row
             t == job[w].tile
  <1>1. /\ w \in Worker /\ stage[w] \in InJob /\ stage' = [stage EXCEPT ![w] = g]
        /\ job' = job /\ UNCHANGED frame /\ Queued' = Queued \cup {ReconJob(r, t)}
        /\ Taken' = Taken
    BY DEF Moves
  <1>2. job[w] = ParseJob(r, t) /\ r \in Row /\ t \in Tile /\ job[w] \in Taken
    BY <1>1, InHand DEF ParseJob, SoundInv
  <1>3. At({"parse"})' = At({"parse"}) \ {job[w]}
    <2>1. {"parse"} \in SUBSET InJob /\ g \notin {"parse"}  BY DEF InJob
    <2> QED  BY <1>1, <2>1, AtLeft DEF SoundInv
  <1>4. At(InJob)' = IF r < LastRow THEN At(InJob) ELSE At(InJob) \ {job[w]}
    <2>1. At(InJob)' = (At(InJob) \ {job[w]}) \cup (IF g \in InJob THEN {job[w]} ELSE {})
      BY <1>1, AtMoved DEF SoundInv
    <2>2. job[w] \in At(InJob)  BY <1>1 DEF At
    <2>3. g \in InJob <=> r < LastRow  BY DEF InJob, ReconStage
    <2> QED  BY <2>1, <2>2, <2>3
  <1>5. Tile' = Tile  BY <1>1 DEF Tile, frame
  <1>6. ParseInv  BY DEF SoundInv
  <1>7. \A v \in Worker : stage'[v] = "queueParse" => job'[v].row < LastRow
    BY <1>1, <1>6 DEF FrameInv, ParseInv
  <1>8. Finished \subseteq Finished' /\ Finished' \subseteq Finished \cup {job[w]}
    BY <1>1, <1>4 DEF Finished
  <1>9. job[w] \in Finished' => r = LastRow
    <2>1. r <= LastRow /\ r \in Int /\ LastRow \in Int  BY <1>2, Tiles DEF Row, LastRow
    <2>2. job[w] \in At(InJob)  BY <1>1 DEF At
    <2> QED  BY <1>4, <2>1, <2>2 DEF Finished
  <1> HIDE DEF r, t
  <1>10. ASSUME NEW u \in Tile, NEW q \in Row
         PROVE  /\ ParseJob(q, u) \in Queued' <=> ParseJob(q, u) \in Queued
                /\ ReconJob(q, u) \in Queued' <=>
                     ReconJob(q, u) \in Queued \/ (q = r /\ u = t)
                /\ ParseJob(q, u) \in Taken' \ At({"parse"})' <=>
                     ParseJob(q, u) \in Taken \ At({"parse"}) \/ (q = r /\ u = t)
    BY <1>1, <1>2, <1>3, JobsDiffer
  <1>11. ASSUME NEW u \in Tile
         PROVE  /\ ParseJob(0, u) \in Queued'
                /\ \A q \in Row :
                     /\ ParseJob(q, u) \in Queued' =>
                          \A p \in 0..(q - 1) : ParseJob(p, u) \in Finished'
                     /\ ReconJob(q, u) \in Queued' <=>
                          ParseJob(q, u) \in Taken' \ At({"parse"})'
                     /\ q < LastRow /\ ParseJob(q, u) \in Finished' =>
                          ParseJob(q + 1, u) \in Queued'
    <2>1. ParseJob(0, u) \in Queued'  BY <1>1, <1>6 DEF ParseInv
    <2>2. ASSUME NEW q \in Row, q < LastRow, ParseJob(q, u) \in Finished'
          PROVE  ParseJob(q + 1, u) \in Queued'
      <3>1. ParseJob(q, u) \in Finished
        <4>1. CASE ParseJob(q, u) = job[w]
          <5>1. q = r  BY <1>2, <4>1, JobsDiffer
          <5>2. r \in Int /\ LastRow \in Int  BY <1>2, Tiles DEF Row, LastRow
          <5> QED  BY <1>9, <2>2, <4>1, <5>1, <5>2
        <4>2. CASE ParseJob(q, u) # job[w]  BY <1>8, <2>2, <4>2
        <4> QED  BY <4>1, <4>2
      <3> QED  BY <1>1, <1>6, <2>2, <3>1 DEF ParseInv
    <2>3. ASSUME NEW q \in Row
          PROVE  /\ ParseJob(q, u) \in Queued' =>
                      \A p \in 0..(q - 1) : ParseJob(p, u) \in Finished'
                 /\ ReconJob(q, u) \in Queued' <=>
                      ParseJob(q, u) \in Taken' \ At({"parse"})'
      BY <1>6, <1>8, <1>10 DEF ParseInv
    <2> QED  BY <2>1, <2>2, <2>3
  <1> QED  BY <1>5, <1>7, <1>11 DEF ParseInv

\* The next row's parsing has been queued.
LEMMA ParseNext ==
  ASSUME FrameInv, SoundInv, NEW w,
         Moves(w, "idle", {ParseJob(job[w].row + 1, job[w].tile)}),
         stage[w] = "queueParse"
  PROVE  ParseInv'
  <1> DEFINE r == job[w].row
             t == job[w].tile
  <1>1. /\ w \in Worker /\ stage[w] \in InJob /\ stage' = [stage EXCEPT ![w] = "idle"]
        /\ job' = job /\ UNCHANGED frame /\ Queued' = Queued \cup {ParseJob(r + 1, t)}
        /\ Taken' = Taken
    BY DEF Moves
  <1>2. job[w] = ParseJob(r, t) /\ r \in Row /\ t \in Tile /\ job[w] \in Taken
    BY <1>1, InHand DEF ParseJob, SoundInv
  <1>3. At({"parse"})' = At({"parse"})
    <2>1. At({"parse"})' = At({"parse"}) \ {job[w]}
      <3>1. {"parse"} \in SUBSET InJob /\ "idle" \notin {"parse"}  BY DEF InJob
      <3> QED  BY <1>1, <3>1, AtLeft DEF SoundInv
    <2>2. job[w] \notin At({"parse"})
      BY <1>1 DEF SoundInv, HandInv, At, InJob
    <2> QED  BY <2>1, <2>2
  <1>4. At(InJob)' = At(InJob) \ {job[w]}
    <2>1. "idle" \notin InJob  BY DEF InJob, ReconStage
    <2> QED  BY <1>1, <2>1, AtLeft DEF SoundInv
  <1>5. Tile' = Tile  BY <1>1 DEF Tile, frame
  <1>6. ParseInv  BY DEF SoundInv
  <1>7. \A v \in Worker : stage'[v] = "queueParse" => job'[v].row < LastRow
    BY <1>1, <1>6 DEF FrameInv, ParseInv
  <1>8. Finished' = Finished \cup {job[w]}
    BY <1>1, <1>2, <1>4 DEF Finished
  <1>9. r \in Nat /\ \A q \in Row : q \in Nat  BY <1>2, Tiles DEF Row
  <1>10. ParseJob(r, t) \in Queued  BY <1>2, QueuedJobs DEF SoundInv
  <1> HIDE DEF r, t
  <1>11. ASSUME NEW u \in Tile
         PROVE  /\ ParseJob(0, u) \in Queued'
                /\ \A q \in Row :
                     /\ ParseJob(q, u) \in Queued' =>
                          \A p \in 0..(q - 1) : ParseJob(p, u) \in Finished'
                     /\ ReconJob(q, u) \in Queued' <=>
                          ParseJob(q, u) \in Taken' \ At({"parse"})'
                     /\ q < LastRow /\ ParseJob(q, u) \in Finished' =>
                          ParseJob(q + 1, u) \in Queued'
    <2>1. ParseJob(0, u) \in Queued'  BY <1>1, <1>6 DEF ParseInv
    <2>2. ASSUME NEW q \in Row, q < LastRow, ParseJob(q, u) \in Finished'
          PROVE  ParseJob(q + 1, u) \in Queued'
      <3>1. CASE ParseJob(q, u) = job[w]
        <4>1. q = r /\ u = t  BY <1>2, <3>1, JobsDiffer
        <4> QED  BY <1>1, <4>1
      <3>2. CASE ParseJob(q, u) # job[w]
        <4>1. ParseJob(q, u) \in Finished  BY <1>8, <2>2, <3>2
        <4> QED  BY <1>1, <1>6, <2>2, <4>1 DEF ParseInv
      <3> QED  BY <3>1, <3>2
    <2>3. ASSUME NEW q \in Row, ParseJob(q, u) \in Queued', NEW p \in 0..(q - 1)
          PROVE  ParseJob(p, u) \in Finished'
      <3>1. CASE ParseJob(q, u) \in Queued
        BY <1>6, <1>8, <2>3, <3>1 DEF ParseInv
      <3>2. CASE ParseJob(q, u) \notin Queued
        <4>1. ParseJob(q, u) = ParseJob(r + 1, t)  BY <1>1, <2>3, <3>2
        <4>2. q = r + 1 /\ u = t  BY <4>1, JobsDiffer
        <4>3. p = r \/ p \in 0..(r - 1)  BY <1>9, <4>2
        <4> QED  BY <1>2, <1>6, <1>8, <1>10, <4>2, <4>3 DEF ParseInv
      <3> QED  BY <3>1, <3>2
    <2>4. ASSUME NEW q \in Row
          PROVE  ReconJob(q, u) \in Queued' <=> ParseJob(q, u) \in Taken' \ At({"parse"})'
      BY <1>1, <1>3, <1>6, JobsDiffer DEF ParseInv
    <2> QED  BY <2>1, <2>2, <2>3, <2>4
  <1> QED  BY <1>5, <1>7, <1>11 DEF ParseInv

\* A job taken is in hand, and no row is finished by that.
LEMMA TakeFinished ==
  ASSUME FrameInv, SoundInv, NEW w \in Worker, Dequeue(w)
  PROVE  Finished' = Finished
  <1> DEFINE j == jobq[read + 1]
  <1>1. /\ j \notin Taken /\ Taken' = Taken \cup {j} /\ j \in AllJobs
        /\ At(InJob)' = At(InJob) \cup (IF j.type \in InJob THEN {j} ELSE {})
    BY TakeStep
  <1>2. j.type \in InJob  BY <1>1 DEF AllJobs, Jobs, InJob, ReconStage
  <1> QED  BY <1>1, <1>2 DEF Finished

LEMMA ParseTake ==
  ASSUME FrameInv, SoundInv, NEW w \in Worker, Dequeue(w)
  PROVE  ParseInv'
  <1> DEFINE j == jobq[read + 1]
  <1>1. /\ j \in Queued /\ j \notin Taken /\ j \in AllJobs
        /\ Queued' = Queued /\ Taken' = Taken \cup {j}
        /\ stage[w] = "idle" /\ stage'[w] = j.type /\ job'[w] = j
        /\ \A v \in Worker : v # w => stage'[v] = stage[v] /\ job'[v] = job[v]
    BY TakeStep
  <1>2. At({"parse"})' = At({"parse"}) \cup (IF j.type \in {"parse"} THEN {j} ELSE {})
    BY TakeStep DEF InJob
  <1>3. UNCHANGED frame  BY DEF Dequeue
  <1>4. Tile' = Tile  BY <1>3 DEF Tile, frame
  <1>5. j.type \in {"parse", "recon", "lpf"}  BY <1>1 DEF AllJobs, Jobs
  <1>6. Finished' = Finished  BY TakeFinished
  <1>7. ParseInv  BY DEF SoundInv
  <1> HIDE DEF j
  <1>8. \A v \in Worker : stage'[v] = "queueParse" => job'[v].row < LastRow
    BY <1>1, <1>5, <1>7 DEF ParseInv
  <1>9. \A r, t : ParseJob(r, t) \in Taken' \ At({"parse"})'
                    <=> ParseJob(r, t) \in Taken \ At({"parse"})
    <2>1. \A r, t : ParseJob(r, t).type = "parse"  BY JobsDiffer
    <2>2. j \notin At({"parse"})
      <3>1. \A v \in Worker : stage[v] = "parse" => job[v] \in Taken
        BY DEF SoundInv, HandInv, InJob
      <3> QED  BY <1>1, <3>1 DEF At
    <2> QED  BY <1>1, <1>2, <2>1, <2>2
  <1> QED  BY <1>1, <1>4, <1>6, <1>7, <1>8, <1>9 DEF ParseInv

-----------------------------------------------------------------------------
(* Rows of tiles that are through, and the filter jobs they release.       *)

\* The tiles of a frame stay.
LEMMA TilesStay ==
  ASSUME UNCHANGED frame
  PROVE  /\ Tile' = Tile /\ tileCols' = tileCols /\ lfActive' = lfActive
         /\ \A t : LastCol(t)' = LastCol(t) /\ FirstCol(t)' = FirstCol(t)
                   /\ Cols(t)' = Cols(t)
  BY DEF frame, Tile, LastCol, FirstCol, Cols

LpfStage == {"queueLpfAbove", "queueLpfLast"}

\* A job is unready while its worker is before tileRowDone.
LEMMA UnreadyJob ==
  ASSUME FrameInv, SoundInv, NEW w \in Worker, stage[w] \in InJob
  PROVE  job[w] \in Unready <=> BeforeRowDone(w)
  <1>1. \A v \in Worker : BeforeRowDone(v) => stage[v] \in InJob
    BY DEF BeforeRowDone, InJob, ReconStage
  <1>2. \A v \in Worker : BeforeRowDone(v) /\ job[v] = job[w] => v = w
    BY <1>1 DEF SoundInv, HandInv
  <1> QED  BY <1>2 DEF Unready

LEMMA UnreadyMoved ==
  ASSUME FrameInv, SoundInv, NEW w, NEW g, NEW N, Moves(w, g, N)
  PROVE  \A j : j \in Unready' <=> IF j = job[w] THEN BeforeRowDone(w)' ELSE j \in Unready
  <1>1. /\ w \in Worker /\ stage[w] \in InJob /\ stage' = [stage EXCEPT ![w] = g]
        /\ job' = job /\ \A v \in Worker : v # w => col'[v] = col[v]
        /\ tileCols' = tileCols
    BY DEF Moves, frame
  <1>2. \A v \in Worker : v # w => stage'[v] = stage[v]  BY <1>1 DEF FrameInv
  <1>3. \A v \in Worker : v # w => (BeforeRowDone(v)' <=> BeforeRowDone(v))
    BY <1>1, <1>2 DEF BeforeRowDone, LastCol, FirstCol
  <1>4. \A v \in Worker : BeforeRowDone(v) => stage[v] \in InJob
    BY DEF BeforeRowDone, InJob, ReconStage
  <1>5. \A v \in Worker : v # w /\ BeforeRowDone(v) => job[v] # job[w]
    BY <1>1, <1>4 DEF SoundInv, HandInv
  <1>6. ASSUME NEW j
        PROVE  /\ j \in Unready' <=> \E v \in Worker : BeforeRowDone(v)' /\ job[v] = j
               /\ j \in Unready <=> \E v \in Worker : BeforeRowDone(v) /\ job[v] = j
    BY <1>1 DEF Unready
  <1>7. ASSUME NEW j, j # job[w] PROVE j \in Unready' <=> j \in Unready
    BY <1>1, <1>3, <1>6, <1>7
  <1>8. job[w] \in Unready' <=> BeforeRowDone(w)'
    BY <1>1, <1>3, <1>5, <1>6
  <1> QED  BY <1>7, <1>8

\* Steps that neither count a tile nor release a filter job leave both alone.
LEMMA RowsKept ==
  ASSUME FrameInv, SoundInv, NEW w, NEW g, NEW N, Moves(w, g, N),
         stage[w] \notin LpfStage, g \notin LpfStage,
         \A j \in N : j.type # "lpf", rowTiles' = rowTiles,
         lfActive => (BeforeRowDone(w)' <=> BeforeRowDone(w))
  PROVE  RowsInv'
  <1>1. /\ w \in Worker /\ stage[w] \in InJob /\ stage' = [stage EXCEPT ![w] = g]
        /\ job' = job /\ UNCHANGED frame /\ Queued' = Queued \cup N /\ Taken' = Taken
    BY DEF Moves
  <1>2. Tile' = Tile /\ tileCols' = tileCols /\ lfActive' = lfActive
    BY <1>1, TilesStay
  <1>3. ASSUME lfActive, NEW r \in Row PROVE ReadyTiles(r)' = ReadyTiles(r)
    <2>1. \A j : j \in Unready' <=> j \in Unready
      <3>1. BeforeRowDone(w)' <=> BeforeRowDone(w)  BY <1>3
      <3>2. job[w] \in Unready <=> BeforeRowDone(w)  BY <1>1, UnreadyJob
      <3> QED  BY <3>1, <3>2, UnreadyMoved
    <2>2. Taken' \ Unready' = Taken \ Unready  BY <1>1, <2>1
    <2> QED  BY <1>2, <2>2 DEF ReadyTiles
  <1>4. \A v \in Worker : /\ stage'[v] = "queueLpfAbove" <=> stage[v] = "queueLpfAbove"
                          /\ stage'[v] = "queueLpfLast" <=> stage[v] = "queueLpfLast"
    BY <1>1 DEF FrameInv, LpfStage
  <1>5. \A r \in Row : LpfJob(r) \in Queued' <=> LpfJob(r) \in Queued
    BY <1>1, JobsDiffer
  <1>6. \A v \in Worker, r \in Row : Owes(v, r)' <=> Owes(v, r)
    BY <1>1, <1>4 DEF Owes
  <1>7. RowsInv  BY DEF SoundInv
  <1>8. \A r \in Row : rowTiles'[r] = IF lfActive' THEN Cardinality(ReadyTiles(r)') ELSE 0
    BY <1>2, <1>3, <1>7 DEF RowsInv
  <1>9. \A v \in Worker : stage'[v] \in {"queueLpfAbove", "queueLpfLast"} =>
          /\ lfActive'
          /\ rowTiles'[job'[v].row] = tileCols'
          /\ stage'[v] = "queueLpfAbove" => job'[v].row > 0
          /\ stage'[v] = "queueLpfLast" => job'[v].row = LastRow
    BY <1>1, <1>2, <1>4, <1>7 DEF RowsInv
  <1>10. \A u, v \in Worker :
           /\ stage'[u] \in {"queueLpfAbove", "queueLpfLast"}
           /\ stage'[v] \in {"queueLpfAbove", "queueLpfLast"}
           /\ job'[u].row = job'[v].row
           => u = v
    BY <1>1, <1>4, <1>7 DEF RowsInv
  <1>11. \A r \in Row :
           LpfJob(r) \in Queued' <=>
             rowTiles'[Below(r)] = tileCols' /\ \A v \in Worker : ~Owes(v, r)'
    BY <1>2, <1>5, <1>6, <1>7 DEF RowsInv
  <1>12. rowTiles' \in [Row -> Nat]  BY <1>7 DEF RowsInv
  <1> QED  BY <1>8, <1>9, <1>10, <1>11, <1>12 DEF RowsInv

\* A job taken for reconstruction is not yet ready.
LEMMA RowsTake ==
  ASSUME FrameInv, SoundInv, NEW w \in Worker, Dequeue(w)
  PROVE  RowsInv'
  <1> DEFINE j == jobq[read + 1]
  <1>1. /\ j \in Queued /\ j \notin Taken /\ j \in AllJobs
        /\ Queued' = Queued /\ Taken' = Taken \cup {j}
        /\ stage[w] = "idle" /\ stage'[w] = j.type /\ job'[w] = j
        /\ \A v \in Worker : v # w =>
             stage'[v] = stage[v] /\ job'[v] = job[v] /\ col'[v] = col[v]
    BY TakeStep
  <1>2. UNCHANGED frame /\ rowTiles' = rowTiles  BY DEF Dequeue, sync
  <1>3. Tile' = Tile /\ tileCols' = tileCols /\ lfActive' = lfActive
    BY <1>2, TilesStay
  <1>4. j.type \in {"parse", "recon", "lpf"}  BY <1>1 DEF AllJobs, Jobs
  <1> HIDE DEF j
  <1>5. \A v \in Worker : v # w => (BeforeRowDone(v)' <=> BeforeRowDone(v))
    BY <1>1, <1>3 DEF BeforeRowDone, LastCol, FirstCol
  <1>6. ~BeforeRowDone(w) /\ (BeforeRowDone(w)' <=> j.type = "recon")
    BY <1>1, <1>4 DEF BeforeRowDone
  <1>7. ASSUME NEW k
        PROVE  /\ k \in Unready' <=> \E v \in Worker : BeforeRowDone(v)' /\ job'[v] = k
               /\ k \in Unready <=> \E v \in Worker : BeforeRowDone(v) /\ job[v] = k
    BY DEF Unready
  <1>8. ASSUME NEW k PROVE k \in Unready' <=> k \in Unready \/ (k = j /\ j.type = "recon")
    BY <1>1, <1>5, <1>6, <1>7
  <1>9. ASSUME NEW r, NEW t
        PROVE  ReconJob(r, t) \in Taken' \ Unready' <=> ReconJob(r, t) \in Taken \ Unready
    <2>1. ReconJob(r, t).type = "recon"  BY JobsDiffer
    <2> QED  BY <1>1, <1>8, <2>1
  <1>10. \A r : ReadyTiles(r)' = ReadyTiles(r)  BY <1>3, <1>9 DEF ReadyTiles
  <1>11. \A v \in Worker :
           /\ stage'[v] \in LpfStage <=> stage[v] \in LpfStage
           /\ stage[v] \in LpfStage => stage'[v] = stage[v] /\ job'[v] = job[v]
    BY <1>1, <1>4 DEF LpfStage
  <1>12. \A v \in Worker, r \in Row : Owes(v, r)' <=> Owes(v, r)
    BY <1>11 DEF Owes, LpfStage
  <1>13. RowsInv  BY DEF SoundInv
  <1>14. \A v \in Worker : stage'[v] \in {"queueLpfAbove", "queueLpfLast"} =>
           /\ lfActive'
           /\ rowTiles'[job'[v].row] = tileCols'
           /\ stage'[v] = "queueLpfAbove" => job'[v].row > 0
           /\ stage'[v] = "queueLpfLast" => job'[v].row = LastRow
    BY <1>2, <1>3, <1>11, <1>13 DEF RowsInv, LpfStage
  <1>15. \A u, v \in Worker :
           /\ stage'[u] \in {"queueLpfAbove", "queueLpfLast"}
           /\ stage'[v] \in {"queueLpfAbove", "queueLpfLast"}
           /\ job'[u].row = job'[v].row
           => u = v
    BY <1>11, <1>13 DEF RowsInv, LpfStage
  <1>16. \A r \in Row :
           LpfJob(r) \in Queued' <=>
             rowTiles'[Below(r)] = tileCols' /\ \A v \in Worker : ~Owes(v, r)'
    BY <1>1, <1>2, <1>3, <1>12, <1>13 DEF RowsInv
  <1> QED  BY <1>2, <1>3, <1>10, <1>13, <1>14, <1>15, <1>16 DEF RowsInv

\* A tile's row is through; the last tile's worker owes the filter jobs.
LEMMA RowsDone ==
  ASSUME FrameInv, SoundInv, NobodyFailed', NEW w \in Worker, TileRowDone(w)
  PROVE  /\ \E g : Moves(w, g, {}) /\ g \in {"queueLpfAbove", "queueLpfLast", "reconWrite"}
         /\ stage[w] = "rowDone" /\ QueueInv' /\ HandInv' /\ RowsInv'
  <1>1. stage[w] = "rowDone" /\ stage[w] \in InJob /\ stage[w] \in ReconStage
    BY DEF TileRowDone, MoveTo, InJob, ReconStage
  <1>2. PICK r \in Row, t \in Tile :
          /\ job[w] = ReconJob(r, t) /\ job[w].row = r /\ job[w].tile = t
          /\ job[w] \in Taken /\ job[w].type = "recon"
    BY <1>1, InHand DEF ReconJob, SoundInv
  <1> DEFINE last == rowTiles[r] + 1 = tileCols
             g == IF last /\ r > 0 THEN "queueLpfAbove"
                  ELSE IF last /\ r = LastRow THEN "queueLpfLast" ELSE "reconWrite"
  <1>3. /\ stage' = [stage EXCEPT ![w] = g]
        /\ rowTiles' = [rowTiles EXCEPT ![r] = @ + 1]
        /\ UNCHANGED <<frame, jobq, read, job, col, err>>
    BY <1>2 DEF TileRowDone, MoveTo, queueV
  <1>4. g \in {"queueLpfAbove", "queueLpfLast", "reconWrite"}  OBVIOUS
  <1> HIDE DEF g
  <1>5. g \in StagesOf(job[w].type) \cup {"idle"}  BY <1>2, <1>4 DEF StagesOf, ReconStage
  <1>6. Moves(w, g, {}) /\ QueueInv' /\ HandInv'
    BY <1>1, <1>3, <1>5, PlainStep DEF FrameInv
  <1>7. lfActive /\ col[w] = LastCol(t)
    BY <1>1, <1>2 DEF SoundInv, ReconInv
  <1>8. Tile' = Tile /\ tileCols' = tileCols /\ lfActive' = lfActive
        /\ LastCol(t)' = LastCol(t)
    BY <1>3, TilesStay
  <1>9. BeforeRowDone(w)  BY <1>1 DEF BeforeRowDone
  <1>10. ~BeforeRowDone(w)'
    <2>1. stage'[w] = g /\ col'[w] = col[w] /\ job'[w] = job[w]
      BY <1>3 DEF FrameInv
    <2>2. col[w] = (((t + 1) * SbCols) \div tileCols) - 1 /\ job'[w].tile = t
      BY <1>2, <1>7, <2>1 DEF LastCol, FirstCol
    <2> QED  BY <1>4, <1>8, <2>1, <2>2 DEF BeforeRowDone, LastCol, FirstCol
  <1>11. job[w] \in Unready /\ \A j : j \in Unready' <=> j # job[w] /\ j \in Unready
    BY <1>1, <1>6, <1>9, <1>10, UnreadyMoved, UnreadyJob
  <1>12. Taken' = Taken /\ Queued' = Queued  BY <1>6 DEF Moves
  <1> HIDE DEF last
  <1>13. t \notin ReadyTiles(r) /\ ReadyTiles(r)' = ReadyTiles(r) \cup {t}
    BY <1>2, <1>8, <1>11, <1>12, JobsDiffer DEF ReadyTiles
  <1>14. \A q : q # r => ReadyTiles(q)' = ReadyTiles(q)
    BY <1>2, <1>8, <1>11, <1>12, JobsDiffer DEF ReadyTiles
  <1>15. RowsInv  BY DEF SoundInv
  <1>16. /\ rowTiles \in [Row -> Nat] /\ tileCols \in Nat \ {0}
         /\ rowTiles[r] = Cardinality(ReadyTiles(r))
    BY <1>2, <1>7, <1>15, Tiles DEF RowsInv
  <1>17. /\ rowTiles' \in [Row -> Nat] /\ rowTiles'[r] = rowTiles[r] + 1
         /\ \A q \in Row : q # r => rowTiles'[q] = rowTiles[q]
    BY <1>2, <1>3, <1>16
  <1>18. rowTiles[r] # tileCols
    <2>1. ReadyTiles(r) \in SUBSET Tile  BY DEF ReadyTiles
    <2> QED  BY <1>2, <1>13, <1>16, <2>1, TilesCounted
  <1>19. rowTiles'[r] = Cardinality(ReadyTiles(r)')
    <2>1. IsFiniteSet(ReadyTiles(r))
      BY TilesCounted DEF ReadyTiles
    <2>2. Cardinality(ReadyTiles(r) \cup {t}) = Cardinality(ReadyTiles(r)) + 1
      BY <1>13, <2>1, FS_AddElement
    <2> QED  BY <1>13, <1>16, <1>17, <2>2
  <1>20. \A v \in Worker : v # w => stage'[v] = stage[v] /\ job'[v] = job[v]
    BY <1>3 DEF FrameInv
  <1>21. stage'[w] = g /\ job'[w] = job[w]  BY <1>3 DEF FrameInv
  <1>22. \A v \in Worker : v # w /\ stage[v] \in LpfStage => job[v].row # r
    BY <1>15, <1>18 DEF RowsInv, LpfStage
  <1>23. g \in LpfStage <=> last /\ (r > 0 \/ r = LastRow)
    BY DEF g, last, LpfStage
  <1>24. \A q \in Row : rowTiles'[q] = IF lfActive' THEN Cardinality(ReadyTiles(q)') ELSE 0
    BY <1>7, <1>8, <1>14, <1>15, <1>17, <1>19 DEF RowsInv
  <1>25. \A v \in Worker : stage'[v] \in {"queueLpfAbove", "queueLpfLast"} =>
           /\ lfActive'
           /\ rowTiles'[job'[v].row] = tileCols'
           /\ stage'[v] = "queueLpfAbove" => job'[v].row > 0
           /\ stage'[v] = "queueLpfLast" => job'[v].row = LastRow
    <2>1. ASSUME NEW v \in Worker, v # w, stage'[v] \in {"queueLpfAbove", "queueLpfLast"}
          PROVE  /\ rowTiles'[job'[v].row] = tileCols
                 /\ stage'[v] = "queueLpfAbove" => job'[v].row > 0
                 /\ stage'[v] = "queueLpfLast" => job'[v].row = LastRow
      <3>1. stage[v] \in InJob  BY <1>20, <2>1 DEF InJob, ReconStage
      <3>2. job[v].row \in Row  BY <3>1, InHand DEF SoundInv
      <3> QED  BY <1>15, <1>17, <1>20, <1>22, <2>1, <3>2 DEF RowsInv, LpfStage
    <2>2. ASSUME stage'[w] \in {"queueLpfAbove", "queueLpfLast"}
          PROVE  /\ rowTiles'[job'[w].row] = tileCols
                 /\ stage'[w] = "queueLpfAbove" => job'[w].row > 0
                 /\ stage'[w] = "queueLpfLast" => job'[w].row = LastRow
      <3>1. last /\ job'[w].row = r  BY <1>2, <1>21, <1>23, <2>2 DEF LpfStage
      <3>2. /\ g = "queueLpfAbove" => r > 0
            /\ g = "queueLpfLast" => r = LastRow
        BY DEF g
      <3> QED  BY <1>17, <1>21, <3>1, <3>2 DEF last
    <2> QED  BY <1>7, <1>8, <2>1, <2>2
  <1>26. \A u, v \in Worker :
           /\ stage'[u] \in {"queueLpfAbove", "queueLpfLast"}
           /\ stage'[v] \in {"queueLpfAbove", "queueLpfLast"}
           /\ job'[u].row = job'[v].row
           => u = v
    <2>1. \A v \in Worker : v # w /\ stage'[v] \in LpfStage => job'[v].row # job'[w].row
      BY <1>2, <1>20, <1>21, <1>22
    <2>2. \A u, v \in Worker :
            stage[u] \in LpfStage /\ stage[v] \in LpfStage /\ job[u].row = job[v].row
            => u = v
      BY <1>15 DEF RowsInv, LpfStage
    <2>3. \A u, v \in Worker :
            stage'[u] \in LpfStage /\ stage'[v] \in LpfStage /\ job'[u].row = job'[v].row
            => u = v
      BY <1>20, <2>1, <2>2
    <2> QED  BY <2>3 DEF LpfStage
  <1>27. ASSUME NEW q \in Row
         PROVE  LpfJob(q) \in Queued' <=>
                  rowTiles'[Below(q)] = tileCols' /\ \A v \in Worker : ~Owes(v, q)'
    <2>1. Below(q) \in Row  BY Tiles DEF Below, Row, LastRow
    <2>2. \A v \in Worker : v # w => (Owes(v, q)' <=> Owes(v, q))
      BY <1>20 DEF Owes
    <2>3. ~Owes(w, q)  BY <1>1 DEF Owes
    <2>4. CASE Below(q) # r
      <3>1. ~Owes(w, q)'
        <4>1. g = "queueLpfAbove" => Below(q) # job[w].row  BY <1>2, <2>4
        <4>2. g = "queueLpfLast" => r = LastRow  BY DEF g
        <4>3. q = LastRow => Below(q) = q  BY Tiles DEF Below, LastRow
        <4> QED  BY <1>21, <2>4, <4>1, <4>2, <4>3 DEF Owes
      <3> QED  BY <1>8, <1>12, <1>15, <1>17, <2>1, <2>2, <2>3, <2>4, <3>1 DEF RowsInv
    <2>5. CASE Below(q) = r
      <3>1. LpfJob(q) \notin Queued  BY <1>15, <1>18, <2>5 DEF RowsInv
      <3>2. rowTiles'[r] = tileCols => Owes(w, q)'
        <4>1. rowTiles'[r] = tileCols => last  BY <1>17 DEF last
        <4>2. q \in Nat /\ LastRow \in Nat /\ q <= LastRow  BY Tiles DEF Row, LastRow
        <4>3. r > 0 => r = job[w].row  BY <1>2
        <4>4. ~(r > 0) => q = LastRow /\ r = LastRow
          BY <2>5, <4>2 DEF Below
        <4>5. r \in Nat  BY Tiles DEF Row
        <4>6. ASSUME last, r > 0 PROVE Owes(w, q)'
          BY <1>21, <2>5, <4>3, <4>6 DEF Owes, g
        <4>7. ASSUME last, ~(r > 0) PROVE Owes(w, q)'
          BY <1>21, <4>4, <4>7 DEF Owes, g
        <4> QED  BY <4>1, <4>6, <4>7
      <3> QED  BY <1>8, <1>12, <2>5, <3>1, <3>2
    <2> QED  BY <2>4, <2>5
  <1>28. RowsInv'  BY <1>17, <1>24, <1>25, <1>26, <1>27 DEF RowsInv
  <1> QED  BY <1>1, <1>4, <1>6, <1>28

\* A filter job that was owed is queued.
LEMMA RowsReleased ==
  ASSUME FrameInv, SoundInv, NEW w, NEW g, NEW q \in Row, Moves(w, g, {LpfJob(q)}),
         stage[w] \in LpfStage, g \in {"queueLpfLast", "reconWrite"},
         g = "queueLpfLast" => job[w].row = LastRow,
         rowTiles' = rowTiles, col' = col, Owes(w, q),
         \A p \in Row : Owes(w, p)' <=> Owes(w, p) /\ p # q
  PROVE  RowsInv'
  <1>1. /\ w \in Worker /\ stage[w] \in InJob /\ stage' = [stage EXCEPT ![w] = g]
        /\ job' = job /\ UNCHANGED frame /\ Queued' = Queued \cup {LpfJob(q)}
        /\ Taken' = Taken
    BY DEF Moves
  <1>2. Tile' = Tile /\ tileCols' = tileCols /\ lfActive' = lfActive
    BY <1>1, TilesStay
  <1>3. stage[w] \in ReconStage /\ stage[w] \notin {"recon", "reconWrite"}
    BY DEF LpfStage, ReconStage
  <1>4. ~BeforeRowDone(w) /\ ~BeforeRowDone(w)'
    <2>1. col[w] = LastCol(job[w].tile)  BY <1>1, <1>3 DEF SoundInv, ReconInv
    <2>2. stage'[w] = g /\ job'[w] = job[w] /\ col'[w] = col[w]
      BY <1>1 DEF FrameInv
    <2>3. col[w] = (((job[w].tile + 1) * SbCols) \div tileCols) - 1
      BY <2>1 DEF LastCol, FirstCol
    <2>4. col'[w] = (((job'[w].tile + 1) * SbCols) \div tileCols') - 1
      BY <1>2, <2>2, <2>3
    <2>5. ~BeforeRowDone(w)'
      BY <2>2, <2>4 DEF BeforeRowDone, LastCol, FirstCol
    <2>6. ~BeforeRowDone(w)  BY DEF BeforeRowDone, LpfStage
    <2> QED  BY <2>5, <2>6
  <1>5. \A j : j \in Unready' <=> j \in Unready
    BY <1>1, <1>4, UnreadyMoved, UnreadyJob
  <1>6. \A r : ReadyTiles(r)' = ReadyTiles(r)  BY <1>1, <1>2, <1>5 DEF ReadyTiles
  <1>7. RowsInv  BY DEF SoundInv
  <1>8. stage'[w] = g /\ \A v \in Worker : v # w => stage'[v] = stage[v]
    BY <1>1 DEF FrameInv
  <1>9. \A v \in Worker : stage'[v] \in {"queueLpfAbove", "queueLpfLast"} =>
          /\ lfActive'
          /\ rowTiles'[job'[v].row] = tileCols'
          /\ stage'[v] = "queueLpfAbove" => job'[v].row > 0
          /\ stage'[v] = "queueLpfLast" => job'[v].row = LastRow
    BY <1>1, <1>2, <1>7, <1>8 DEF RowsInv, LpfStage
  <1>10. \A u, v \in Worker :
           /\ stage'[u] \in {"queueLpfAbove", "queueLpfLast"}
           /\ stage'[v] \in {"queueLpfAbove", "queueLpfLast"}
           /\ job'[u].row = job'[v].row
           => u = v
    BY <1>1, <1>7, <1>8 DEF RowsInv, LpfStage
  <1>11. \A v \in Worker, p \in Row : v # w => (Owes(v, p)' <=> Owes(v, p))
    BY <1>1, <1>8 DEF Owes
  <1>12. rowTiles[job[w].row] = tileCols  BY <1>1, <1>7 DEF RowsInv, LpfStage
  <1>13. ASSUME NEW v \in Worker, v # w PROVE ~Owes(v, q)
    <2>1. Owes(v, q) => stage[v] \in LpfStage /\ job[v].row = Below(q)
      BY <1>7, Tiles DEF Owes, LpfStage, RowsInv, Below, LastRow
    <2>2. job[w].row = Below(q)
      BY <1>1, <1>7, Tiles DEF Owes, LpfStage, RowsInv, Below, LastRow
    <2>3. stage[v] \in LpfStage /\ job[v].row = job[w].row => v = w
      BY <1>1, <1>7 DEF RowsInv, LpfStage
    <2> QED  BY <1>13, <2>1, <2>2, <2>3
  <1>14. rowTiles[Below(q)] = tileCols
    <2>1. job[w].row = Below(q)
      BY <1>1, <1>7, Tiles DEF Owes, LpfStage, RowsInv, Below, LastRow
    <2> QED  BY <1>12, <2>1
  <1>15. ASSUME NEW p \in Row
         PROVE  LpfJob(p) \in Queued' <=>
                  rowTiles'[Below(p)] = tileCols' /\ \A v \in Worker : ~Owes(v, p)'
    <2>1. LpfJob(p) \in Queued <=>
            rowTiles[Below(p)] = tileCols /\ \A v \in Worker : ~Owes(v, p)
      BY <1>7 DEF RowsInv
    <2>2. CASE p = q
      <3>1. \A v \in Worker : ~Owes(v, p)'  BY <1>11, <1>13, <2>2
      <3> QED  BY <1>1, <1>2, <1>14, <2>2, <3>1
    <2>3. CASE p # q
      <3>1. \A v \in Worker : Owes(v, p)' <=> Owes(v, p)  BY <1>11, <2>3
      <3>2. LpfJob(p) \in Queued' <=> LpfJob(p) \in Queued
        BY <1>1, <2>3, JobsDiffer
      <3> QED  BY <1>2, <2>1, <3>1, <3>2
    <2> QED  BY <2>2, <2>3
  <1>16. rowTiles' \in [Row -> Nat]
         /\ \A r \in Row : rowTiles'[r] = IF lfActive' THEN Cardinality(ReadyTiles(r)') ELSE 0
    BY <1>2, <1>6, <1>7 DEF RowsInv
  <1> QED  BY <1>9, <1>10, <1>15, <1>16 DEF RowsInv

LEMMA RowsAbove ==
  ASSUME FrameInv, SoundInv, NEW w, NEW g,
         Moves(w, g, {LpfJob(job[w].row - 1)}), stage[w] = "queueLpfAbove",
         g = IF job[w].row = LastRow THEN "queueLpfLast" ELSE "reconWrite",
         rowTiles' = rowTiles, col' = col
  PROVE  RowsInv'
  <1>1. /\ w \in Worker /\ stage[w] \in InJob /\ stage' = [stage EXCEPT ![w] = g]
        /\ job' = job
    BY DEF Moves
  <1>2. PICK r \in Row : job[w].row = r /\ r > 0
    <2>1. job[w].row \in Row  BY <1>1, InHand DEF SoundInv
    <2>2. job[w].row > 0  BY <1>1 DEF SoundInv, RowsInv
    <2> QED  BY <2>1, <2>2
  <1>3. LastRow \in Nat /\ r \in Nat /\ r <= LastRow /\ \A p \in Row : p \in Nat /\ p <= LastRow
    BY <1>2, Tiles DEF Row, LastRow
  <1>4. r - 1 \in Row
    <2>1. r - 1 \in Nat /\ r - 1 <= LastRow  BY <1>2, <1>3
    <2> QED  BY <2>1, Tiles DEF Row, LastRow
  <1>5. ASSUME NEW p \in Row
        PROVE  Below(p) = r <=> p = r - 1 \/ (p = LastRow /\ r = LastRow)
    <2>1. p \in Nat /\ p <= LastRow  BY <1>3
    <2>2. CASE p < LastRow
      <3>1. Below(p) = p + 1  BY <2>2 DEF Below
      <3> QED  BY <1>3, <2>1, <2>2, <3>1
    <2>3. CASE p = LastRow
      <3>1. Below(p) = LastRow  BY <1>3, <2>3 DEF Below
      <3> QED  BY <1>2, <1>3, <2>3, <3>1
    <2> QED  BY <1>3, <2>1, <2>2, <2>3
  <1>6. stage'[w] = g /\ job'[w].row = r  BY <1>1, <1>2 DEF FrameInv
  <1>7. \A p \in Row : Owes(w, p) <=> p = r - 1 \/ (p = LastRow /\ r = LastRow)
    BY <1>2, <1>5 DEF Owes
  <1>8. \A p \in Row : Owes(w, p)' <=> p = LastRow /\ r = LastRow
    BY <1>2, <1>6 DEF Owes
  <1>9. ASSUME NEW p \in Row PROVE Owes(w, p)' <=> Owes(w, p) /\ p # r - 1
    <2>1. Owes(w, p) <=> p = r - 1 \/ (p = LastRow /\ r = LastRow)  BY <1>7
    <2>2. Owes(w, p)' <=> p = LastRow /\ r = LastRow  BY <1>8
    <2>3. p = LastRow /\ r = LastRow => p # r - 1  BY <1>3
    <2> QED  BY <2>1, <2>2, <2>3
  <1>10. Owes(w, r - 1)  BY <1>4, <1>7
  <1>11. /\ g \in {"queueLpfLast", "reconWrite"} /\ (g = "queueLpfLast" => job[w].row = LastRow)
         /\ Moves(w, g, {LpfJob(r - 1)}) /\ stage[w] \in LpfStage
    BY <1>2 DEF LpfStage
  <1> QED  BY <1>4, <1>9, <1>10, <1>11, RowsReleased

LEMMA RowsLast ==
  ASSUME FrameInv, SoundInv, NEW w,
         Moves(w, "reconWrite", {LpfJob(LastRow)}), stage[w] = "queueLpfLast",
         rowTiles' = rowTiles, col' = col
  PROVE  RowsInv'
  <1>1. LastRow \in Row  BY Tiles DEF Row, LastRow
  <1>2. stage[w] \in LpfStage /\ "reconWrite" \in {"queueLpfLast", "reconWrite"}
        /\ "reconWrite" # "queueLpfLast"
    BY DEF LpfStage
  <1>3. stage'[w] = "reconWrite"  BY DEF Moves, FrameInv
  <1>4. Owes(w, LastRow) /\ \A p \in Row : Owes(w, p)' <=> Owes(w, p) /\ p # LastRow
    BY <1>3 DEF Owes
  <1> QED  BY <1>1, <1>2, <1>4, RowsReleased

-----------------------------------------------------------------------------
(* Reconstruction.                                                         *)

\* A worker that goes on in its job, or is done with it.
LEMMA FinishedMoved ==
  ASSUME FrameInv, SoundInv, NEW w, NEW g, NEW N, Moves(w, g, N)
  PROVE  Finished' = IF g = "idle" THEN Finished \cup {job[w]} ELSE Finished
  <1>1. /\ w \in Worker /\ stage[w] \in InJob /\ stage' = [stage EXCEPT ![w] = g]
        /\ job' = job /\ Taken' = Taken /\ g \in StagesOf(job[w].type) \cup {"idle"}
    BY DEF Moves
  <1>2. job[w] \in Taken /\ job[w] \in At(InJob)
    BY <1>1 DEF SoundInv, HandInv, At
  <1>3. CASE g = "idle"
    <2>1. "idle" \notin InJob  BY DEF InJob, ReconStage
    <2>2. At(InJob)' = At(InJob) \ {job[w]}  BY <1>1, <1>3, <2>1, AtLeft DEF SoundInv
    <2> QED  BY <1>1, <1>2, <1>3, <2>2 DEF Finished
  <1>4. CASE g # "idle"
    <2>1. g \in InJob  BY <1>1, <1>4 DEF InJob, StagesOf
    <2>2. At(InJob)' = At(InJob)  BY <1>1, <2>1, AtKept DEF SoundInv
    <2> QED  BY <1>1, <1>4, <2>2 DEF Finished
  <1> QED  BY <1>3, <1>4

\* The reconstruction invariant in the next state.
LEMMA ReconPrimed ==
  ASSUME UNCHANGED frame, job' = job,
         reconMap' \subseteq recon', recon' \subseteq SB,
         \A w \in Worker : stage'[w] \in ReconStage =>
           /\ col'[w] \in Cols(job[w].tile)
           /\ \A c \in Cols(job[w].tile) :
                <<job[w].row, c>> \in recon' <=>
                  c < col'[w] \/ (c = col'[w] /\ stage'[w] # "recon")
           /\ stage'[w] \notin {"recon", "reconWrite"} => col'[w] = LastCol(job[w].tile)
           /\ stage'[w] \in {"rowDone", "queueLpfAbove", "queueLpfLast"} => lfActive
           /\ stage'[w] = "tileDone" => job[w].row = LastRow /\ ~lfActive,
         \A r \in Row, t \in Tile : \A c \in Cols(t) :
           /\ <<r, c>> \in recon' => ReconJob(r, t) \in Taken'
           /\ ReconJob(r, t) \in Finished' => <<r, c>> \in recon',
         \A r \in Row, c \in Col : <<r, c>> \in recon' =>
           \A q \in 0..(r - 1) : <<q, c>> \in recon'
  PROVE  ReconInv'
  <1>1. Tile' = Tile /\ lfActive' = lfActive /\ tileCols' = tileCols
    BY TilesStay
  <1> QED  BY <1>1 DEF ReconInv, Cols, LastCol, FirstCol

\* Steps of other jobs leave reconstruction alone.
LEMMA ReconKept ==
  ASSUME FrameInv, SoundInv, NEW w, NEW g, NEW N, Moves(w, g, N),
         job[w].type # "recon", recon' = recon, reconMap' = reconMap
  PROVE  ReconInv'
  <1>1. /\ w \in Worker /\ stage[w] \in InJob /\ stage' = [stage EXCEPT ![w] = g]
        /\ job' = job /\ UNCHANGED frame /\ Taken' = Taken
        /\ \A v \in Worker : v # w => col'[v] = col[v]
    BY DEF Moves
  <1>2. g \notin ReconStage
    BY <1>1, InHand DEF Moves, StagesOf, ReconStage, SoundInv
  <1>3. \A v \in Worker : stage'[v] \in ReconStage =>
          v # w /\ stage'[v] = stage[v] /\ col'[v] = col[v]
    BY <1>1, <1>2 DEF FrameInv
  <1>4. \A r, t : ReconJob(r, t) \in Finished' <=> ReconJob(r, t) \in Finished
    <2>1. \A r, t : ReconJob(r, t) # job[w]  BY JobsDiffer
    <2> QED  BY <2>1, FinishedMoved
  <1>5. Tile' = Tile /\ lfActive' = lfActive
        /\ \A t : Cols(t)' = Cols(t) /\ LastCol(t)' = LastCol(t)
    BY <1>1, TilesStay
  <1>6. \A v \in Worker : stage'[v] \in ReconStage =>
          /\ col'[v] \in Cols(job[v].tile)
          /\ \A c \in Cols(job[v].tile) :
               <<job[v].row, c>> \in recon' <=>
                 c < col'[v] \/ (c = col'[v] /\ stage'[v] # "recon")
          /\ stage'[v] \notin {"recon", "reconWrite"} => col'[v] = LastCol(job[v].tile)
          /\ stage'[v] \in {"rowDone", "queueLpfAbove", "queueLpfLast"} => lfActive
          /\ stage'[v] = "tileDone" => job[v].row = LastRow /\ ~lfActive
    BY <1>3 DEF SoundInv, ReconInv
  <1> QED  BY <1>1, <1>4, <1>5, <1>6, ReconPrimed DEF SoundInv, ReconInv

\* What a worker that reconstructs has in hand, and no other one has.
LEMMA ReconHand ==
  ASSUME FrameInv, SoundInv, NEW w \in Worker, stage[w] \in ReconStage
  PROVE  /\ stage[w] \in InJob /\ job[w] \in Taken /\ job[w].type = "recon"
         /\ job[w] = ReconJob(job[w].row, job[w].tile)
         /\ job[w].row \in Row /\ job[w].tile \in Tile
         /\ col[w] \in Cols(job[w].tile) /\ col[w] \in Col
         /\ \A v \in Worker : v # w /\ stage[v] \in ReconStage =>
              \A c \in Cols(job[v].tile) :
                <<job[v].row, c>> # <<job[w].row, col[w]>>
  <1>1. ASSUME NEW v \in Worker, stage[v] \in ReconStage
        PROVE  /\ stage[v] \in InJob /\ job[v] \in Taken /\ job[v].type = "recon"
               /\ job[v] = ReconJob(job[v].row, job[v].tile)
               /\ job[v].row \in Row /\ job[v].tile \in Tile
    <2>1. stage[v] \in InJob  BY <1>1 DEF InJob
    <2> QED  BY <1>1, <2>1, InHand DEF SoundInv, ReconJob
  <1>2. col[w] \in Cols(job[w].tile)  BY DEF SoundInv, ReconInv
  <1>3. col[w] \in Col  BY <1>1, <1>2, Tiles
  <1>4. ASSUME NEW v \in Worker, v # w, stage[v] \in ReconStage, NEW c \in Cols(job[v].tile),
               job[v].row = job[w].row, c = col[w]
        PROVE  FALSE
    <2>1. job[v].tile = job[w].tile  BY <1>1, <1>2, <1>4, Tiles
    <2>2. job[v] = job[w]  BY <1>1, <1>4, <2>1
    <2> QED  BY <1>1, <1>4, <2>2 DEF SoundInv, HandInv
  <1> QED  BY <1>1, <1>2, <1>3, <1>4

\* Between a row's last superblock and its publication the filter is released.
LEMMA ReconStaged ==
  ASSUME FrameInv, SoundInv, NEW w, NEW g, NEW N, Moves(w, g, N),
         stage[w] \in {"rowDone", "queueLpfAbove", "queueLpfLast"},
         g \in {"queueLpfAbove", "queueLpfLast", "reconWrite"},
         col' = col, recon' = recon, reconMap' = reconMap
  PROVE  ReconInv'
  <1>1. /\ w \in Worker /\ stage[w] \in InJob /\ stage' = [stage EXCEPT ![w] = g]
        /\ job' = job /\ UNCHANGED frame /\ Taken' = Taken
    BY DEF Moves
  <1>2. stage[w] \in ReconStage /\ g \in ReconStage  BY DEF ReconStage
  <1>3. stage'[w] = g /\ \A v \in Worker : v # w => stage'[v] = stage[v]
    BY <1>1 DEF FrameInv
  <1>4. Finished' = Finished  BY FinishedMoved
  <1>5. \A v \in Worker : stage'[v] \in ReconStage =>
          /\ col'[v] \in Cols(job[v].tile)
          /\ \A c \in Cols(job[v].tile) :
               <<job[v].row, c>> \in recon' <=>
                 c < col'[v] \/ (c = col'[v] /\ stage'[v] # "recon")
          /\ stage'[v] \notin {"recon", "reconWrite"} => col'[v] = LastCol(job[v].tile)
          /\ stage'[v] \in {"rowDone", "queueLpfAbove", "queueLpfLast"} => lfActive
          /\ stage'[v] = "tileDone" => job[v].row = LastRow /\ ~lfActive
    <2>1. ASSUME NEW v \in Worker, v # w, stage'[v] \in ReconStage
          PROVE  /\ col'[v] \in Cols(job[v].tile)
                 /\ \A c \in Cols(job[v].tile) :
                      <<job[v].row, c>> \in recon' <=>
                        c < col'[v] \/ (c = col'[v] /\ stage'[v] # "recon")
                 /\ stage'[v] \notin {"recon", "reconWrite"} => col'[v] = LastCol(job[v].tile)
                 /\ stage'[v] \in {"rowDone", "queueLpfAbove", "queueLpfLast"} => lfActive
                 /\ stage'[v] = "tileDone" => job[v].row = LastRow /\ ~lfActive
      BY <1>3, <2>1 DEF SoundInv, ReconInv
    <2>2. /\ col[w] \in Cols(job[w].tile)
          /\ \A c \in Cols(job[w].tile) :
               <<job[w].row, c>> \in recon <=>
                 c < col[w] \/ (c = col[w] /\ stage[w] # "recon")
          /\ col[w] = LastCol(job[w].tile)
          /\ lfActive
      BY <1>1, <1>2 DEF SoundInv, ReconInv
    <2> QED  BY <1>3, <2>1, <2>2
  <1> QED  BY <1>1, <1>4, <1>5, ReconPrimed DEF SoundInv, ReconInv

\* A superblock is reconstructed.
LEMMA ReconAdded ==
  ASSUME FrameInv, SoundInv, NEW w, NEW g, Moves(w, g, {}),
         stage[w] = "recon", AboveReady(w),
         g = IF col[w] = LastCol(job[w].tile) /\ lfActive THEN "rowDone" ELSE "reconWrite",
         recon' = recon \cup {<<job[w].row, col[w]>>},
         col' = col, reconMap' = reconMap
  PROVE  ReconInv'
  <1>1. /\ w \in Worker /\ stage[w] \in InJob /\ stage' = [stage EXCEPT ![w] = g]
        /\ job' = job /\ UNCHANGED frame /\ Taken' = Taken
    BY DEF Moves
  <1>2. stage[w] \in ReconStage /\ g \in ReconStage  BY DEF ReconStage
  <1>3. stage'[w] = g /\ \A v \in Worker : v # w => stage'[v] = stage[v]
    BY <1>1 DEF FrameInv
  <1>4. Finished' = Finished  BY FinishedMoved
  <1>5. PICK r \in Row, t \in Tile, k \in Col :
          /\ job[w] = ReconJob(r, t) /\ job[w].row = r /\ job[w].tile = t
          /\ job[w] \in Taken /\ col[w] = k /\ k \in Cols(t)
    BY <1>1, <1>2, ReconHand
  <1>6. \A v \in Worker : v # w /\ stage[v] \in ReconStage =>
          \A c \in Cols(job[v].tile) : <<job[v].row, c>> # <<r, k>>
    BY <1>1, <1>2, <1>5, ReconHand
  <1>7. ReconInv  BY DEF SoundInv
  <1>8. recon' = recon \cup {<<r, k>>}  BY <1>5
  <1>9. ASSUME NEW v \in Worker, stage'[v] \in ReconStage
        PROVE  /\ col'[v] \in Cols(job[v].tile)
               /\ \A c \in Cols(job[v].tile) :
                    <<job[v].row, c>> \in recon' <=>
                      c < col'[v] \/ (c = col'[v] /\ stage'[v] # "recon")
               /\ stage'[v] \notin {"recon", "reconWrite"} => col'[v] = LastCol(job[v].tile)
               /\ stage'[v] \in {"rowDone", "queueLpfAbove", "queueLpfLast"} => lfActive
               /\ stage'[v] = "tileDone" => job[v].row = LastRow /\ ~lfActive
    <2>1. CASE v # w
      <3>1. stage[v] \in ReconStage /\ stage'[v] = stage[v]  BY <1>3, <1>9, <2>1
      <3>2. \A c \in Cols(job[v].tile) :
              <<job[v].row, c>> \in recon' <=> <<job[v].row, c>> \in recon
        BY <1>6, <1>8, <2>1, <3>1
      <3> QED  BY <1>7, <3>1, <3>2 DEF ReconInv
    <2>2. CASE v = w
      <3>1. \A c \in Cols(t) : <<r, c>> \in recon <=> c < k
        BY <1>1, <1>2, <1>5, <1>7 DEF ReconInv
      <3>2. \A c \in Cols(t) : <<r, c>> \in recon' <=> c < k \/ c = k
        BY <1>8, <3>1
      <3> QED  BY <1>3, <1>5, <2>2, <3>2
    <2> QED  BY <2>1, <2>2
  <1>10. recon' \subseteq SB /\ reconMap' \subseteq recon'
    BY <1>7, <1>8 DEF ReconInv, SB
  <1>11. \A q \in Row, u \in Tile : \A c \in Cols(u) :
           /\ <<q, c>> \in recon' => ReconJob(q, u) \in Taken'
           /\ ReconJob(q, u) \in Finished' => <<q, c>> \in recon'
    <2>1. ASSUME NEW q \in Row, NEW u \in Tile, NEW c \in Cols(u), <<q, c>> = <<r, k>>
          PROVE  ReconJob(q, u) \in Taken
      BY <1>5, <2>1, Tiles
    <2> QED  BY <1>1, <1>4, <1>7, <1>8, <2>1 DEF ReconInv
  <1>12. \A q \in Row, c \in Col : <<q, c>> \in recon' =>
           \A p \in 0..(q - 1) : <<p, c>> \in recon'
    <2>1. ASSUME NEW p \in 0..(r - 1) PROVE <<p, k>> \in recon
      <3>1. r \in Nat /\ r > 0 /\ r - 1 \in Row /\ (p = r - 1 \/ p \in 0..(r - 1 - 1))
        BY <1>5, <2>1, Tiles DEF Row
      <3>2. <<r - 1, k>> \in recon
        BY <1>5, <1>7, <3>1 DEF AboveReady, ReconInv
      <3> QED  BY <1>5, <1>7, <3>1, <3>2 DEF ReconInv
    <2>2. \A q \in Row, c \in Col : <<q, c>> \in recon =>
            \A p \in 0..(q - 1) : <<p, c>> \in recon
      BY <1>7 DEF ReconInv
    <2> QED  BY <1>8, <2>1, <2>2
  <1> QED  BY <1>1, <1>9, <1>10, <1>11, <1>12, ReconPrimed

\* A superblock is published, and the worker goes to the next, if any.
LEMMA ReconPublished ==
  ASSUME FrameInv, SoundInv, NEW w, NEW g, Moves(w, g, {}),
         stage[w] = "reconWrite",
         g = IF col[w] # LastCol(job[w].tile) THEN "recon"
             ELSE IF job[w].row = LastRow /\ ~lfActive THEN "tileDone" ELSE "idle",
         recon' = recon,
         reconMap' = reconMap \cup {<<job[w].row, col[w]>>},
         col' = [col EXCEPT ![w] = IF col[w] = LastCol(job[w].tile) THEN @ ELSE @ + 1]
  PROVE  ReconInv'
  <1>1. /\ w \in Worker /\ stage[w] \in InJob /\ stage' = [stage EXCEPT ![w] = g]
        /\ job' = job /\ UNCHANGED frame /\ Taken' = Taken
    BY DEF Moves
  <1>2. stage[w] \in ReconStage  BY DEF ReconStage
  <1>3. stage'[w] = g /\ \A v \in Worker : v # w => stage'[v] = stage[v]
    BY <1>1 DEF FrameInv
  <1>4. Finished' = IF g = "idle" THEN Finished \cup {job[w]} ELSE Finished
    BY FinishedMoved
  <1>5. PICK r \in Row, t \in Tile, k \in Col :
          /\ job[w] = ReconJob(r, t) /\ job[w].row = r /\ job[w].tile = t
          /\ job[w] \in Taken /\ col[w] = k /\ k \in Cols(t)
    BY <1>1, <1>2, ReconHand
  <1>6. ReconInv  BY DEF SoundInv
  <1>7. \A c \in Cols(t) : <<r, c>> \in recon <=> c < k \/ c = k
    BY <1>1, <1>2, <1>5, <1>6 DEF ReconInv
  <1>8. /\ FirstCol(t) \in Nat /\ LastCol(t) \in Nat /\ k \in Nat
        /\ FirstCol(t) <= k /\ k <= LastCol(t)
    <2>1. FirstCol(t) \in Nat /\ LastCol(t) \in Nat  BY Tiles
    <2> QED  BY <1>5, <2>1, Tiles DEF Cols, Col
  <1>9. /\ col'[w] = IF k = LastCol(t) THEN k ELSE k + 1
        /\ \A v \in Worker : v # w => col'[v] = col[v]
    BY <1>1, <1>5 DEF FrameInv
  <1>10. ASSUME NEW v \in Worker, stage'[v] \in ReconStage
         PROVE  /\ col'[v] \in Cols(job[v].tile)
                /\ \A c \in Cols(job[v].tile) :
                     <<job[v].row, c>> \in recon' <=>
                       c < col'[v] \/ (c = col'[v] /\ stage'[v] # "recon")
                /\ stage'[v] \notin {"recon", "reconWrite"} => col'[v] = LastCol(job[v].tile)
                /\ stage'[v] \in {"rowDone", "queueLpfAbove", "queueLpfLast"} => lfActive
                /\ stage'[v] = "tileDone" => job[v].row = LastRow /\ ~lfActive
    <2>1. CASE v # w
      <3>1. stage[v] \in ReconStage /\ stage'[v] = stage[v] /\ col'[v] = col[v]
        BY <1>3, <1>9, <1>10, <2>1
      <3> QED  BY <1>6, <3>1 DEF ReconInv
    <2>2. CASE v = w /\ k # LastCol(t)
      <3>1. stage'[w] = "recon" /\ col'[w] = k + 1
        BY <1>3, <1>5, <1>9, <2>2
      <3>2. k + 1 \in Cols(t) /\ \A c \in Cols(t) : c \in Int
        BY <1>8, <2>2 DEF Cols
      <3>3. \A c \in Cols(t) : <<r, c>> \in recon' <=> c < k + 1
        BY <1>7, <1>8, <3>2
      <3> QED  BY <1>5, <2>2, <3>1, <3>2, <3>3
    <2>3. CASE v = w /\ k = LastCol(t)
      <3>1. stage'[w] = "tileDone" /\ r = LastRow /\ ~lfActive /\ col'[w] = k
        BY <1>3, <1>5, <1>9, <1>10, <2>3 DEF ReconStage
      <3> QED  BY <1>5, <1>7, <2>3, <3>1
    <2> QED  BY <2>1, <2>2, <2>3
  <1>11. reconMap' \subseteq recon' /\ recon' \subseteq SB
    BY <1>5, <1>6, <1>7 DEF ReconInv
  <1>12. \A q \in Row, u \in Tile : \A c \in Cols(u) :
           /\ <<q, c>> \in recon' => ReconJob(q, u) \in Taken'
           /\ ReconJob(q, u) \in Finished' => <<q, c>> \in recon'
    <2>1. ASSUME g = "idle" PROVE \A c \in Cols(t) : <<r, c>> \in recon
      <3>1. k = LastCol(t)  BY <1>5, <2>1
      <3> QED  BY <1>7, <1>8, <3>1 DEF Cols
    <2>2. ASSUME NEW q \in Row, NEW u \in Tile, NEW c \in Cols(u),
                 ReconJob(q, u) \in Finished'
          PROVE  <<q, c>> \in recon
      <3>1. CASE ReconJob(q, u) = job[w] /\ g = "idle"
        <4>1. q = r /\ u = t  BY <1>5, <3>1, JobsDiffer
        <4> QED  BY <2>1, <2>2, <3>1, <4>1
      <3>2. CASE ReconJob(q, u) \in Finished  BY <1>6, <2>2, <3>2 DEF ReconInv
      <3> QED  BY <1>4, <2>2, <3>1, <3>2
    <2> QED  BY <1>1, <1>6, <2>2 DEF ReconInv
  <1>13. \A q \in Row, c \in Col : <<q, c>> \in recon' =>
           \A p \in 0..(q - 1) : <<p, c>> \in recon'
    BY <1>6 DEF ReconInv
  <1> QED  BY <1>1, <1>10, <1>11, <1>12, <1>13, ReconPrimed

\* A tile's last row has been counted.
LEMMA ReconCounted ==
  ASSUME FrameInv, SoundInv, NEW w, Moves(w, "idle", {}), stage[w] = "tileDone",
         col' = col, recon' = recon, reconMap' = reconMap
  PROVE  ReconInv'
  <1>1. /\ w \in Worker /\ stage[w] \in InJob /\ stage' = [stage EXCEPT ![w] = "idle"]
        /\ job' = job /\ UNCHANGED frame /\ Taken' = Taken
    BY DEF Moves
  <1>2. stage[w] \in ReconStage /\ "idle" \notin ReconStage  BY DEF ReconStage
  <1>3. stage'[w] = "idle" /\ \A v \in Worker : v # w => stage'[v] = stage[v]
    BY <1>1 DEF FrameInv
  <1>4. Finished' = Finished \cup {job[w]}  BY FinishedMoved
  <1>5. PICK r \in Row, t \in Tile, k \in Col :
          /\ job[w] = ReconJob(r, t) /\ job[w].row = r /\ job[w].tile = t
          /\ job[w] \in Taken /\ col[w] = k /\ k \in Cols(t)
    BY <1>1, <1>2, ReconHand
  <1>6. ReconInv  BY DEF SoundInv
  <1>7. k = LastCol(t) /\ \A c \in Cols(t) : <<r, c>> \in recon <=> c < k \/ c = k
    BY <1>1, <1>2, <1>5, <1>6 DEF ReconInv
  <1>8. \A c \in Cols(t) : <<r, c>> \in recon
    <2>1. LastCol(t) \in Nat /\ FirstCol(t) \in Nat  BY Tiles
    <2> QED  BY <1>7, <2>1 DEF Cols
  <1>9. \A q \in Row, u \in Tile : \A c \in Cols(u) :
           /\ <<q, c>> \in recon' => ReconJob(q, u) \in Taken'
           /\ ReconJob(q, u) \in Finished' => <<q, c>> \in recon'
    <2>1. ASSUME NEW q \in Row, NEW u \in Tile, NEW c \in Cols(u),
                 ReconJob(q, u) = job[w]
          PROVE  <<q, c>> \in recon
      <3>1. q = r /\ u = t  BY <1>5, <2>1, JobsDiffer
      <3> QED  BY <1>8, <2>1, <3>1
    <2> QED  BY <1>1, <1>4, <1>6, <2>1 DEF ReconInv
  <1>10. \A v \in Worker : stage'[v] \in ReconStage =>
           stage[v] = stage'[v] /\ stage[v] \in ReconStage
    BY <1>2, <1>3
  <1>11. \A v \in Worker : stage'[v] \in ReconStage =>
          /\ col'[v] \in Cols(job[v].tile)
          /\ \A c \in Cols(job[v].tile) :
               <<job[v].row, c>> \in recon' <=>
                 c < col'[v] \/ (c = col'[v] /\ stage'[v] # "recon")
          /\ stage'[v] \notin {"recon", "reconWrite"} => col'[v] = LastCol(job[v].tile)
          /\ stage'[v] \in {"rowDone", "queueLpfAbove", "queueLpfLast"} => lfActive
          /\ stage'[v] = "tileDone" => job[v].row = LastRow /\ ~lfActive
    BY <1>6, <1>10 DEF ReconInv
  <1> QED  BY <1>1, <1>6, <1>9, <1>11, ReconPrimed DEF ReconInv

\* A job taken for reconstruction begins in its first column.
LEMMA ReconTake ==
  ASSUME FrameInv, SoundInv, NEW w \in Worker, Dequeue(w)
  PROVE  ReconInv'
  <1> DEFINE j == jobq[read + 1]
  <1>1. /\ j \in Queued /\ j \notin Taken /\ j \in AllJobs
        /\ Queued' = Queued /\ Taken' = Taken \cup {j}
        /\ stage[w] = "idle" /\ stage'[w] = j.type /\ job'[w] = j
        /\ \A v \in Worker : v # w =>
             stage'[v] = stage[v] /\ job'[v] = job[v] /\ col'[v] = col[v]
    BY TakeStep
  <1>2. UNCHANGED frame /\ recon' = recon /\ reconMap' = reconMap
    BY DEF Dequeue, sync, hist
  <1>3. col'[w] = IF j.type = "recon" THEN FirstCol(j.tile) ELSE 0
    BY DEF Dequeue, FrameInv
  <1>4. j.type \in {"parse", "recon", "lpf"} /\ j.row \in Row /\ j.tile \in Tile
        /\ (j.type = "recon" => j = ReconJob(j.row, j.tile))
    BY <1>1 DEF AllJobs, Jobs, ReconJob, RowJob
  <1> HIDE DEF j
  <1>5. Tile' = Tile /\ lfActive' = lfActive /\ tileCols' = tileCols
        /\ \A t : LastCol(t)' = LastCol(t) /\ FirstCol(t)' = FirstCol(t) /\ Cols(t)' = Cols(t)
    BY <1>2, TilesStay
  <1>6. Finished' = Finished  BY TakeFinished
  <1>7. ReconInv  BY DEF SoundInv
  <1>8. ASSUME NEW v \in Worker, stage'[v] \in ReconStage, v # w
        PROVE  /\ col'[v] \in Cols(job'[v].tile)
               /\ \A c \in Cols(job'[v].tile) :
                    <<job'[v].row, c>> \in recon' <=>
                      c < col'[v] \/ (c = col'[v] /\ stage'[v] # "recon")
               /\ stage'[v] \notin {"recon", "reconWrite"} => col'[v] = LastCol(job'[v].tile)
               /\ stage'[v] \in {"rowDone", "queueLpfAbove", "queueLpfLast"} => lfActive
               /\ stage'[v] = "tileDone" => job'[v].row = LastRow /\ ~lfActive
    <2>1. stage[v] \in ReconStage /\ stage'[v] = stage[v] /\ job'[v] = job[v] /\ col'[v] = col[v]
      BY <1>1, <1>8
    <2> QED  BY <1>2, <1>7, <2>1 DEF ReconInv
  <1>9. ASSUME stage'[w] \in ReconStage
        PROVE  /\ col'[w] \in Cols(job'[w].tile)
               /\ \A c \in Cols(job'[w].tile) :
                    <<job'[w].row, c>> \in recon' <=>
                      c < col'[w] \/ (c = col'[w] /\ stage'[w] # "recon")
               /\ stage'[w] = "recon"
    <2>1. j.type = "recon"  BY <1>1, <1>4, <1>9 DEF ReconStage
    <2>2. FirstCol(j.tile) \in Nat /\ LastCol(j.tile) \in Nat
          /\ FirstCol(j.tile) \in Cols(j.tile)
      BY <1>4, Tiles
    <2>3. \A c \in Cols(j.tile) : <<j.row, c>> \notin recon
      BY <1>1, <1>4, <1>7, <2>1 DEF ReconInv
    <2>4. \A c \in Cols(j.tile) : ~(c < FirstCol(j.tile))  BY <2>2 DEF Cols
    <2> QED  BY <1>1, <1>2, <1>3, <2>1, <2>2, <2>3, <2>4
  <1>10. \A v \in Worker : stage'[v] \in ReconStage =>
           /\ col'[v] \in Cols(job'[v].tile)
           /\ \A c \in Cols(job'[v].tile) :
                <<job'[v].row, c>> \in recon' <=>
                  c < col'[v] \/ (c = col'[v] /\ stage'[v] # "recon")
           /\ stage'[v] \notin {"recon", "reconWrite"} => col'[v] = LastCol(job'[v].tile)
           /\ stage'[v] \in {"rowDone", "queueLpfAbove", "queueLpfLast"} => lfActive'
           /\ stage'[v] = "tileDone" => job'[v].row = LastRow /\ ~lfActive'
    BY <1>5, <1>8, <1>9
  <1>11. \A r \in Row, t \in Tile : \A c \in Cols(t) :
           /\ <<r, c>> \in recon' => ReconJob(r, t) \in Taken'
           /\ ReconJob(r, t) \in Finished' => <<r, c>> \in recon'
    BY <1>1, <1>2, <1>6, <1>7 DEF ReconInv
  <1>12. /\ reconMap' \subseteq recon' /\ recon' \subseteq SB
         /\ \A r \in Row, c \in Col : <<r, c>> \in recon' =>
              \A q \in 0..(r - 1) : <<q, c>> \in recon'
    BY <1>2, <1>7 DEF ReconInv
  <1> QED  BY <1>5, <1>10, <1>11, <1>12 DEF ReconInv, Cols, LastCol, FirstCol

-----------------------------------------------------------------------------
(* The tiles that are through, when there is no loop filter.               *)

ThroughTiles == {t \in Tile : ReconJob(LastRow, t) \in Finished}

LEMMA DoneKept ==
  ASSUME FrameInv, SoundInv, NEW w, NEW g, NEW N, Moves(w, g, N),
         tilesDone' = tilesDone,
         lfActive \/ g # "idle" \/ job[w].type # "recon" \/ job[w].row # LastRow
  PROVE  DoneInv'
  <1>1. Tile' = Tile /\ lfActive' = lfActive  BY TilesStay DEF Moves
  <1>2. lfActive \/ \A t \in Tile : ReconJob(LastRow, t) \in Finished' <=>
                                    ReconJob(LastRow, t) \in Finished
    <2>1. \A t : ReconJob(LastRow, t).type = "recon" /\ ReconJob(LastRow, t).row = LastRow
      BY DEF ReconJob, RowJob
    <2> QED  BY <2>1, FinishedMoved
  <1> QED  BY <1>1, <1>2 DEF SoundInv, DoneInv

LEMMA DoneCounted ==
  ASSUME FrameInv, SoundInv, NEW w, Moves(w, "idle", {}), stage[w] = "tileDone",
         tilesDone' = tilesDone + 1
  PROVE  DoneInv'
  <1>1. Tile' = Tile /\ lfActive' = lfActive  BY TilesStay DEF Moves
  <1>2. w \in Worker /\ stage[w] \in ReconStage /\ stage[w] \in InJob
    BY DEF Moves, ReconStage
  <1>3. PICK t \in Tile : job[w] = ReconJob(LastRow, t) /\ ~lfActive
    BY <1>2, ReconHand DEF SoundInv, ReconInv
  <1>4. Finished' = Finished \cup {job[w]}  BY FinishedMoved
  <1>5. job[w] \notin Finished  BY <1>2 DEF Finished, At
  <1>6. t \notin ThroughTiles /\ ThroughTiles' = ThroughTiles \cup {t}
    BY <1>1, <1>3, <1>4, <1>5, JobsDiffer DEF ThroughTiles
  <1>7. IsFiniteSet(ThroughTiles)  BY TilesCounted DEF ThroughTiles
  <1>8. Cardinality(ThroughTiles') = Cardinality(ThroughTiles) + 1
    BY <1>6, <1>7, FS_AddElement
  <1>9. tilesDone = Cardinality(ThroughTiles)
    BY <1>3 DEF SoundInv, DoneInv, ThroughTiles
  <1>10. tilesDone' = Cardinality(ThroughTiles')  BY <1>8, <1>9
  <1> QED  BY <1>1, <1>3, <1>10 DEF DoneInv, ThroughTiles

LEMMA DoneTake ==
  ASSUME FrameInv, SoundInv, NEW w \in Worker, Dequeue(w)
  PROVE  DoneInv'
  <1>1. UNCHANGED frame /\ tilesDone' = tilesDone  BY DEF Dequeue, sync
  <1>2. Tile' = Tile /\ lfActive' = lfActive  BY <1>1, TilesStay
  <1> QED  BY <1>1, <1>2, TakeFinished DEF SoundInv, DoneInv

-----------------------------------------------------------------------------
(* The loop filter.                                                        *)

\* The filter invariant in the next state, of a worker that keeps its job.
LEMMA FilterPrimed ==
  ASSUME UNCHANGED frame, job' = job,
         filtered' \subseteq SB, curSbCol' \in [Row -> Int],
         \A w \in Worker : stage'[w] = "lpf" =>
           /\ lfActive
           /\ col'[w] \in Col
           /\ \A c \in Col : <<job[w].row, c>> \in filtered' <=> c < col'[w],
         \A r \in Row, c \in Col :
           /\ <<r, c>> \in filtered' => LpfJob(r) \in Taken'
           /\ LpfJob(r) \in Finished' => <<r, c>> \in filtered'
           /\ c <= curSbCol'[r] => <<r, c>> \in filtered'
           /\ <<r, c>> \in filtered' =>
                /\ r > 0 => \A d \in Col : d <= WaitedFor(c) => <<r - 1, d>> \in filtered'
                /\ \A q \in 0..(r - 1) : <<q, c>> \in filtered',
         lfApplied' <=> <<LastRow, SbCols - 1>> \in filtered'
  PROVE  FilterInv'
  <1>1. lfActive' = lfActive  BY TilesStay
  <1> QED  BY <1>1 DEF FilterInv

\* Steps of other jobs leave the filter alone.
LEMMA FilterKept ==
  ASSUME FrameInv, SoundInv, NEW w, NEW g, NEW N, Moves(w, g, N),
         job[w].type # "lpf", filtered' = filtered, curSbCol' = curSbCol,
         lfApplied' = lfApplied
  PROVE  FilterInv'
  <1>1. /\ w \in Worker /\ stage[w] \in InJob /\ stage' = [stage EXCEPT ![w] = g]
        /\ job' = job /\ UNCHANGED frame /\ Taken' = Taken
        /\ \A v \in Worker : v # w => col'[v] = col[v]
    BY DEF Moves
  <1>2. g # "lpf"
    BY <1>1, InHand DEF Moves, StagesOf, ReconStage, SoundInv
  <1>3. \A v \in Worker : stage'[v] = "lpf" =>
          v # w /\ stage[v] = "lpf" /\ col'[v] = col[v]
    BY <1>1, <1>2 DEF FrameInv
  <1>4. \A r : LpfJob(r) \in Finished' <=> LpfJob(r) \in Finished
    <2>1. \A r : LpfJob(r) # job[w]  BY JobsDiffer
    <2> QED  BY <2>1, FinishedMoved
  <1>5. FilterInv  BY DEF SoundInv
  <1>6. \A v \in Worker : stage'[v] = "lpf" =>
          /\ lfActive
          /\ col'[v] \in Col
          /\ \A c \in Col : <<job[v].row, c>> \in filtered' <=> c < col'[v]
    BY <1>3, <1>5 DEF FilterInv
  <1>7. \A r \in Row, c \in Col :
          /\ <<r, c>> \in filtered' => LpfJob(r) \in Taken'
          /\ LpfJob(r) \in Finished' => <<r, c>> \in filtered'
          /\ c <= curSbCol'[r] => <<r, c>> \in filtered'
          /\ <<r, c>> \in filtered' =>
               /\ r > 0 => \A d \in Col : d <= WaitedFor(c) => <<r - 1, d>> \in filtered'
               /\ \A q \in 0..(r - 1) : <<q, c>> \in filtered'
    BY <1>1, <1>4, <1>5 DEF FilterInv
  <1> QED  BY <1>1, <1>5, <1>6, <1>7, FilterPrimed DEF FilterInv

\* A row taken to be filtered begins in column 0.
LEMMA FilterTake ==
  ASSUME FrameInv, SoundInv, NEW w \in Worker, Dequeue(w)
  PROVE  FilterInv'
  <1> DEFINE j == jobq[read + 1]
  <1>1. /\ j \in Queued /\ j \notin Taken /\ j \in AllJobs
        /\ Queued' = Queued /\ Taken' = Taken \cup {j}
        /\ stage[w] = "idle" /\ stage'[w] = j.type /\ job'[w] = j
        /\ \A v \in Worker : v # w =>
             stage'[v] = stage[v] /\ job'[v] = job[v] /\ col'[v] = col[v]
    BY TakeStep
  <1>2. UNCHANGED frame /\ filtered' = filtered /\ curSbCol' = curSbCol
        /\ lfApplied' = lfApplied
    BY DEF Dequeue, sync, hist
  <1>3. col'[w] = IF j.type = "recon" THEN FirstCol(j.tile) ELSE 0
    BY DEF Dequeue, FrameInv
  <1>4. j.row \in Row /\ (j.type = "lpf" => j = LpfJob(j.row) /\ lfActive)
    <2>1. j.row \in Row /\ (j.type = "lpf" => j = LpfJob(j.row))
      BY <1>1 DEF AllJobs, Jobs, LpfJob, RowJob
    <2>2. j.type = "lpf" => lfActive  BY <1>1 DEF SoundInv, QueueInv
    <2> QED  BY <2>1, <2>2
  <1> HIDE DEF j
  <1>5. lfActive' = lfActive  BY <1>2, TilesStay
  <1>6. Finished' = Finished  BY TakeFinished
  <1>7. FilterInv  BY DEF SoundInv
  <1>8. \A v \in Worker : stage'[v] = "lpf" =>
          /\ lfActive'
          /\ col'[v] \in Col
          /\ \A c \in Col : <<job'[v].row, c>> \in filtered' <=> c < col'[v]
    <2>1. ASSUME NEW v \in Worker, stage'[v] = "lpf", v # w
          PROVE  /\ lfActive'
                 /\ col'[v] \in Col
                 /\ \A c \in Col : <<job'[v].row, c>> \in filtered' <=> c < col'[v]
      BY <1>1, <1>2, <1>5, <1>7, <2>1 DEF FilterInv
    <2>2. ASSUME stage'[w] = "lpf"
          PROVE  /\ lfActive'
                 /\ col'[w] \in Col
                 /\ \A c \in Col : <<job'[w].row, c>> \in filtered' <=> c < col'[w]
      <3>1. j.type = "lpf" /\ job'[w] = j /\ col'[w] = 0  BY <1>1, <1>3, <2>2
      <3>2. \A c \in Col : <<j.row, c>> \notin filtered
        BY <1>1, <1>4, <1>7, <3>1 DEF FilterInv
      <3>3. 0 \in Col /\ \A c \in Col : ~(c < 0)  BY Tiles DEF Col
      <3> QED  BY <1>2, <1>4, <1>5, <3>1, <3>2, <3>3
    <2> QED  BY <2>1, <2>2
  <1>9. \A r \in Row, c \in Col :
          /\ <<r, c>> \in filtered' => LpfJob(r) \in Taken'
          /\ LpfJob(r) \in Finished' => <<r, c>> \in filtered'
          /\ c <= curSbCol'[r] => <<r, c>> \in filtered'
          /\ <<r, c>> \in filtered' =>
               /\ r > 0 => \A d \in Col : d <= WaitedFor(c) => <<r - 1, d>> \in filtered'
               /\ \A q \in 0..(r - 1) : <<q, c>> \in filtered'
    BY <1>1, <1>2, <1>6, <1>7 DEF FilterInv
  <1> QED  BY <1>2, <1>7, <1>8, <1>9 DEF FilterInv

\* A superblock waits for as much as the one before it, or for what the row
\* above must have published.
LEMMA Waited ==
  ASSUME NEW k \in Nat
  PROVE  /\ WaitedFor(k) \in Int /\ k + 1 <= WaitedFor(k)
         /\ k % SyncRange = 0 => WaitedFor(k) = k + SyncRange
         /\ k % SyncRange # 0 => k - 1 \in Nat /\ WaitedFor(k - 1) = WaitedFor(k)
  <1>1. SyncRange \in {1, 2, 4, 8}  BY SyncRangeAssumption
  <1>2. CASE SyncRange = 1  BY <1>2 DEF WaitedFor
  <1>3. CASE SyncRange = 2  BY <1>3 DEF WaitedFor
  <1>4. CASE SyncRange = 4  BY <1>4 DEF WaitedFor
  <1>5. CASE SyncRange = 8  BY <1>5 DEF WaitedFor
  <1> QED  BY <1>1, <1>2, <1>3, <1>4, <1>5

\* A superblock is filtered when the row above is far enough.
LEMMA FilterAllowed ==
  ASSUME FrameInv, SoundInv, NEW w \in Worker, stage[w] = "lpf", RowAboveFar(w),
         NEW r \in Row, NEW k \in Col, job[w].row = r, col[w] = k
  PROVE  /\ r > 0 => \A d \in Col : d <= WaitedFor(k) => <<r - 1, d>> \in filtered
         /\ \A q \in 0..(r - 1) : <<q, k>> \in filtered
  <1>1. FilterInv  BY DEF SoundInv
  <1>2. /\ k \in Nat /\ k + 1 <= WaitedFor(k) /\ WaitedFor(k) \in Int
        /\ k % SyncRange = 0 => WaitedFor(k) = k + SyncRange
        /\ k % SyncRange # 0 => k - 1 \in Nat /\ WaitedFor(k - 1) = WaitedFor(k)
    <2>1. k \in Nat  BY Tiles DEF Col
    <2> QED  BY <2>1, Waited
  <1>3. SyncRange \in Int  BY SyncRangeAssumption
  <1>4. ASSUME r > 0
        PROVE  \A d \in Col : d <= WaitedFor(k) => <<r - 1, d>> \in filtered
    <2>1. r - 1 \in Row  BY <1>4, Tiles DEF Row
    <2>2. CASE k % SyncRange = 0
      <3>1. curSbCol[r - 1] \in Int /\ k <= curSbCol[r - 1] - SyncRange
        BY <1>1, <1>4, <2>1, <2>2 DEF RowAboveFar, FilterInv
      <3>2. \A d \in Col : d \in Int  BY Tiles DEF Col
      <3>3. \A d \in Col : d <= WaitedFor(k) => d <= curSbCol[r - 1]
        BY <1>2, <1>3, <2>2, <3>1, <3>2
      <3> QED  BY <1>1, <2>1, <3>3 DEF FilterInv
    <2>3. CASE k % SyncRange # 0
      <3>1. k - 1 \in Col /\ k - 1 < k  BY <1>2, <2>3, Tiles DEF Col
      <3>2. <<r, k - 1>> \in filtered  BY <1>1, <3>1 DEF FilterInv
      <3>3. \A d \in Col : d <= WaitedFor(k - 1) => <<r - 1, d>> \in filtered
        BY <1>1, <1>4, <3>1, <3>2 DEF FilterInv
      <3> QED  BY <1>2, <2>3, <3>3
    <2> QED  BY <2>2, <2>3
  <1>5. ASSUME NEW q \in 0..(r - 1) PROVE <<q, k>> \in filtered
    <2>1. r \in Nat /\ r > 0 /\ r - 1 \in Row /\ (q = r - 1 \/ q \in 0..(r - 1 - 1))
      BY <1>5, Tiles DEF Row
    <2>2. <<r - 1, k>> \in filtered  BY <1>2, <1>4, <2>1
    <2> QED  BY <1>1, <2>1, <2>2 DEF FilterInv
  <1> QED  BY <1>4, <1>5

\* A superblock is filtered and, if it is to be, published.
LEMMA FilterAdded ==
  ASSUME FrameInv, SoundInv, NobodyFailed', NEW w \in Worker, Filter(w)
  PROVE  /\ stage[w] = "lpf" /\ ~Fails(w)
         /\ Moves(w, IF col[w] = SbCols - 1 THEN "idle" ELSE "lpf", {})
         /\ lfApplied' = (lfApplied \/ (col[w] = SbCols - 1 /\ job[w].row = LastRow))
         /\ terminated' = (terminated \/ (col[w] = SbCols - 1 /\ job[w].row = LastRow))
         /\ QueueInv' /\ HandInv' /\ FilterInv'
  <1>1. /\ RowAboveFar(w) /\ ~Fails(w) /\ stage[w] = "lpf"
        /\ filtered' = filtered \cup {<<job[w].row, col[w]>>}
        /\ curSbCol' = [curSbCol EXCEPT ![job[w].row] = Published(@, col[w])]
        /\ col' = [col EXCEPT ![w] = IF col[w] = SbCols - 1 THEN @ ELSE @ + 1]
        /\ stage' = [stage EXCEPT ![w] = IF col[w] = SbCols - 1 THEN "idle" ELSE "lpf"]
        /\ lfApplied' = (lfApplied \/ (col[w] = SbCols - 1 /\ job[w].row = LastRow))
        /\ terminated' = (terminated \/ (col[w] = SbCols - 1 /\ job[w].row = LastRow))
        /\ UNCHANGED <<frame, jobq, read, job, err>>
    BY FailShows DEF Filter, MoveTo
  <1>2. stage[w] \in InJob  BY <1>1 DEF InJob
  <1>3. PICK r \in Row : job[w] = LpfJob(r) /\ job[w].row = r /\ job[w] \in Taken
                         /\ job[w].type = "lpf"
    BY <1>1, <1>2, InHand DEF SoundInv
  <1>4. FilterInv  BY DEF SoundInv
  <1>5. PICK k \in Col : col[w] = k  BY <1>1, <1>4 DEF FilterInv
  <1> DEFINE g == IF k = SbCols - 1 THEN "idle" ELSE "lpf"
  <1>6. /\ stage' = [stage EXCEPT ![w] = g]
        /\ filtered' = filtered \cup {<<r, k>>}
        /\ curSbCol' = [curSbCol EXCEPT ![r] = Published(@, k)]
        /\ lfApplied' = (lfApplied \/ (k = SbCols - 1 /\ r = LastRow))
    BY <1>1, <1>3, <1>5
  <1>7. col' \in [Worker -> Int] /\ \A v \in Worker : v # w => col'[v] = col[v]
    BY <1>1 DEF FrameInv
  <1>8. col'[w] = IF k = SbCols - 1 THEN k ELSE k + 1  BY <1>1, <1>5 DEF FrameInv
  <1>9. g \in StagesOf(job[w].type) \cup {"idle"}  BY <1>3 DEF StagesOf
  <1>10. Moves(w, g, {}) /\ QueueInv' /\ HandInv'
    <2> HIDE DEF g
    <2> QED  BY <1>1, <1>2, <1>6, <1>7, <1>9, PlainStep
  <1>11. Taken' = Taken /\ Finished' = IF g = "idle" THEN Finished \cup {job[w]} ELSE Finished
    <2> HIDE DEF g
    <2>1. Taken' = Taken  BY <1>10 DEF Moves
    <2>2. Finished' = IF g = "idle" THEN Finished \cup {job[w]} ELSE Finished
      BY <1>10, FinishedMoved
    <2> QED  BY <2>1, <2>2
  <1>12. stage'[w] = g /\ \A v \in Worker : v # w => stage'[v] = stage[v]
    BY <1>6 DEF FrameInv
  <1>13. \A v \in Worker : v # w /\ stage[v] = "lpf" => job[v].row # r
    <2>1. ASSUME NEW v \in Worker, v # w, stage[v] = "lpf" PROVE job[v].row # r
      <3>1. stage[v] \in InJob  BY <2>1 DEF InJob
      <3>2. job[v] = LpfJob(job[v].row)  BY <2>1, <3>1, InHand DEF SoundInv
      <3>3. job[v] # job[w]  BY <1>2, <2>1, <3>1 DEF SoundInv, HandInv
      <3> QED  BY <1>3, <3>2, <3>3
    <2> QED  BY <2>1
  <1>14. \A c \in Col : <<r, c>> \in filtered <=> c < k
    BY <1>1, <1>3, <1>4, <1>5 DEF FilterInv
  <1>15. \A c \in Col : c \in Nat /\ c <= SbCols - 1  BY Tiles DEF Col
  <1>16. \A c \in Col : <<r, c>> \in filtered' <=> c <= k
    BY <1>6, <1>14, <1>15
  <1>17. ASSUME NEW v \in Worker, stage'[v] = "lpf"
         PROVE  /\ lfActive
                /\ col'[v] \in Col
                /\ \A c \in Col : <<job[v].row, c>> \in filtered' <=> c < col'[v]
    <2>1. CASE v # w
      <3>1. stage[v] = "lpf" /\ col'[v] = col[v]  BY <1>7, <1>12, <1>17, <2>1
      <3>2. \A c \in Col : <<job[v].row, c>> \in filtered' <=> <<job[v].row, c>> \in filtered
        BY <1>6, <1>13, <2>1, <3>1
      <3> QED  BY <1>4, <3>1, <3>2 DEF FilterInv
    <2>2. CASE v = w
      <3>1. k # SbCols - 1 /\ col'[w] = k + 1  BY <1>8, <1>12, <1>17, <2>2
      <3>2. k + 1 \in Col  BY <1>15, <3>1, Tiles DEF Col
      <3>3. \A c \in Col : c <= k <=> c < k + 1  BY <1>15
      <3> QED  BY <1>1, <1>3, <1>4, <1>16, <2>2, <3>1, <3>2, <3>3 DEF FilterInv
    <2> QED  BY <2>1, <2>2
  <1>18. /\ filtered' \subseteq SB
         /\ curSbCol' \in [Row -> Int]
         /\ \A q \in Row : q # r => curSbCol'[q] = curSbCol[q]
         /\ curSbCol'[r] = IF k = SbCols - 1 THEN SbCols + SyncRange
                           ELSE IF k % SyncRange = 0 THEN k ELSE curSbCol[r]
    <2>1. SyncRange \in Int /\ SbCols \in Int  BY SyncRangeAssumption, Tiles
    <2> QED  BY <1>4, <1>6, <1>15, <2>1 DEF FilterInv, SB, Published
  <1>19. ASSUME NEW q \in Row, NEW c \in Col
         PROVE  /\ <<q, c>> \in filtered' => LpfJob(q) \in Taken'
                /\ LpfJob(q) \in Finished' => <<q, c>> \in filtered'
                /\ c <= curSbCol'[q] => <<q, c>> \in filtered'
    <2>1. CASE q # r
      <3>1. LpfJob(q) # job[w]  BY <1>3, <2>1, JobsDiffer
      <3>2. <<q, c>> \in filtered' <=> <<q, c>> \in filtered  BY <1>6, <2>1
      <3>3. curSbCol'[q] = curSbCol[q]  BY <1>18, <2>1
      <3> HIDE DEF g
      <3> QED  BY <1>4, <1>11, <3>1, <3>2, <3>3 DEF FilterInv
    <2>2. CASE q = r
      <3>1. LpfJob(r) \in Taken'  BY <1>3, <1>11
      <3>2. LpfJob(r) \notin Finished
        BY <1>2, <1>3 DEF Finished, At
      <3>3. LpfJob(r) \in Finished' => k = SbCols - 1  BY <1>11, <3>2
      <3>4. LpfJob(r) \in Finished' => <<r, c>> \in filtered'
        BY <1>15, <1>16, <3>3
      <3>5. c <= curSbCol'[r] => <<r, c>> \in filtered'
        <4>1. c <= curSbCol[r] => <<r, c>> \in filtered  BY <1>4 DEF FilterInv
        <4> QED  BY <1>6, <1>15, <1>16, <1>18, <4>1
      <3> QED  BY <2>2, <3>1, <3>4, <3>5
    <2> QED  BY <2>1, <2>2
  <1>20. /\ r > 0 => \A d \in Col : d <= WaitedFor(k) => <<r - 1, d>> \in filtered
         /\ \A q \in 0..(r - 1) : <<q, k>> \in filtered
    BY <1>1, <1>3, <1>5, FilterAllowed
  <1>21. ASSUME NEW q \in Row, NEW c \in Col, <<q, c>> \in filtered'
         PROVE  /\ q > 0 => \A d \in Col : d <= WaitedFor(c) => <<q - 1, d>> \in filtered'
                /\ \A p \in 0..(q - 1) : <<p, c>> \in filtered'
    <2>1. CASE <<q, c>> \in filtered
      <3>1. /\ q > 0 => \A d \in Col : d <= WaitedFor(c) => <<q - 1, d>> \in filtered
            /\ \A p \in 0..(q - 1) : <<p, c>> \in filtered
        BY <1>4, <2>1 DEF FilterInv
      <3> QED  BY <1>6, <3>1
    <2>2. CASE q = r /\ c = k
      BY <1>6, <1>20, <2>2
    <2> QED  BY <1>6, <1>21, <2>1, <2>2
  <1>22. lfApplied' <=> <<LastRow, SbCols - 1>> \in filtered'
    <2>1. lfApplied <=> <<LastRow, SbCols - 1>> \in filtered  BY <1>4 DEF FilterInv
    <2> QED  BY <1>6, <2>1
  <1>23. FilterInv'
    <2>1. UNCHANGED frame /\ job' = job  BY <1>1
    <2> QED  BY <1>17, <1>18, <1>19, <1>21, <1>22, <2>1, FilterPrimed
  <1> QED  BY <1>1, <1>5, <1>10, <1>23

-----------------------------------------------------------------------------
(* The end of the frame.                                                   *)

\* The job that is to fail does not get past the stage it fails at.
LEMMA NotFailing ==
  ASSUME FrameInv, SoundInv, NEW w \in Worker, stage[w] \in InJob,
         stage[w] \in {"parse", "recon", "lpf"} => ~Fails(w)
  PROVE  job[w] # failing
  <1>1. job[w] \in Taken  BY DEF SoundInv, HandInv
  <1>2. ASSUME job[w] = failing PROVE FALSE
    <2>1. failing \in At({failing.type})  BY <1>1, <1>2 DEF SoundInv, EndInv
    <2>2. PICK v \in Worker : stage[v] = failing.type /\ job[v] = failing
      BY <2>1 DEF At
    <2>3. failing.type \in {"parse", "recon", "lpf"}
      BY <1>2, InHand DEF SoundInv
    <2>4. stage[v] \in InJob  BY <2>2, <2>3 DEF InJob, ReconStage
    <2>5. v = w  BY <1>2, <2>2, <2>4 DEF SoundInv, HandInv
    <2> QED  BY <1>2, <2>2, <2>3, <2>5 DEF Fails
  <1> QED  BY <1>2

LEMMA EndMoved ==
  ASSUME FrameInv, SoundInv, NEW w, NEW g, NEW N, Moves(w, g, N),
         stage[w] \in {"parse", "recon", "lpf"} => ~Fails(w),
         terminated' \in BOOLEAN,
         terminated' => IF lfActive THEN lfApplied' ELSE tilesDone' = tileCols,
         terminated => terminated' /\ UNCHANGED <<jobq, read>>
  PROVE  EndInv'
  <1>1. /\ w \in Worker /\ stage[w] \in InJob /\ stage' = [stage EXCEPT ![w] = g]
        /\ job' = job /\ UNCHANGED frame /\ Taken' = Taken
        /\ g \in StagesOf(job[w].type) \cup {"idle"}
    BY DEF Moves
  <1>2. job[w] # failing  BY <1>1, NotFailing
  <1>3. EndInv  BY DEF SoundInv
  <1>4. g # "exit"  BY <1>1 DEF StagesOf, ReconStage
  <1>5. \A v \in Worker : stage'[v] = "exit" => stage[v] = "exit"
    BY <1>1, <1>4 DEF FrameInv
  <1>6. \A v \in Worker : stage'[v] = "exit" => terminated' /\ read' = Len(jobq')
    BY <1>3, <1>5 DEF EndInv
  <1>7. failing' = failing /\ lfActive' = lfActive /\ tileCols' = tileCols
    BY <1>1 DEF frame
  <1>8. ASSUME failing \in Taken PROVE failing \in At({failing.type})'
    <2>1. failing \in At({failing.type})  BY <1>3, <1>8 DEF EndInv
    <2>2. PICK v \in Worker : stage[v] = failing.type /\ job[v] = failing
      BY <2>1 DEF At
    <2>3. v # w  BY <1>2, <2>2
    <2>4. stage'[v] = failing'.type /\ job'[v] = failing
      BY <1>1, <1>7, <2>2, <2>3 DEF FrameInv
    <2> QED  BY <1>7, <2>2, <2>4 DEF At
  <1> QED  BY <1>1, <1>3, <1>6, <1>7, <1>8 DEF EndInv

LEMMA EndTake ==
  ASSUME FrameInv, SoundInv, NEW w \in Worker, Dequeue(w)
  PROVE  EndInv'
  <1> DEFINE j == jobq[read + 1]
  <1>1. /\ Taken' = Taken \cup {j}
        /\ stage[w] = "idle" /\ stage'[w] = j.type /\ job'[w] = j
        /\ \A v \in Worker : v # w =>
             stage'[v] = stage[v] /\ job'[v] = job[v] /\ col'[v] = col[v]
    BY TakeStep
  <1>2. /\ read < Len(jobq) /\ UNCHANGED <<jobq, terminated, lfApplied, tilesDone, frame>>
    BY DEF Dequeue, sync
  <1>3. j.type \in {"parse", "recon", "lpf"}  BY TakeStep DEF AllJobs, Jobs
  <1> HIDE DEF j
  <1>4. EndInv /\ read \in Int  BY DEF SoundInv, QueueInv
  <1>5. \A v \in Worker : stage'[v] # "exit"
    <2>1. read # Len(jobq)  BY <1>2, <1>4
    <2> QED  BY <1>1, <1>3, <1>4, <2>1 DEF EndInv
  <1>6. failing' = failing /\ lfActive' = lfActive /\ tileCols' = tileCols
    BY <1>2 DEF frame
  <1>7. ASSUME failing \in Taken' PROVE failing \in At({failing.type})'
    <2>1. CASE failing = j
      BY <1>1, <1>6, <2>1 DEF At
    <2>2. CASE failing \in Taken
      <3>1. failing \in At({failing.type})  BY <1>4, <2>2 DEF EndInv
      <3>2. PICK v \in Worker : stage[v] = failing.type /\ job[v] = failing
        BY <3>1 DEF At
      <3>3. CASE v = w
        <4>1. failing \in Jobs  BY <2>2, QueuedJobs DEF SoundInv, AllJobs
        <4>2. failing.type # "idle"  BY <4>1 DEF Jobs
        <4> QED  BY <1>1, <3>2, <3>3, <4>2
      <3>4. CASE v # w
        <4>1. stage'[v] = failing'.type /\ job'[v] = failing  BY <1>1, <1>6, <3>2, <3>4
        <4> QED  BY <1>6, <3>2, <4>1 DEF At
      <3> QED  BY <3>3, <3>4
    <2> QED  BY <1>1, <1>7, <2>1, <2>2
  <1> QED  BY <1>2, <1>4, <1>5, <1>6, <1>7 DEF EndInv

-----------------------------------------------------------------------------
(* The steps of a worker, as long as nobody fails.                         *)

LEMMA TakeSound ==
  ASSUME FrameInv, SoundInv, NEW w \in Worker, Dequeue(w)
  PROVE  SoundInv'
  <1>1. QueueInv' /\ HandInv'  BY TakeStep
  <1> QED  BY <1>1, ParseTake, RowsTake, ReconTake, DoneTake, FilterTake, EndTake
           DEF SoundInv

LEMMA LeaveSound ==
  ASSUME FrameInv, SoundInv, NEW w \in Worker, Leave(w)
  PROVE  SoundInv'
  <1>1. /\ stage[w] = "idle" /\ stage' = [stage EXCEPT ![w] = "exit"]
        /\ read = Len(jobq) /\ terminated
        /\ UNCHANGED <<frame, queueV, sync, job, col, err, lfApplied, verdict, hist>>
    BY DEF Leave, MoveTo
  <1>2. /\ UNCHANGED <<frame, jobq, read, terminated, job, col>>
        /\ UNCHANGED <<reconMap, rowTiles, tilesDone, curSbCol, lfApplied, recon, filtered>>
    BY <1>1 DEF queueV, sync, hist
  <1>3. QueueInv' /\ Queued' = Queued /\ Taken' = Taken
    BY <1>2, QueueSame DEF SoundInv
  <1>4. /\ stage'[w] = "exit"
        /\ \A v \in Worker : v # w => stage'[v] = stage[v]
    BY <1>1 DEF FrameInv
  <1>5. Tile' = Tile /\ lfActive' = lfActive /\ tileCols' = tileCols
        /\ \A t : LastCol(t)' = LastCol(t) /\ Cols(t)' = Cols(t)
    BY <1>2, TilesStay
  <1>6. ASSUME NEW S, S \subseteq InJob PROVE At(S)' = At(S)
    <2>1. "exit" \notin S /\ "idle" \notin S  BY <1>6 DEF InJob, ReconStage
    <2>2. \A v \in Worker : stage'[v] \in S <=> stage[v] \in S  BY <1>1, <1>4, <2>1
    <2> QED  BY <1>2, <2>2 DEF At
  <1>7. Finished' = Finished
    <2>1. At(InJob)' = At(InJob)  BY <1>6
    <2> QED  BY <1>3, <2>1 DEF Finished
  <1>8. At({"parse"})' = At({"parse"})
    <2>1. {"parse"} \subseteq InJob  BY DEF InJob
    <2> QED  BY <1>6, <2>1
  <1>9. \A v \in Worker : /\ stage'[v] \in InJob => v # w /\ stage[v] = stage'[v]
                          /\ stage'[v] # stage[v] => v = w
    <2>1. "exit" \notin InJob  BY DEF InJob, ReconStage
    <2> QED  BY <1>4, <2>1
  <1>10. HandInv'
    BY <1>2, <1>3, <1>9 DEF SoundInv, HandInv
  <1>11. ParseInv'
    <2>1. ParseInv  BY DEF SoundInv
    <2>2. \A v \in Worker : stage'[v] = "queueParse" => stage[v] = "queueParse"
      BY <1>9 DEF InJob
    <2> QED  BY <1>2, <1>3, <1>5, <1>7, <1>8, <2>1, <2>2 DEF ParseInv
  <1>12. \A j : j \in Unready' <=> j \in Unready
    <2>1. \A v \in Worker : BeforeRowDone(v)' <=> BeforeRowDone(v)
      <3>1. \A v \in Worker : v # w => (BeforeRowDone(v)' <=> BeforeRowDone(v))
        BY <1>2, <1>4, <1>5 DEF BeforeRowDone, LastCol, FirstCol
      <3>2. ~BeforeRowDone(w) /\ ~BeforeRowDone(w)'  BY <1>1, <1>4 DEF BeforeRowDone
      <3> QED  BY <3>1, <3>2
    <2> QED  BY <1>2, <2>1 DEF Unready
  <1>13. RowsInv'
    <2>1. RowsInv  BY DEF SoundInv
    <2>2. \A r : ReadyTiles(r)' = ReadyTiles(r)  BY <1>3, <1>5, <1>12 DEF ReadyTiles
    <2>3. \A v \in Worker : /\ stage'[v] = "queueLpfAbove" <=> stage[v] = "queueLpfAbove"
                            /\ stage'[v] = "queueLpfLast" <=> stage[v] = "queueLpfLast"
      BY <1>1, <1>4
    <2>4. \A v \in Worker, r \in Row : Owes(v, r)' <=> Owes(v, r)
      BY <1>2, <2>3 DEF Owes
    <2> QED  BY <1>2, <1>3, <1>5, <2>1, <2>2, <2>3, <2>4 DEF RowsInv
  <1>14. ReconInv'
    <2>1. ReconInv  BY DEF SoundInv
    <2>2. \A v \in Worker : stage'[v] \in ReconStage => stage[v] = stage'[v]
      BY <1>9 DEF InJob
    <2>3. UNCHANGED frame /\ job' = job /\ col' = col /\ recon' = recon /\ reconMap' = reconMap
      BY <1>2
    <2>4. \A v \in Worker : stage'[v] \in ReconStage =>
            /\ col'[v] \in Cols(job[v].tile)
            /\ \A c \in Cols(job[v].tile) :
                 <<job[v].row, c>> \in recon' <=>
                   c < col'[v] \/ (c = col'[v] /\ stage'[v] # "recon")
            /\ stage'[v] \notin {"recon", "reconWrite"} => col'[v] = LastCol(job[v].tile)
            /\ stage'[v] \in {"rowDone", "queueLpfAbove", "queueLpfLast"} => lfActive
            /\ stage'[v] = "tileDone" => job[v].row = LastRow /\ ~lfActive
      BY <2>1, <2>2, <2>3 DEF ReconInv
    <2> QED  BY <1>3, <1>7, <2>1, <2>3, <2>4, ReconPrimed DEF ReconInv
  <1>15. DoneInv'
    BY <1>2, <1>5, <1>7 DEF SoundInv, DoneInv
  <1>16. FilterInv'
    <2>1. \A v \in Worker : stage'[v] = "lpf" => stage[v] = "lpf"  BY <1>4
    <2> QED  BY <1>2, <1>3, <1>5, <1>7, <2>1 DEF SoundInv, FilterInv
  <1>17. EndInv'
    <2>1. EndInv  BY DEF SoundInv
    <2>2. failing' = failing  BY <1>2 DEF frame
    <2>3. ASSUME failing \in Taken PROVE failing \in At({failing.type})'
      <3>1. failing \in At({failing.type})  BY <2>1, <2>3 DEF EndInv
      <3>2. failing \in Jobs  BY <2>3, QueuedJobs DEF SoundInv, AllJobs
      <3>3. {failing.type} \subseteq InJob  BY <3>2 DEF Jobs, InJob, ReconStage
      <3>4. At({failing.type})' = At({failing.type})
        <4>1. \A v \in Worker : stage'[v] = failing'.type <=> stage[v] = failing.type
          <5>1. failing.type # "idle" /\ failing.type # "exit"  BY <3>2 DEF Jobs
          <5> QED  BY <1>1, <1>4, <2>2, <5>1
        <4> QED  BY <1>2, <4>1 DEF At
      <3> QED  BY <3>1, <3>4
    <2>4. \A v \in Worker : stage'[v] = "exit" => terminated' /\ read' = Len(jobq')
      BY <1>1, <1>2
    <2> QED  BY <1>2, <1>3, <1>5, <2>1, <2>2, <2>3, <2>4 DEF EndInv
  <1> QED  BY <1>3, <1>10, <1>11, <1>13, <1>14, <1>15, <1>16, <1>17 DEF SoundInv

LEMMA ParseSound ==
  ASSUME FrameInv, SoundInv, NobodyFailed', NEW w \in Worker, Parse(w)
  PROVE  SoundInv'
  <1>1. stage[w] = "parse" /\ stage[w] \in InJob  BY DEF Parse, InJob
  <1>2. job[w].type = "parse"  BY <1>1, InHand DEF SoundInv
  <1> DEFINE j == [job[w] EXCEPT !.type = "recon"]
             g == IF job[w].row < LastRow THEN "queueParse" ELSE "idle"
  <1>3. j = ReconJob(job[w].row, job[w].tile) /\ j \in AllJobs /\ j \notin Queued
    BY <1>1, NewJobs
  <1>4. /\ ~Fails(w) /\ QueueOrFail(w, j, "parse", g)
        /\ UNCHANGED <<frame, read, sync, job, col, lfApplied, verdict, hist>>
    BY FailShows DEF Parse
  <1>5. UNCHANGED <<frame, read, job, col>>
        /\ UNCHANGED <<reconMap, rowTiles, tilesDone, curSbCol, lfApplied, recon, filtered>>
    BY <1>4 DEF sync, hist
  <1>6. g \in StagesOf(job[w].type) \cup {"idle"} /\ g \in {"queueParse", "idle"}
    BY <1>2 DEF StagesOf
  <1>7. "parse" \in InJob  BY DEF InJob
  <1>8. j.type = "recon"  BY <1>3, JobsDiffer
  <1> HIDE DEF j, g
  <1>9. /\ Moves(w, g, {j}) /\ QueueInv' /\ HandInv'
        /\ ~terminated /\ terminated' = FALSE
    BY <1>3, <1>4, <1>5, <1>6, <1>7, <1>8, QueueStep
  <1>10. stage'[w] = g  BY <1>9 DEF Moves, FrameInv
  <1>11. ParseInv'  BY <1>1, <1>3, <1>9, ParseParsed DEF g
  <1>12. RowsInv'
    <2>1. ~BeforeRowDone(w) /\ ~BeforeRowDone(w)'  BY <1>1, <1>6, <1>10 DEF BeforeRowDone
    <2>2. stage[w] \notin LpfStage /\ g \notin LpfStage  BY <1>1, <1>6 DEF LpfStage
    <2> QED  BY <1>5, <1>8, <1>9, <2>1, <2>2, RowsKept
  <1>13. ReconInv' /\ FilterInv' /\ DoneInv'
    BY <1>2, <1>5, <1>9, ReconKept, FilterKept, DoneKept
  <1>14. EndInv'  BY <1>4, <1>9, EndMoved
  <1> QED  BY <1>9, <1>11, <1>12, <1>13, <1>14 DEF SoundInv

LEMMA QueueParseSound ==
  ASSUME FrameInv, SoundInv, NobodyFailed', NEW w \in Worker, QueueParse(w)
  PROVE  SoundInv'
  <1>1. stage[w] = "queueParse" /\ stage[w] \in InJob
    BY DEF QueueParse, QueueOrFail, MoveTo, Fail, InJob
  <1>2. job[w].type = "parse"  BY <1>1, InHand DEF SoundInv
  <1> DEFINE j == [job[w] EXCEPT !.row = @ + 1]
  <1>3. j = ParseJob(job[w].row + 1, job[w].tile) /\ j \in AllJobs /\ j \notin Queued
    BY <1>1, NewJobs
  <1>4. /\ QueueOrFail(w, j, "queueParse", "idle")
        /\ UNCHANGED <<frame, read, sync, job, col, lfApplied, verdict, hist>>
    BY DEF QueueParse
  <1>5. UNCHANGED <<frame, read, job, col>>
        /\ UNCHANGED <<reconMap, rowTiles, tilesDone, curSbCol, lfApplied, recon, filtered>>
    BY <1>4 DEF sync, hist
  <1>6. "queueParse" \in InJob  BY DEF InJob
  <1> HIDE DEF j
  <1>7. j.type = "parse"  BY <1>3, JobsDiffer
  <1>8. /\ Moves(w, "idle", {j}) /\ QueueInv' /\ HandInv'
        /\ ~terminated /\ terminated' = FALSE
    BY <1>3, <1>4, <1>5, <1>6, <1>7, QueueStep
  <1>9. stage'[w] = "idle"  BY <1>8 DEF Moves, FrameInv
  <1>10. ParseInv'  BY <1>1, <1>3, <1>8, ParseNext
  <1>11. RowsInv'
    <2>1. ~BeforeRowDone(w) /\ ~BeforeRowDone(w)'  BY <1>1, <1>9 DEF BeforeRowDone
    <2>2. stage[w] \notin LpfStage /\ "idle" \notin LpfStage  BY <1>1 DEF LpfStage
    <2> QED  BY <1>5, <1>7, <1>8, <2>1, <2>2, RowsKept
  <1>12. ReconInv' /\ FilterInv' /\ DoneInv'
    BY <1>2, <1>5, <1>8, ReconKept, FilterKept, DoneKept
  <1>13. EndInv'  BY <1>1, <1>8, EndMoved
  <1> QED  BY <1>8, <1>10, <1>11, <1>12, <1>13 DEF SoundInv

LEMMA ReconstructSound ==
  ASSUME FrameInv, SoundInv, NobodyFailed', NEW w \in Worker, Reconstruct(w)
  PROVE  /\ SoundInv' /\ stage[w] = "recon" /\ ~Fails(w)
         /\ recon' = recon \cup {<<job[w].row, col[w]>>} /\ filtered' = filtered
  <1> DEFINE g == IF col[w] = LastCol(job[w].tile) /\ lfActive
                    THEN "rowDone" ELSE "reconWrite"
  <1>1. /\ AboveReady(w) /\ ~Fails(w) /\ stage[w] = "recon"
        /\ stage' = [stage EXCEPT ![w] = g]
        /\ recon' = recon \cup {<<job[w].row, col[w]>>}
        /\ UNCHANGED <<terminated, err>>
        /\ UNCHANGED <<frame, jobq, read, sync, job, col, lfApplied, verdict, filtered>>
    BY FailShows DEF Reconstruct, MoveTo
  <1>2. UNCHANGED <<reconMap, rowTiles, tilesDone, curSbCol>>  BY <1>1 DEF sync
  <1>3. stage[w] \in ReconStage /\ stage[w] \in InJob  BY <1>1 DEF ReconStage, InJob
  <1>4. job[w].type = "recon"  BY <1>3, ReconHand
  <1>5. g \in StagesOf(job[w].type) \cup {"idle"} /\ g \in {"rowDone", "reconWrite"}
    BY <1>4 DEF StagesOf, ReconStage
  <1> HIDE DEF g
  <1>6. Moves(w, g, {}) /\ QueueInv' /\ HandInv'
    BY <1>1, <1>3, <1>5, PlainStep DEF FrameInv
  <1>7. stage'[w] = g /\ job'[w] = job[w] /\ col'[w] = col[w]  BY <1>1 DEF FrameInv
  <1>8. ParseInv'  BY <1>4, <1>6, ParseKept
  <1>9. RowsInv'
    <2>1. BeforeRowDone(w)  BY <1>1 DEF BeforeRowDone
    <2>2. lfActive => BeforeRowDone(w)'
      <3>1. CASE g = "rowDone"  BY <1>7, <3>1 DEF BeforeRowDone
      <3>2. CASE g = "reconWrite" /\ lfActive
        <4>1. col[w] # (((job[w].tile + 1) * SbCols) \div tileCols) - 1
          BY <3>2 DEF g, LastCol, FirstCol
        <4>2. tileCols' = tileCols  BY <1>1, TilesStay
        <4> QED  BY <1>7, <3>2, <4>1, <4>2 DEF BeforeRowDone, LastCol, FirstCol
      <3> QED  BY <1>5, <3>1, <3>2
    <2>3. stage[w] \notin LpfStage /\ g \notin LpfStage  BY <1>1, <1>5 DEF LpfStage
    <2> QED  BY <1>2, <1>6, <2>1, <2>2, <2>3, RowsKept
  <1>10. ReconInv'  BY <1>1, <1>2, <1>6, ReconAdded DEF g
  <1>11. DoneInv'
    <2>1. g # "idle"  BY <1>5
    <2> QED  BY <1>2, <1>6, <2>1, DoneKept
  <1>12. FilterInv'  BY <1>1, <1>2, <1>4, <1>6, FilterKept
  <1>13. EndInv'
    <2>1. EndInv  BY DEF SoundInv
    <2>2. terminated' \in BOOLEAN
          /\ (terminated' => IF lfActive THEN lfApplied' ELSE tilesDone' = tileCols)
      BY <1>1, <1>2, <2>1 DEF EndInv
    <2> QED  BY <1>1, <1>6, <2>2, EndMoved
  <1> QED  BY <1>1, <1>6, <1>8, <1>9, <1>10, <1>11, <1>12, <1>13 DEF SoundInv

LEMMA TileRowDoneSound ==
  ASSUME FrameInv, SoundInv, NobodyFailed', NEW w \in Worker, TileRowDone(w)
  PROVE  SoundInv'
  <1>1. PICK g \in {"queueLpfAbove", "queueLpfLast", "reconWrite"} : Moves(w, g, {})
    BY RowsDone
  <1>2. stage[w] = "rowDone" /\ QueueInv' /\ HandInv' /\ RowsInv'  BY RowsDone
  <1>3. /\ UNCHANGED <<frame, jobq, read, terminated, job, col, lfApplied>>
        /\ UNCHANGED <<reconMap, tilesDone, curSbCol, recon, filtered>>
    BY DEF TileRowDone, queueV, hist
  <1>4. stage[w] \in ReconStage  BY <1>2 DEF ReconStage
  <1>5. job[w].type = "recon"  BY <1>4, ReconHand
  <1>6. ParseInv'  BY <1>1, <1>5, ParseKept
  <1>7. ReconInv'
    <2>1. stage[w] \in {"rowDone", "queueLpfAbove", "queueLpfLast"}  BY <1>2
    <2> QED  BY <1>1, <1>3, <2>1, ReconStaged
  <1>8. DoneInv'
    <2>1. g # "idle"  OBVIOUS
    <2> QED  BY <1>1, <1>3, <2>1, DoneKept
  <1>9. FilterInv'  BY <1>1, <1>3, <1>5, FilterKept
  <1>10. EndInv'
    <2>1. EndInv  BY DEF SoundInv
    <2>2. terminated' \in BOOLEAN
          /\ (terminated' => IF lfActive THEN lfApplied' ELSE tilesDone' = tileCols)
      BY <1>3, <2>1 DEF EndInv
    <2> QED  BY <1>1, <1>2, <1>3, <2>2, EndMoved
  <1> QED  BY <1>2, <1>6, <1>7, <1>8, <1>9, <1>10 DEF SoundInv

\* Both steps that release a row to the filter.
LEMMA ReleaseSound ==
  ASSUME FrameInv, SoundInv, NEW w, NEW g, NEW q, Moves(w, g, {LpfJob(q)}),
         stage[w] \in LpfStage, g \in {"queueLpfLast", "reconWrite"},
         QueueInv', HandInv', RowsInv', ~terminated, terminated' = FALSE,
         UNCHANGED <<col, lfApplied, reconMap, tilesDone, curSbCol, recon, filtered>>
  PROVE  SoundInv'
  <1>1. stage[w] \in ReconStage /\ w \in Worker  BY DEF LpfStage, ReconStage, Moves
  <1>2. job[w].type = "recon"  BY <1>1, ReconHand
  <1>3. LpfJob(q).type = "lpf"  BY JobsDiffer
  <1>4. ParseInv'  BY <1>2, <1>3, ParseKept
  <1>5. ReconInv'
    <2>1. stage[w] \in {"rowDone", "queueLpfAbove", "queueLpfLast"}
          /\ g \in {"queueLpfAbove", "queueLpfLast", "reconWrite"}
      BY DEF LpfStage
    <2> QED  BY <2>1, ReconStaged
  <1>6. DoneInv'
    <2>1. g # "idle"  OBVIOUS
    <2> QED  BY <2>1, DoneKept
  <1>7. FilterInv'  BY <1>2, FilterKept
  <1>8. EndInv'
    <2>1. stage[w] \notin {"parse", "recon", "lpf"}  BY DEF LpfStage
    <2> QED  BY <2>1, EndMoved
  <1> QED  BY <1>4, <1>5, <1>6, <1>7, <1>8 DEF SoundInv

LEMMA QueueLpfAboveSound ==
  ASSUME FrameInv, SoundInv, NobodyFailed', NEW w \in Worker, QueueLpfAbove(w)
  PROVE  SoundInv'
  <1>1. stage[w] = "queueLpfAbove"
    BY DEF QueueLpfAbove, QueueOrFail, MoveTo, Fail
  <1>2. stage[w] \in ReconStage /\ stage[w] \in InJob /\ stage[w] \in LpfStage
    BY <1>1 DEF ReconStage, InJob, LpfStage
  <1>3. job[w].type = "recon"  BY <1>2, ReconHand
  <1> DEFINE j == RowJob("lpf", job[w].row - 1, 0)
             g == IF job[w].row = LastRow THEN "queueLpfLast" ELSE "reconWrite"
  <1>4. j = LpfJob(job[w].row - 1) /\ j \in AllJobs /\ j \notin Queued /\ lfActive
    BY <1>1, NewJobs
  <1>5. /\ QueueOrFail(w, j, "queueLpfAbove", g)
        /\ UNCHANGED <<frame, read, job, col>>
        /\ UNCHANGED <<reconMap, rowTiles, tilesDone, curSbCol, lfApplied, recon, filtered>>
    BY DEF QueueLpfAbove, sync, hist
  <1>6. g \in StagesOf(job[w].type) \cup {"idle"} /\ g \in {"queueLpfLast", "reconWrite"}
    BY <1>3 DEF StagesOf, ReconStage
  <1>7. "queueLpfAbove" \in InJob  BY DEF InJob, ReconStage
  <1> HIDE DEF j, g
  <1>8. /\ Moves(w, g, {LpfJob(job[w].row - 1)}) /\ QueueInv' /\ HandInv'
        /\ ~terminated /\ terminated' = FALSE
    BY <1>4, <1>5, <1>6, <1>7, QueueStep
  <1>9. RowsInv'  BY <1>1, <1>5, <1>8, RowsAbove DEF g
  <1> QED  BY <1>2, <1>5, <1>6, <1>8, <1>9, ReleaseSound

LEMMA QueueLpfLastSound ==
  ASSUME FrameInv, SoundInv, NobodyFailed', NEW w \in Worker, QueueLpfLast(w)
  PROVE  SoundInv'
  <1>1. stage[w] = "queueLpfLast"
    BY DEF QueueLpfLast, QueueOrFail, MoveTo, Fail
  <1>2. stage[w] \in ReconStage /\ stage[w] \in InJob /\ stage[w] \in LpfStage
    BY <1>1 DEF ReconStage, InJob, LpfStage
  <1>3. job[w].type = "recon"  BY <1>2, ReconHand
  <1> DEFINE j == RowJob("lpf", job[w].row, 0)
  <1>4. j = LpfJob(LastRow) /\ j \in AllJobs /\ j \notin Queued /\ lfActive
    BY <1>1, NewJobs
  <1>5. /\ QueueOrFail(w, j, "queueLpfLast", "reconWrite")
        /\ UNCHANGED <<frame, read, job, col>>
        /\ UNCHANGED <<reconMap, rowTiles, tilesDone, curSbCol, lfApplied, recon, filtered>>
    BY DEF QueueLpfLast, sync, hist
  <1>6. "reconWrite" \in StagesOf(job[w].type) \cup {"idle"}
    BY <1>3 DEF StagesOf, ReconStage
  <1>7. "queueLpfLast" \in InJob  BY DEF InJob, ReconStage
  <1> HIDE DEF j
  <1>8. /\ Moves(w, "reconWrite", {LpfJob(LastRow)}) /\ QueueInv' /\ HandInv'
        /\ ~terminated /\ terminated' = FALSE
    BY <1>4, <1>5, <1>6, <1>7, QueueStep
  <1>9. RowsInv'  BY <1>1, <1>5, <1>8, RowsLast
  <1> QED  BY <1>2, <1>5, <1>8, <1>9, ReleaseSound

LEMMA ReconWriteSound ==
  ASSUME FrameInv, SoundInv, NEW w \in Worker, ReconWrite(w)
  PROVE  SoundInv'
  <1> DEFINE last == col[w] = LastCol(job[w].tile)
             g == IF ~last THEN "recon"
                  ELSE IF job[w].row = LastRow /\ ~lfActive THEN "tileDone" ELSE "idle"
  <1>1. /\ stage[w] = "reconWrite" /\ stage' = [stage EXCEPT ![w] = g]
        /\ reconMap' = reconMap \cup {<<job[w].row, col[w]>>}
        /\ col' = [col EXCEPT ![w] = IF last THEN @ ELSE @ + 1]
        /\ UNCHANGED <<frame, jobq, read, terminated, rowTiles, tilesDone, curSbCol,
                       job, err, lfApplied, recon, filtered>>
    BY DEF ReconWrite, MoveTo, queueV, hist
  <1>2. stage[w] \in ReconStage /\ stage[w] \in InJob  BY <1>1 DEF ReconStage, InJob
  <1>3. job[w].type = "recon"  BY <1>2, ReconHand
  <1>4. g \in StagesOf(job[w].type) \cup {"idle"} /\ g \in {"recon", "tileDone", "idle"}
    BY <1>3 DEF StagesOf, ReconStage
  <1>5. col' \in [Worker -> Int] /\ \A v \in Worker : v # w => col'[v] = col[v]
    BY <1>1 DEF FrameInv
  <1> HIDE DEF g
  <1>6. Moves(w, g, {}) /\ QueueInv' /\ HandInv'
    BY <1>1, <1>2, <1>4, <1>5, PlainStep
  <1>7. stage'[w] = g  BY <1>1 DEF FrameInv
  <1>8. ParseInv'  BY <1>3, <1>6, ParseKept
  <1>9. RowsInv'
    <2>1. BeforeRowDone(w) <=> ~last  BY <1>1 DEF BeforeRowDone
    <2>2. BeforeRowDone(w)' <=> g = "recon"  BY <1>4, <1>7 DEF BeforeRowDone
    <2>3. BeforeRowDone(w)' <=> BeforeRowDone(w)  BY <2>1, <2>2 DEF g
    <2>4. stage[w] \notin LpfStage /\ g \notin LpfStage  BY <1>1, <1>4 DEF LpfStage
    <2> QED  BY <1>1, <1>6, <2>3, <2>4, RowsKept
  <1>10. ReconInv'
    <2>1. g = IF col[w] # LastCol(job[w].tile) THEN "recon"
              ELSE IF job[w].row = LastRow /\ ~lfActive THEN "tileDone" ELSE "idle"
      BY DEF g
    <2> QED  BY <1>1, <1>6, <2>1, ReconPublished
  <1>11. DoneInv'
    <2>1. lfActive \/ g # "idle" \/ job[w].row # LastRow  BY DEF g
    <2> QED  BY <1>1, <1>6, <2>1, DoneKept
  <1>12. FilterInv'  BY <1>1, <1>3, <1>6, FilterKept
  <1>13. EndInv'
    <2>1. EndInv  BY DEF SoundInv
    <2>2. terminated' \in BOOLEAN
          /\ (terminated' => IF lfActive THEN lfApplied' ELSE tilesDone' = tileCols)
      BY <1>1, <2>1 DEF EndInv
    <2> QED  BY <1>1, <1>6, <2>2, EndMoved
  <1> QED  BY <1>6, <1>8, <1>9, <1>10, <1>11, <1>12, <1>13 DEF SoundInv

LEMMA TileDoneSound ==
  ASSUME FrameInv, SoundInv, NEW w \in Worker, TileDone(w)
  PROVE  SoundInv'
  <1>1. /\ stage[w] = "tileDone" /\ stage' = [stage EXCEPT ![w] = "idle"]
        /\ tilesDone' = tilesDone + 1
        /\ terminated' = (terminated \/ tilesDone + 1 = tileCols)
        /\ UNCHANGED <<frame, jobq, read, job, col, err>>
        /\ UNCHANGED <<reconMap, rowTiles, curSbCol, lfApplied, recon, filtered>>
    BY DEF TileDone, MoveTo, hist
  <1>2. stage[w] \in ReconStage /\ stage[w] \in InJob  BY <1>1 DEF ReconStage, InJob
  <1>3. job[w].type = "recon"  BY <1>2, ReconHand
  <1>4. "idle" \in StagesOf(job[w].type) \cup {"idle"}  OBVIOUS
  <1>5. col' \in [Worker -> Int] /\ \A v \in Worker : v # w => col'[v] = col[v]
    BY <1>1 DEF FrameInv
  <1>6. Moves(w, "idle", {}) /\ QueueInv' /\ HandInv'
    BY <1>1, <1>2, <1>4, <1>5, PlainStep
  <1>7. stage'[w] = "idle"  BY <1>1 DEF FrameInv
  <1>8. ParseInv'  BY <1>3, <1>6, ParseKept
  <1>9. RowsInv'
    <2>1. ~BeforeRowDone(w) /\ ~BeforeRowDone(w)'  BY <1>1, <1>7 DEF BeforeRowDone
    <2>2. stage[w] \notin LpfStage /\ "idle" \notin LpfStage  BY <1>1 DEF LpfStage
    <2> QED  BY <1>1, <1>6, <2>1, <2>2, RowsKept
  <1>10. ReconInv'  BY <1>1, <1>6, ReconCounted
  <1>11. DoneInv'  BY <1>1, <1>6, DoneCounted
  <1>12. FilterInv'  BY <1>1, <1>3, <1>6, FilterKept
  <1>13. EndInv'
    <2>1. EndInv /\ DoneInv /\ ~lfActive  BY <1>1, <1>2 DEF SoundInv, ReconInv
    <2>2. tilesDone \in Nat /\ tilesDone # tileCols
      <3>1. ThroughTiles \in SUBSET Tile /\ tilesDone = Cardinality(ThroughTiles)
        BY <2>1 DEF DoneInv, ThroughTiles
      <3>2. job[w] = ReconJob(LastRow, job[w].tile) /\ job[w].tile \in Tile
            /\ job[w] \notin Finished
        <4>1. job[w].row = LastRow  BY <1>1, <1>2 DEF SoundInv, ReconInv
        <4>2. job[w] \in At(InJob)  BY <1>2 DEF At
        <4> QED  BY <1>2, <4>1, <4>2, ReconHand DEF Finished
      <3>3. ThroughTiles # Tile  BY <3>2 DEF ThroughTiles
      <3> QED  BY <3>1, <3>3, TilesCounted
    <2>3. ~terminated  BY <2>1, <2>2 DEF EndInv
    <2>4. terminated' \in BOOLEAN
          /\ (terminated' => IF lfActive THEN lfApplied' ELSE tilesDone' = tileCols)
      BY <1>1, <2>1, <2>3
    <2> QED  BY <1>1, <1>6, <2>3, <2>4, EndMoved
  <1> QED  BY <1>6, <1>8, <1>9, <1>10, <1>11, <1>12, <1>13 DEF SoundInv

LEMMA FilterSound ==
  ASSUME FrameInv, SoundInv, NobodyFailed', NEW w \in Worker, Filter(w)
  PROVE  SoundInv'
  <1> DEFINE g == IF col[w] = SbCols - 1 THEN "idle" ELSE "lpf"
             last == col[w] = SbCols - 1 /\ job[w].row = LastRow
  <1>1. /\ stage[w] = "lpf" /\ ~Fails(w) /\ Moves(w, g, {})
        /\ lfApplied' = (lfApplied \/ last) /\ terminated' = (terminated \/ last)
        /\ QueueInv' /\ HandInv' /\ FilterInv'
    BY FilterAdded
  <1>2. /\ UNCHANGED <<frame, jobq, read, reconMap, rowTiles, tilesDone, job, recon>>
    BY DEF Filter
  <1>3. stage[w] \in InJob  BY <1>1 DEF InJob
  <1>4. job[w].type = "lpf"  BY <1>1, <1>3, InHand DEF SoundInv
  <1>5. g \in {"idle", "lpf"}  OBVIOUS
  <1> HIDE DEF g, last
  <1>6. stage'[w] = g  BY <1>1 DEF Moves, FrameInv
  <1>7. ParseInv' /\ ReconInv' /\ DoneInv'
    BY <1>1, <1>2, <1>4, ParseKept, ReconKept, DoneKept
  <1>8. RowsInv'
    <2>1. ~BeforeRowDone(w) /\ ~BeforeRowDone(w)'  BY <1>1, <1>5, <1>6 DEF BeforeRowDone
    <2>2. stage[w] \notin LpfStage /\ g \notin LpfStage  BY <1>1, <1>5 DEF LpfStage
    <2> QED  BY <1>1, <1>2, <2>1, <2>2, RowsKept
  <1>9. EndInv'
    <2>1. EndInv /\ FilterInv  BY DEF SoundInv
    <2>2. lfActive  BY <1>1, <2>1 DEF FilterInv
    <2>3. terminated => terminated'  BY <1>1
    <2>4. terminated' \in BOOLEAN  BY <1>1, <2>1 DEF EndInv
    <2>5. terminated' => lfApplied'  BY <1>1, <2>1, <2>2 DEF EndInv
    <2> QED  BY <1>1, <1>2, <2>2, <2>3, <2>4, <2>5, EndMoved
  <1> QED  BY <1>1, <1>7, <1>8, <1>9 DEF SoundInv

LEMMA WorkerSound ==
  ASSUME FrameInv, SoundInv, NobodyFailed', NEW w \in Worker, WorkerStep(w)
  PROVE  SoundInv'
  <1>1. ~PrepareFails(w)  BY FailShows DEF PrepareFails
  <1> QED
    BY <1>1, TakeSound, LeaveSound, ParseSound, QueueParseSound, ReconstructSound,
       TileRowDoneSound, QueueLpfAboveSound, QueueLpfLastSound, ReconWriteSound,
       TileDoneSound, FilterSound DEF WorkerStep

\* Steps that leave the frame's decoding alone.
LEMMA SoundKept ==
  ASSUME SoundInv, UNCHANGED <<frame, queueV, sync, local, lfApplied, hist>>
  PROVE  SoundInv'
  <1>1. /\ UNCHANGED <<frame, jobq, read, terminated, stage, job, col>>
        /\ UNCHANGED <<reconMap, rowTiles, tilesDone, curSbCol, lfApplied, recon, filtered>>
    BY DEF queueV, sync, local, hist
  <1>2. Tile' = Tile /\ lfActive' = lfActive /\ tileCols' = tileCols /\ failing' = failing
    BY <1>1 DEF frame, Tile
  <1>3. QueueInv' /\ Queued' = Queued /\ Taken' = Taken
    BY <1>1, QueueSame DEF SoundInv
  <1>4. \A S : At(S)' = At(S)  BY <1>1 DEF At
  <1>5. Finished' = Finished  BY <1>3, <1>4 DEF Finished
  <1>6. Unready' = Unready
    <2>1. \A v \in Worker : BeforeRowDone(v)' <=> BeforeRowDone(v)
      BY <1>1, <1>2 DEF BeforeRowDone, LastCol, FirstCol
    <2> QED  BY <1>1, <2>1 DEF Unready
  <1>7. HandInv'  BY <1>1, <1>3 DEF SoundInv, HandInv
  <1>8. ParseInv'
    <2>1. At({"parse"})' = At({"parse"})  BY <1>4
    <2> QED  BY <1>1, <1>2, <1>3, <1>5, <2>1 DEF SoundInv, ParseInv
  <1>9. RowsInv'
    <2>1. \A r : ReadyTiles(r)' = ReadyTiles(r)  BY <1>2, <1>3, <1>6 DEF ReadyTiles
    <2>2. \A v \in Worker, r \in Row : Owes(v, r)' <=> Owes(v, r)  BY <1>1 DEF Owes
    <2> QED  BY <1>1, <1>2, <1>3, <2>1, <2>2 DEF SoundInv, RowsInv
  <1>10. ReconInv'
    BY <1>1, <1>3, <1>5, ReconPrimed DEF SoundInv, ReconInv
  <1>11. DoneInv'  BY <1>1, <1>2, <1>5 DEF SoundInv, DoneInv
  <1>12. FilterInv'  BY <1>1, <1>2, <1>3, <1>5 DEF SoundInv, FilterInv
  <1>13. EndInv'
    <2>1. At({failing.type})' = At({failing.type})  BY <1>1, <1>2 DEF At
    <2> QED  BY <1>1, <1>2, <1>3, <2>1 DEF SoundInv, EndInv
  <1> QED  BY <1>3, <1>7, <1>8, <1>9, <1>10, <1>11, <1>12, <1>13 DEF SoundInv

-----------------------------------------------------------------------------
(* The invariant.                                                          *)

LEMMA FrameMoved ==
  ASSUME FrameInv, UNCHANGED frame, stage' \in [Worker -> InJob \cup {"idle", "exit"}],
         job' \in [Worker -> Jobs \cup {NoJob}], col' \in [Worker -> Int],
         err' \in [Worker -> BOOLEAN]
  PROVE  FrameInv'
  BY DEF FrameInv, frame, Jobs, Tile

LEMMA WorkerFrame ==
  ASSUME FrameInv, SoundInv, NEW w \in Worker, WorkerStep(w)
  PROVE  FrameInv'
  <1>1. /\ stage \in [Worker -> InJob \cup {"idle", "exit"}]
        /\ job \in [Worker -> Jobs \cup {NoJob}] /\ col \in [Worker -> Int]
        /\ err \in [Worker -> BOOLEAN]
    BY DEF FrameInv
  <1> DEFINE S == InJob \cup {"idle", "exit"}
  <1>2. /\ {"parse", "queueParse", "recon", "rowDone", "queueLpfAbove", "queueLpfLast",
            "reconWrite", "tileDone", "lpf", "idle", "exit"} \subseteq S
    BY DEF InJob, ReconStage
  <1>3. stage \in [Worker -> S]  BY <1>1
  <1> HIDE DEF S
  <1>4. ASSUME NEW from, Fail(w, from)
        PROVE  stage' \in [Worker -> S] /\ err' \in [Worker -> BOOLEAN]
    BY <1>1, <1>2, <1>3, <1>4 DEF Fail, MoveTo
  <1>5. ASSUME NEW j, NEW from, NEW to \in S, QueueOrFail(w, j, from, to)
        PROVE  stage' \in [Worker -> S] /\ err' \in [Worker -> BOOLEAN]
    BY <1>1, <1>3, <1>4, <1>5 DEF QueueOrFail, MoveTo
  <1>6. CASE Dequeue(w)
    <2>1. PICK j \in AllJobs : stage'[w] = j.type /\ job' = [job EXCEPT ![w] = j]
            /\ col' = [col EXCEPT ![w] = IF j.type = "recon" THEN FirstCol(j.tile) ELSE 0]
      BY <1>6, TakeStep DEF Dequeue
    <2>2. j \in Jobs /\ FirstCol(j.tile) \in Int
      <3>1. j \in Jobs /\ j.tile \in Tile  BY DEF AllJobs, Jobs
      <3> QED  BY <3>1, Tiles
    <2>3. stage' \in [Worker -> InJob \cup {"idle", "exit"}]  BY <1>6, TakeStep
    <2>4. UNCHANGED frame /\ err' = err  BY <1>6 DEF Dequeue
    <2> DEFINE c == IF j.type = "recon" THEN FirstCol(j.tile) ELSE 0
    <2>5. c \in Int  BY <2>2
    <2>6. col' = [col EXCEPT ![w] = c]  BY <2>1
    <2> HIDE DEF c
    <2>7. job' \in [Worker -> Jobs \cup {NoJob}]  BY <1>1, <2>1, <2>2
    <2>8. col' \in [Worker -> Int]  BY <1>1, <2>5, <2>6
    <2> QED  BY <1>1, <2>3, <2>4, <2>7, <2>8, FrameMoved
  <1>7. CASE ~Dequeue(w)
    <2>1. UNCHANGED frame /\ job' = job
      BY <1>7 DEF WorkerStep, Leave, Parse, QueueParse, Reconstruct, TileRowDone,
                  QueueLpfAbove, QueueLpfLast, ReconWrite, TileDone, PrepareFails,
                  Filter
    <2>2. col' \in [Worker -> Int]
      <3>1. CASE ReconWrite(w)  BY <1>1, <3>1 DEF ReconWrite
      <3>2. CASE Filter(w)  BY <1>1, <3>2 DEF Filter
      <3>3. CASE ~ReconWrite(w) /\ ~Filter(w)
        <4>1. col' = col
          BY <1>7, <3>3 DEF WorkerStep, Leave, Parse, QueueParse, Reconstruct,
                            TileRowDone, QueueLpfAbove, QueueLpfLast, TileDone,
                            PrepareFails
        <4> QED  BY <1>1, <4>1
      <3> QED  BY <3>1, <3>2, <3>3
    <2>3. stage' \in [Worker -> S] /\ err' \in [Worker -> BOOLEAN]
      <3>1. CASE Leave(w)  BY <1>1, <1>2, <1>3, <3>1 DEF Leave, MoveTo
      <3>2. CASE Parse(w)
        <4>1. CASE Fail(w, "parse")  BY <1>4, <4>1
        <4>2. CASE ~Fail(w, "parse")
          <5> DEFINE g == IF job[w].row < LastRow THEN "queueParse" ELSE "idle"
          <5>1. g \in S  BY <1>2
          <5>2. QueueOrFail(w, [job[w] EXCEPT !.type = "recon"], "parse", g)
            BY <3>2, <4>2 DEF Parse
          <5> HIDE DEF g
          <5> QED  BY <1>5, <5>1, <5>2
        <4> QED  BY <4>1, <4>2
      <3>3. CASE QueueParse(w)
        BY <1>2, <1>5, <3>3 DEF QueueParse
      <3>4. CASE Reconstruct(w)
        BY <1>1, <1>2, <1>3, <1>4, <3>4 DEF Reconstruct, MoveTo
      <3>5. CASE TileRowDone(w)  BY <1>1, <1>2, <1>3, <3>5 DEF TileRowDone, MoveTo
      <3>6. CASE QueueLpfAbove(w)
        <4> DEFINE g == IF job[w].row = LastRow THEN "queueLpfLast" ELSE "reconWrite"
        <4>1. g \in S  BY <1>2
        <4>2. QueueOrFail(w, RowJob("lpf", job[w].row - 1, 0), "queueLpfAbove", g)
          BY <3>6 DEF QueueLpfAbove
        <4> HIDE DEF g
        <4> QED  BY <1>5, <4>1, <4>2
      <3>7. CASE QueueLpfLast(w)  BY <1>2, <1>5, <3>7 DEF QueueLpfLast
      <3>8. CASE ReconWrite(w)  BY <1>1, <1>2, <1>3, <3>8 DEF ReconWrite, MoveTo
      <3>9. CASE TileDone(w)  BY <1>1, <1>2, <1>3, <3>9 DEF TileDone, MoveTo
      <3>10. CASE Filter(w)
        BY <1>1, <1>2, <1>3, <1>4, <3>10 DEF Filter, MoveTo
      <3>11. CASE PrepareFails(w)  BY <1>4, <3>11 DEF PrepareFails
      <3> QED  BY <1>7, <3>1, <3>2, <3>3, <3>4, <3>5, <3>6, <3>7, <3>8, <3>9, <3>10,
                  <3>11 DEF WorkerStep
    <2> QED  BY <1>1, <2>1, <2>2, <2>3, FrameMoved DEF S
  <1> QED  BY <1>6, <1>7

\* The first failure is that of the failing job: nobody is refused a job before.
LEMMA FailureMeant ==
  ASSUME FrameInv, SoundInv, NEW w \in Worker, WorkerStep(w), err' # err
  PROVE  failing # NoJob
  <1>1. ASSUME stage[w] \in InJob, Fails(w) PROVE failing # NoJob
    <2>1. failing.type # "none"  BY <1>1, InHand DEF SoundInv, Fails
    <2> QED  BY <2>1 DEF NoJob, RowJob
  <1>2. ASSUME NEW j \in AllJobs, j.type = "lpf" => lfActive, j \notin Queued,
               NEW from, NEW to, QueueOrFail(w, j, from, to)
        PROVE  FALSE
    <2>1. CanQueue  BY <1>2, NotRefused
    <2> QED  BY <1>2, <2>1 DEF QueueOrFail
  <1>3. CASE Parse(w)
    <2>1. stage[w] = "parse" /\ stage[w] \in InJob  BY <1>3 DEF Parse, InJob
    <2> DEFINE j == [job[w] EXCEPT !.type = "recon"]
               g == IF job[w].row < LastRow THEN "queueParse" ELSE "idle"
    <2>2. j = ReconJob(job[w].row, job[w].tile) /\ j \in AllJobs /\ j \notin Queued
      BY <2>1, NewJobs
    <2>3. Fails(w) \/ QueueOrFail(w, j, "parse", g)  BY <1>3 DEF Parse
    <2> HIDE DEF j, g
    <2>4. j.type = "recon"  BY <2>2, JobsDiffer
    <2> QED  BY <1>1, <1>2, <2>1, <2>2, <2>3, <2>4
  <1>4. CASE QueueParse(w)
    <2> DEFINE j == [job[w] EXCEPT !.row = @ + 1]
    <2>1. QueueOrFail(w, j, "queueParse", "idle")  BY <1>4 DEF QueueParse
    <2>2. stage[w] = "queueParse"  BY <2>1 DEF QueueOrFail, MoveTo, Fail
    <2>3. j = ParseJob(job[w].row + 1, job[w].tile) /\ j \in AllJobs /\ j \notin Queued
      BY <2>2, NewJobs
    <2> HIDE DEF j
    <2>4. j.type = "parse"  BY <2>3, JobsDiffer
    <2> QED  BY <1>2, <2>1, <2>3, <2>4
  <1>5. CASE Reconstruct(w)
    <2>1. Fails(w) /\ stage[w] = "recon"  BY <1>5 DEF Reconstruct, Fail, MoveTo
    <2> QED  BY <1>1, <2>1 DEF InJob, ReconStage
  <1>6. CASE QueueLpfAbove(w)
    <2> DEFINE j == RowJob("lpf", job[w].row - 1, 0)
               g == IF job[w].row = LastRow THEN "queueLpfLast" ELSE "reconWrite"
    <2>1. QueueOrFail(w, j, "queueLpfAbove", g)  BY <1>6 DEF QueueLpfAbove
    <2>2. stage[w] = "queueLpfAbove"  BY <2>1 DEF QueueOrFail, MoveTo, Fail
    <2>3. j \in AllJobs /\ j \notin Queued /\ lfActive  BY <2>2, NewJobs
    <2> HIDE DEF j, g
    <2> QED  BY <1>2, <2>1, <2>3
  <1>7. CASE QueueLpfLast(w)
    <2> DEFINE j == RowJob("lpf", job[w].row, 0)
    <2>1. QueueOrFail(w, j, "queueLpfLast", "reconWrite")  BY <1>7 DEF QueueLpfLast
    <2>2. stage[w] = "queueLpfLast"  BY <2>1 DEF QueueOrFail, MoveTo, Fail
    <2>3. j \in AllJobs /\ j \notin Queued /\ lfActive  BY <2>2, NewJobs
    <2> HIDE DEF j
    <2> QED  BY <1>2, <2>1, <2>3
  <1>8. CASE PrepareFails(w) \/ Filter(w)
    <2>1. Fails(w) /\ stage[w] = "lpf"  BY <1>8 DEF PrepareFails, Filter, Fail, MoveTo
    <2> QED  BY <1>1, <2>1 DEF InJob
  <1>9. CASE Dequeue(w) \/ Leave(w) \/ TileRowDone(w) \/ ReconWrite(w) \/ TileDone(w)
    BY <1>9 DEF Dequeue, Leave, TileRowDone, ReconWrite, TileDone
  <1> QED  BY <1>3, <1>4, <1>5, <1>6, <1>7, <1>8, <1>9 DEF WorkerStep

\* A worker in runRowMT takes a step, and fails only by leaving.
LEMMA StepShape ==
  ASSUME NEW w \in Worker, WorkerStep(w)
  PROVE  /\ stage[w] # "exit" /\ UNCHANGED <<frame, verdict>>
         /\ \E g : /\ stage' = [stage EXCEPT ![w] = g]
                   /\ err' = err \/ (g = "exit" /\ err' = [err EXCEPT ![w] = TRUE])
  <1> DEFINE Shape == \E g : /\ stage' = [stage EXCEPT ![w] = g]
                             /\ err' = err \/ (g = "exit" /\ err' = [err EXCEPT ![w] = TRUE])
  <1>1. ASSUME NEW from, Fail(w, from) PROVE stage[w] = from /\ Shape
    BY <1>1 DEF Fail, MoveTo
  <1>2. ASSUME NEW from, NEW to, MoveTo(w, from, to), err' = err
        PROVE  stage[w] = from /\ Shape
    BY <1>2 DEF MoveTo
  <1>3. ASSUME NEW j, NEW from, NEW to, QueueOrFail(w, j, from, to)
        PROVE  stage[w] = from /\ Shape
    BY <1>1, <1>2, <1>3 DEF QueueOrFail
  <1> HIDE DEF Shape
  <1>4. CASE Dequeue(w)
    BY <1>2, <1>4 DEF Dequeue, Shape
  <1>5. CASE Leave(w)
    BY <1>2, <1>5 DEF Leave, Shape
  <1>6. CASE Parse(w)
    BY <1>1, <1>3, <1>6 DEF Parse, Shape
  <1>7. CASE QueueParse(w)
    BY <1>3, <1>7 DEF QueueParse, Shape
  <1>8. CASE Reconstruct(w)
    BY <1>1, <1>2, <1>8 DEF Reconstruct, Shape
  <1>9. CASE TileRowDone(w)
    BY <1>2, <1>9 DEF TileRowDone, Shape
  <1>10. CASE QueueLpfAbove(w)
    BY <1>3, <1>10 DEF QueueLpfAbove, Shape
  <1>11. CASE QueueLpfLast(w)
    BY <1>3, <1>11 DEF QueueLpfLast, Shape
  <1>12. CASE ReconWrite(w)
    BY <1>2, <1>12 DEF ReconWrite, Shape
  <1>13. CASE TileDone(w)
    BY <1>2, <1>13 DEF TileDone, Shape
  <1>14. CASE Filter(w)
    BY <1>1, <1>2, <1>14 DEF Filter, Shape
  <1>15. CASE PrepareFails(w)
    BY <1>1, <1>15 DEF PrepareFails, Shape
  <1> QED  BY <1>4, <1>5, <1>6, <1>7, <1>8, <1>9, <1>10, <1>11, <1>12, <1>13, <1>14,
              <1>15 DEF WorkerStep

LEMMA WorkerInv ==
  ASSUME RowMTInv, NEW w \in Worker, WorkerStep(w)
  PROVE  RowMTInv' /\ (NobodyFailed' => NobodyFailed)
  <1>1. VerdictInv /\ (NobodyFailed => FrameInv /\ SoundInv)  BY DEF RowMTInv
  <1>2. /\ stage = [v \in Worker |-> stage[v]] /\ err \in [Worker -> BOOLEAN]
        /\ \A v \in Worker : err[v] => stage[v] = "exit" /\ failing # NoJob
        /\ verdict # "none" => \A v \in Worker : stage[v] = "exit"
    BY <1>1 DEF VerdictInv
  <1>3. stage[w] # "exit" /\ UNCHANGED <<frame, verdict>>  BY StepShape
  <1>4. PICK g : /\ stage' = [stage EXCEPT ![w] = g]
                 /\ err' = err \/ (g = "exit" /\ err' = [err EXCEPT ![w] = TRUE])
    BY StepShape
  <1>5. stage' = [v \in Worker |-> stage'[v]] /\ err' \in [Worker -> BOOLEAN]
    BY <1>2, <1>4
  <1>6. stage'[w] = g /\ \A v \in Worker : v # w => stage'[v] = stage[v]
    BY <1>2, <1>4
  <1>7. \A v \in Worker : err[v] => err'[v]  BY <1>2, <1>4
  <1>8. NobodyFailed' => NobodyFailed  BY <1>7 DEF NobodyFailed
  <1>9. failing' = failing  BY <1>3 DEF frame
  <1>10. err' # err => failing # NoJob
    <2>1. CASE NobodyFailed  BY <1>1, <2>1, FailureMeant
    <2>2. CASE ~NobodyFailed  BY <1>2, <2>2 DEF NobodyFailed
    <2> QED  BY <2>1, <2>2
  <1>11. \A v \in Worker : err'[v] => stage'[v] = "exit" /\ failing' # NoJob
    BY <1>2, <1>3, <1>4, <1>6, <1>9, <1>10
  <1>12. verdict = "none" /\ verdict' = "none"  BY <1>2, <1>3
  <1>13. VerdictInv'  BY <1>5, <1>11, <1>12 DEF VerdictInv
  <1>14. NobodyFailed' => FrameInv' /\ SoundInv'
    BY <1>1, <1>8, WorkerFrame, WorkerSound
  <1> QED  BY <1>8, <1>13, <1>14 DEF RowMTInv

\* Steps of no worker.
LEMMA JoinInv ==
  ASSUME RowMTInv, Join \/ UNCHANGED rowMTVars
  PROVE  RowMTInv'
  <1>1. UNCHANGED <<frame, queueV, sync, local, lfApplied, hist>>
    BY DEF Join, rowMTVars
  <1>2. UNCHANGED <<stage, job, col, err>>  BY <1>1 DEF local
  <1>3. NobodyFailed' <=> NobodyFailed  BY <1>2 DEF NobodyFailed
  <1>4. NobodyFailed' => FrameInv' /\ SoundInv'
    BY <1>1, <1>2, <1>3, FrameMoved, SoundKept DEF RowMTInv, FrameInv
  <1>5. failing' = failing /\ tileCols' = tileCols /\ truncated' = truncated
    BY <1>1 DEF frame
  <1>6. VerdictInv'
    <2>1. VerdictInv  BY DEF RowMTInv
    <2>2. CASE Join
      <3>1. (\A w \in Worker : stage[w] = "exit") /\
            verdict' = IF ~NobodyFailed \/ (tileCols = 1 /\ truncated # {})
                       THEN "err" ELSE "ok"
        BY <2>2 DEF Join, NobodyFailed
      <3> QED  BY <1>2, <1>3, <1>5, <2>1, <3>1 DEF VerdictInv
    <2>3. CASE UNCHANGED rowMTVars
      <3>1. verdict' = verdict  BY <2>3 DEF rowMTVars
      <3> QED  BY <1>2, <1>3, <1>5, <2>1, <3>1 DEF VerdictInv
    <2> QED  BY <2>2, <2>3
  <1> QED  BY <1>4, <1>6 DEF RowMTInv

LEMMA InitialInv ==
  ASSUME RowMTInit
  PROVE  RowMTInv
  <1>1. /\ tileCols \in TileCounts /\ lfActive \in BOOLEAN
        /\ jobq = [i \in 1..tileCols |-> RowJob("parse", 0, i - 1)]
        /\ read = 0 /\ terminated = FALSE
        /\ rowTiles = [r \in Row |-> 0] /\ tilesDone = 0
        /\ curSbCol = [r \in Row |-> -1] /\ lfApplied = FALSE
        /\ stage = [w \in Worker |-> "idle"] /\ job = [w \in Worker |-> NoJob]
        /\ col = [w \in Worker |-> 0] /\ err = [w \in Worker |-> FALSE]
        /\ verdict = "none" /\ reconMap = {} /\ recon = {} /\ filtered = {}
    BY DEF RowMTInit
  <1>2. FrameInv
    <2>1. failing \in Jobs \cup {NoJob} /\ (failing.type = "lpf" => lfActive /\ failing.tile = 0)
      BY DEF RowMTInit, FailingJobs, NoJob, RowJob
    <2>2. truncated # {} => tileCols \in TruncatedIn  BY DEF RowMTInit
    <2>3. stage \in [Worker -> InJob \cup {"idle", "exit"}]
          /\ job \in [Worker -> Jobs \cup {NoJob}]
          /\ col \in [Worker -> Int] /\ err \in [Worker -> BOOLEAN]
      BY <1>1
    <2> QED  BY <1>1, <2>1, <2>2, <2>3 DEF FrameInv
  <1>3. tileCols \in Nat \ {0} /\ SbCols \in Nat \ {0} /\ SbRows \in Nat \ {0}
    BY <1>2, Tiles
  <1>4. 0 \in Row /\ \A i \in 1..tileCols : i - 1 \in Tile  BY <1>3 DEF Row, Tile
  <1>5. jobq \in Seq(Jobs) /\ Len(jobq) = tileCols
        /\ \A i \in 1..tileCols : jobq[i] = ParseJob(0, i - 1) /\ jobq[i].tile = i - 1
    <2>1. \A i \in 1..tileCols : RowJob("parse", 0, i - 1) \in Jobs
      BY <1>4 DEF Jobs, RowJob
    <2>2. \A i \in 1..tileCols : jobq[i] = RowJob("parse", 0, i - 1)  BY <1>1
    <2>3. jobq \in [1..tileCols -> Jobs]  BY <1>1, <2>1
    <2>4. jobq \in Seq(Jobs) /\ Len(jobq) = tileCols  BY <1>3, <2>3
    <2> QED  BY <2>2, <2>4 DEF ParseJob, RowJob
  <1>6. /\ \A j : j \in Queued <=> \E i \in 1..tileCols : j = ParseJob(0, i - 1)
        /\ Taken = {}
    <2>1. 1..read = {}  BY <1>1
    <2> QED  BY <1>5, <2>1 DEF Queued, Taken
  <1>7. /\ \A t \in Tile : ParseJob(0, t) \in Queued
        /\ \A j \in Queued : j.type = "parse"
        /\ \A r, t : ParseJob(r, t) \in Queued => r = 0
        /\ \A r, t : ReconJob(r, t) \notin Queued
        /\ \A r : LpfJob(r) \notin Queued
    <2>1. \A t \in Tile : t + 1 \in 1..tileCols /\ t = (t + 1) - 1  BY <1>3 DEF Tile
    <2> QED  BY <1>6, <2>1, JobsDiffer
  <1>8. Finished = {}  BY <1>6 DEF Finished
  <1>9. QueueInv
    BY <1>1, <1>3, <1>5, <1>7 DEF QueueInv
  <1>10. \A w \in Worker : stage[w] = "idle" /\ stage[w] \notin InJob
    BY <1>1 DEF InJob, ReconStage
  <1>11. HandInv  BY <1>10 DEF HandInv
  <1>12. ParseInv
    <2>1. \A r \in Row, t \in Tile : ParseJob(r, t) \in Queued =>
            \A q \in 0..(r - 1) : ParseJob(q, t) \in Finished
      BY <1>7
    <2> QED  BY <1>6, <1>7, <1>8, <1>10, <2>1 DEF ParseInv
  <1>13. RowsInv
    <2>1. \A r : ReadyTiles(r) = {}  BY <1>6 DEF ReadyTiles
    <2>2. \A r \in Row : rowTiles[r] = 0 /\ Cardinality(ReadyTiles(r)) = 0
      BY <1>1, <2>1, FS_EmptySet
    <2>3. \A r \in Row : Below(r) \in Row  BY <1>3 DEF Below, Row, LastRow
    <2>4. \A r \in Row : rowTiles[Below(r)] # tileCols  BY <1>3, <2>2, <2>3
    <2>5. rowTiles \in [Row -> Nat]  BY <1>1
    <2> QED  BY <1>7, <1>10, <2>2, <2>4, <2>5 DEF RowsInv
  <1>14. ReconInv
    <2>1. \A w \in Worker : stage[w] \notin ReconStage  BY <1>10 DEF ReconStage
    <2> QED  BY <1>1, <1>8, <2>1 DEF ReconInv
  <1>15. DoneInv
    <2>1. {t \in Tile : ReconJob(LastRow, t) \in Finished} = {}  BY <1>8
    <2> QED  BY <1>1, <2>1, FS_EmptySet DEF DoneInv
  <1>16. FilterInv
    <2>1. \A r \in Row, c \in Col : ~(c <= curSbCol[r])  BY <1>1 DEF Col
    <2>2. curSbCol \in [Row -> Int]  BY <1>1
    <2> QED  BY <1>1, <1>8, <1>10, <2>1, <2>2 DEF FilterInv
  <1>17. EndInv
    BY <1>1, <1>6, <1>10 DEF EndInv
  <1>18. VerdictInv  BY <1>1 DEF VerdictInv
  <1> QED  BY <1>2, <1>9, <1>11, <1>12, <1>13, <1>14, <1>15, <1>16, <1>17, <1>18
           DEF SoundInv, RowMTInv

\* What the workers of a frame preserve, until a job fails and after.
THEOREM RowMTInvariance == RowMTSpec => []RowMTInv
  <1>1. RowMTInit => RowMTInv  BY InitialInv
  <1>2. RowMTInv /\ [RowMTNext]_rowMTVars => RowMTInv'
    BY WorkerInv, JoinInv DEF RowMTNext, Returned
  <1> QED  BY <1>1, <1>2, PTL DEF RowMTSpec

-----------------------------------------------------------------------------
(* The verdict.                                                            *)

\* When all have left without a failure, every job of the frame is over.
LEMMA AllOver ==
  ASSUME FrameInv, SoundInv, \A w \in Worker : stage[w] = "exit"
  PROVE  /\ failing = NoJob /\ recon = SB
         /\ lfApplied <=> lfActive
         /\ lfActive => filtered = SB
  <1>1. QueueInv /\ ReconInv /\ FilterInv /\ EndInv  BY DEF SoundInv
  <1>2. terminated /\ read = Len(jobq)
    BY <1>1, ShapeAssumption DEF EndInv
  <1>3. Taken = Queued  BY <1>2 DEF Taken, Queued
  <1>4. ASSUME NEW j \in AllJobs, j.type = "lpf" => lfActive PROVE j \in Taken
    BY <1>2, <1>3, <1>4, AllQueued
  <1>5. At(InJob) = {}  BY DEF At, InJob, ReconStage
  <1>6. failing = NoJob
    <2>1. ASSUME failing # NoJob PROVE FALSE
      <3>1. failing \in AllJobs /\ (failing.type = "lpf" => lfActive)
        BY <2>1 DEF FrameInv, AllJobs
      <3>2. failing \in At({failing.type})  BY <1>1, <1>4, <3>1 DEF EndInv
      <3>3. failing.type # "exit"  BY <3>1 DEF AllJobs, Jobs
      <3> QED  BY <3>2, <3>3 DEF At
    <2> QED  BY <2>1
  <1>7. lfActive => lfApplied  BY <1>1, <1>2 DEF EndInv
  <1>8. lfApplied => lfActive
    <2>1. LastRow \in Row /\ SbCols - 1 \in Col  BY Tiles DEF LastRow, Row, Col
    <2>2. lfApplied => LpfJob(LastRow) \in Taken  BY <1>1, <2>1 DEF FilterInv
    <2>3. LpfJob(LastRow) \in Queued => lfActive  BY <1>1, JobsDiffer DEF QueueInv
    <2> QED  BY <1>3, <2>2, <2>3
  <1>9. ASSUME lfActive PROVE filtered = SB
    <2>1. ASSUME NEW r \in Row PROVE LpfJob(r) \in Finished
      <3>1. 0 \in Tile  BY Tiles DEF Tile
      <3>2. LpfJob(r) \in AllJobs  BY <3>1 DEF LpfJob, RowJob, AllJobs, Jobs
      <3> QED  BY <1>4, <1>5, <1>9, <3>2 DEF Finished
    <2>2. \A r \in Row, c \in Col : <<r, c>> \in filtered  BY <1>1, <2>1 DEF FilterInv
    <2>3. filtered \subseteq SB  BY <1>1 DEF FilterInv
    <2> QED  BY <2>2, <2>3 DEF SB
  <1>10. recon = SB
    <2>1. ASSUME NEW r \in Row, NEW t \in Tile PROVE ReconJob(r, t) \in Finished
      <3>1. ReconJob(r, t) \in AllJobs /\ ReconJob(r, t).type # "lpf"
        BY DEF ReconJob, RowJob, AllJobs, Jobs
      <3> QED  BY <1>4, <1>5, <3>1 DEF Finished
    <2>2. ASSUME NEW r \in Row, NEW c \in Col PROVE <<r, c>> \in recon
      <3>1. PICK t \in Tile : c \in Cols(t)  BY Tiles
      <3> QED  BY <1>1, <2>1, <3>1 DEF ReconInv
    <2>3. recon \subseteq SB  BY <1>1 DEF ReconInv
    <2> QED  BY <2>2, <2>3 DEF SB
  <1> QED  BY <1>6, <1>7, <1>8, <1>9, <1>10

LEMMA VerdictImplied ==
  ASSUME RowMTInv, TruncatedIn \subseteq {1}
  PROVE  VerdictMatchesContent
  <1>1. VerdictInv /\ (NobodyFailed => FrameInv /\ SoundInv)  BY DEF RowMTInv
  <1>2. CASE verdict = "none"  BY <1>2 DEF VerdictMatchesContent
  <1>3. CASE verdict # "none" /\ ~NobodyFailed
    <2>1. verdict = "err" /\ failing # NoJob  BY <1>1, <1>3 DEF VerdictInv, NobodyFailed
    <2> QED  BY <2>1 DEF VerdictMatchesContent
  <1>4. CASE verdict # "none" /\ NobodyFailed
    <2>1. truncated # {} => tileCols = 1  BY <1>1, <1>4 DEF FrameInv
    <2>2. verdict = IF truncated # {} THEN "err" ELSE "ok"
      BY <1>1, <1>4, <2>1 DEF VerdictInv
    <2>3. \A w \in Worker : stage[w] = "exit"  BY <1>1, <1>4 DEF VerdictInv
    <2>4. /\ failing = NoJob
          /\ lfApplied <=> lfActive
          /\ lfActive => filtered = SB
      BY <1>1, <1>4, <2>3, AllOver
    <2> QED  BY <2>2, <2>4 DEF VerdictMatchesContent
  <1> QED  BY <1>2, <1>3, <1>4

\* Decode accepts exactly the frames the serial decoder accepts: a frame with a
\* row that fails is reported by some worker, no other frame is refused a job or
\* given up, and an accepted frame is filtered completely or, for the caller to
\* do, not at all. Where several tiles' data end early, the code does not look.
THEOREM VerdictIsRight ==
  TruncatedIn \subseteq {1} => (RowMTSpec => []VerdictMatchesContent)
  <1> SUFFICES ASSUME TruncatedIn \subseteq {1} PROVE RowMTSpec => []VerdictMatchesContent
    OBVIOUS
  <1>1. RowMTInv => VerdictMatchesContent  BY VerdictImplied
  <1> QED  BY <1>1, RowMTInvariance, PTL

-----------------------------------------------------------------------------
(* The order of the work.                                                  *)

\* A tile whose row is through has been reconstructed there.
LEMMA ReadyRow ==
  ASSUME FrameInv, SoundInv, NEW r \in Row, NEW t \in Tile,
         ReconJob(r, t) \in Taken \ Unready
  PROVE  \A c \in Cols(t) : <<r, c>> \in recon
  <1>1. ReconInv  BY DEF SoundInv
  <1>2. CASE ReconJob(r, t) \in Finished  BY <1>1, <1>2 DEF ReconInv
  <1>3. CASE ReconJob(r, t) \notin Finished
    <2>1. PICK w \in Worker : stage[w] \in InJob /\ job[w] = ReconJob(r, t)
      BY <1>3 DEF Finished, At
    <2>2. job[w].type = "recon" /\ job[w].row = r /\ job[w].tile = t
      BY <2>1 DEF ReconJob, RowJob
    <2>3. stage[w] \in ReconStage  BY <2>1, <2>2, InHand DEF SoundInv
    <2>4. ~BeforeRowDone(w)  BY <2>1, UnreadyJob
    <2>5. stage[w] # "recon" /\ col[w] = LastCol(t)
      BY <1>1, <2>2, <2>3, <2>4 DEF BeforeRowDone, ReconInv
    <2>6. \A c \in Cols(t) : <<r, c>> \in recon <=> c < col[w] \/ c = col[w]
      BY <1>1, <2>2, <2>3, <2>5 DEF ReconInv
    <2>7. FirstCol(t) \in Nat /\ LastCol(t) \in Nat  BY Tiles
    <2> QED  BY <2>5, <2>6, <2>7 DEF Cols
  <1> QED  BY <1>2, <1>3

\* A row released to the filter is reconstructed, and so is the row below it.
LEMMA ReleasedRow ==
  ASSUME FrameInv, SoundInv, NEW r \in Row, LpfJob(r) \in Queued
  PROVE  \A q \in Row, c \in Col : q <= Below(r) => <<q, c>> \in recon
  <1>1. /\ Below(r) \in Row
        /\ \A t \in Tile : ReconJob(Below(r), t) \in Taken \ Unready
    BY Released
  <1>2. ASSUME NEW c \in Col PROVE <<Below(r), c>> \in recon
    <2>1. PICK t \in Tile : c \in Cols(t)  BY Tiles
    <2> QED  BY <1>1, <2>1, ReadyRow
  <1>3. ASSUME NEW q \in Row, NEW c \in Col, q <= Below(r) PROVE <<q, c>> \in recon
    <2>1. q = Below(r) \/ q \in 0..(Below(r) - 1)
      <3>1. q \in Nat /\ Below(r) \in Nat  BY <1>1, Tiles DEF Row
      <3> QED  BY <1>3, <3>1
    <2> QED  BY <1>1, <1>2, <2>1 DEF SoundInv, ReconInv
  <1> QED  BY <1>3

\* Reconstructing a superblock follows the order.
LEMMA ReconstructOrdered ==
  ASSUME RowMTInv, NobodyFailed, NobodyFailed', NEW w \in Worker, Reconstruct(w)
  PROVE  Order!OrderNext
  <1>1. FrameInv /\ SoundInv /\ ReconInv /\ FilterInv  BY DEF RowMTInv, SoundInv
  <1>2. /\ stage[w] = "recon" /\ filtered' = filtered
        /\ recon' = recon \cup {<<job[w].row, col[w]>>}
    BY <1>1, ReconstructSound
  <1>3. AboveReady(w) /\ UNCHANGED <<frame, verdict>>  BY DEF Reconstruct
  <1>4. stage[w] \in ReconStage  BY <1>2 DEF ReconStage
  <1>5. PICK r \in Row, t \in Tile, k \in Col :
          /\ job[w] = ReconJob(r, t) /\ job[w].row = r /\ job[w].tile = t
          /\ job[w] \in Taken /\ col[w] = k /\ k \in Cols(t)
    BY <1>1, <1>4, ReconHand
  <1>6. \A c \in Cols(t) : <<r, c>> \in recon <=> c < k
    BY <1>1, <1>2, <1>4, <1>5 DEF ReconInv
  <1>7. k \in Nat /\ r \in Nat /\ FirstCol(t) \in Nat /\ LastCol(t) \in Nat
    BY <1>1, Tiles DEF Row, Col
  <1>8. <<r, k>> \notin recon  BY <1>5, <1>6, <1>7
  <1>9. verdict = "none"
    <2>1. verdict # "none" => stage[w] = "exit"  BY DEF RowMTInv, VerdictInv
    <2> QED  BY <1>2, <2>1
  <1>10. Order!PredictsFrom(r, k) \subseteq recon
    <2>1. ASSUME <<r - 1, k>> \in SB PROVE <<r - 1, k>> \in recon
      <3>1. r > 0  BY <1>1, <1>7, <2>1, Tiles DEF SB, Row
      <3> QED  BY <1>1, <1>3, <1>5, <3>1 DEF AboveReady, ReconInv
    <2>2. ASSUME k \notin Order!TileStarts, <<r, k - 1>> \in SB
          PROVE  <<r, k - 1>> \in recon
      <3>1. FirstCol(t) \in Order!TileStarts  BY DEF Order!TileStarts, Tile, FirstCol
      <3>2. k - 1 \in Cols(t)  BY <1>5, <1>7, <2>2, <3>1 DEF Cols
      <3> QED  BY <1>6, <1>7, <3>2
    <2> QED
      BY <2>1, <2>2 DEF Order!PredictsFrom, Order!SB, Order!Row, Order!Col, SB, Row, Col
  <1>11. Order!UnfilteredFrom(r)
    <2>1. ASSUME NEW q \in Row, NEW c \in Col, <<q, c>> \in filtered, q >= r - 1
          PROVE  FALSE
      <3>1. LpfJob(q) \in Queued
        BY <1>1, <2>1, QueuedJobs DEF FilterInv, SoundInv
      <3>2. r <= Below(q)
        <4>1. q \in Nat /\ r <= LastRow /\ LastRow \in Nat  BY <1>1, Tiles DEF Row, LastRow
        <4> QED  BY <1>7, <2>1, <4>1 DEF Below
      <3> QED  BY <1>1, <1>8, <3>1, <3>2, ReleasedRow
    <2>2. \A s \in SB : s \in filtered => ~(s[1] >= r - 1)
      BY <2>1 DEF SB
    <2> QED  BY <2>2 DEF Order!UnfilteredFrom, Order!SB, Order!Row, Order!Col, SB, Row, Col
  <1>12. Order!Reconstructed(r, k)
    <2>1. tileCols' = tileCols /\ lfActive' = lfActive /\ verdict' = verdict
      BY <1>3 DEF frame
    <2> QED  BY <1>2, <1>5, <1>8, <1>9, <1>10, <1>11, <2>1 DEF Order!Reconstructed
  <1> QED  BY <1>12 DEF Order!OrderNext, Order!Row, Order!Col, Row, Col

\* So does filtering one.
LEMMA FilterOrdered ==
  ASSUME RowMTInv, NobodyFailed, NobodyFailed', NEW w \in Worker, Filter(w)
  PROVE  Order!OrderNext
  <1>1. FrameInv /\ SoundInv /\ FilterInv  BY DEF RowMTInv, SoundInv
  <1>2. stage[w] = "lpf" /\ ~Fails(w)  BY <1>1, FilterAdded
  <1>3. /\ RowAboveFar(w) /\ filtered' = filtered \cup {<<job[w].row, col[w]>>}
        /\ UNCHANGED <<frame, verdict, recon>>
    BY <1>2 DEF Filter
  <1>4. stage[w] \in InJob  BY <1>2 DEF InJob
  <1>5. PICK r \in Row : job[w] = LpfJob(r) /\ job[w].row = r /\ job[w] \in Taken
    BY <1>1, <1>2, <1>4, InHand DEF SoundInv
  <1>6. PICK k \in Col : col[w] = k  BY <1>1, <1>2 DEF FilterInv
  <1>7. \A c \in Col : <<r, c>> \in filtered <=> c < k
    BY <1>1, <1>2, <1>5, <1>6 DEF FilterInv
  <1>8. k \in Nat /\ r \in Nat /\ r <= LastRow /\ LastRow \in Nat
    BY <1>1, Tiles DEF Row, Col, LastRow
  <1>9. verdict = "none"
    <2>1. verdict # "none" => stage[w] = "exit"  BY DEF RowMTInv, VerdictInv
    <2> QED  BY <1>2, <2>1
  <1>10. /\ \A c \in Col : <<r, c>> \in recon
         /\ r + 1 \in Row => \A c \in Col : <<r + 1, c>> \in recon
    <2>1. LpfJob(r) \in Queued  BY <1>1, <1>5, QueuedJobs DEF SoundInv
    <2>2. \A q \in Row, c \in Col : q <= Below(r) => <<q, c>> \in recon
      BY <1>1, <2>1, ReleasedRow
    <2>3. r <= Below(r)  BY <1>8 DEF Below
    <2>4. r + 1 \in Row => r + 1 <= Below(r)
      <3>1. r + 1 \in Row => r + 1 <= LastRow  BY <1>1, Tiles DEF Row, LastRow
      <3> QED  BY <1>8, <3>1 DEF Below
    <2> QED  BY <2>2, <2>3, <2>4
  <1>11. Order!FiltersAfter(r, k) \subseteq filtered
    <2>1. ASSUME <<r, k - 1>> \in SB PROVE <<r, k - 1>> \in filtered
      BY <1>7, <1>8, <2>1 DEF SB
    <2>2. ASSUME NEW d \in {k, k + 1}, <<r - 1, d>> \in SB PROVE <<r - 1, d>> \in filtered
      <3>1. r > 0 /\ d \in Col  BY <1>1, <1>8, <2>2, Tiles DEF SB, Row
      <3>2. d <= WaitedFor(k)  BY <1>8, <2>2, Waited
      <3> QED  BY <1>1, <1>2, <1>3, <1>5, <1>6, <3>1, <3>2, FilterAllowed
    <2> QED
      BY <2>1, <2>2 DEF Order!FiltersAfter, Order!SB, Order!Row, Order!Col, SB, Row, Col
  <1>12. Order!Filtered(r, k)
    <2>1. tileCols' = tileCols /\ lfActive' = lfActive  BY <1>3 DEF frame
    <2>2. lfActive  BY <1>1, <1>2 DEF FilterInv
    <2>3. Order!FullRow(r) \subseteq recon
          /\ (r + 1 \in Order!Row => Order!FullRow(r + 1) \subseteq recon)
      BY <1>10 DEF Order!FullRow, Order!Row, Order!Col, Row, Col
    <2>4. <<r, k>> \notin filtered  BY <1>7, <1>8
    <2> QED  BY <1>3, <1>5, <1>6, <1>9, <1>11, <2>1, <2>2, <2>3, <2>4 DEF Order!Filtered
  <1> QED  BY <1>12 DEF Order!OrderNext, Order!Row, Order!Col, Row, Col

\* A frame is returned as decoded when everything is done.
LEMMA JoinOrdered ==
  ASSUME RowMTInv, NobodyFailed, Join
  PROVE  Order!OrderNext
  <1>1. FrameInv /\ SoundInv  BY DEF RowMTInv
  <1>2. recon = SB /\ (lfActive => filtered = SB)  BY <1>1, AllOver DEF Join
  <1>3. UNCHANGED <<tileCols, lfActive, recon, filtered>>  BY DEF Join, frame, hist
  <1>4. verdict = "none" /\ verdict' \in {"ok", "err"}  BY DEF Join
  <1>5. Order!Returned
    BY <1>2, <1>3, <1>4 DEF Order!Returned, Order!SB, Order!Row, Order!Col, SB, Row, Col
  <1> QED  BY <1>5 DEF Order!OrderNext

LEMMA StepOrdered ==
  ASSUME RowMTInv, [RowMTNext]_rowMTVars, NobodyFailed'
  PROVE  Order!OrderNext \/ UNCHANGED Order!orderVars
  <1>1. CASE UNCHANGED rowMTVars
    BY <1>1 DEF rowMTVars, frame, hist, Order!orderVars
  <1>2. CASE Join
    <2>1. NobodyFailed  BY <1>2 DEF Join, local, NobodyFailed
    <2> QED  BY <1>2, <2>1, JoinOrdered
  <1>3. ASSUME NEW w \in Worker, WorkerStep(w)
        PROVE  Order!OrderNext \/ UNCHANGED Order!orderVars
    <2>1. NobodyFailed  BY <1>3, WorkerInv
    <2>2. CASE Reconstruct(w)  BY <2>1, <2>2, ReconstructOrdered
    <2>3. CASE Filter(w)  BY <2>1, <2>3, FilterOrdered
    <2>4. CASE ~Reconstruct(w) /\ ~Filter(w)
      <3>1. UNCHANGED <<frame, verdict, recon, filtered>>
        BY <1>3, <2>4 DEF WorkerStep, Dequeue, Leave, Parse, QueueParse, TileRowDone,
                          QueueLpfAbove, QueueLpfLast, ReconWrite, TileDone,
                          PrepareFails, hist
      <3> QED  BY <3>1 DEF frame, Order!orderVars
    <2> QED  BY <2>2, <2>3, <2>4
  <1> QED  BY <1>1, <1>2, <1>3 DEF RowMTNext, Returned

\* As long as no job fails, the workers' steps are those of the serial order:
\* superblocks are reconstructed and filtered when what they are computed from
\* is there and not yet changed, whatever worker takes which job.
THEOREM RefinesFrameOrder == RowMTSpec => ImplementsFrameOrder
  <1>1. RowMTInit => Order!OrderInit
    <2>1. ASSUME RowMTInit PROVE Order!OrderInit
      <3>1. tileCols \in 1..SbCols  BY <2>1, ShapeAssumption DEF RowMTInit
      <3> QED  BY <2>1, <3>1 DEF RowMTInit, Order!OrderInit
    <2> QED  BY <2>1
  <1>2. RowMTInv /\ [RowMTNext]_rowMTVars =>
          (NobodyFailed' => [Order!OrderNext]_(Order!orderVars))
    BY StepOrdered
  <1> QED  BY <1>1, <1>2, RowMTInvariance, PTL DEF RowMTSpec, ImplementsFrameOrder

-----------------------------------------------------------------------------
(* The pool of helpers.                                                    *)

\* Where the decoding goroutine owns the job records.
Quiet == {"idle", "prepare", "activate", "merge", "closing", "closed"}

\* Where a helper has seen an epoch it has not yet reported.
Busy == {"active", "run", "done"}

EpochInv ==
  \A w \in Helper :
    /\ doneEpoch[w] <= epoch[w]
    /\ epoch[w] <= jobEpoch
    /\ pc[w] \in Busy <=> doneEpoch[w] < epoch[w]

QuietInv ==
  dpc \in Quiet => \A w \in Helper : w < activeHelpers => doneEpoch[w] = jobEpoch

RunInv == \A w \in Helper : pc[w] = "run" => w < activeHelpers

DispatchInv ==
  /\ dpc \in {"prepare", "activate", "bump", "wake", "wait", "merge"} =>
       dHelpers \in 1..HelperCount
  /\ dpc \in {"prepare", "wake", "wait"} => dScan < dHelpers
  /\ dpc \in {"bump", "wake", "wait", "merge"} => activeHelpers = dHelpers
  /\ dpc \in {"wake", "wait", "merge"} => dEpoch = jobEpoch
  /\ dpc = "wait" => \A w \in Helper : w < dScan => doneEpoch[w] = jobEpoch

\* The job of a started helper that has left the run of this epoch was run.
RanInv ==
  dpc \in {"wake", "wait", "merge"} =>
    \A w \in Helper :
      (w < dHelpers /\ epoch[w] = jobEpoch /\ pc[w] \notin {"active", "run"})
        => runs[w] >= 1

IInv ==
  /\ TypeOK
  /\ EpochInv
  /\ QuietInv
  /\ RunInv
  /\ DispatchInv
  /\ RanInv

-----------------------------------------------------------------------------
USE HelperCountAssumption, HelperChoicesAssumption, MaxDispatchAssumption

\* After a job the helper's next state is typed.
LEMMA AfterRunType ==
  ASSUME NEW w, NEW j PROVE AfterRun(w, j) \in Job
BY DEF AfterRun, Job

\* The initial state satisfies the invariant.
LEMMA InitInv == Init => IInv
<1>. SUFFICES ASSUME Init PROVE IInv
  OBVIOUS
<1>1. TypeOK
  <2>1. [work |-> "empty", err |-> FALSE] \in Job BY DEF Job
  <2>2. jobs \in [Helper -> Job] BY <2>1 DEF Init
  <2>3. /\ doneEpoch \in [Helper -> Nat] /\ epoch \in [Helper -> Nat]
        /\ parked \in [Helper -> {0, 1}] /\ start \in [Helper -> {0, 1}]
        /\ pc \in [Helper -> HelperPC] /\ runs \in [Helper -> Nat]
    BY DEF Init, HelperPC
  <2>4. shutdownCh \in BOOLEAN /\ dpc \in DispatcherPC /\ result \in {"ok", "err"}
    BY DEF Init, DispatcherPC
  <2>5. corrupt \in SUBSET Helper /\ activeHelpers \in 0..HelperCount
        /\ dHelpers \in 0..HelperCount /\ dScan \in 0..HelperCount
    BY DEF Init
  <2>6. jobEpoch \in Nat /\ dEpoch \in Nat BY DEF Init
  <2>. QED BY <2>2, <2>3, <2>4, <2>5, <2>6 DEF TypeOK
<1>2. EpochInv /\ QuietInv
  BY DEF Init, EpochInv, QuietInv, Busy, Quiet, Helper
<1>3. RunInv /\ DispatchInv /\ RanInv
  BY DEF Init, RunInv, DispatchInv, RanInv, Helper
<1>. QED BY <1>1, <1>2, <1>3 DEF IInv

\* A helper that moves between two places where it is not Busy disturbs nothing
\* but its own parked flag and start channel.
LEMMA QuietMove ==
  ASSUME IInv, NEW w \in Helper, NEW to \in HelperPC \ Busy, pc[w] \notin Busy,
         pc' = [pc EXCEPT ![w] = to],
         parked' \in [Helper -> {0, 1}], start' \in [Helper -> {0, 1}],
         UNCHANGED <<jobEpoch, activeHelpers, doneEpoch, shutdownCh, dispatcher,
                     jobs, runs, epoch>>
  PROVE  IInv'
<1>. USE DEF dispatcher
<1>0. TypeOK /\ EpochInv /\ QuietInv /\ RunInv /\ DispatchInv /\ RanInv
  BY DEF IInv
<1>1. TypeOK' BY <1>0 DEF TypeOK
<1>2. pc \in [Helper -> HelperPC] BY <1>0 DEF TypeOK
<1>3. \A v \in Helper : /\ pc'[v] \in Busy <=> pc[v] \in Busy
                        /\ pc'[v] \in Busy => pc'[v] = pc[v]
  BY <1>2
<1>4. EpochInv' BY <1>0, <1>3 DEF EpochInv
<1>5. QuietInv' BY <1>0 DEF QuietInv
<1>6. RunInv' BY <1>0, <1>3 DEF RunInv, Busy
<1>7. DispatchInv' BY <1>0 DEF DispatchInv
<1>8. RanInv'
  <2>1. \A v \in Helper : pc'[v] \in {"active", "run"} <=> pc[v] \in {"active", "run"}
    BY <1>3 DEF Busy
  <2>. QED BY <1>0, <2>1 DEF RanInv
<1>. QED BY <1>1, <1>4, <1>5, <1>6, <1>7, <1>8 DEF IInv

\* A helper's step moves its own program counter and nothing it shares with
\* the decoding goroutine except its job, its doneEpoch, its parked flag and
\* its start channel.
LEMMA HelperInv ==
  ASSUME IInv, NEW w \in Helper, HelperStep(w)
  PROVE  IInv'
<1>. USE DEF Goto, pool, dispatcher
<1>0. TypeOK /\ EpochInv /\ QuietInv /\ RunInv /\ DispatchInv /\ RanInv
  BY DEF IInv
<1>t. /\ jobEpoch \in Nat /\ doneEpoch \in [Helper -> Nat] /\ epoch \in [Helper -> Nat]
      /\ pc \in [Helper -> HelperPC] /\ jobs \in [Helper -> Job]
      /\ runs \in [Helper -> Nat] /\ parked \in [Helper -> {0, 1}]
      /\ start \in [Helper -> {0, 1}]
  BY <1>0 DEF TypeOK
<1>1. CASE Poll(w)
  <2>1. epoch' = [epoch EXCEPT ![w] = jobEpoch]
        /\ pc' = [pc EXCEPT ![w] = IF jobEpoch # epoch[w] THEN "active" ELSE "idle"]
        /\ pc[w] = "poll"
        /\ UNCHANGED <<jobEpoch, activeHelpers, doneEpoch, parked, start, shutdownCh,
                       dispatcher, jobs, runs>>
    BY <1>1 DEF Poll
  <2>2. TypeOK'
    <3>1. pc' \in [Helper -> HelperPC] /\ epoch' \in [Helper -> Nat]
      BY <1>t, <2>1 DEF HelperPC
    <3>. QED BY <1>0, <2>1, <3>1 DEF TypeOK
  <2>3. EpochInv'
    <3>1. doneEpoch[w] = epoch[w] /\ epoch[w] <= jobEpoch
      BY <1>0, <1>t, <2>1 DEF EpochInv, Busy
    <3>2. pc'[w] \in Busy <=> jobEpoch # epoch[w] BY <1>t, <2>1 DEF Busy
    <3>. QED BY <1>0, <1>t, <2>1, <3>1, <3>2 DEF EpochInv
  <2>4. QuietInv' BY <1>0, <2>1 DEF QuietInv
  <2>5. RunInv' BY <1>0, <1>t, <2>1 DEF RunInv
  <2>6. DispatchInv' BY <1>0, <2>1 DEF DispatchInv
  <2>7. RanInv' BY <1>0, <1>t, <2>1 DEF RanInv
  <2>. QED BY <2>2, <2>3, <2>4, <2>5, <2>6, <2>7 DEF IInv
<1>2. CASE LoadActive(w)
  <2>1. pc' = [pc EXCEPT ![w] = IF w < activeHelpers THEN "run" ELSE "done"]
        /\ pc[w] = "active"
        /\ UNCHANGED <<jobEpoch, activeHelpers, doneEpoch, parked, start, shutdownCh,
                       dispatcher, jobs, runs, epoch>>
    BY <1>2 DEF LoadActive
  <2>2. TypeOK'
    <3>1. pc' \in [Helper -> HelperPC] BY <1>t, <2>1 DEF HelperPC
    <3>. QED BY <1>0, <2>1, <3>1 DEF TypeOK
  <2>3. EpochInv'
    <3>1. pc[w] \in Busy /\ pc'[w] \in Busy BY <1>t, <2>1 DEF Busy
    <3>. QED BY <1>0, <1>t, <2>1, <3>1 DEF EpochInv
  <2>4. QuietInv' BY <1>0, <2>1 DEF QuietInv
  <2>5. RunInv' BY <1>0, <1>t, <2>1 DEF RunInv
  <2>6. DispatchInv' BY <1>0, <2>1 DEF DispatchInv
  <2>7. RanInv'
    <3>1. ASSUME dpc \in {"wake", "wait", "merge"}, w < dHelpers
          PROVE  pc'[w] = "run"
      BY <1>0, <1>t, <2>1, <3>1 DEF DispatchInv
    <3>. QED BY <1>0, <1>t, <2>1, <3>1 DEF RanInv
  <2>. QED BY <2>2, <2>3, <2>4, <2>5, <2>6, <2>7 DEF IInv
<1>3. CASE Run(w)
  <2>1. pc' = [pc EXCEPT ![w] = "done"] /\ pc[w] = "run"
        /\ jobs' = [jobs EXCEPT ![w] = AfterRun(w, jobs[w])]
        /\ runs' = [runs EXCEPT ![w] = runs[w] + 1]
        /\ UNCHANGED <<jobEpoch, activeHelpers, doneEpoch, parked, start, shutdownCh,
                       dispatcher, epoch>>
    BY <1>3 DEF Run
  <2>2. TypeOK'
    <3>1. AfterRun(w, jobs[w]) \in Job BY AfterRunType
    <3>2. pc' \in [Helper -> HelperPC] /\ jobs' \in [Helper -> Job]
          /\ runs' \in [Helper -> Nat]
      BY <1>t, <2>1, <3>1 DEF HelperPC
    <3>. QED BY <1>0, <2>1, <3>2 DEF TypeOK
  <2>3. EpochInv'
    <3>1. pc[w] \in Busy /\ pc'[w] \in Busy BY <1>t, <2>1 DEF Busy
    <3>. QED BY <1>0, <1>t, <2>1, <3>1 DEF EpochInv
  <2>4. QuietInv' BY <1>0, <2>1 DEF QuietInv
  <2>5. RunInv' BY <1>0, <1>t, <2>1 DEF RunInv
  <2>6. DispatchInv' BY <1>0, <2>1 DEF DispatchInv
  <2>7. RanInv'
    <3>1. runs'[w] >= 1 BY <1>t, <2>1
    <3>2. \A v \in Helper : v # w => pc'[v] = pc[v] /\ runs'[v] = runs[v]
      BY <1>t, <2>1
    <3>. QED BY <1>0, <2>1, <3>1, <3>2 DEF RanInv
  <2>. QED BY <2>2, <2>3, <2>4, <2>5, <2>6, <2>7 DEF IInv
<1>4. CASE StoreDone(w)
  <2>1. pc' = [pc EXCEPT ![w] = "poll"] /\ pc[w] = "done"
        /\ doneEpoch' = [doneEpoch EXCEPT ![w] = epoch[w]]
        /\ UNCHANGED <<jobEpoch, activeHelpers, parked, start, shutdownCh,
                       dispatcher, jobs, runs, epoch>>
    BY <1>4 DEF StoreDone
  <2>2. TypeOK'
    <3>1. pc' \in [Helper -> HelperPC] /\ doneEpoch' \in [Helper -> Nat]
      BY <1>t, <2>1 DEF HelperPC
    <3>. QED BY <1>0, <2>1, <3>1 DEF TypeOK
  <2>3. doneEpoch[w] < epoch[w] /\ epoch[w] <= jobEpoch
    BY <1>0, <2>1 DEF EpochInv, Busy
  <2>4. EpochInv'
    <3>1. pc'[w] \notin Busy BY <1>t, <2>1 DEF Busy
    <3>. QED BY <1>0, <1>t, <2>1, <2>3, <3>1 DEF EpochInv
  <2>5. \A v \in Helper : doneEpoch[v] = jobEpoch => doneEpoch'[v] = jobEpoch
    BY <1>t, <2>1, <2>3
  <2>6. QuietInv' BY <1>0, <2>1, <2>5 DEF QuietInv
  <2>7. RunInv' BY <1>0, <1>t, <2>1 DEF RunInv
  <2>8. DispatchInv' BY <1>0, <2>1, <2>5 DEF DispatchInv
  <2>9. RanInv' BY <1>0, <1>t, <2>1 DEF RanInv
  <2>. QED BY <2>2, <2>4, <2>6, <2>7, <2>8, <2>9 DEF IInv
<1>5. CASE Idle(w)
  <2>1. PICK to \in {"exit", "poll", "park"} : pc' = [pc EXCEPT ![w] = to]
    BY <1>5 DEF Idle
  <2>2. pc[w] = "idle" BY <1>5 DEF Idle
  <2>. QED BY <1>5, <1>t, <2>1, <2>2, QuietMove DEF Idle, HelperPC, Busy
<1>6. CASE Park(w)
  <2>1. parked' \in [Helper -> {0, 1}] BY <1>6, <1>t DEF Park
  <2>. QED BY <1>6, <1>t, <2>1, QuietMove DEF Park, HelperPC, Busy
<1>7. CASE Recheck(w)
  <2>1. PICK to \in {"unpark", "blocked"} : pc' = [pc EXCEPT ![w] = to]
    BY <1>7 DEF Recheck
  <2>. QED BY <1>7, <1>t, <2>1, QuietMove DEF Recheck, HelperPC, Busy
<1>8. CASE Wakeup(w)
  <2>1. start' \in [Helper -> {0, 1}] BY <1>8, <1>t DEF Wakeup
  <2>. QED BY <1>8, <1>t, <2>1, QuietMove DEF Wakeup, HelperPC, Busy
<1>9. CASE WakeupExit(w)
  BY <1>9, <1>t, QuietMove DEF WakeupExit, HelperPC, Busy
<1>10. CASE Unpark(w)
  <2>1. PICK to \in {"poll", "exit"} : pc' = [pc EXCEPT ![w] = to]
    BY <1>10 DEF Unpark
  <2>2. pc[w] \in {"unpark", "unparkExit"} BY <1>10 DEF Unpark
  <2>3. parked' \in [Helper -> {0, 1}] BY <1>10, <1>t DEF Unpark
  <2>. QED BY <1>10, <1>t, <2>1, <2>2, <2>3, QuietMove DEF Unpark, HelperPC, Busy
<1>. QED
  BY <1>1, <1>2, <1>3, <1>4, <1>5, <1>6, <1>7, <1>8, <1>9, <1>10 DEF HelperStep

\* The indices of a prefix of the helpers are indices of helpers.
LEMMA Indices ==
  ASSUME NEW m \in Int, NEW n \in Int, m <= n
  PROVE  0..(m - 1) \subseteq 0..(n - 1)
<1>. SUFFICES ASSUME NEW k \in Int, 0 <= k, k <= m - 1 PROVE k <= n - 1
  OBVIOUS
<1>. QED OBVIOUS

\* The dispatcher's steps keep the invariant.
LEMMA DispatcherInv ==
  ASSUME IInv, BeginFrame \/ CloseShutdown \/ DispatcherStep
  PROVE  IInv'
<1>. USE DEF pool
<1>0. TypeOK /\ EpochInv /\ QuietInv /\ RunInv /\ DispatchInv /\ RanInv
  BY DEF IInv
<1>t. /\ jobEpoch \in Nat /\ dScan \in 0..HelperCount /\ dHelpers \in 0..HelperCount
      /\ doneEpoch \in [Helper -> Nat] /\ epoch \in [Helper -> Nat]
      /\ jobs \in [Helper -> Job] /\ runs \in [Helper -> Nat]
      /\ start \in [Helper -> {0, 1}]
  BY <1>0 DEF TypeOK
<1>s. dpc \in {"prepare", "wake", "wait"} =>
        dHelpers \in 1..HelperCount /\ dScan \in Helper /\ dScan + 1 \in 0..HelperCount
  BY <1>0, <1>t DEF DispatchInv, Helper
<1>1. CASE BeginFrame
  <2>1. /\ dpc = "idle" /\ dpc' = "prepare" /\ dScan' = 0
        /\ dHelpers' \in HelperChoices /\ corrupt' \in SUBSET (0..(dHelpers' - 1))
        /\ UNCHANGED <<jobEpoch, activeHelpers, doneEpoch, parked, start, shutdownCh,
                       jobs, runs, pc, epoch, dEpoch, result>>
    BY <1>1 DEF BeginFrame
  <2>2. dHelpers' \in 1..HelperCount BY <2>1
  <2>3. TypeOK'
    <3>0. 0..(dHelpers' - 1) \subseteq Helper
      <4>1. HelperCount \in Int BY HelperCountAssumption
      <4>2. dHelpers' \in Int /\ dHelpers' <= HelperCount BY <2>2, <4>1
      <4>. QED BY <4>1, <4>2, Indices DEF Helper
    <3>1. corrupt' \in SUBSET Helper BY <2>1, <3>0
    <3>2. dpc' \in DispatcherPC /\ dScan' \in 0..HelperCount /\ dHelpers' \in 0..HelperCount
      BY <2>1, <2>2 DEF DispatcherPC
    <3>. QED BY <1>0, <2>1, <3>1, <3>2 DEF TypeOK
  <2>4. EpochInv' BY <1>0, <2>1 DEF EpochInv
  <2>5. QuietInv' BY <1>0, <2>1 DEF QuietInv, Quiet
  <2>6. RunInv' BY <1>0, <2>1 DEF RunInv
  <2>7. DispatchInv' BY <2>1, <2>2 DEF DispatchInv
  <2>8. RanInv' BY <2>1 DEF RanInv
  <2>. QED BY <2>3, <2>4, <2>5, <2>6, <2>7, <2>8 DEF IInv
<1>2. CASE CloseShutdown
  <2>1. /\ dpc = "idle" /\ dpc' = "closing" /\ shutdownCh' = TRUE
        /\ UNCHANGED <<jobEpoch, activeHelpers, doneEpoch, parked, start, jobs, runs,
                       pc, epoch, dHelpers, dEpoch, dScan, corrupt, result>>
    BY <1>2 DEF CloseShutdown
  <2>2. TypeOK' BY <1>0, <2>1 DEF TypeOK, DispatcherPC
  <2>3. EpochInv' BY <1>0, <2>1 DEF EpochInv
  <2>4. QuietInv' BY <1>0, <2>1 DEF QuietInv, Quiet
  <2>5. RunInv' BY <1>0, <2>1 DEF RunInv
  <2>6. DispatchInv' /\ RanInv' BY <2>1 DEF DispatchInv, RanInv
  <2>. QED BY <2>2, <2>3, <2>4, <2>5, <2>6 DEF IInv
<1>3. CASE PrepareJob
  <2>1. /\ dpc = "prepare" /\ dScan' = dScan + 1
        /\ dpc' = IF dScan + 1 = dHelpers THEN "activate" ELSE "prepare"
        /\ jobs' = [jobs EXCEPT ![dScan] = [work |-> "tiles", err |-> FALSE]]
        /\ runs' = [runs EXCEPT ![dScan] = 0]
        /\ UNCHANGED <<jobEpoch, activeHelpers, doneEpoch, parked, start, shutdownCh,
                       pc, epoch, dHelpers, dEpoch, corrupt, result>>
    BY <1>3 DEF PrepareJob
  <2>2. TypeOK'
    <3>1. [work |-> "tiles", err |-> FALSE] \in Job BY DEF Job
    <3>2. jobs' \in [Helper -> Job] BY <1>t, <2>1, <3>1
    <3>3. runs' \in [Helper -> Nat] BY <1>t, <2>1
    <3>4. dScan' \in 0..HelperCount BY <1>s, <2>1
    <3>5. dpc' \in DispatcherPC BY <2>1 DEF DispatcherPC
    <3>. QED BY <1>0, <2>1, <3>2, <3>3, <3>4, <3>5 DEF TypeOK
  <2>3. EpochInv' BY <1>0, <2>1 DEF EpochInv
  <2>4. QuietInv' BY <1>0, <2>1 DEF QuietInv, Quiet
  <2>5. RunInv' BY <1>0, <2>1 DEF RunInv
  <2>6. DispatchInv' BY <1>0, <1>t, <1>s, <2>1 DEF DispatchInv, Helper
  <2>7. RanInv' BY <2>1 DEF RanInv
  <2>. QED BY <2>2, <2>3, <2>4, <2>5, <2>6, <2>7 DEF IInv
<1>4. CASE StoreActive
  <2>1. /\ dpc = "activate" /\ dpc' = "bump" /\ activeHelpers' = dHelpers
        /\ UNCHANGED <<jobEpoch, doneEpoch, parked, start, shutdownCh, jobs, runs,
                       pc, epoch, dHelpers, dEpoch, dScan, corrupt, result>>
    BY <1>4 DEF StoreActive
  <2>2. TypeOK' BY <1>0, <2>1 DEF TypeOK, DispatcherPC
  <2>3. EpochInv' BY <1>0, <2>1 DEF EpochInv
  <2>4. QuietInv' BY <2>1 DEF QuietInv, Quiet
  <2>5. RunInv'
    <3>1. \A w \in Helper : pc[w] # "run"
      <4>. SUFFICES ASSUME NEW w \in Helper, pc[w] = "run" PROVE FALSE
        OBVIOUS
      <4>1. w < activeHelpers BY <1>0 DEF RunInv
      <4>2. doneEpoch[w] = jobEpoch BY <1>0, <2>1, <4>1 DEF QuietInv, Quiet
      <4>3. doneEpoch[w] < epoch[w] /\ epoch[w] <= jobEpoch
        BY <1>0 DEF EpochInv, Busy
      <4>. QED BY <1>t, <4>2, <4>3
    <3>. QED BY <2>1, <3>1 DEF RunInv
  <2>6. DispatchInv' BY <1>0, <2>1 DEF DispatchInv
  <2>7. RanInv' BY <2>1 DEF RanInv
  <2>. QED BY <2>2, <2>3, <2>4, <2>5, <2>6, <2>7 DEF IInv
<1>5. CASE AddEpoch
  <2>1. /\ dpc = "bump" /\ dpc' = "wake" /\ dScan' = 0
        /\ jobEpoch' = jobEpoch + 1 /\ dEpoch' = jobEpoch + 1
        /\ UNCHANGED <<activeHelpers, doneEpoch, parked, start, shutdownCh, jobs,
                       runs, pc, epoch, dHelpers, corrupt, result>>
    BY <1>5 DEF AddEpoch
  <2>2. TypeOK'
    <3>1. jobEpoch' \in Nat /\ dEpoch' \in Nat /\ dScan' \in 0..HelperCount
          /\ dpc' \in DispatcherPC
      BY <1>t, <2>1 DEF DispatcherPC
    <3>. QED BY <1>0, <2>1, <3>1 DEF TypeOK
  <2>3. EpochInv' BY <1>0, <1>t, <2>1 DEF EpochInv
  <2>4. QuietInv' BY <2>1 DEF QuietInv, Quiet
  <2>5. RunInv' BY <1>0, <2>1 DEF RunInv
  <2>6. DispatchInv' BY <1>0, <2>1 DEF DispatchInv
  <2>7. RanInv'
    <3>1. \A w \in Helper : epoch'[w] # jobEpoch'
      BY <1>0, <1>t, <2>1 DEF EpochInv
    <3>. QED BY <3>1 DEF RanInv
  <2>. QED BY <2>2, <2>3, <2>4, <2>5, <2>6, <2>7 DEF IInv
<1>6. CASE WakeHelper
  <2>1. /\ dpc = "wake"
        /\ \/ dScan + 1 = dHelpers /\ dScan' = 0 /\ dpc' = "wait"
           \/ dScan + 1 # dHelpers /\ dScan' = dScan + 1 /\ dpc' = "wake"
        /\ UNCHANGED <<jobEpoch, activeHelpers, doneEpoch, parked, shutdownCh, jobs,
                       runs, pc, epoch, dHelpers, dEpoch, corrupt, result>>
    BY <1>6 DEF WakeHelper
  <2>2. TypeOK'
    <3>1. start' \in [Helper -> {0, 1}] BY <1>6, <1>t, <1>s DEF WakeHelper
    <3>2. dScan' \in 0..HelperCount /\ dpc' \in DispatcherPC
      BY <1>s, <2>1 DEF DispatcherPC
    <3>. QED BY <1>0, <2>1, <3>1, <3>2 DEF TypeOK
  <2>3. EpochInv' BY <1>0, <2>1 DEF EpochInv
  <2>4. QuietInv' BY <2>1 DEF QuietInv, Quiet
  <2>5. RunInv' BY <1>0, <2>1 DEF RunInv
  <2>6. DispatchInv' BY <1>0, <1>t, <1>s, <2>1 DEF DispatchInv, Helper
  <2>7. RanInv' BY <1>0, <2>1 DEF RanInv
  <2>. QED BY <2>2, <2>3, <2>4, <2>5, <2>6, <2>7 DEF IInv
<1>7. CASE WaitHelper
  <2>1. /\ dpc = "wait" /\ doneEpoch[dScan] >= dEpoch /\ dScan' = dScan + 1
        /\ dpc' = IF dScan + 1 = dHelpers THEN "merge" ELSE "wait"
        /\ UNCHANGED <<jobEpoch, activeHelpers, doneEpoch, parked, start, shutdownCh,
                       jobs, runs, pc, epoch, dHelpers, dEpoch, corrupt, result>>
    BY <1>7 DEF WaitHelper
  <2>2. TypeOK'
    <3>1. dScan' \in 0..HelperCount /\ dpc' \in DispatcherPC
      BY <1>s, <2>1 DEF DispatcherPC
    <3>. QED BY <1>0, <2>1, <3>1 DEF TypeOK
  <2>3. EpochInv' BY <1>0, <2>1 DEF EpochInv
  <2>4. doneEpoch[dScan] = jobEpoch
    <3>1. dEpoch = jobEpoch BY <1>0, <2>1 DEF DispatchInv
    <3>2. doneEpoch[dScan] <= epoch[dScan] /\ epoch[dScan] <= jobEpoch
      BY <1>0, <1>s, <2>1 DEF EpochInv
    <3>. QED BY <1>t, <1>s, <2>1, <3>1, <3>2
  <2>5. \A w \in Helper : w < dScan + 1 => doneEpoch[w] = jobEpoch
    <3>. SUFFICES ASSUME NEW w \in Helper, w < dScan + 1
                  PROVE  doneEpoch[w] = jobEpoch
      OBVIOUS
    <3>1. w < dScan \/ w = dScan BY <1>t DEF Helper
    <3>. QED BY <1>0, <2>1, <2>4, <3>1 DEF DispatchInv
  <2>6. QuietInv' BY <1>0, <2>1, <2>5 DEF QuietInv, Quiet, DispatchInv
  <2>7. RunInv' BY <1>0, <2>1 DEF RunInv
  <2>8. DispatchInv' BY <1>0, <1>t, <1>s, <2>1, <2>5 DEF DispatchInv, Helper
  <2>9. RanInv' BY <1>0, <2>1 DEF RanInv
  <2>. QED BY <2>2, <2>3, <2>6, <2>7, <2>8, <2>9 DEF IInv
<1>8. CASE Merge
  <2>1. /\ dpc = "merge" /\ dpc' = "idle" /\ result' \in {"ok", "err"}
        /\ UNCHANGED <<jobEpoch, activeHelpers, doneEpoch, parked, start, shutdownCh,
                       jobs, runs, pc, epoch, dHelpers, dEpoch, dScan, corrupt>>
    BY <1>8 DEF Merge
  <2>2. TypeOK' BY <1>0, <2>1 DEF TypeOK, DispatcherPC
  <2>3. EpochInv' BY <1>0, <2>1 DEF EpochInv
  <2>4. QuietInv' BY <1>0, <2>1 DEF QuietInv, Quiet
  <2>5. RunInv' BY <1>0, <2>1 DEF RunInv
  <2>6. DispatchInv' /\ RanInv' BY <2>1 DEF DispatchInv, RanInv
  <2>. QED BY <2>2, <2>3, <2>4, <2>5, <2>6 DEF IInv
<1>9. CASE WaitExit
  <2>1. /\ dpc = "closing" /\ dpc' = "closed"
        /\ jobs' = [w \in Helper |-> [work |-> "empty", err |-> FALSE]]
        /\ UNCHANGED <<jobEpoch, activeHelpers, doneEpoch, parked, start, shutdownCh,
                       runs, pc, epoch, dHelpers, dEpoch, dScan, corrupt, result>>
    BY <1>9 DEF WaitExit
  <2>2. TypeOK'
    <3>1. [work |-> "empty", err |-> FALSE] \in Job BY DEF Job
    <3>2. jobs' \in [Helper -> Job] BY <2>1, <3>1
    <3>. QED BY <1>0, <2>1, <3>2 DEF TypeOK, DispatcherPC
  <2>3. EpochInv' BY <1>0, <2>1 DEF EpochInv
  <2>4. QuietInv' BY <1>0, <2>1 DEF QuietInv, Quiet
  <2>5. RunInv' BY <1>0, <2>1 DEF RunInv
  <2>6. DispatchInv' /\ RanInv' BY <2>1 DEF DispatchInv, RanInv
  <2>. QED BY <2>2, <2>3, <2>4, <2>5, <2>6 DEF IInv
<1>. QED
  BY <1>1, <1>2, <1>3, <1>4, <1>5, <1>6, <1>7, <1>8, <1>9 DEF DispatcherStep

\* Stuttering keeps the invariant.
LEMMA StutterInv == ASSUME IInv, UNCHANGED vars PROVE IInv'
BY DEF IInv, TypeOK, EpochInv, QuietInv, RunInv, DispatchInv, RanInv, Helper,
       vars, pool, dispatcher

\* The invariant holds in every reachable state.
THEOREM Invariance == Spec => []IInv
<1>1. IInv /\ [Next]_vars => IInv'
  BY HelperInv, DispatcherInv, StutterInv DEF Next, Terminated
<1>. QED BY InitInv, <1>1, PTL DEF Spec

\* Every variable keeps its type: in particular the token count of a start
\* channel never exceeds its capacity and no loop index leaves the pool.
THEOREM TypeCorrect == Spec => []TypeOK
BY Invariance, PTL DEF IInv

\* The decoding goroutine never touches a job record that a helper is running,
\* however the number of helpers changes from frame to frame.
THEOREM JobsAreExclusive == Spec => []JobsExclusive
<1>1. IInv => JobsExclusive
  BY DEF IInv, TypeOK, EpochInv, QuietInv, RunInv, JobsExclusive, Quiet, Busy, Helper
<1>. QED BY Invariance, <1>1, PTL

\* Errors are merged only after every helper of the frame has run its job.
THEOREM EveryJobIsRun == Spec => []EveryJobRan
<1>1. IInv => EveryJobRan
  BY DEF IInv, TypeOK, EpochInv, QuietInv, DispatchInv, RanInv, EveryJobRan,
         Quiet, Busy, Helper
<1>. QED BY Invariance, <1>1, PTL

-----------------------------------------------------------------------------
(* With the same number of helpers for every frame no helper can lag by an *)
(* epoch: whenever the decoding goroutine is about to publish a job every  *)
(* helper of the pool has reported the previous epoch.                     *)

EveryFrameUsesAll == HelperChoices = {HelperCount}

\* jobs[w] belongs to the frame being decoded.
Prepared(w) ==
  \/ dpc \in {"activate", "bump", "wake", "wait", "merge"}
  \/ dpc = "prepare" /\ w < dScan

AllInv ==
  dpc \in {"prepare", "activate", "bump", "wake", "wait", "merge"} =>
    dHelpers = HelperCount

ReportedInv ==
  dpc \in Quiet \union {"bump"} => \A w \in Helper : doneEpoch[w] = jobEpoch

CurrentInv ==
  dpc \in {"wake", "wait"} =>
    \A w \in Helper : pc[w] \in Busy => epoch[w] = jobEpoch

\* A record is run once: before that it is as it was prepared, afterwards it
\* says what is true of its tiles.
JobInv(w) ==
  Prepared(w) =>
    /\ dpc \in {"prepare", "activate", "bump"} => runs[w] = 0
    /\ (epoch[w] < jobEpoch \/ pc[w] \in {"active", "run"}) => runs[w] = 0
    /\ runs[w] = 0 => jobs[w].work = "tiles"
    /\ runs[w] = 1 => (jobs[w].err <=> w \in corrupt)

OnceInv ==
  AllInv /\ ReportedInv /\ CurrentInv /\ RunAtMostOnce /\ \A w \in Helper : JobInv(w)

\* A helper that moves between two places where it is not Busy runs no job.
LEMMA QuietMoveOnce ==
  ASSUME IInv, OnceInv, NEW w \in Helper, NEW to \in HelperPC \ Busy,
         pc[w] \notin Busy, pc' = [pc EXCEPT ![w] = to],
         UNCHANGED <<jobEpoch, doneEpoch, dispatcher, jobs, runs, epoch>>
  PROVE  OnceInv'
<1>1. pc \in [Helper -> HelperPC] BY DEF IInv, TypeOK
<1>2. \A v \in Helper :
        /\ pc'[v] \in Busy => pc[v] \in Busy
        /\ pc'[v] \in {"active", "run"} => pc[v] \in {"active", "run"}
  BY <1>1 DEF Busy
<1>3. \A v \in Helper : JobInv(v)'
  BY <1>2 DEF OnceInv, JobInv, Prepared, dispatcher
<1>. QED
  BY <1>2, <1>3 DEF OnceInv, AllInv, ReportedInv, CurrentInv, RunAtMostOnce, dispatcher

\* A helper's steps run no job twice.
LEMMA HelperOnce ==
  ASSUME EveryFrameUsesAll, IInv, OnceInv, NEW w \in Helper, HelperStep(w)
  PROVE  OnceInv'
<1>. USE DEF Goto, pool, dispatcher
<1>0. TypeOK /\ EpochInv BY DEF IInv
<1>1. AllInv /\ ReportedInv /\ CurrentInv /\ RunAtMostOnce /\ \A v \in Helper : JobInv(v)
  BY DEF OnceInv
<1>t. /\ jobEpoch \in Nat /\ dpc \in DispatcherPC
      /\ doneEpoch \in [Helper -> Nat] /\ epoch \in [Helper -> Nat]
      /\ pc \in [Helper -> HelperPC] /\ jobs \in [Helper -> Job]
      /\ runs \in [Helper -> Nat]
  BY <1>0 DEF TypeOK
<1>2. CASE Poll(w)
  <2>1. /\ epoch' = [epoch EXCEPT ![w] = jobEpoch]
        /\ pc' = [pc EXCEPT ![w] = IF jobEpoch # epoch[w] THEN "active" ELSE "idle"]
        /\ UNCHANGED <<jobEpoch, doneEpoch, dispatcher, jobs, runs>>
    BY <1>2 DEF Poll
  <2>2. epoch'[w] = jobEpoch BY <1>t, <2>1
  <2>3. \A v \in Helper : v # w => epoch'[v] = epoch[v] /\ pc'[v] = pc[v]
    BY <1>t, <2>1
  <2>4. AllInv' /\ ReportedInv' /\ RunAtMostOnce'
    BY <1>1, <2>1 DEF AllInv, ReportedInv, RunAtMostOnce
  <2>5. CurrentInv' BY <1>1, <2>1, <2>2, <2>3 DEF CurrentInv
  <2>6. pc'[w] \in {"active", "run"} => epoch[w] < jobEpoch
    BY <1>0, <1>t, <2>1 DEF EpochInv
  <2>7. JobInv(w)'
    <3>1. Prepared(w)' = Prepared(w) BY <2>1 DEF Prepared
    <3>. QED BY <1>1, <1>t, <2>1, <2>2, <2>6, <3>1 DEF JobInv
  <2>8. \A v \in Helper : v # w => JobInv(v)'
    BY <1>1, <2>1, <2>3 DEF JobInv, Prepared
  <2>. QED BY <2>4, <2>5, <2>7, <2>8 DEF OnceInv
<1>3. CASE LoadActive(w)
  <2>1. /\ pc' = [pc EXCEPT ![w] = IF w < activeHelpers THEN "run" ELSE "done"]
        /\ pc[w] = "active"
        /\ UNCHANGED <<jobEpoch, doneEpoch, dispatcher, jobs, runs, epoch>>
    BY <1>3 DEF LoadActive
  <2>2. \A v \in Helper : v # w => pc'[v] = pc[v] BY <1>t, <2>1
  <2>3. AllInv' /\ ReportedInv' /\ RunAtMostOnce'
    BY <1>1, <2>1 DEF AllInv, ReportedInv, RunAtMostOnce
  <2>4. CurrentInv' BY <1>1, <2>1, <2>2 DEF CurrentInv, Busy
  <2>5. JobInv(w)' BY <1>1, <2>1 DEF JobInv, Prepared
  <2>6. \A v \in Helper : v # w => JobInv(v)' BY <1>1, <2>1, <2>2 DEF JobInv, Prepared
  <2>. QED BY <2>3, <2>4, <2>5, <2>6 DEF OnceInv
<1>4. CASE Run(w)
  <2>1. /\ pc[w] = "run" /\ pc' = [pc EXCEPT ![w] = "done"]
        /\ runs' = [runs EXCEPT ![w] = runs[w] + 1]
        /\ jobs' = [jobs EXCEPT ![w] = AfterRun(w, jobs[w])]
        /\ UNCHANGED <<jobEpoch, doneEpoch, dispatcher, epoch>>
    BY <1>4 DEF Run
  <2>2. \A v \in Helper : v # w => /\ pc'[v] = pc[v] /\ runs'[v] = runs[v]
                                   /\ jobs'[v] = jobs[v]
    BY <1>t, <2>1
  <2>3. epoch[w] <= jobEpoch /\ doneEpoch[w] < epoch[w]
    BY <1>0, <2>1 DEF EpochInv, Busy
  <2>4. dpc \in {"wake", "wait"}
    <3>1. dpc \notin Quiet \union {"bump"} BY <1>1, <1>t, <2>3 DEF ReportedInv
    <3>. QED BY <1>t, <3>1 DEF DispatcherPC, Quiet
  <2>5. epoch[w] = jobEpoch BY <1>1, <2>1, <2>4 DEF CurrentInv, Busy
  <2>6. runs[w] = 0 /\ jobs[w].work = "tiles"
    BY <1>1, <2>1, <2>4 DEF JobInv, Prepared
  <2>7. runs'[w] = 1 /\ (jobs'[w].err <=> w \in corrupt)
    <3>1. runs'[w] = 1 BY <1>t, <2>1, <2>6
    <3>2. jobs'[w] = AfterRun(w, jobs[w]) BY <1>t, <2>1
    <3>3. AfterRun(w, jobs[w]).err = (w \in corrupt) BY <2>6 DEF AfterRun
    <3>. QED BY <3>1, <3>2, <3>3
  <2>8. AllInv' /\ ReportedInv' BY <1>1, <2>1 DEF AllInv, ReportedInv
  <2>9. CurrentInv' BY <1>1, <2>1, <2>2, <2>5 DEF CurrentInv
  <2>10. RunAtMostOnce' BY <1>1, <2>2, <2>7 DEF RunAtMostOnce
  <2>11. JobInv(w)'
    <3>1. pc'[w] = "done" BY <1>t, <2>1
    <3>2. ~(epoch'[w] < jobEpoch') /\ dpc' = dpc BY <1>t, <2>1, <2>5
    <3>3. corrupt' = corrupt BY <2>1
    <3>. QED BY <2>4, <2>7, <3>1, <3>2, <3>3 DEF JobInv
  <2>12. \A v \in Helper : v # w => JobInv(v)'
    BY <1>1, <2>1, <2>2 DEF JobInv, Prepared
  <2>. QED BY <2>8, <2>9, <2>10, <2>11, <2>12 DEF OnceInv
<1>5. CASE StoreDone(w)
  <2>1. /\ pc' = [pc EXCEPT ![w] = "poll"] /\ pc[w] = "done"
        /\ doneEpoch' = [doneEpoch EXCEPT ![w] = epoch[w]]
        /\ UNCHANGED <<jobEpoch, dispatcher, jobs, runs, epoch>>
    BY <1>5 DEF StoreDone
  <2>2. \A v \in Helper : v # w => pc'[v] = pc[v] BY <1>t, <2>1
  <2>3. doneEpoch[w] # jobEpoch
    BY <1>0, <1>t, <2>1 DEF EpochInv, Busy
  <2>4. ReportedInv' BY <1>1, <2>1, <2>3 DEF ReportedInv
  <2>5. AllInv' /\ RunAtMostOnce' BY <1>1, <2>1 DEF AllInv, RunAtMostOnce
  <2>6. pc'[w] = "poll" BY <1>t, <2>1
  <2>7. CurrentInv' BY <1>1, <2>1, <2>2, <2>6 DEF CurrentInv, Busy
  <2>8. JobInv(w)' BY <1>1, <2>1, <2>6 DEF JobInv, Prepared
  <2>9. \A v \in Helper : v # w => JobInv(v)' BY <1>1, <2>1, <2>2 DEF JobInv, Prepared
  <2>. QED BY <2>4, <2>5, <2>7, <2>8, <2>9 DEF OnceInv
<1>6. CASE Idle(w)
  <2>1. PICK to \in {"exit", "poll", "park"} : pc' = [pc EXCEPT ![w] = to]
    BY <1>6 DEF Idle
  <2>2. pc[w] = "idle" BY <1>6 DEF Idle
  <2>. QED BY <1>6, <2>1, <2>2, QuietMoveOnce DEF Idle, HelperPC, Busy
<1>7. CASE Park(w) BY <1>7, QuietMoveOnce DEF Park, HelperPC, Busy
<1>8. CASE Recheck(w)
  <2>1. PICK to \in {"unpark", "blocked"} : pc' = [pc EXCEPT ![w] = to]
    BY <1>8 DEF Recheck
  <2>. QED BY <1>8, <2>1, QuietMoveOnce DEF Recheck, HelperPC, Busy
<1>9. CASE Wakeup(w) BY <1>9, QuietMoveOnce DEF Wakeup, HelperPC, Busy
<1>10. CASE WakeupExit(w) BY <1>10, QuietMoveOnce DEF WakeupExit, HelperPC, Busy
<1>11. CASE Unpark(w)
  <2>1. PICK to \in {"poll", "exit"} : pc' = [pc EXCEPT ![w] = to]
    BY <1>11 DEF Unpark
  <2>2. pc[w] \in {"unpark", "unparkExit"} BY <1>11 DEF Unpark
  <2>. QED BY <1>11, <2>1, <2>2, QuietMoveOnce DEF Unpark, HelperPC, Busy
<1>. QED
  BY <1>2, <1>3, <1>4, <1>5, <1>6, <1>7, <1>8, <1>9, <1>10, <1>11 DEF HelperStep

\* The dispatcher's steps run no job twice.
LEMMA DispatcherOnce ==
  ASSUME EveryFrameUsesAll, IInv, OnceInv,
         BeginFrame \/ CloseShutdown \/ DispatcherStep
  PROVE  OnceInv'
<1>. USE DEF IInv, TypeOK, EpochInv, DispatchInv, OnceInv, AllInv, ReportedInv,
             CurrentInv, RunAtMostOnce, JobInv, Prepared, Helper,
             HelperPC, DispatcherPC, Busy, Quiet, pool, EveryFrameUsesAll
<1>1. CASE BeginFrame BY <1>1 DEF BeginFrame
<1>2. CASE CloseShutdown BY <1>2 DEF CloseShutdown
<1>3. CASE PrepareJob
  <2>1. /\ dpc = "prepare" /\ dScan \in Helper /\ dScan' = dScan + 1
        /\ dHelpers = HelperCount
        /\ dpc' = IF dScan' = dHelpers THEN "activate" ELSE "prepare"
        /\ runs'[dScan] = 0 /\ jobs'[dScan].work = "tiles"
        /\ \A w \in Helper : w # dScan => runs'[w] = runs[w] /\ jobs'[w] = jobs[w]
        /\ UNCHANGED <<jobEpoch, doneEpoch, epoch, pc, corrupt, dHelpers>>
    BY <1>3 DEF PrepareJob
  <2>2. \A w \in Helper : runs'[w] <= 1
    <3>. SUFFICES ASSUME NEW w \in Helper PROVE runs'[w] <= 1 OBVIOUS
    <3>1. CASE w = dScan BY <2>1, <3>1
    <3>2. CASE w # dScan BY <2>1, <3>2
    <3>. QED BY <3>1, <3>2
  <2>3. \A w \in Helper : Prepared(w)' => w = dScan \/ Prepared(w) BY <2>1
  <2>4. \A w \in Helper : Prepared(w)' => runs'[w] = 0 /\ jobs'[w].work = "tiles"
    <3>. SUFFICES ASSUME NEW w \in Helper, Prepared(w)'
                  PROVE  runs'[w] = 0 /\ jobs'[w].work = "tiles"
      OBVIOUS
    <3>1. CASE w = dScan BY <2>1, <3>1
    <3>2. CASE w # dScan
      <4>1. Prepared(w) BY <2>3, <3>2
      <4>2. runs[w] = 0 /\ jobs[w].work = "tiles" BY <2>1, <4>1
      <4>. QED BY <2>1, <3>2, <4>2
    <3>. QED BY <3>1, <3>2
  <2>5. AllInv' /\ ReportedInv' /\ CurrentInv' /\ RunAtMostOnce' BY <2>1, <2>2
  <2>6. dpc' \in {"prepare", "activate"} BY <2>1
  <2>7. \A w \in Helper : JobInv(w)' BY <2>4, <2>6 DEF JobInv
  <2>. QED BY <2>5, <2>7
<1>4. CASE StoreActive BY <1>4 DEF StoreActive
<1>5. CASE AddEpoch BY <1>5 DEF AddEpoch
<1>6. CASE WakeHelper BY <1>6 DEF WakeHelper
<1>7. CASE WaitHelper
  <2>1. /\ dpc = "wait" /\ dpc' \in {"wait", "merge"} /\ dHelpers = HelperCount
        /\ doneEpoch[dScan] >= dEpoch /\ dEpoch = jobEpoch
        /\ dpc' = "merge" => dScan + 1 = dHelpers
        /\ UNCHANGED <<pool, jobs, runs, pc, epoch, dHelpers, corrupt>>
    BY <1>7 DEF WaitHelper
  <2>2. UNCHANGED <<jobEpoch, activeHelpers, doneEpoch>> BY <2>1
  <2>3. ASSUME dpc' = "merge", NEW w \in Helper PROVE doneEpoch[w] = jobEpoch
    <3>1. dScan \in Helper /\ (w = dScan \/ w < dScan) BY <2>1, <2>3
    <3>2. doneEpoch[dScan] <= epoch[dScan] /\ epoch[dScan] <= jobEpoch BY <3>1
    <3>3. doneEpoch[dScan] \in Nat /\ epoch[dScan] \in Nat /\ jobEpoch \in Nat BY <3>1
    <3>4. w < dScan => doneEpoch[w] = jobEpoch BY <2>1
    <3> HIDE DEF IInv, OnceInv
    <3>5. doneEpoch[dScan] >= jobEpoch BY <2>1
    <3>6. doneEpoch[dScan] = jobEpoch BY <3>2, <3>3, <3>5
    <3>. QED BY <3>1, <3>4, <3>6
  <2>4. ReportedInv' BY <2>1, <2>2, <2>3
  <2>5. AllInv' /\ CurrentInv' /\ RunAtMostOnce' BY <2>1, <2>2
  <2>6. \A w \in Helper : JobInv(w)' BY <2>1, <2>2
  <2>. QED BY <2>4, <2>5, <2>6
<1>8. CASE Merge BY <1>8 DEF Merge
<1>9. CASE WaitExit BY <1>9 DEF WaitExit
<1>. QED
  BY <1>1, <1>2, <1>3, <1>4, <1>5, <1>6, <1>7, <1>8, <1>9 DEF DispatcherStep

\* Each job of a frame is run at most once if every frame uses all helpers.
LEMMA OnceInvariance == EveryFrameUsesAll => (Spec => [](IInv /\ OnceInv))
<1>. SUFFICES ASSUME EveryFrameUsesAll PROVE Spec => [](IInv /\ OnceInv)
  OBVIOUS
<1>1. Init => OnceInv
  BY DEF Init, OnceInv, AllInv, ReportedInv, CurrentInv, RunAtMostOnce, JobInv,
     Prepared, Quiet, Helper
<1>2. IInv /\ OnceInv /\ [Next]_vars => OnceInv'
  <2>1. ASSUME IInv, OnceInv, UNCHANGED vars PROVE OnceInv'
    BY <2>1 DEF OnceInv, AllInv, ReportedInv, CurrentInv, RunAtMostOnce, JobInv,
       Prepared, vars, pool, dispatcher, Helper
  <2>. QED BY <2>1, HelperOnce, DispatcherOnce DEF Next, Terminated
<1>. QED BY <1>1, <1>2, Invariance, PTL DEF Spec

\* When every frame uses every helper no job is run twice.
THEOREM RunsOnce == EveryFrameUsesAll => (Spec => []RunAtMostOnce)
<1>1. OnceInv => RunAtMostOnce BY DEF OnceInv
<1>. QED BY <1>1, OnceInvariance, PTL

\* When every frame uses every helper the pool reports exactly the errors of
\* the frame's own tiles.
THEOREM ResultIsSerial == EveryFrameUsesAll => (Spec => []ResultMatchesSerial)
<1>1. IInv /\ OnceInv => ResultMatchesSerial
  <2>. SUFFICES ASSUME IInv, OnceInv, dpc = "merge", NEW w \in 0..(dHelpers - 1)
                PROVE  jobs[w].err <=> w \in corrupt
    BY DEF ResultMatchesSerial
  <2>1. w \in Helper /\ Prepared(w) /\ runs[w] <= 1
    BY DEF IInv, OnceInv, RunAtMostOnce, Prepared, Helper, DispatchInv
  <2>2. runs[w] >= 1
    BY <2>1 DEF IInv, TypeOK, EpochInv, QuietInv, DispatchInv, RanInv, Quiet,
                Busy, Helper
  <2>3. runs[w] = 1 BY <2>1, <2>2 DEF IInv, TypeOK
  <2>. QED BY <2>1, <2>3 DEF OnceInv, JobInv
<1>. QED BY <1>1, OnceInvariance, PTL
=============================================================================
