-------------------------- MODULE Vp8RowPool_proof --------------------------
(***************************************************************************)
(* Proofs about the VP8 encoder's row workers, for every number of workers,*)
(* frame size, sync range and set of failing macroblocks: first one frame's*)
(* wavefront, then the pool, for any sequence of calls, attempts and loop  *)
(* filter jobs.                                                            *)
(*                                                                         *)
(* The argument for a frame: a row publishes less than it has encoded      *)
(* (PubInv), and what it waited for covers its whole sync group (WaitInv), *)
(* so a row never overtakes the row above (MonoInv).  Hence aboveTok[c]    *)
(* always comes from the lowest row that has encoded column c (TokInv), and*)
(* for the row about to encode c that is the row directly above.  Rows are *)
(* partitioned among the workers by their remainder (OwnerInv); a row its  *)
(* owner has left without abort is complete (PastInv).                     *)
(*                                                                         *)
(* The argument for the pool: doneCount is the number of started helpers   *)
(* that are idle again (CountInv).  When it reaches its target all of them *)
(* are, so the pool is quiet whenever the goroutine is not inside a        *)
(* dispatch, and a frame is judged only when each of its workers has ended *)
(* (EndInv).  A rows job is therefore a behaviour of Vp8RowWavefront, whose*)
(* invariant holds while it runs (FrameInv).                               *)
(***************************************************************************)
EXTENDS Vp8RowPool, FiniteSetTheorems, TLAPS

-----------------------------------------------------------------------------
(* Arithmetic of the row assignment and of the sync range.                 *)

\* Quotient and remainder.
LEMMA DivMod ==
  ASSUME NEW a \in Nat, NEW m \in Nat \ {0}
  PROVE  /\ a \div m \in Nat
         /\ a % m \in 0..(m - 1)
         /\ a = m * (a \div m) + (a % m)
BY SMT

\* A worker's next row leaves the remainder that identifies the worker.
LEMMA NextRowRemainder ==
  ASSUME NEW a \in Nat, NEW m \in Nat \ {0}
  PROVE  (a + m) % m = a % m
<1> DEFINE p == a \div m
           q == (a + m) \div m
           x == a % m
           y == (a + m) % m
<1>1. p \in Nat /\ x \in 0..(m - 1) /\ a = m * p + x
  BY DivMod
<1>2. q \in Nat /\ y \in 0..(m - 1) /\ a + m = m * q + y
  <2>1. a + m \in Nat
    OBVIOUS
  <2>2. QED
    BY <2>1, DivMod
<1> HIDE DEF p, q, x, y
<1>3. m * (p + 1) + x = m * q + y
  BY <1>1, <1>2
<1>4. p + 1 = q
  BY <1>1, <1>2, <1>3
<1>5. QED
  BY <1>1, <1>2, <1>3, <1>4 DEF x, y

\* A number below the divisor is its own remainder.
LEMMA SmallRemainder ==
  ASSUME NEW m \in Nat \ {0}, NEW a \in 0..(m - 1)
  PROVE  a % m = a
BY SMT

\* Rows of the same worker lie WorkerCount apart.
LEMMA SameRemainder ==
  ASSUME NEW a \in Nat, NEW b \in Nat, NEW m \in Nat \ {0},
         a % m = b % m, a < b + m
  PROVE  a <= b
<1> DEFINE p == a \div m
           q == b \div m
           x == a % m
<1>1. p \in Nat /\ q \in Nat /\ x \in 0..(m - 1)
  BY DivMod
<1>2. a = m * p + x /\ b = m * q + x
  BY DivMod
<1> HIDE DEF p, q, x
<1>3. m * p < m * (q + 1)
  BY <1>1, <1>2
<1>4. p <= q
  BY <1>1, <1>3
<1>5. m * p <= m * q
  BY <1>1, <1>4
<1>6. QED
  BY <1>1, <1>2, <1>5

\* The first column of the sync group of column c, up to which the row waited.
GroupStart(c) == c - (c % SyncRange)

\* A column lies in its group, and its successor in the same group unless it
\* starts one.
LEMMA Groups ==
  ASSUME WavefrontAssumption, NEW c \in Nat
  PROVE  /\ GroupStart(c) \in Int
         /\ c < GroupStart(c) + SyncRange
         /\ c % SyncRange = 0 => GroupStart(c) = c
         /\ (c + 1) % SyncRange # 0 => GroupStart(c + 1) = GroupStart(c)
<1>1. SyncRange \in {1, 4, 8, 16}
  BY DEF WavefrontAssumption
<1>2. CASE SyncRange = 1
  BY <1>2 DEF GroupStart
<1>3. CASE SyncRange = 4
  BY <1>3 DEF GroupStart
<1>4. CASE SyncRange = 8
  BY <1>4 DEF GroupStart
<1>5. CASE SyncRange = 16
  BY <1>5 DEF GroupStart
<1>6. QED
  BY <1>1, <1>2, <1>3, <1>4, <1>5

-----------------------------------------------------------------------------
(* The inductive invariant.                                                *)

\* Worker w is at one of its own rows.
OwnerInv == \A w \in Worker : row[w] % WorkerCount = w

\* The row a worker is in is encoded up to the worker's column.
PosInv ==
  \A w \in Worker :
    /\ pc[w] \notin {"row", "done"} => encoded[row[w]] = col[w]
    /\ pc[w] = "endRow" => col[w] = Cols
    /\ pc[w] \in {"wait", "waitAbort"} => col[w] % SyncRange = 0

\* Rows a worker has not entered are not encoded.
FreshInv ==
  \A w \in Worker, r \in Row :
    /\ r % WorkerCount = w
    /\ r > row[w] \/ (r = row[w] /\ pc[w] = "row")
    => encoded[r] = 0

\* Unless the frame is aborted, the rows a worker left are complete, and it
\* stops only after its last one.
PastInv ==
  ~abort => \A w \in Worker :
              /\ \A r \in Row : r % WorkerCount = w /\ r < row[w] => encoded[r] = Cols
              /\ pc[w] = "done" => row[w] >= Rows

\* A row publishes less than it has encoded, and the last value only when it
\* is complete.
PubInv ==
  \A r \in Row :
    \/ rowProgress[r] = Cols + SyncRange /\ encoded[r] = Cols
    \/ rowProgress[r] < encoded[r] /\ rowProgress[r] <= Cols - 2

\* What a worker waited for holds for its whole sync group.
WaitInv ==
  \A w \in Worker :
    /\ pc[w] = "encode" \/ (pc[w] = "publish" /\ col[w] % SyncRange # 0)
    /\ row[w] > 0
    => rowProgress[row[w] - 1] >= GroupStart(col[w]) + SyncRange

\* No row is ahead of a row above it.
MonoInv == \A r1, r2 \in Row : r1 < r2 => encoded[r2] <= encoded[r1]

\* aboveTok[c] comes from the lowest row that has encoded column c.
TokInv ==
  \A c \in Col :
    /\ aboveTok[c] >= 0 => encoded[aboveTok[c]] > c
    /\ \A r \in Row : r > aboveTok[c] => encoded[r] <= c

\* Errors come from failing macroblocks, abort from errors.
ErrInv ==
  /\ \A w \in Worker : workerErr[w] => bad # {}
  /\ abort => \E w \in Worker : workerErr[w]
  /\ FailureHasCause

IInv ==
  /\ TypeOK /\ OwnerInv /\ PosInv /\ FreshInv /\ PastInv /\ PubInv
  /\ WaitInv /\ MonoInv /\ TokInv /\ ErrInv /\ MergedIsComplete

-----------------------------------------------------------------------------
(* What the invariant says of the macroblock a worker is about to encode.  *)

\* Distinct workers are in distinct rows.
LEMMA DistinctRows ==
  ASSUME OwnerInv, NEW w \in Worker, NEW x \in Worker, w # x
  PROVE  row[w] # row[x]
BY DEF OwnerInv

\* The row above is at least two columns ahead, or complete.
LEMMA AboveAhead ==
  ASSUME WavefrontAssumption, IInv,
         NEW w \in Worker, pc[w] = "encode", row[w] > 0
  PROVE  /\ encoded[row[w] - 1] > col[w]
         /\ IF col[w] = Cols - 1
              THEN rowProgress[row[w] - 1] = Cols + SyncRange
              ELSE encoded[row[w] - 1] >= col[w] + 2
<1> DEFINE a == row[w] - 1
           n == SyncRange
<1>1. /\ row[w] \in Row /\ col[w] \in Col /\ a \in Row
      /\ n \in Nat /\ Cols \in Nat /\ Rows \in Nat
      /\ rowProgress[a] \in Int /\ encoded[a] \in 0..Cols
  <2>1. n \in Nat /\ Cols \in Nat /\ Rows \in Nat
    BY DEF WavefrontAssumption
  <2>2. row[w] \in Row /\ col[w] \in Col
    BY DEF IInv, TypeOK
  <2>3. a \in Row
    BY <2>1, <2>2 DEF Row
  <2>4. rowProgress[a] \in Int /\ encoded[a] \in 0..Cols
    BY <2>1, <2>3 DEF IInv, TypeOK
  <2>5. QED
    BY <2>1, <2>2, <2>3, <2>4
<1>2. rowProgress[a] >= GroupStart(col[w]) + n
  BY DEF IInv, WaitInv
<1>3. col[w] < GroupStart(col[w]) + n /\ GroupStart(col[w]) \in Int
  BY <1>1, Groups DEF Col
<1>4. rowProgress[a] > col[w]
  BY <1>1, <1>2, <1>3 DEF Col
<1>5. \/ rowProgress[a] = Cols + n /\ encoded[a] = Cols
      \/ rowProgress[a] < encoded[a] /\ rowProgress[a] <= Cols - 2
  BY <1>1 DEF IInv, PubInv
<1>6. QED
  BY <1>1, <1>4, <1>5 DEF Col

\* The column's contexts are those of the row above.
LEMMA SerialContext ==
  ASSUME WavefrontAssumption, IInv, NEW w \in Worker, pc[w] = "encode"
  PROVE  aboveTok[col[w]] = row[w] - 1
<1> DEFINE c == col[w]
           t == aboveTok[c]
<1>1. /\ row[w] \in Row /\ c \in Col /\ Cols \in Nat /\ Rows \in Nat
      /\ t \in -1..(Rows - 1)
  BY DEF IInv, TypeOK, WavefrontAssumption
<1>2. encoded[row[w]] = c
  BY DEF IInv, PosInv
<1>3. \A r \in Row : encoded[r] \in 0..Cols
  BY DEF IInv, TypeOK
<1>4. ~(t >= row[w])
  <2>1. SUFFICES ASSUME t >= row[w] PROVE FALSE
    OBVIOUS
  <2>2. t \in Row /\ t >= 0
    BY <1>1, <2>1 DEF Row
  <2>3. encoded[t] > c
    BY <1>1, <2>2 DEF IInv, TokInv
  <2>4. t = row[w] \/ encoded[t] <= encoded[row[w]]
    BY <1>1, <2>1, <2>2 DEF IInv, MonoInv, Row
  <2>5. QED
    BY <1>1, <1>2, <1>3, <2>2, <2>3, <2>4 DEF Col
<1>5. CASE row[w] = 0
  BY <1>1, <1>4, <1>5
<1>6. CASE row[w] > 0
  <2>1. row[w] - 1 \in Row
    BY <1>1, <1>6 DEF Row
  <2>2. encoded[row[w] - 1] > c
    BY <1>6, AboveAhead
  <2>3. ~(row[w] - 1 > t)
    BY <1>1, <1>3, <2>1, <2>2 DEF IInv, TokInv, Col
  <2>4. QED
    BY <1>1, <1>4, <2>3 DEF Row
<1>7. QED
  BY <1>1, <1>5, <1>6 DEF Row

-----------------------------------------------------------------------------
(* The invariant holds initially and every action preserves it.            *)

\* The constants are numbers, and so are workers, rows and columns.
LEMMA SmallFacts ==
  ASSUME WavefrontAssumption
  PROVE  /\ WorkerCount \in Nat \ {0} /\ Worker \subseteq Nat
         /\ Rows \in Nat /\ Cols \in Nat /\ SyncRange \in Nat \ {0}
         /\ Cols > SyncRange
         /\ Row \subseteq Nat /\ Col \subseteq Nat
BY DEF WavefrontAssumption, Worker, Row, Col

\* The initial state satisfies the invariant.
LEMMA InitIInv == ASSUME WavefrontAssumption, Init PROVE IInv
<1> USE SmallFacts
<1>1. TypeOK
  <2>1. bad \in SUBSET MB
    BY DEF Init, WavefrontAssumption
  <2>2. /\ rowProgress \in [Row -> -1..(Cols + SyncRange)]
        /\ aboveTok \in [Col -> -1..(Rows - 1)]
        /\ encoded \in [Row -> 0..Cols]
    BY DEF Init
  <2>3. pc \in [Worker -> PCs] /\ row \in [Worker -> Nat] /\ col \in [Worker -> 0..Cols]
    BY DEF Init, PCs
  <2>4. QED
    BY <2>1, <2>2, <2>3 DEF Init, TypeOK
<1>2. OwnerInv
  BY SmallRemainder DEF Init, OwnerInv, Worker
<1>3. PosInv
  BY DEF Init, PosInv
<1>4. FreshInv
  BY DEF Init, FreshInv
<1>5. PastInv
  <2>1. ASSUME NEW w \in Worker, NEW r \in Row, r % WorkerCount = w
        PROVE  ~(r < w)
    <3>1. SUFFICES ASSUME r < w PROVE FALSE
      OBVIOUS
    <3>2. r \in 0..(WorkerCount - 1)
      BY <3>1 DEF Worker, Row
    <3>3. r % WorkerCount = r
      BY <3>2, SmallRemainder
    <3>4. QED
      BY <2>1, <3>1, <3>3
  <2>2. \A w \in Worker : row[w] = w /\ pc[w] = "row"
    BY DEF Init
  <2>3. QED
    BY <2>1, <2>2 DEF PastInv
<1>6. PubInv
  BY DEF Init, PubInv
<1>7. WaitInv
  BY DEF Init, WaitInv
<1>8. MonoInv
  BY DEF Init, MonoInv
<1>9. TokInv
  BY DEF Init, TokInv
<1>10. ErrInv
  BY DEF Init, ErrInv, FailureHasCause
<1>11. MergedIsComplete
  BY DEF Init, MergedIsComplete
<1>12. QED
  BY <1>1, <1>2, <1>3, <1>4, <1>5, <1>6, <1>7, <1>8, <1>9, <1>10, <1>11 DEF IInv

\* Steps that leave the data alone and move one worker.
\* A worker takes its next row, or ends when there is none.
LEMMA NextRowStep ==
  ASSUME WavefrontAssumption, IInv, NEW w \in Worker, NextRow(w)
  PROVE  IInv'
<1> USE SmallFacts DEF NextRow, Goto, shared, frame
<1>1. TypeOK'
  BY DEF IInv, TypeOK, PCs
<1>2. OwnerInv'
  BY DEF IInv, OwnerInv
<1>3. PosInv'
  <2>1. row[w] \in Row => encoded[row[w]] = 0
    BY DEF IInv, FreshInv, OwnerInv
  <2>2. QED
    BY <2>1, <1>1 DEF IInv, PosInv, TypeOK
<1>4. FreshInv'
  BY DEF IInv, FreshInv, TypeOK
<1>5. PastInv'
  <2>1. row[w] \in Nat /\ row[w] \notin Row => row[w] >= Rows
    BY DEF Row
  <2>2. QED
    BY <2>1 DEF IInv, PastInv, TypeOK
<1>6. PubInv'
  BY DEF IInv, PubInv
<1>7. WaitInv'
  <2>1. 0 % SyncRange = 0
    BY SmallRemainder
  <2>2. QED
    BY <2>1 DEF IInv, WaitInv, TypeOK
<1>8. MonoInv' /\ TokInv' /\ ErrInv' /\ MergedIsComplete'
  BY DEF IInv, MonoInv, TokInv, ErrInv, MergedIsComplete, FailureHasCause
<1>9. QED
  BY <1>1, <1>2, <1>3, <1>4, <1>5, <1>6, <1>7, <1>8 DEF IInv

\* A worker sees that the row above is far enough ahead.
LEMMA WaitStep ==
  ASSUME WavefrontAssumption, IInv, NEW w \in Worker, Wait(w)
  PROVE  IInv'
<1> USE SmallFacts DEF Wait, Goto, shared, frame
<1>1. TypeOK'
  BY DEF IInv, TypeOK, PCs
<1>2. OwnerInv' /\ PubInv' /\ MonoInv' /\ TokInv' /\ ErrInv' /\ MergedIsComplete'
  BY DEF IInv, OwnerInv, PubInv, MonoInv, TokInv, ErrInv, MergedIsComplete,
         FailureHasCause
<1>3. PosInv'
  BY DEF IInv, PosInv, TypeOK
<1>4. FreshInv'
  BY DEF IInv, FreshInv, TypeOK
<1>5. PastInv'
  BY DEF IInv, PastInv, TypeOK
<1>6. WaitInv'
  <2>1. ASSUME pc'[w] = "encode", row[w] > 0
        PROVE  rowProgress[row[w] - 1] >= GroupStart(col[w]) + SyncRange
    <3>1. col[w] % SyncRange = 0 /\ col[w] \in Nat
      BY DEF IInv, PosInv, TypeOK
    <3>2. GroupStart(col[w]) = col[w]
      BY <3>1, Groups
    <3>3. QED
      BY <2>1, <3>2 DEF IInv, TypeOK, Target
  <2>2. QED
    BY <2>1 DEF IInv, WaitInv, TypeOK
<1>7. QED
  BY <1>1, <1>2, <1>3, <1>4, <1>5, <1>6 DEF IInv

\* A worker leaves a row for its next one.
LEMMA Advance ==
  ASSUME WavefrontAssumption, IInv, NEW w \in Worker,
         row' = [row EXCEPT ![w] = @ + WorkerCount]
  PROVE  /\ OwnerInv'
         /\ \A r \in Row : r % WorkerCount = w /\ r < row'[w] => r <= row[w]
         /\ row'[w] = row[w] + WorkerCount
         /\ \A x \in Worker : x # w => row'[x] = row[x]
<1> USE SmallFacts
<1>1. row \in [Worker -> Nat]
  BY DEF IInv, TypeOK
<1>2. row[w] % WorkerCount = w
  BY DEF IInv, OwnerInv
<1>3. OwnerInv'
  <2>1. (row[w] + WorkerCount) % WorkerCount = w
    BY <1>1, <1>2, NextRowRemainder
  <2>2. QED
    BY <1>1, <2>1 DEF IInv, OwnerInv
<1>4. ASSUME NEW r \in Row, r % WorkerCount = w, r < row'[w]
      PROVE  r <= row[w]
  BY <1>1, <1>2, <1>4, SameRemainder
<1>5. QED
  BY <1>1, <1>3, <1>4

\* A waiting worker sees the abort flag and leaves.
LEMMA WaitAbortStep ==
  ASSUME WavefrontAssumption, IInv, NEW w \in Worker, WaitAbort(w)
  PROVE  IInv'
<1> USE SmallFacts DEF WaitAbort, Goto, shared, frame
<1>1. TypeOK'
  BY DEF IInv, TypeOK, PCs
<1>2. PubInv' /\ MonoInv' /\ TokInv' /\ ErrInv' /\ MergedIsComplete'
  BY DEF IInv, PubInv, MonoInv, TokInv, ErrInv, MergedIsComplete, FailureHasCause
<1>3. PosInv'
  BY DEF IInv, PosInv, TypeOK
<1>4. CASE abort
  <2>1. row' = [row EXCEPT ![w] = @ + WorkerCount]
    BY <1>4
  <2>2. OwnerInv'
    BY <2>1, Advance
  <2>3. FreshInv'
    <3>1. row'[w] = row[w] + WorkerCount /\ row[w] \in Nat
      BY <2>1, Advance DEF IInv, TypeOK
    <3>2. QED
      BY <2>1, <3>1 DEF IInv, FreshInv, TypeOK
  <2>4. PastInv'
    BY <1>4 DEF PastInv
  <2>5. WaitInv'
    BY <1>4, <2>1 DEF IInv, WaitInv, TypeOK
  <2>6. QED
    BY <1>1, <1>2, <1>3, <2>2, <2>3, <2>4, <2>5 DEF IInv
<1>5. CASE ~abort
  <2>1. row' = row
    BY <1>5 DEF IInv, TypeOK
  <2>2. OwnerInv'
    BY <2>1 DEF IInv, OwnerInv
  <2>3. FreshInv'
    BY <1>5, <2>1 DEF IInv, FreshInv, TypeOK
  <2>4. PastInv'
    BY <1>5, <2>1 DEF IInv, PastInv, TypeOK
  <2>5. WaitInv'
    BY <1>5, <2>1 DEF IInv, WaitInv, TypeOK
  <2>6. QED
    BY <1>1, <1>2, <1>3, <2>2, <2>3, <2>4, <2>5 DEF IInv
<1>6. QED
  BY <1>4, <1>5

\* The worker publishes, or ends, the row it is in; progress only grows.
LEMMA Published ==
  ASSUME WavefrontAssumption, IInv, NEW w \in Worker, NEW v \in Int,
         row[w] \in Row,
         \/ v = Cols + SyncRange /\ encoded[row[w]] = Cols
         \/ v < encoded[row[w]] /\ v <= Cols - 2 /\ v >= encoded[row[w]] - 1,
         rowProgress' = [rowProgress EXCEPT ![row[w]] = v],
         UNCHANGED encoded
  PROVE  /\ PubInv'
         /\ \A r \in Row : rowProgress'[r] >= rowProgress[r]
<1> USE SmallFacts
<1>1. /\ rowProgress \in [Row -> -1..(Cols + SyncRange)]
      /\ encoded \in [Row -> 0..Cols]
  BY DEF IInv, TypeOK
<1>2. /\ rowProgress'[row[w]] = v
      /\ \A r \in Row : r # row[w] => rowProgress'[r] = rowProgress[r]
  BY <1>1
<1>3. PubInv'
  BY <1>1, <1>2 DEF IInv, PubInv
<1>4. v >= rowProgress[row[w]]
  BY <1>1 DEF IInv, PubInv
<1>5. QED
  BY <1>1, <1>2, <1>3, <1>4

\* A worker publishes the columns of its row it has finished.
LEMMA PublishStep ==
  ASSUME WavefrontAssumption, IInv, NEW w \in Worker, Publish(w)
  PROVE  IInv'
<1> USE SmallFacts DEF Publish, Goto, shared, frame
<1>1. /\ row[w] \in Row /\ col[w] \in 0..Cols /\ col[w] \in Nat
      /\ encoded[row[w]] = col[w]
  BY DEF IInv, TypeOK, PosInv
<1>2. /\ PubInv'
      /\ \A r \in Row : rowProgress'[r] >= rowProgress[r]
      /\ rowProgress' \in [Row -> -1..(Cols + SyncRange)]
  <2>1. CASE col[w] \in 1..(Cols - 1) /\ (col[w] - 1) % SyncRange = 0
    <3>1. rowProgress' = [rowProgress EXCEPT ![row[w]] = col[w] - 1]
      BY <2>1
    <3>2. PubInv' /\ \A r \in Row : rowProgress'[r] >= rowProgress[r]
      <4> DEFINE v == col[w] - 1
      <4>1. /\ v \in Int
            /\ v < encoded[row[w]] /\ v <= Cols - 2 /\ v >= encoded[row[w]] - 1
        BY <1>1, <2>1
      <4>2. rowProgress' = [rowProgress EXCEPT ![row[w]] = v] /\ UNCHANGED encoded
        BY <3>1
      <4> HIDE DEF v
      <4>3. QED
        BY <1>1, <4>1, <4>2, Published
    <3>3. rowProgress' \in [Row -> -1..(Cols + SyncRange)]
      BY <1>1, <2>1, <3>1 DEF IInv, TypeOK
    <3>4. QED
      BY <3>2, <3>3
  <2>2. CASE ~(col[w] \in 1..(Cols - 1) /\ (col[w] - 1) % SyncRange = 0)
    <3>1. rowProgress' = rowProgress
      BY <2>2
    <3>2. QED
      BY <3>1 DEF IInv, PubInv, TypeOK
  <2>3. QED
    BY <2>1, <2>2
<1>3. TypeOK'
  <2>1. pc' \in [Worker -> PCs]
    BY DEF IInv, TypeOK, PCs
  <2>2. \A x \in Worker : pc'[x] \notin {"row", "done"} => row[x] \in Row
    BY DEF IInv, TypeOK
  <2>3. \A x \in Worker : pc'[x] \in {"wait", "waitAbort", "encode"} => col[x] \in Col
    <3>1. pc'[w] \in {"wait", "waitAbort", "encode"} => col[w] # Cols
      BY DEF IInv, TypeOK
    <3>2. col[w] # Cols => col[w] \in Col
      BY <1>1 DEF Col
    <3>3. \A x \in Worker : x # w => pc'[x] = pc[x]
      BY DEF IInv, TypeOK
    <3>4. QED
      BY <3>1, <3>2, <3>3 DEF IInv, TypeOK
  <2>4. QED
    BY <1>2, <2>1, <2>2, <2>3 DEF IInv, TypeOK
<1>4. OwnerInv' /\ MonoInv' /\ TokInv' /\ ErrInv' /\ MergedIsComplete'
  BY DEF IInv, OwnerInv, MonoInv, TokInv, ErrInv, MergedIsComplete, FailureHasCause
<1>5. PosInv'
  BY DEF IInv, PosInv, TypeOK
<1>6. FreshInv'
  BY DEF IInv, FreshInv, TypeOK
<1>7. PastInv'
  BY DEF IInv, PastInv, TypeOK
<1>8. WaitInv'
  <2>1. ASSUME NEW x \in Worker, row[x] > 0, row[x] \in Row
        PROVE  rowProgress'[row[x] - 1] >= rowProgress[row[x] - 1]
    <3>1. row[x] - 1 \in Row
      BY <2>1 DEF Row
    <3>2. QED
      BY <1>2, <3>1
  <2>2. ASSUME NEW x \in Worker, row[x] > 0,
               pc'[x] = "encode" \/ (pc'[x] = "publish" /\ col[x] % SyncRange # 0)
        PROVE  rowProgress'[row[x] - 1] >= GroupStart(col[x]) + SyncRange
    <3>1. pc[x] = "encode" \/ (pc[x] = "publish" /\ col[x] % SyncRange # 0)
      BY <2>2 DEF IInv, TypeOK
    <3>2. rowProgress[row[x] - 1] >= GroupStart(col[x]) + SyncRange
      BY <2>2, <3>1 DEF IInv, WaitInv
    <3>3. row[x] \in Row /\ col[x] \in Nat
      BY <3>1 DEF IInv, TypeOK
    <3>4. row[x] - 1 \in Row /\ GroupStart(col[x]) \in Int
      BY <2>2, <3>3, Groups DEF Row
    <3>5. rowProgress[row[x] - 1] \in Int /\ rowProgress'[row[x] - 1] \in Int
      BY <1>2, <3>4 DEF IInv, TypeOK
    <3>6. QED
      BY <2>1, <2>2, <3>2, <3>3, <3>4, <3>5
  <2>3. QED
    BY <2>2 DEF WaitInv
<1>9. QED
  BY <1>2, <1>3, <1>4, <1>5, <1>6, <1>7, <1>8 DEF IInv

\* A worker finishes its row and publishes the sentinel.
LEMMA EndRowStep ==
  ASSUME WavefrontAssumption, IInv, NEW w \in Worker, EndRow(w)
  PROVE  IInv'
<1> USE SmallFacts DEF EndRow, Goto, shared, frame
<1>1. row[w] \in Row /\ encoded[row[w]] = Cols
  BY DEF IInv, TypeOK, PosInv
<1>2. PubInv' /\ \A r \in Row : rowProgress'[r] >= rowProgress[r]
  <2> DEFINE v == Cols + SyncRange
  <2>1. v \in Int /\ v = Cols + SyncRange
    OBVIOUS
  <2>2. rowProgress' = [rowProgress EXCEPT ![row[w]] = v] /\ UNCHANGED encoded
    OBVIOUS
  <2> HIDE DEF v
  <2>3. QED
    BY <1>1, <2>1, <2>2, Published
<1>3. TypeOK'
  BY DEF IInv, TypeOK, PCs
<1>4. MonoInv' /\ TokInv' /\ ErrInv' /\ MergedIsComplete'
  BY DEF IInv, MonoInv, TokInv, ErrInv, MergedIsComplete, FailureHasCause
<1>5. /\ OwnerInv'
      /\ \A r \in Row : r % WorkerCount = w /\ r < row'[w] => r <= row[w]
      /\ row'[w] = row[w] + WorkerCount
      /\ \A x \in Worker : x # w => row'[x] = row[x]
  BY Advance
<1>6. pc'[w] = "row" /\ \A x \in Worker : x # w => pc'[x] = pc[x]
  BY DEF IInv, TypeOK
<1>7. PosInv'
  BY <1>5, <1>6 DEF IInv, PosInv, TypeOK
<1>8. FreshInv'
  BY <1>1, <1>5, <1>6 DEF IInv, FreshInv, TypeOK
<1>9. PastInv'
  <2>1. ASSUME ~abort, NEW r \in Row, r % WorkerCount = w, r < row'[w]
        PROVE  encoded[r] = Cols
    BY <1>1, <1>5, <2>1 DEF IInv, PastInv
  <2>2. QED
    BY <1>5, <1>6, <2>1 DEF IInv, PastInv
<1>10. WaitInv'
  <2>1. ASSUME NEW x \in Worker, row'[x] > 0,
               pc'[x] = "encode" \/ (pc'[x] = "publish" /\ col[x] % SyncRange # 0)
        PROVE  rowProgress'[row'[x] - 1] >= GroupStart(col[x]) + SyncRange
    <3>1. x # w /\ row'[x] = row[x] /\ pc'[x] = pc[x]
      BY <1>5, <1>6, <2>1
    <3>2. rowProgress[row[x] - 1] >= GroupStart(col[x]) + SyncRange
      BY <2>1, <3>1 DEF IInv, WaitInv
    <3>3. row[x] \in Row /\ col[x] \in Nat
      BY <2>1, <3>1 DEF IInv, TypeOK
    <3>4. row[x] - 1 \in Row /\ GroupStart(col[x]) \in Int
      BY <2>1, <3>1, <3>3, Groups DEF Row
    <3>5. rowProgress[row[x] - 1] \in Int /\ rowProgress'[row[x] - 1] \in Int
      BY <1>3, <3>4 DEF IInv, TypeOK
    <3>6. QED
      BY <1>2, <3>1, <3>2, <3>4, <3>5
  <2>2. QED
    BY <2>1 DEF WaitInv
<1>11. QED
  BY <1>2, <1>3, <1>4, <1>5, <1>7, <1>8, <1>9, <1>10 DEF IInv

\* A failing macroblock ends its worker and sets abort.
LEMMA EncodeFails ==
  ASSUME WavefrontAssumption, IInv, NEW w \in Worker, Encode(w),
         <<row[w], col[w]>> \in bad
  PROVE  IInv'
<1> USE SmallFacts DEF shared, frame
<1>1. /\ pc[w] = "encode"
      /\ pc' = [pc EXCEPT ![w] = "done"]
      /\ abort' = TRUE
      /\ workerErr' = [workerErr EXCEPT ![w] = TRUE]
      /\ UNCHANGED <<bad, rowProgress, aboveTok, encoded, row, col, result>>
  BY DEF Encode, Goto
<1>2. TypeOK'
  BY <1>1 DEF IInv, TypeOK, PCs
<1>3. OwnerInv' /\ PubInv' /\ MonoInv' /\ TokInv' /\ MergedIsComplete' /\ PastInv'
  BY <1>1 DEF IInv, OwnerInv, PubInv, MonoInv, TokInv, MergedIsComplete, PastInv
<1>4. PosInv' /\ FreshInv'
  BY <1>1 DEF IInv, PosInv, FreshInv, TypeOK
<1>5. WaitInv'
  BY <1>1 DEF IInv, WaitInv, TypeOK
<1>6. ErrInv'
  <2>1. workerErr'[w] /\ bad # {}
    BY <1>1 DEF IInv, TypeOK
  <2>2. QED
    BY <1>1, <2>1 DEF IInv, ErrInv, FailureHasCause
<1>7. QED
  BY <1>2, <1>3, <1>4, <1>5, <1>6 DEF IInv

\* A macroblock is encoded: its row advances by one column and its contexts
\* replace those of the row above.
LEMMA EncodeSucceeds ==
  ASSUME WavefrontAssumption, IInv, NEW w \in Worker, Encode(w),
         <<row[w], col[w]>> \notin bad
  PROVE  IInv'
<1> USE SmallFacts DEF shared, frame
<1> DEFINE r == row[w]
           c == col[w]
<1>1. /\ pc[w] = "encode"
      /\ pc' = [pc EXCEPT ![w] = "publish"]
      /\ encoded' = [encoded EXCEPT ![r] = @ + 1]
      /\ aboveTok' = [aboveTok EXCEPT ![c] = r]
      /\ col' = [col EXCEPT ![w] = @ + 1]
      /\ UNCHANGED <<bad, rowProgress, abort, workerErr, row, result>>
  BY DEF Encode, Goto
<1>2. /\ r \in Row /\ c \in Col /\ encoded[r] = c
      /\ encoded \in [Row -> 0..Cols]
      /\ aboveTok \in [Col -> -1..(Rows - 1)]
      /\ pc \in [Worker -> PCs] /\ row \in [Worker -> Nat]
      /\ col \in [Worker -> 0..Cols]
  BY <1>1 DEF IInv, TypeOK, PosInv
<1>3. /\ encoded'[r] = c + 1
      /\ \A q \in Row : q # r => encoded'[q] = encoded[q]
      /\ aboveTok'[c] = r
      /\ \A d \in Col : d # c => aboveTok'[d] = aboveTok[d]
      /\ pc'[w] = "publish" /\ col'[w] = c + 1
      /\ \A x \in Worker : x # w => pc'[x] = pc[x] /\ col'[x] = col[x]
  BY <1>1, <1>2
<1>4. \A q \in Row : q < r => encoded[q] >= c + 1
  <2>1. ASSUME NEW q \in Row, q < r PROVE encoded[q] >= c + 1
    <3>1. r > 0 /\ r - 1 \in Row
      BY <1>2, <2>1 DEF Row
    <3>2. encoded[r - 1] > c
      BY <1>1, <3>1, AboveAhead
    <3>3. q = r - 1 \/ q < r - 1
      BY <1>2, <2>1 DEF Row
    <3>4. encoded[q] >= encoded[r - 1]
      BY <1>2, <3>1, <3>3, <2>1 DEF IInv, MonoInv
    <3>5. QED
      BY <1>2, <2>1, <3>1, <3>2, <3>4 DEF Col
  <2>2. QED
    BY <2>1
<1>5. \A q \in Row : q > r => encoded[q] <= c
  BY <1>2 DEF IInv, MonoInv
<1> HIDE DEF r, c
<1>6. TypeOK'
  <2>1. encoded' \in [Row -> 0..Cols]
    BY <1>1, <1>2 DEF Col
  <2>2. aboveTok' \in [Col -> -1..(Rows - 1)]
    BY <1>1, <1>2 DEF Row
  <2>3. pc' \in [Worker -> PCs]
    BY <1>1, <1>2 DEF PCs
  <2>4. col' \in [Worker -> 0..Cols]
    BY <1>1, <1>2 DEF Col, c
  <2>5. \A x \in Worker : pc'[x] \notin {"row", "done"} => row[x] \in Row
    BY <1>1, <1>2, <1>3 DEF IInv, TypeOK, r
  <2>6. \A x \in Worker : pc'[x] \in {"wait", "waitAbort", "encode"} => col'[x] \in Col
    BY <1>1, <1>3 DEF IInv, TypeOK
  <2>7. QED
    BY <1>1, <2>1, <2>2, <2>3, <2>4, <2>5, <2>6 DEF IInv, TypeOK
<1>7. OwnerInv' /\ ErrInv'
  BY <1>1 DEF IInv, OwnerInv, ErrInv, FailureHasCause
<1>8. PosInv'
  <2>1. ASSUME NEW x \in Worker, x # w, pc[x] \notin {"row", "done"}
        PROVE  encoded'[row[x]] = col[x]
    <3>1. row[x] \in Row /\ row[x] # r
      BY <2>1, DistinctRows DEF IInv, TypeOK, r
    <3>2. encoded[row[x]] = col[x]
      BY <2>1 DEF IInv, PosInv
    <3>3. QED
      BY <1>3, <3>1, <3>2
  <2>2. encoded'[row[w]] = col'[w]
    BY <1>3 DEF r
  <2>3. QED
    BY <1>1, <1>3, <2>1, <2>2 DEF IInv, PosInv
<1>9. FreshInv'
  <2>1. ASSUME NEW x \in Worker, NEW q \in Row, q % WorkerCount = x,
               q > row[x] \/ (q = row[x] /\ pc'[x] = "row")
        PROVE  encoded'[q] = 0
    <3>1. r % WorkerCount = w
      BY DEF IInv, OwnerInv, r
    <3>2. q # r
      BY <1>3, <2>1, <3>1, <1>2 DEF r
    <3>3. q > row[x] \/ (q = row[x] /\ pc[x] = "row")
      BY <1>3, <2>1
    <3>4. encoded[q] = 0
      BY <2>1, <3>3 DEF IInv, FreshInv
    <3>5. QED
      BY <1>3, <3>2, <3>4
  <2>2. QED
    BY <1>1, <2>1 DEF FreshInv
<1>10. PastInv'
  <2>1. ASSUME ~abort, NEW x \in Worker, NEW q \in Row,
               q % WorkerCount = x, q < row[x]
        PROVE  encoded'[q] = Cols
    <3>1. encoded[q] = Cols
      BY <2>1 DEF IInv, PastInv
    <3>2. q # r
      BY <1>2, <3>1 DEF Col
    <3>3. QED
      BY <1>3, <3>1, <3>2
  <2>2. QED
    BY <1>1, <1>3, <2>1 DEF IInv, PastInv
<1>11. PubInv'
  <2>1. ASSUME NEW q \in Row, q # r
        PROVE  \/ rowProgress[q] = Cols + SyncRange /\ encoded'[q] = Cols
               \/ rowProgress[q] < encoded'[q] /\ rowProgress[q] <= Cols - 2
    BY <1>3, <2>1 DEF IInv, PubInv
  <2>2. rowProgress[r] < encoded'[r] /\ rowProgress[r] <= Cols - 2
    <3>1. rowProgress[r] \in Int /\ c < Cols /\ c \in Int
      BY <1>2 DEF IInv, TypeOK, Col
    <3>2. encoded[r] # Cols
      BY <1>2, <3>1
    <3>3. rowProgress[r] < c /\ rowProgress[r] <= Cols - 2
      BY <1>2, <3>2 DEF IInv, PubInv
    <3>4. encoded'[r] = c + 1
      BY <1>3
    <3>5. QED
      BY <3>1, <3>3, <3>4
  <2>3. QED
    BY <1>1, <2>1, <2>2 DEF PubInv
<1>12. WaitInv'
  <2>1. ASSUME (c + 1) % SyncRange # 0, r > 0
        PROVE  rowProgress[r - 1] >= GroupStart(c + 1) + SyncRange
    <3>1. GroupStart(c + 1) = GroupStart(c)
      BY <1>2, <2>1, Groups
    <3>2. rowProgress[r - 1] >= GroupStart(c) + SyncRange
      BY <1>1, <2>1 DEF IInv, WaitInv, r, c
    <3>3. QED
      BY <3>1, <3>2
  <2>2. QED
    BY <1>1, <1>3, <2>1 DEF IInv, WaitInv, r
<1>13. MonoInv'
  <2>1. ASSUME NEW a \in Row, NEW b \in Row, a < b
        PROVE  encoded'[b] <= encoded'[a]
    <3>1. CASE b = r
      BY <1>2, <1>3, <1>4, <2>1, <3>1 DEF Row
    <3>2. CASE a = r
      <4>1. b # r /\ encoded'[b] = encoded[b] /\ encoded[b] <= c
        BY <1>2, <1>3, <1>5, <2>1, <3>2 DEF Row
      <4>2. encoded[b] \in Nat /\ encoded'[a] = c + 1 /\ c \in Nat
        BY <1>2, <1>3, <3>2
      <4>3. QED
        BY <4>1, <4>2
    <3>3. CASE a # r /\ b # r
      BY <1>3, <2>1, <3>3 DEF IInv, MonoInv
    <3>4. QED
      BY <3>1, <3>2, <3>3
  <2>2. QED
    BY <2>1 DEF MonoInv
<1>14. TokInv'
  <2>1. ASSUME NEW d \in Col, d # c
        PROVE  /\ aboveTok'[d] >= 0 => encoded'[aboveTok'[d]] > d
               /\ \A q \in Row : q > aboveTok'[d] => encoded'[q] <= d
    <3>1. aboveTok'[d] = aboveTok[d] /\ aboveTok[d] \in -1..(Rows - 1)
      BY <1>2, <1>3, <2>1
    <3>2. /\ aboveTok[d] >= 0 => encoded[aboveTok[d]] > d
          /\ \A q \in Row : q > aboveTok[d] => encoded[q] <= d
      BY DEF IInv, TokInv
    <3>3. aboveTok[d] >= 0 => aboveTok[d] \in Row
      BY <3>1 DEF Row
    <3>4. aboveTok[d] >= 0 => encoded'[aboveTok[d]] > d
      BY <1>2, <1>3, <3>2, <3>3
    <3>5. ASSUME NEW q \in Row, q > aboveTok[d] PROVE encoded'[q] <= d
      <4>1. CASE q # r
        BY <1>3, <3>2, <3>5, <4>1
      <4>2. CASE q = r
        <5>1. c <= d /\ c # d /\ c \in Nat /\ d \in Nat
          BY <1>2, <2>1, <3>2, <3>5, <4>2
        <5>2. QED
          BY <1>3, <4>2, <5>1
      <4>3. QED
        BY <4>1, <4>2
    <3>6. QED
      BY <3>1, <3>4, <3>5
  <2>2. encoded'[aboveTok'[c]] > c
    BY <1>2, <1>3
  <2>3. \A q \in Row : q > aboveTok'[c] => encoded'[q] <= c
    BY <1>2, <1>3, <1>5 DEF Row
  <2>4. QED
    BY <2>1, <2>2, <2>3 DEF TokInv
<1>15. MergedIsComplete'
  <2>1. encoded[r] # Cols
    BY <1>2 DEF Col
  <2>2. QED
    BY <1>1, <1>2, <2>1 DEF IInv, MergedIsComplete
<1>16. QED
  BY <1>6, <1>7, <1>8, <1>9, <1>10, <1>11, <1>12, <1>13, <1>14, <1>15 DEF IInv

\* The dispatcher returns once every worker has ended.
LEMMA ReturnStep ==
  ASSUME WavefrontAssumption, IInv, Return
  PROVE  IInv'
<1> USE SmallFacts DEF Return, Verdict, shared, frame
<1>1. TypeOK'
  BY DEF IInv, TypeOK
<1>2. /\ OwnerInv' /\ PosInv' /\ FreshInv' /\ PastInv' /\ PubInv'
      /\ WaitInv' /\ MonoInv' /\ TokInv'
  BY DEF IInv, OwnerInv, PosInv, FreshInv, PastInv, PubInv, WaitInv, MonoInv, TokInv
<1>3. ErrInv'
  BY DEF IInv, ErrInv, FailureHasCause
<1>4. MergedIsComplete'
  <2>1. ASSUME ~abort, NEW r \in Row PROVE encoded[r] = Cols
    <3>1. r % WorkerCount \in Worker
      BY DivMod DEF Worker
    <3>2. row[r % WorkerCount] >= Rows
      BY <2>1, <3>1 DEF IInv, PastInv
    <3>3. r < row[r % WorkerCount]
      BY <3>1, <3>2 DEF Row, IInv, TypeOK
    <3>4. QED
      BY <2>1, <3>1, <3>3 DEF IInv, PastInv
  <2>2. result' = "merged" => ~abort
    BY DEF IInv, ErrInv
  <2>3. QED
    BY <2>1, <2>2 DEF MergedIsComplete
<1>5. QED
  BY <1>1, <1>2, <1>3, <1>4 DEF IInv

-----------------------------------------------------------------------------
(* Theorems.                                                               *)

\* Every step of the frame preserves the invariant.
LEMMA StepIInv ==
  ASSUME WavefrontAssumption, IInv, [Next]_vars
  PROVE  IInv'
<1>1. CASE Return
  BY <1>1, ReturnStep
<1>2. ASSUME NEW w \in Worker, WorkerStep(w) PROVE IInv'
  <2>1. CASE NextRow(w)
    BY <2>1, NextRowStep
  <2>2. CASE Publish(w)
    BY <2>2, PublishStep
  <2>3. CASE Wait(w)
    BY <2>3, WaitStep
  <2>4. CASE WaitAbort(w)
    BY <2>4, WaitAbortStep
  <2>5. CASE Encode(w)
    BY <2>5, EncodeFails, EncodeSucceeds
  <2>6. CASE EndRow(w)
    BY <2>6, EndRowStep
  <2>7. QED
    BY <1>2, <2>1, <2>2, <2>3, <2>4, <2>5, <2>6 DEF WorkerStep
<1>3. CASE UNCHANGED vars
  BY <1>3 DEF vars, shared, frame, IInv, TypeOK, OwnerInv, PosInv, FreshInv,
              PastInv, PubInv, WaitInv, MonoInv, TokInv, ErrInv,
              FailureHasCause, MergedIsComplete
<1>4. QED
  BY <1>1, <1>2, <1>3 DEF Next, Finished

\* The invariant holds in every reachable state.
THEOREM Invariance == Spec => []IInv
<1>1. Init => IInv
  BY WavefrontAssumption, InitIInv
<1>2. IInv /\ [Next]_vars => IInv'
  BY WavefrontAssumption, StepIInv
<1>3. QED
  BY <1>1, <1>2, PTL DEF Spec

\* Type correctness for every frame size, worker count and sync range.
THEOREM TypeCorrect == Spec => []TypeOK
BY Invariance, PTL DEF IInv

\* Every macroblock is encoded with its neighbours above and above-right
\* reconstructed.
THEOREM NeighboursReady == Spec => []AboveRightReady
<1>1. IInv => AboveRightReady
  BY WavefrontAssumption, AboveAhead DEF AboveRightReady
<1>2. QED
  BY <1>1, Invariance, PTL

\* Every macroblock is coded with the contexts of the row above it.
THEOREM ContextsAreSerial == Spec => []ContextsMatchSerial
<1>1. IInv => ContextsMatchSerial
  BY WavefrontAssumption, SerialContext DEF ContextsMatchSerial
<1>2. QED
  BY <1>1, Invariance, PTL

\* Only complete frames are merged.
THEOREM MergesComplete == Spec => []MergedIsComplete
BY Invariance, PTL DEF IInv

\* A frame fails only because one of its macroblocks failed.
THEOREM FailuresHaveCause == Spec => []FailureHasCause
BY Invariance, PTL DEF IInv, ErrInv

\* What a call of the encoder relies on when its workers are done.
THEOREM VerdictsAreRight == Spec => []VerdictIsRight
BY MergesComplete, FailuresHaveCause, PTL DEF VerdictIsRight

-----------------------------------------------------------------------------
(* The pool.                                                               *)

RowsActive == Dispatched /\ job = "rows"

\* Started helpers that have done their job.
Back == {w \in 1..(toStart - 1) : helper[w] = "idle"}

StageInv ==
  Dispatched => /\ workerCount \in 2..WorkerCount
                /\ toStart \in 1..workerCount
                /\ stage # "send" => toStart = workerCount
                /\ job = "rows" => workerCount = WorkerCount

CountInv == Dispatched => doneCount = Cardinality(Back)

\* A helper works on the job that is dispatched.
KindInv ==
  \A w \in Helper : helper[w] \in Jobs \cup {"started"} =>
    /\ Dispatched
    /\ helper[w] \in Jobs => helper[w] = job

\* A worker that is back from a rows job has ended.
EndInv ==
  RowsActive => /\ \A w \in Back : pc[w] = "done"
                /\ stage = "wait" => pc[0] = "done"

\* Inside a rows job the frame satisfies the wavefront's invariant; outside,
\* no worker is in a row, and the verdict on the last frame stands.
FrameInv ==
  /\ RowsActive => IInv /\ result = "none"
  /\ ~RowsActive => /\ \A w \in Worker : pc[w] = "done"
                    /\ MergedIsComplete /\ FailureHasCause

PoolInv ==
  /\ PoolTypeOK /\ StageInv /\ CountInv /\ KindInv /\ PoolQuiet
  /\ EndInv /\ FrameInv

-----------------------------------------------------------------------------
(* Lemmas.                                                                 *)

LEMMA WorkerFacts ==
  ASSUME WavefrontAssumption
  PROVE  /\ WorkerCount \in Nat /\ WorkerCount >= 2
         /\ Helper = 1..(WorkerCount - 1)
         /\ Worker = 0..(WorkerCount - 1)
         /\ 0 \in Worker /\ Helper \subseteq Worker
BY SMT DEF WavefrontAssumption, Helper, Worker

\* Once the counter has reached its target every started helper is back.
LEMMA AllBack ==
  ASSUME WavefrontAssumption, StageInv, CountInv, Joined
  PROVE  /\ Dispatched
         /\ toStart = workerCount
         /\ Back = 1..(toStart - 1)
<1>1. /\ Dispatched /\ toStart = workerCount /\ toStart \in Nat /\ toStart >= 2
  BY WorkerFacts DEF Joined, Dispatched, StageInv
<1>2. IsFiniteSet(1..(toStart - 1)) /\ Cardinality(1..(toStart - 1)) = toStart - 1
  BY <1>1, FS_Interval
<1>3. Back \in SUBSET (1..(toStart - 1))
  BY DEF Back
<1>4. /\ IsFiniteSet(Back)
      /\ Cardinality(Back) <= Cardinality(1..(toStart - 1))
      /\ Cardinality(1..(toStart - 1)) = Cardinality(Back) => 1..(toStart - 1) = Back
  BY <1>2, <1>3, FS_Subset
<1>7. Cardinality(Back) \in Nat
  BY <1>4, FS_CardinalityType
<1>5. Cardinality(Back) >= toStart - 1
  BY <1>1 DEF CountInv, Joined
<1>6. QED
  BY <1>1, <1>2, <1>4, <1>5, <1>7

\* Then no helper is in a job and every worker of a rows job has ended.
LEMMA JoinedIsQuiet ==
  ASSUME WavefrontAssumption, PoolInv, Joined
  PROVE  /\ \A w \in Helper : helper[w] \in {"idle", "exited"}
         /\ RowsActive => \A w \in Worker : pc[w] = "done"
<1>1. Dispatched /\ Back = 1..(toStart - 1) /\ toStart \in Nat /\ stage = "wait"
      /\ toStart = workerCount
  BY AllBack, WorkerFacts DEF PoolInv, Joined, StageInv
<1>2. ASSUME NEW w \in Helper PROVE helper[w] \in {"idle", "exited"}
  <2>1. CASE w >= toStart
    BY <1>1, <2>1 DEF PoolInv, PoolQuiet
  <2>2. CASE w < toStart
    <3>1. w \in Back
      BY <1>1, <2>2, WorkerFacts
    <3>2. QED
      BY <3>1 DEF Back
  <2>3. QED
    BY <1>1, <2>1, <2>2, WorkerFacts
<1>3. ASSUME RowsActive, NEW w \in Worker PROVE pc[w] = "done"
  <2>1. CASE w = 0
    BY <1>1, <1>3, <2>1 DEF PoolInv, EndInv
  <2>2. CASE w # 0 /\ w < toStart
    <3>1. w \in Back
      BY <1>1, <2>2, WorkerFacts
    <3>2. QED
      BY <1>3, <3>1 DEF PoolInv, EndInv
  <2>3. QED
    BY <1>1, <1>3, <2>1, <2>2, WorkerFacts DEF PoolInv, StageInv, RowsActive
<1>4. QED
  BY <1>2, <1>3
-----------------------------------------------------------------------------
(* The steps.                                                              *)

LEMMA InitPool == ASSUME WavefrontAssumption, PoolAssumption, PoolInit PROVE PoolInv
<1> USE WorkerFacts DEF PoolInit
<1>1. PoolTypeOK
  BY DEF PoolTypeOK, Jobs, PoolAssumption
<1>2. StageInv /\ CountInv /\ EndInv /\ ~RowsActive
  BY DEF StageInv, CountInv, EndInv, Dispatched, RowsActive
<1>3. KindInv /\ PoolQuiet
  BY DEF KindInv, PoolQuiet, Jobs
<1>4. FrameInv
  BY <1>2 DEF FrameInv, MergedIsComplete, FailureHasCause
<1>5. QED
  BY <1>1, <1>2, <1>3, <1>4 DEF PoolInv

\* A dispatch starts with no helper counted, which is right when none is in
\* a job.
LEMMA DispatchStep ==
  ASSUME WavefrontAssumption, PoolInv, ~Dispatched, NEW kind \in Jobs,
         NEW n \in 2..WorkerCount, kind = "rows" => n = WorkerCount,
         Dispatch(kind, n)
  PROVE  /\ StageInv' /\ CountInv' /\ KindInv' /\ PoolQuiet' /\ EndInv'
         /\ helper' \in [Helper -> {"idle", "started", "exited"} \cup Jobs]
         /\ stage' = "send" /\ job' = kind /\ workerCount' = n
         /\ toStart' = 1 /\ doneCount' = 0
<1> USE WorkerFacts DEF Dispatch
<1>1. \A w \in Helper : helper[w] \in {"idle", "exited"}
  BY DEF PoolInv, PoolQuiet
<1>2. Back' = {}
  BY DEF Back
<1>3. StageInv'
  BY DEF StageInv, Dispatched
<1>4. CountInv'
  BY <1>2, FS_EmptySet DEF CountInv
<1>5. KindInv' /\ PoolQuiet'
  BY <1>1 DEF KindInv, PoolQuiet, Jobs
<1>6. EndInv'
  BY <1>2 DEF EndInv
<1>7. QED
  BY <1>3, <1>4, <1>5, <1>6 DEF PoolInv, PoolTypeOK

\* The state a rows job starts from is an initial one of the wavefront.
LEMMA FreshFrame == Init' => IInv'
<1>1. Init => IInv
  BY WavefrontAssumption, InitIInv
<1>2. QED
  BY <1>1, PTL

LEMMA StartRowsStep ==
  ASSUME WavefrontAssumption, PoolAssumption, PoolInv, StartRows
  PROVE  PoolInv'
<1> USE WorkerFacts
<1>1. ~Dispatched
  BY DEF StartRows, Dispatched
<1>2. /\ StageInv' /\ CountInv' /\ KindInv' /\ PoolQuiet' /\ EndInv'
      /\ helper' \in [Helper -> {"idle", "started", "exited"} \cup Jobs]
      /\ stage' = "send" /\ job' = "rows" /\ workerCount' = WorkerCount
      /\ toStart' = 1 /\ doneCount' = 0
  <2>1. "rows" \in Jobs /\ WorkerCount \in 2..WorkerCount /\ Dispatch("rows", WorkerCount)
    BY DEF Jobs, StartRows
  <2>2. QED
    BY <1>1, <2>1, DispatchStep
<1>3. PoolTypeOK'
  BY <1>2 DEF StartRows, PoolTypeOK, PoolInv, Jobs, PoolAssumption
<1>4. Init'
  BY DEF StartRows, Init
<1>5. IInv'
  BY <1>4, FreshFrame
<1>6. FrameInv'
  BY <1>2, <1>5 DEF FrameInv, RowsActive, Dispatched, StartRows
<1>7. QED
  BY <1>2, <1>3, <1>6 DEF PoolInv

\* Steps that leave the wavefront and the helpers alone.
LEMMA FrameUnchanged ==
  ASSUME PoolInv, UNCHANGED wavefront, RowsActive' <=> RowsActive
  PROVE  FrameInv'
BY DEF PoolInv, FrameInv, wavefront, vars, shared, frame, IInv, TypeOK, OwnerInv,
       PosInv, FreshInv, PastInv, PubInv, WaitInv, MonoInv, TokInv, ErrInv,
       FailureHasCause, MergedIsComplete

LEMMA FilterStep ==
  ASSUME WavefrontAssumption, PoolAssumption, PoolInv, StartTrial \/ StartApply
  PROVE  PoolInv'
<1> USE WorkerFacts
<1>1. PICK kind \in {"trial", "apply"} : StartFilter(kind)
  BY DEF StartTrial, StartApply
<1>2. ~Dispatched /\ ~RowsActive
  BY DEF StartTrial, StartApply, Dispatched, RowsActive
<1>3. Dispatch(kind, 2)
  BY <1>1 DEF StartFilter
<1>4. /\ StageInv' /\ CountInv' /\ KindInv' /\ PoolQuiet' /\ EndInv'
      /\ helper' \in [Helper -> {"idle", "started", "exited"} \cup Jobs]
      /\ stage' = "send" /\ job' = kind /\ workerCount' = 2
      /\ toStart' = 1 /\ doneCount' = 0
  <2>1. kind \in Jobs /\ 2 \in 2..WorkerCount
    BY DEF Jobs
  <2>2. QED
    BY <1>2, <1>3, <2>1, DispatchStep
<1>5. PoolTypeOK'
  BY <1>1, <1>4 DEF StartFilter, StartTrial, StartApply, PoolTypeOK, PoolInv, Jobs
<1>6. FrameInv'
  BY <1>1, <1>2, <1>4 DEF StartFilter, FrameInv, PoolInv, RowsActive,
     FailureHasCause, MergedIsComplete, frame
<1>7. QED
  BY <1>4, <1>5, <1>6 DEF PoolInv

\* A token is sent: the helper is started, not back.
LEMMA SendStep ==
  ASSUME WavefrontAssumption, PoolInv, Send
  PROVE  PoolInv'
<1> USE WorkerFacts DEF Send
<1>1. /\ Dispatched /\ Dispatched' /\ RowsActive' = RowsActive
      /\ toStart \in Helper /\ toStart < workerCount
      /\ workerCount \in 2..WorkerCount
  BY DEF Dispatched, RowsActive, PoolInv, StageInv, PoolTypeOK
<1>2. helper \in [Helper -> {"idle", "started", "exited"} \cup Jobs]
  BY DEF PoolInv, PoolTypeOK
<1>3. Back' = Back
  BY <1>1, <1>2 DEF Back
<1>4. PoolTypeOK'
  BY <1>1 DEF PoolInv, PoolTypeOK
<1>5. StageInv' /\ CountInv'
  BY <1>1, <1>3 DEF PoolInv, StageInv, CountInv
<1>6. KindInv' /\ PoolQuiet'
  BY <1>1, <1>2 DEF PoolInv, KindInv, PoolQuiet, Jobs
<1>7. EndInv'
  BY <1>1, <1>3 DEF PoolInv, EndInv, wavefront, vars
<1>8. FrameInv'
  BY <1>1, FrameUnchanged
<1>9. QED
  BY <1>4, <1>5, <1>6, <1>7, <1>8 DEF PoolInv

\* The goroutine moves on inside a dispatch.
LEMMA OwnStep ==
  ASSUME WavefrontAssumption, PoolInv, AllStarted \/ OwnDone
  PROVE  PoolInv'
<1> USE WorkerFacts DEF AllStarted, OwnDone
<1>1. /\ Dispatched /\ Dispatched' /\ RowsActive' = RowsActive
      /\ UNCHANGED <<wavefront, dispatch, trials, attempts>>
      /\ stage' \in {"own", "wait"}
  BY DEF Dispatched, RowsActive, dispatch
<1>2. Back' = Back
  BY <1>1 DEF Back, dispatch
<1>3. PoolTypeOK'
  BY <1>1 DEF PoolInv, PoolTypeOK, dispatch
<1>4. StageInv' /\ CountInv'
  BY <1>1, <1>2 DEF PoolInv, StageInv, CountInv, dispatch
<1>5. KindInv' /\ PoolQuiet'
  BY <1>1 DEF PoolInv, KindInv, PoolQuiet, dispatch
<1>6. EndInv'
  BY <1>1, <1>2 DEF PoolInv, EndInv, RowsActive, wavefront, vars
<1>7. FrameInv'
  BY <1>1, FrameUnchanged
<1>8. QED
  BY <1>3, <1>4, <1>5, <1>6, <1>7 DEF PoolInv

\* A step of a worker in a row: it has not ended, so it is not back.
LEMMA RowStep ==
  ASSUME WavefrontAssumption, PoolInv, RowsActive, NEW w \in Worker,
         w \notin Back, w = 0 => stage = "own",
         WorkerStep(w), UNCHANGED <<stage, dispatch, trials, attempts>>
  PROVE  PoolInv'
<1> USE WorkerFacts
<1>1. IInv /\ result = "none"
  BY DEF PoolInv, FrameInv
<1>2. IInv'
  BY <1>1, StepIInv DEF Next
<1>3. result' = result /\ \A x \in Worker : x # w => pc'[x] = pc[x]
  BY <1>1 DEF IInv, TypeOK, WorkerStep, NextRow, Publish, Wait, WaitAbort, Encode,
     EndRow, Goto
<1>4. /\ Dispatched' = Dispatched /\ RowsActive' = RowsActive /\ Back' = Back
      /\ UNCHANGED <<stage, job, workerCount, toStart, doneCount, helper, trials, attempts>>
  BY DEF dispatch, Dispatched, RowsActive, Back
<1>5. PoolTypeOK' /\ StageInv' /\ CountInv' /\ KindInv' /\ PoolQuiet'
  BY <1>4 DEF PoolInv, PoolTypeOK, StageInv, CountInv, KindInv, PoolQuiet
<1>6. Back \subseteq Worker
  BY DEF Back, PoolInv, PoolTypeOK
<1>7. EndInv'
  BY <1>3, <1>4, <1>6 DEF PoolInv, EndInv
<1>8. FrameInv'
  BY <1>1, <1>2, <1>3, <1>4 DEF FrameInv
<1>9. QED
  BY <1>5, <1>7, <1>8 DEF PoolInv

\* Outside a dispatch nothing but the frame's verdict is claimed.
LEMMA QuietStep ==
  ASSUME WavefrontAssumption, PoolInv, ~Dispatched',
         \A w \in Helper : helper[w] \in {"idle", "exited"},
         \A w \in Helper : helper'[w] \in {helper[w], "exited"}
  PROVE  StageInv' /\ CountInv' /\ KindInv' /\ PoolQuiet' /\ EndInv' /\ ~RowsActive'
<1>1. \A w \in Helper : helper'[w] \in {"idle", "exited"}
  OBVIOUS
<1>2. QED
  BY <1>1 DEF StageInv, CountInv, KindInv, PoolQuiet, EndInv, RowsActive, Jobs

\* The frame is judged: every worker has ended, as in the wavefront's Return.
LEMMA JoinRowsStep ==
  ASSUME WavefrontAssumption, PoolInv, JoinRows
  PROVE  PoolInv'
<1> USE WorkerFacts
<1>1. Joined /\ RowsActive /\ ~Dispatched'
  BY DEF JoinRows, Joined, RowsActive, Dispatched
<1>2. /\ \A w \in Helper : helper[w] \in {"idle", "exited"}
      /\ \A w \in Worker : pc[w] = "done"
  BY <1>1, JoinedIsQuiet
<1>3. IInv /\ Return
  BY <1>1, <1>2 DEF PoolInv, FrameInv, JoinRows, Return
<1>4. IInv'
  BY <1>3, ReturnStep
<1>5. PoolTypeOK'
  BY DEF JoinRows, PoolInv, PoolTypeOK, dispatch
<1>6. helper' = helper /\ pc' = pc
  BY DEF JoinRows, dispatch
<1>7. StageInv' /\ CountInv' /\ KindInv' /\ PoolQuiet' /\ EndInv' /\ ~RowsActive'
  BY <1>1, <1>2, <1>6, QuietStep
<1>8. FrameInv'
  BY <1>2, <1>4, <1>6, <1>7 DEF FrameInv, IInv, ErrInv
<1>9. QED
  BY <1>5, <1>7, <1>8 DEF PoolInv

\* A loop filter job is over, or no job was running.
LEMMA QuietStageStep ==
  ASSUME WavefrontAssumption, PoolInv,
         JoinTrial \/ JoinApply \/ NoFilter \/ Accepted \/ Closed \/ Stopped
  PROVE  PoolInv'
<1> USE WorkerFacts
<1>1. ~RowsActive /\ ~Dispatched'
  BY DEF JoinTrial, JoinApply, NoFilter, Accepted, Closed, Stopped, Joined, RowsActive,
     Dispatched, poolVars
<1>2. \A w \in Helper : helper[w] \in {"idle", "exited"}
  <2>1. CASE JoinTrial \/ JoinApply
    BY <2>1, JoinedIsQuiet DEF JoinTrial, JoinApply
  <2>2. CASE NoFilter \/ Accepted \/ Closed \/ Stopped
    BY <2>2 DEF NoFilter, Accepted, Closed, Stopped, PoolInv, PoolQuiet, Dispatched
  <2>3. QED
    BY <2>1, <2>2
<1>3. UNCHANGED <<wavefront, helper>>
  BY DEF JoinTrial, JoinApply, NoFilter, Accepted, Closed, Stopped, dispatch, poolVars
<1>4. StageInv' /\ CountInv' /\ KindInv' /\ PoolQuiet' /\ EndInv' /\ ~RowsActive'
  BY <1>1, <1>2, <1>3, QuietStep
<1>5. PoolTypeOK'
  BY DEF JoinTrial, JoinApply, NoFilter, Accepted, Closed, Stopped, dispatch, poolVars,
     PoolInv, PoolTypeOK, Jobs
<1>6. FrameInv'
  BY <1>1, <1>3, <1>4, FrameUnchanged
<1>7. QED
  BY <1>4, <1>5, <1>6 DEF PoolInv

LEMMA ResetStep ==
  ASSUME WavefrontAssumption, PoolInv, Reset \/ Close
  PROVE  PoolInv'
<1> USE WorkerFacts DEF Reset, Close, ResetFields
<1>1. ~RowsActive /\ ~Dispatched /\ ~Dispatched'
  BY DEF RowsActive, Dispatched
<1>2. \A w \in Helper : helper[w] \in {"idle", "exited"}
  BY <1>1 DEF PoolInv, PoolQuiet
<1>3. StageInv' /\ CountInv' /\ KindInv' /\ PoolQuiet' /\ EndInv' /\ ~RowsActive'
  BY <1>1, <1>2, QuietStep
<1>4. PoolTypeOK'
  BY DEF PoolInv, PoolTypeOK, Jobs
<1>5. FrameInv'
  <2>1. UNCHANGED <<bad, encoded, pc, result>>
    BY DEF frame
  <2>2. QED
    BY <1>1, <1>3, <2>1 DEF PoolInv, FrameInv, FailureHasCause, MergedIsComplete
<1>6. QED
  BY <1>3, <1>4, <1>5 DEF PoolInv

\* A helper takes its job; its index is below the worker count.
LEMMA TakeStep ==
  ASSUME WavefrontAssumption, PoolInv, NEW w \in Helper, Take(w)
  PROVE  PoolInv'
<1> USE WorkerFacts DEF Take
<1>1. Dispatched /\ Dispatched' /\ RowsActive' = RowsActive /\ job \in Jobs
  BY DEF PoolInv, PoolTypeOK, KindInv, Dispatched, RowsActive
<1>2. helper \in [Helper -> {"idle", "started", "exited"} \cup Jobs]
  BY DEF PoolInv, PoolTypeOK
<1>3. w < toStart /\ toStart <= workerCount /\ w < workerCount /\ ~(w >= workerCount)
  BY <1>1, <1>2 DEF PoolInv, PoolQuiet, StageInv
<1>4. helper' = [helper EXCEPT ![w] = job]
  BY <1>3 DEF PoolInv, PoolTypeOK
<1>5. Back' = Back
  BY <1>1, <1>2, <1>4 DEF Back, Jobs
<1>6. PoolTypeOK' /\ StageInv' /\ CountInv'
  BY <1>1, <1>4, <1>5 DEF PoolInv, PoolTypeOK, StageInv, CountInv
<1>7. KindInv' /\ PoolQuiet'
  BY <1>1, <1>2, <1>3, <1>4 DEF PoolInv, KindInv, PoolQuiet
<1>8. EndInv'
  BY <1>1, <1>5 DEF PoolInv, EndInv, wavefront, vars
<1>9. FrameInv'
  BY <1>1, FrameUnchanged
<1>10. QED
  BY <1>6, <1>7, <1>8, <1>9 DEF PoolInv

\* A helper is done: it is back, and counted.
LEMMA DoneStep ==
  ASSUME WavefrontAssumption, PoolInv, NEW w \in Helper, Done(w)
  PROVE  PoolInv'
<1> USE WorkerFacts DEF Done
<1>1. helper \in [Helper -> {"idle", "started", "exited"} \cup Jobs] /\ helper[w] \in Jobs
  BY DEF PoolInv, PoolTypeOK, Jobs
<1>2. /\ Dispatched /\ Dispatched' /\ RowsActive' = RowsActive /\ helper[w] = job
  BY <1>1 DEF PoolInv, KindInv, Dispatched, RowsActive
<1>3. w \in 1..(toStart - 1) /\ w \notin Back /\ toStart \in Nat /\ toStart <= WorkerCount
  BY <1>1, <1>2 DEF PoolInv, PoolQuiet, StageInv, PoolTypeOK, Back, Jobs
<1>4. Back' = Back \cup {w}
  BY <1>1, <1>3 DEF Back
<1>5. doneCount' = Cardinality(Back') /\ doneCount' <= toStart - 1
  <2>1. IsFiniteSet(1..(toStart - 1)) /\ Cardinality(1..(toStart - 1)) = toStart - 1
    <3>1. toStart - 1 \in Int /\ toStart - 1 >= 1
      BY <1>3
    <3>2. QED
      BY <3>1, FS_Interval
  <2>2. IsFiniteSet(Back) /\ IsFiniteSet(Back') /\ Cardinality(Back') <= toStart - 1
    BY <1>3, <1>4, <2>1, FS_Subset DEF Back
  <2>3. Cardinality(Back') = Cardinality(Back) + 1
    BY <1>3, <1>4, <2>2, FS_AddElement
  <2>4. QED
    BY <1>2, <2>2, <2>3 DEF PoolInv, CountInv
<1>6. PoolTypeOK'
  BY <1>1, <1>3, <1>5 DEF PoolInv, PoolTypeOK
<1>7. StageInv' /\ CountInv'
  BY <1>2, <1>5 DEF PoolInv, StageInv, CountInv
<1>8. KindInv' /\ PoolQuiet'
  BY <1>1, <1>2 DEF PoolInv, KindInv, PoolQuiet, Jobs
<1>9. EndInv'
  BY <1>2, <1>4 DEF PoolInv, EndInv, wavefront, vars, RowsActive
<1>10. FrameInv'
  BY <1>2, FrameUnchanged
<1>11. QED
  BY <1>6, <1>7, <1>8, <1>9, <1>10 DEF PoolInv

LEMMA ExitStep ==
  ASSUME WavefrontAssumption, PoolInv, NEW w \in Helper, Exit(w)
  PROVE  PoolInv'
<1> USE WorkerFacts DEF Exit
<1>1. ~RowsActive /\ ~Dispatched /\ ~Dispatched'
  BY DEF RowsActive, Dispatched
<1>2. \A x \in Helper : helper[x] \in {"idle", "exited"} /\ helper'[x] \in {helper[x], "exited"}
  BY <1>1 DEF PoolInv, PoolQuiet, PoolTypeOK
<1>3. StageInv' /\ CountInv' /\ KindInv' /\ PoolQuiet' /\ EndInv' /\ ~RowsActive'
  BY <1>1, <1>2, QuietStep
<1>4. PoolTypeOK'
  BY DEF PoolInv, PoolTypeOK
<1>5. FrameInv'
  <2>1. RowsActive' = RowsActive /\ UNCHANGED wavefront
    BY DEF RowsActive, Dispatched
  <2>2. QED
    BY <2>1, FrameUnchanged
<1>6. QED
  BY <1>3, <1>4, <1>5 DEF PoolInv

-----------------------------------------------------------------------------
(* Theorems.                                                               *)

\* The invariant holds in every reachable state.
THEOREM PoolInvariance == PoolSpec => []PoolInv
<1> USE WavefrontAssumption, PoolAssumption
<1>1. PoolInit => PoolInv
  BY InitPool
<1>2. PoolInv /\ [PoolNext]_poolVars => PoolInv'
  <2> SUFFICES ASSUME PoolInv, [PoolNext]_poolVars PROVE PoolInv'
    OBVIOUS
  <2>1. CASE StartRows
    BY <2>1, StartRowsStep
  <2>2. CASE StartTrial \/ StartApply
    BY <2>2, FilterStep
  <2>3. CASE Send
    BY <2>3, SendStep
  <2>4. CASE AllStarted \/ OwnDone
    BY <2>4, OwnStep
  <2>5. CASE OwnRows
    <3>1. RowsActive /\ 0 \in Worker /\ 0 \notin Back /\ stage = "own"
      BY <2>5, WorkerFacts DEF OwnRows, RowsActive, Dispatched, Back, PoolInv, PoolTypeOK
    <3>2. WorkerStep(0) /\ UNCHANGED <<stage, dispatch, trials, attempts>>
      BY <2>5 DEF OwnRows
    <3>3. QED
      BY <3>1, <3>2, RowStep
  <2>6. ASSUME NEW w \in Helper, HelperRows(w) PROVE PoolInv'
    <3>1. RowsActive /\ w \in Worker /\ w \notin Back /\ w # 0
      BY <2>6, WorkerFacts DEF HelperRows, RowsActive, Back, PoolInv, KindInv, Jobs
    <3>2. WorkerStep(w) /\ UNCHANGED <<stage, dispatch, trials, attempts>>
      BY <2>6 DEF HelperRows
    <3>3. QED
      BY <3>1, <3>2, RowStep
  <2>7. CASE JoinRows
    BY <2>7, JoinRowsStep
  <2>8. CASE JoinTrial \/ JoinApply \/ NoFilter \/ Accepted \/ Closed \/ Stopped
    BY <2>8, QuietStageStep
  <2>9. CASE Reset \/ Close
    BY <2>9, ResetStep
  <2>10. ASSUME NEW w \in Helper, Take(w) \/ Done(w) \/ Exit(w) PROVE PoolInv'
    BY <2>10, TakeStep, DoneStep, ExitStep
  <2>11. CASE UNCHANGED poolVars
    <3>1. /\ UNCHANGED <<stage, dispatch, trials, attempts, wavefront>>
          /\ Dispatched' = Dispatched /\ RowsActive' = RowsActive /\ Back' = Back
      BY <2>11 DEF poolVars, dispatch, Dispatched, RowsActive, Back
    <3>2. FrameInv'
      BY <3>1, FrameUnchanged
    <3>3. QED
      BY <3>1, <3>2 DEF PoolInv, PoolTypeOK, StageInv, CountInv, KindInv, PoolQuiet,
         EndInv, dispatch, wavefront, vars
  <2>12. QED
    BY <2>1, <2>2, <2>3, <2>4, <2>5, <2>6, <2>7, <2>8, <2>9, <2>10, <2>11
       DEF PoolNext, EncoderStep, HelperStep
<1>3. QED
  BY <1>1, <1>2, PTL DEF PoolSpec

\* The job fields are rewritten and the results read only when no helper is
\* inside a job, whatever jobs follow each other.
THEOREM PoolStaysQuiet == PoolSpec => []PoolQuiet
BY PoolInvariance, PTL DEF PoolInv

\* What the wavefront guarantees for one frame holds in every attempt of every
\* call: the done counter, and not a wait for each worker, ends a frame.
THEOREM EveryFrameIsSound ==
  PoolSpec => [](AboveRightReady /\ ContextsMatchSerial /\ MergedIsComplete
                  /\ FailureHasCause)
<1>1. PoolInv => AboveRightReady /\ ContextsMatchSerial /\ MergedIsComplete
                 /\ FailureHasCause
  <2> SUFFICES ASSUME PoolInv
               PROVE  AboveRightReady /\ ContextsMatchSerial /\ MergedIsComplete
                      /\ FailureHasCause
    OBVIOUS
  <2>1. CASE RowsActive
    <3>1. IInv
      BY <2>1 DEF PoolInv, FrameInv
    <3>2. QED
      BY <3>1, WavefrontAssumption, AboveAhead, SerialContext
         DEF AboveRightReady, ContextsMatchSerial, IInv, ErrInv
  <2>2. CASE ~RowsActive
    BY <2>2 DEF PoolInv, FrameInv, AboveRightReady, ContextsMatchSerial
  <2>3. QED
    BY <2>1, <2>2
<1>2. QED
  BY <1>1, PoolInvariance, PTL
=============================================================================
