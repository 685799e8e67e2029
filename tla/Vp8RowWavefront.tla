-------------------------- MODULE Vp8RowWavefront --------------------------
(***************************************************************************)
(* One VP8 frame encoded by the row workers (vp8_encoder_row_worker.go,    *)
(* vp8_encoder_row_threaded.go).                                           *)
(*                                                                         *)
(* Worker w encodes macroblock rows w, w + WorkerCount, ...  A row         *)
(* publishes its progress every SyncRange columns, and waits every         *)
(* SyncRange columns until the row above is SyncRange columns further, so  *)
(* that a macroblock finds its neighbours above and above-right            *)
(* reconstructed and the token contexts of the row above in aboveTok.  A   *)
(* worker that fails sets abort, which ends every other worker's waits.    *)
(***************************************************************************)
EXTENDS Integers

CONSTANTS
  WorkerCount,    \* min(threads, rows, cols / syncRange); worker 0 is the caller
  Rows, Cols,     \* size of the frame in macroblocks
  SyncRange,      \* encoderThreadSyncRange(cols)
  BadChoices      \* sets of macroblocks whose encoding may fail

Worker == 0..(WorkerCount - 1)
Row == 0..(Rows - 1)
Col == 0..(Cols - 1)
MB == Row \X Col

\* useThreadedKeyFrameRows, useThreadedInterFrameRows and the clamps of the
\* dispatcher.
ASSUME WavefrontAssumption ==
  /\ SyncRange \in {1, 4, 8, 16}
  /\ Rows \in Nat /\ Cols \in Nat /\ Cols > SyncRange
  /\ WorkerCount \in 2..Rows
  /\ BadChoices \subseteq SUBSET MB

VARIABLES
  bad,            \* macroblocks whose encoding fails in this frame
  rowProgress,    \* p.rowProgress[r]
  abort,          \* p.abort
  workerErr,      \* p.workerErrors[w] # nil
  aboveTok,       \* the row whose token contexts args.aboveTok[c] holds
  encoded,        \* history: macroblocks encoded in row r
  pc, row, col,   \* each worker's program counter and position
  result          \* "none", then what the dispatcher returns

shared == <<rowProgress, abort, workerErr>>
frame  == <<aboveTok, encoded>>
vars   == <<bad, shared, frame, pc, row, col, result>>

PCs == {"row", "publish", "wait", "waitAbort", "encode", "endRow", "done"}

TypeOK ==
  /\ bad \in SUBSET MB
  /\ rowProgress \in [Row -> -1..(Cols + SyncRange)]
  /\ abort \in BOOLEAN
  /\ workerErr \in [Worker -> BOOLEAN]
  /\ aboveTok \in [Col -> -1..(Rows - 1)]
  /\ encoded \in [Row -> 0..Cols]
  /\ pc \in [Worker -> PCs]
  /\ row \in [Worker -> Nat]
  /\ col \in [Worker -> 0..Cols]
  /\ \A w \in Worker : pc[w] \notin {"row", "done"} => row[w] \in Row
  /\ \A w \in Worker : pc[w] \in {"wait", "waitAbort", "encode"} => col[w] \in Col
  /\ result \in {"none", "merged", "err", "config"}

\* pool.reset, the dispatch fields, and worker.reset: rows start unpublished.
Init ==
  /\ bad \in BadChoices
  /\ rowProgress = [r \in Row |-> -1]
  /\ abort = FALSE
  /\ workerErr = [w \in Worker |-> FALSE]
  /\ aboveTok = [c \in Col |-> -1]
  /\ encoded = [r \in Row |-> 0]
  /\ pc = [w \in Worker |-> "row"]
  /\ row = [w \in Worker |-> w]
  /\ col = [w \in Worker |-> 0]
  /\ result = "none"

Goto(w, from, to) == pc[w] = from /\ pc' = [pc EXCEPT ![w] = to]

-----------------------------------------------------------------------------
(* Faulty variants of definitions below.  They are not part of Next: each  *)
(* one is a slip against which a property is validated.                    *)

\* The wait asks for the macroblock above instead of above-right.
TargetAbove(c) == c + SyncRange - 1

\* The row publishes the column it is about to encode.
PublishEarly(w) ==
  /\ IF col[w] = Cols
       THEN Goto(w, "publish", "endRow")
       ELSE Goto(w, "publish", IF col[w] % SyncRange = 0 THEN "wait" ELSE "encode")
  /\ rowProgress' =
       IF col[w] \in 1..(Cols - 1) /\ (col[w] - 1) % SyncRange = 0
         THEN [rowProgress EXCEPT ![row[w]] = col[w] + 1]
         ELSE rowProgress
  /\ UNCHANGED <<bad, abort, workerErr, frame, row, col, result>>

\* A waiting worker does not look at abort.
WaitNoAbort(w) ==
  /\ Goto(w, "waitAbort", "wait")
  /\ UNCHANGED <<bad, shared, frame, row, col, result>>

\* The dispatcher looks at its own error only.
VerdictOwnError == IF workerErr[0] THEN "err" ELSE "merged"

-----------------------------------------------------------------------------
(* A worker: runThreaded{Inter,Key}FrameWorker and                         *)
(* encodeThreaded{Inter,Key}FrameRow.                                      *)

\* The head of the row loop: no row left, or abort set.
NextRow(w) ==
  /\ Goto(w, "row", IF row[w] \in Row /\ ~abort THEN "publish" ELSE "done")
  /\ col' = [col EXCEPT ![w] = 0]
  /\ UNCHANGED <<bad, shared, frame, row, result>>

\* Entering column col, or leaving the column loop: the column before is
\* published at every SyncRange-th one.
Publish(w) ==
  /\ IF col[w] = Cols
       THEN Goto(w, "publish", "endRow")
       ELSE Goto(w, "publish", IF col[w] % SyncRange = 0 THEN "wait" ELSE "encode")
  /\ rowProgress' =
       IF col[w] \in 1..(Cols - 1) /\ (col[w] - 1) % SyncRange = 0
         THEN [rowProgress EXCEPT ![row[w]] = col[w] - 1]
         ELSE rowProgress
  /\ UNCHANGED <<bad, abort, workerErr, frame, row, col, result>>

\* The progress of the row above that column c waits for.
Target(c) == c + SyncRange

\* waitForAboveColumnAbort: load the progress of the row above...
Wait(w) ==
  /\ Goto(w, "wait",
          IF row[w] = 0 \/ rowProgress[row[w] - 1] >= Target(col[w])
            THEN "encode" ELSE "waitAbort")
  /\ UNCHANGED <<bad, shared, frame, row, col, result>>

\* ...then abort.  An aborted row returns to the row loop without an error.
WaitAbort(w) ==
  /\ Goto(w, "waitAbort", IF abort THEN "row" ELSE "wait")
  /\ row' = [row EXCEPT ![w] = IF abort THEN @ + WorkerCount ELSE @]
  /\ UNCHANGED <<bad, shared, frame, col, result>>

\* encodeThreaded{Inter,Key}FrameMacroblock: predict from the pixels above and
\* above-right, code with and replace the column's token contexts.  On an
\* error the worker sets abort and stops.
Encode(w) ==
  /\ pc[w] = "encode"
  /\ \/ /\ <<row[w], col[w]>> \in bad
        /\ Goto(w, "encode", "done")
        /\ abort' = TRUE
        /\ workerErr' = [workerErr EXCEPT ![w] = TRUE]
        /\ UNCHANGED <<frame, col>>
     \/ /\ <<row[w], col[w]>> \notin bad
        /\ Goto(w, "encode", "publish")
        /\ encoded' = [encoded EXCEPT ![row[w]] = @ + 1]
        /\ aboveTok' = [aboveTok EXCEPT ![col[w]] = row[w]]
        /\ col' = [col EXCEPT ![w] = @ + 1]
        /\ UNCHANGED <<abort, workerErr>>
  /\ UNCHANGED <<bad, rowProgress, row, result>>

\* Extend the right edge of the row and publish a column beyond every target.
EndRow(w) ==
  /\ Goto(w, "endRow", "row")
  /\ rowProgress' = [rowProgress EXCEPT ![row[w]] = Cols + SyncRange]
  /\ row' = [row EXCEPT ![w] = @ + WorkerCount]
  /\ UNCHANGED <<bad, abort, workerErr, frame, col, result>>

WorkerStep(w) ==
  \/ NextRow(w) \/ Publish(w) \/ Wait(w) \/ WaitAbort(w) \/ Encode(w) \/ EndRow(w)

\* What buildReconstructing{Inter,Key}FrameCoefficientsThreaded returns...
Verdict ==
  IF \E w \in Worker : workerErr[w] THEN "err"
  ELSE IF abort THEN "config" ELSE "merged"

\* ...once worker 0 has returned and doneCount accounts for the helpers.
Return ==
  /\ result = "none"
  /\ \A w \in Worker : pc[w] = "done"
  /\ result' = Verdict
  /\ UNCHANGED <<bad, shared, frame, pc, row, col>>

Finished == result # "none" /\ UNCHANGED vars

Next == Return \/ Finished \/ \E w \in Worker : WorkerStep(w)

Spec == Init /\ [][Next]_vars

-----------------------------------------------------------------------------
(* Properties.                                                             *)

\* A macroblock is encoded only when the macroblocks above and above-right of
\* it are reconstructed; at the right edge, when the row above is finished and
\* its edge extended.
AboveRightReady ==
  \A w \in Worker :
    pc[w] = "encode" /\ row[w] > 0 =>
      IF col[w] = Cols - 1
        THEN rowProgress[row[w] - 1] = Cols + SyncRange
        ELSE encoded[row[w] - 1] >= col[w] + 2

\* A macroblock is coded with the token contexts that serial encoding gives
\* it: aboveTok still holds those of the row directly above, although every
\* row writes the same array.
ContextsMatchSerial ==
  \A w \in Worker : pc[w] = "encode" => aboveTok[col[w]] = row[w] - 1

\* Only a complete frame is merged, although aborted rows return no error.
MergedIsComplete ==
  result = "merged" => \A r \in Row : encoded[r] = Cols

\* A frame fails if and only if one of its macroblocks did: abort never ends
\* a frame without the error that set it.
FailureHasCause ==
  /\ result # "config"
  /\ result = "err" => bad # {}

\* What a call of the encoder relies on when the workers are done: a merged frame
\* is complete, and a failure is that of a macroblock.
VerdictIsRight == MergedIsComplete /\ FailureHasCause
=============================================================================
