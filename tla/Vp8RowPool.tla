----------------------------- MODULE Vp8RowPool -----------------------------
(***************************************************************************)
(* The encoder's goroutine and the persistent row workers of one VP8       *)
(* encoder (vp8_encoder_row_worker.go, vp8_encoder_lf_pick_threaded.go),   *)
(* call after call.  An attempt at a frame encodes its rows on every       *)
(* worker (Vp8RowWavefront), may try pairs of loop filter levels on two    *)
(* workers, filters on one worker while the caller's goroutine writes the  *)
(* packet, and may be repeated with another quantizer.  All those jobs     *)
(* share one start channel per helper, one job field and one done counter. *)
(***************************************************************************)
EXTENDS Vp8RowWavefront

CONSTANTS
  MaxTrials,      \* bound of the model: trial pairs in one attempt
  MaxAttempts     \* bound of the model: attempts at one frame

ASSUME PoolAssumption ==
  MaxTrials \in Nat /\ MaxAttempts \in Nat \ {0}

VARIABLES
  stage,          \* where the encoder's goroutine is
  job,            \* p.job; "rows" stands for key and inter frames
  workerCount,    \* p.workerCount
  toStart,        \* the next helper to get its start token
  doneCount,      \* p.doneCount
  helper,         \* what a helper is doing
  trials, attempts

Helper == Worker \ {0}
Jobs == {"rows", "trial", "apply"}
wavefront == vars
dispatch == <<job, workerCount, toStart, doneCount, helper>>
poolVars == <<wavefront, stage, dispatch, trials, attempts>>

\* The stages between startHelperWorkers and the end of waitHelperWorkers.
Dispatched == stage \in {"send", "own", "wait"}

PoolTypeOK ==
  /\ stage \in {"idle", "send", "own", "wait", "pick", "decide", "closing", "closed"}
  /\ job \in Jobs
  /\ workerCount \in 0..WorkerCount
  /\ toStart \in 1..WorkerCount
  /\ doneCount \in 0..(WorkerCount - 1)
  /\ helper \in [Helper -> {"idle", "started", "exited"} \cup Jobs]
  /\ trials \in 0..MaxTrials /\ attempts \in 0..MaxAttempts

\* newRowWorkerPool: no frame yet, every helper waits for its start token.
PoolInit ==
  /\ bad = {} /\ abort = FALSE /\ result = "none"
  /\ rowProgress = [r \in Row |-> 0]
  /\ workerErr = [w \in Worker |-> FALSE]
  /\ aboveTok = [c \in Col |-> -1]
  /\ encoded = [r \in Row |-> 0]
  /\ pc = [w \in Worker |-> "done"]
  /\ row = [w \in Worker |-> w]
  /\ col = [w \in Worker |-> 0]
  /\ stage = "idle" /\ job = "rows" /\ workerCount = 0
  /\ toStart = 1 /\ doneCount = 0
  /\ helper = [w \in Helper |-> "idle"]
  /\ trials = 0 /\ attempts = 0

-----------------------------------------------------------------------------
(* Faulty variants, not part of PoolNext.                                  *)

\* The counter keeps the value of the job before.
DispatchKeepsDone(kind, n) ==
  /\ stage' = "send" /\ job' = kind /\ workerCount' = n
  /\ toStart' = 1
  /\ UNCHANGED <<doneCount, helper>>

-----------------------------------------------------------------------------
(* The encoder's goroutine.                                                *)

\* startHelperWorkers, after the fields of the job are written.
Dispatch(kind, n) ==
  /\ stage' = "send" /\ job' = kind /\ workerCount' = n
  /\ toStart' = 1 /\ doneCount' = 0
  /\ UNCHANGED helper

\* buildReconstructing{Inter,Key}FrameCoefficientsThreaded up to the start of
\* the helpers, for the first attempt of a call or a repeated one.
StartRows ==
  /\ \/ stage = "idle" /\ attempts' = 1
     \/ stage = "decide" /\ attempts < MaxAttempts /\ attempts' = attempts + 1
  /\ bad' \in BadChoices
  /\ rowProgress' = [r \in Row |-> -1]
  /\ abort' = FALSE
  /\ workerErr' = [w \in Worker |-> FALSE]
  /\ aboveTok' = [c \in Col |-> -1]
  /\ encoded' = [r \in Row |-> 0]
  /\ pc' = [w \in Worker |-> "row"]
  /\ row' = [w \in Worker |-> w]
  /\ col' = [w \in Worker |-> 0]
  /\ result' = "none"
  /\ Dispatch("rows", WorkerCount)
  /\ trials' = 0

\* p.start[workerIndex] <- struct{}{}: the channel has no buffer, so the
\* helper is back in waitForWorkerStart.
Send ==
  /\ stage = "send"
  /\ toStart < workerCount
  /\ helper[toStart] = "idle"
  /\ helper' = [helper EXCEPT ![toStart] = "started"]
  /\ toStart' = toStart + 1
  /\ UNCHANGED <<wavefront, stage, job, workerCount, doneCount, trials, attempts>>

AllStarted ==
  /\ stage = "send" /\ toStart = workerCount
  /\ stage' = "own"
  /\ UNCHANGED <<wavefront, dispatch, trials, attempts>>

\* The share of the goroutine: the rows of worker 0, a step at a time...
OwnRows ==
  /\ stage = "own" /\ job = "rows"
  /\ WorkerStep(0)
  /\ UNCHANGED <<stage, dispatch, trials, attempts>>

\* ...until they are done, the trial of the higher level, or the packet.
OwnDone ==
  /\ stage = "own"
  /\ job = "rows" => pc[0] = "done"
  /\ stage' = "wait"
  /\ UNCHANGED <<wavefront, dispatch, trials, attempts>>

\* waitHelperWorkers has seen enough helpers done.
Joined == stage = "wait" /\ doneCount >= workerCount - 1

\* The errors of the rows, or the merge.
JoinRows ==
  /\ Joined /\ job = "rows"
  /\ result' = Verdict
  /\ stage' = IF result' = "merged" THEN "pick" ELSE "idle"
  /\ UNCHANGED <<bad, shared, frame, pc, row, col, dispatch, trials, attempts>>

\* dispatchLFTrialPair returns both errors to pickFull.
JoinTrial ==
  /\ Joined /\ job = "trial"
  /\ stage' = "pick" /\ job' = "rows"
  /\ UNCHANGED <<wavefront, workerCount, toStart, doneCount, helper, trials, attempts>>

\* asyncLFApply.wait: the attempt fails if the filter or the packet did.
JoinApply ==
  /\ Joined /\ job = "apply"
  /\ stage' \in {"decide", "idle"} /\ job' = "rows"
  /\ UNCHANGED <<wavefront, workerCount, toStart, doneCount, helper, trials, attempts>>

\* A loop filter job: two lanes, abort cleared.
StartFilter(kind) ==
  /\ Dispatch(kind, 2)
  /\ abort' = FALSE
  /\ UNCHANGED <<bad, rowProgress, workerErr, frame, pc, row, col, result, attempts>>

\* pickLoopFilterLevel tries a lower and a higher level at once.
StartTrial ==
  /\ stage = "pick" /\ trials < MaxTrials /\ trials' = trials + 1
  /\ StartFilter("trial")

\* startAsyncLFApply: the level is chosen.
StartApply ==
  /\ stage = "pick" /\ UNCHANGED trials
  /\ StartFilter("apply")

\* An inter frame that refreshes no reference is not filtered: the packet is
\* written, or the picker or the writer fails.
NoFilter ==
  /\ stage = "pick"
  /\ stage' \in {"decide", "idle"}
  /\ UNCHANGED <<wavefront, dispatch, trials, attempts>>

\* The attempt is accepted.
Accepted ==
  /\ stage = "decide" /\ stage' = "idle"
  /\ UNCHANGED <<wavefront, dispatch, trials, attempts>>

\* resetForEncoderReset.
ResetFields ==
  /\ rowProgress' = [r \in Row |-> 0]
  /\ abort' = FALSE
  /\ workerErr' = [w \in Worker |-> FALSE]
  /\ job' = "rows" /\ workerCount' = 0 /\ doneCount' = 0
  /\ UNCHANGED <<bad, frame, pc, row, col, result, toStart, helper, trials, attempts>>

Reset == stage = "idle" /\ ResetFields /\ UNCHANGED stage

\* Close: Reset, then shutdownPool closes the start channels...
Close == stage = "idle" /\ ResetFields /\ stage' = "closing"

\* ...and waits for the helpers to leave.
Closed ==
  /\ stage = "closing" /\ \A w \in Helper : helper[w] = "exited"
  /\ stage' = "closed"
  /\ UNCHANGED <<wavefront, dispatch, trials, attempts>>

-----------------------------------------------------------------------------
(* A helper: workerLoop.                                                   *)

\* It has its token and reads p.workerCount and p.job.
Take(w) ==
  /\ helper[w] = "started"
  /\ helper' = [helper EXCEPT ![w] = IF w >= workerCount THEN "idle" ELSE job]
  /\ UNCHANGED <<wavefront, stage, job, workerCount, toStart, doneCount, trials, attempts>>

HelperRows(w) ==
  /\ helper[w] = "rows"
  /\ WorkerStep(w)
  /\ UNCHANGED <<stage, dispatch, trials, attempts>>

\* The job is done: a trial and the filter are one step here, since nothing
\* else touches what they read.
Done(w) ==
  /\ \/ helper[w] = "rows" /\ pc[w] = "done"
     \/ helper[w] \in {"trial", "apply"}
  /\ helper' = [helper EXCEPT ![w] = "idle"]
  /\ doneCount' = doneCount + 1
  /\ UNCHANGED <<wavefront, stage, job, workerCount, toStart, trials, attempts>>

\* The start channel is closed.
Exit(w) ==
  /\ stage = "closing" /\ helper[w] = "idle"
  /\ helper' = [helper EXCEPT ![w] = "exited"]
  /\ UNCHANGED <<wavefront, stage, job, workerCount, toStart, doneCount, trials, attempts>>

HelperStep(w) == Take(w) \/ HelperRows(w) \/ Done(w) \/ Exit(w)

\* What the goroutine does by itself inside a call...
EncoderStep ==
  \/ Send \/ AllStarted \/ OwnRows \/ OwnDone
  \/ JoinRows \/ JoinTrial \/ JoinApply
  \/ StartTrial \/ StartApply \/ NoFilter \/ Accepted \/ Closed

\* ...and what it is called for.
Stopped == stage = "closed" /\ UNCHANGED poolVars

PoolNext ==
  \/ EncoderStep \/ StartRows \/ Reset \/ Close \/ Stopped
  \/ \E w \in Helper : HelperStep(w)

PoolSpec == PoolInit /\ [][PoolNext]_poolVars

\* Go schedules the encoder's goroutine and every helper.
PoolFairSpec ==
  PoolSpec /\ WF_poolVars(EncoderStep) /\ \A w \in Helper : WF_poolVars(HelperStep(w))

-----------------------------------------------------------------------------
(* Properties, besides those of Vp8RowWavefront, which hold of every frame *)
(* of every call.                                                          *)

\* The fields of a job are rewritten, and the workers' results read, only when
\* no helper is inside a job (vp8_encoder_row_worker.go:205), although the
\* done counter serves every kind of job and a helper may be late from the
\* job before.
PoolQuiet ==
  \A w \in Helper :
    ~Dispatched \/ w >= toStart => helper[w] \in {"idle", "exited"}

\* Every call returns, Close included: the counter reaches its target in every
\* kind of job, and no helper misses its start token.
CallReturns == (stage \notin {"idle", "closed"}) ~> (stage \in {"idle", "closed"})
=============================================================================
