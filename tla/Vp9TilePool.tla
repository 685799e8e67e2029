---------------------------- MODULE Vp9TilePool ----------------------------
(***************************************************************************)
(* The VP9 decoder's persistent tile worker pool                           *)
(* (vp9_decoder_threading.go, vp9DecoderTileWorkerPool).                   *)
(*                                                                         *)
(* The decoding goroutine prepares one job record per helper, publishes a  *)
(* new jobEpoch, wakes the helpers it believes to be parked, decodes its   *)
(* own tiles and spins until every helper it started has stored that epoch *)
(* in doneEpoch.  A helper spins on jobEpoch and, when its spin budget is  *)
(* used up, parks on a one-token channel.  Nothing but sequentially        *)
(* consistent atomics orders the two sides.                                *)
(*                                                                         *)
(* Every atomic load, atomic store and channel operation is a step of its  *)
(* own.  The content of a tile is abstracted to "its bitstream is corrupt  *)
(* or not".                                                                *)
(***************************************************************************)
EXTENDS Integers, FiniteSets

CONSTANTS
  HelperCount,    \* goroutines of the pool (threads - 1, at most 63)
  HelperChoices,  \* how many helpers a frame may use: its tile columns - 1
  MaxDispatch     \* bound: frames decoded through the pool

ASSUME HelperCountAssumption == HelperCount \in Nat \ {0}
ASSUME HelperChoicesAssumption == HelperChoices \subseteq 1..HelperCount
ASSUME MaxDispatchAssumption == MaxDispatch \in Nat

Helper == 0..(HelperCount - 1)

VARIABLES
  jobEpoch,       \* p.jobEpoch
  activeHelpers,  \* p.activeHelpers
  doneEpoch,      \* p.doneEpoch[w]
  parked,         \* p.parked[w]
  start,          \* tokens buffered in p.start[w], capacity 1
  shutdownCh,     \* p.shutdownCh has been closed
  jobs,           \* p.jobs[w]: what is left to decode and the error found
  pc, epoch,      \* each helper's program counter and its local epoch
  dpc,            \* the decoding goroutine's program counter
  dHelpers,       \* helpers of the frame being decoded
  dEpoch,         \* epoch returned by startHelperWorkers
  dScan,          \* index of its loops over the helpers
  corrupt,        \* helpers whose tiles of this frame are corrupt
  result,         \* what the last Decode returned: "ok" or "err"
  runs            \* history: times jobs[w] was run since it was prepared

pool       == <<jobEpoch, activeHelpers, doneEpoch, parked, start, shutdownCh>>
dispatcher == <<dpc, dHelpers, dEpoch, dScan, corrupt, result>>
vars       == <<pool, dispatcher, jobs, runs, pc, epoch>>

\* A job record: work = "tiles" while its tile descriptors are set,
\* "empty" once a run has consumed them (job.descs = nil).
Job == [work : {"tiles", "empty"}, err : BOOLEAN]

HelperPC == {"poll", "active", "run", "done", "idle", "park", "recheck",
             "blocked", "unpark", "unparkExit", "exit"}
DispatcherPC == {"idle", "prepare", "activate", "bump", "wake", "wait",
                 "merge", "closing", "closed"}

TypeOK ==
  /\ jobEpoch \in Nat
  /\ activeHelpers \in 0..HelperCount
  /\ doneEpoch \in [Helper -> Nat]
  /\ parked \in [Helper -> {0, 1}]
  /\ start \in [Helper -> {0, 1}]
  /\ shutdownCh \in BOOLEAN
  /\ jobs \in [Helper -> Job]
  /\ pc \in [Helper -> HelperPC]
  /\ epoch \in [Helper -> Nat]
  /\ dpc \in DispatcherPC
  /\ dHelpers \in 0..HelperCount
  /\ dEpoch \in Nat
  /\ dScan \in 0..HelperCount
  /\ corrupt \in SUBSET Helper
  /\ result \in {"ok", "err"}
  /\ runs \in [Helper -> Nat]

Init ==
  /\ jobEpoch = 0
  /\ activeHelpers = 0
  /\ doneEpoch = [w \in Helper |-> 0]
  /\ parked = [w \in Helper |-> 0]
  /\ start = [w \in Helper |-> 0]
  /\ shutdownCh = FALSE
  /\ jobs = [w \in Helper |-> [work |-> "empty", err |-> FALSE]]
  /\ pc = [w \in Helper |-> "poll"]
  /\ epoch = [w \in Helper |-> 0]
  /\ dpc = "idle"
  /\ dHelpers = 0
  /\ dEpoch = 0
  /\ dScan = 0
  /\ corrupt = {}
  /\ result = "ok"
  /\ runs = [w \in Helper |-> 0]

-----------------------------------------------------------------------------
(* Faulty variants of actions below.  They are not part of Next: each one  *)
(* is a slip against which a property is validated.                        *)

Goto(w, from, to) == pc[w] = from /\ pc' = [pc EXCEPT ![w] = to]

\* The parking helper does not look at jobEpoch again.
RecheckSkipped(w) ==
  /\ Goto(w, "recheck", "blocked")
  /\ UNCHANGED <<pool, dispatcher, jobs, runs, epoch>>

\* waitHelperWorkers accepts the epoch before the one it started.
WaitHelperStale ==
  /\ dpc = "wait"
  /\ doneEpoch[dScan] >= dEpoch - 1
  /\ dScan' = dScan + 1
  /\ dpc' = IF dScan + 1 = dHelpers THEN "merge" ELSE "wait"
  /\ UNCHANGED <<pool, jobs, runs, pc, epoch, dHelpers, dEpoch, corrupt, result>>

-----------------------------------------------------------------------------
(* The helpers: workerLoop and parkHelperWorker.                           *)

\* next := p.jobEpoch.Load(); a new value becomes the local epoch.
Poll(w) ==
  /\ Goto(w, "poll", IF jobEpoch # epoch[w] THEN "active" ELSE "idle")
  /\ epoch' = [epoch EXCEPT ![w] = jobEpoch]
  /\ UNCHANGED <<pool, dispatcher, jobs, runs>>

\* worker < p.activeHelpers.Load(), a load separate from that of jobEpoch.
LoadActive(w) ==
  /\ Goto(w, "active", IF w < activeHelpers THEN "run" ELSE "done")
  /\ UNCHANGED <<pool, dispatcher, jobs, runs, epoch>>

\* What job.run() leaves in the record.  runDescs decodes the descriptors and
\* clears them; with none left run() falls into the one-tile path on an empty
\* tile, whose reader has run past its end, so it reports ErrInvalidVP9Data.
AfterRun(w, job) ==
  [work |-> "empty",
   err  |-> job.work = "tiles" => w \in corrupt]

\* p.jobs[worker].run(): pc[w] = "run" is the time the helper spends in it.
Run(w) ==
  /\ Goto(w, "run", "done")
  /\ jobs' = [jobs EXCEPT ![w] = AfterRun(w, @)]
  /\ runs' = [runs EXCEPT ![w] = @ + 1]
  /\ UNCHANGED <<pool, dispatcher, epoch>>

\* p.doneEpoch[worker].Store(epoch)
StoreDone(w) ==
  /\ Goto(w, "done", "poll")
  /\ doneEpoch' = [doneEpoch EXCEPT ![w] = epoch[w]]
  /\ UNCHANGED <<jobEpoch, activeHelpers, parked, start, shutdownCh,
                 dispatcher, jobs, runs, epoch>>

\* The non-blocking look at shutdownCh, then another spin or, with the spin
\* budget used up, the parking path.
Idle(w) ==
  /\ \/ shutdownCh /\ Goto(w, "idle", "exit")
     \/ ~shutdownCh /\ Goto(w, "idle", "poll")
     \/ ~shutdownCh /\ Goto(w, "idle", "park")
  /\ UNCHANGED <<pool, dispatcher, jobs, runs, epoch>>

\* p.parked[worker].Store(1)
Park(w) ==
  /\ Goto(w, "park", "recheck")
  /\ parked' = [parked EXCEPT ![w] = 1]
  /\ UNCHANGED <<jobEpoch, activeHelpers, doneEpoch, start, shutdownCh,
                 dispatcher, jobs, runs, epoch>>

\* if p.jobEpoch.Load() != epoch { return true }
Recheck(w) ==
  /\ Goto(w, "recheck", IF jobEpoch # epoch[w] THEN "unpark" ELSE "blocked")
  /\ UNCHANGED <<pool, dispatcher, jobs, runs, epoch>>

\* select { case <-p.start[worker]: ...; case <-p.shutdownCh: ... }
Wakeup(w) ==
  /\ start[w] = 1
  /\ Goto(w, "blocked", "unpark")
  /\ start' = [start EXCEPT ![w] = 0]
  /\ UNCHANGED <<jobEpoch, activeHelpers, doneEpoch, parked, shutdownCh,
                 dispatcher, jobs, runs, epoch>>

WakeupExit(w) ==
  /\ shutdownCh
  /\ Goto(w, "blocked", "unparkExit")
  /\ UNCHANGED <<pool, dispatcher, jobs, runs, epoch>>

\* The deferred p.parked[worker].Store(0).
Unpark(w) ==
  /\ \/ Goto(w, "unpark", "poll")
     \/ Goto(w, "unparkExit", "exit")
  /\ parked' = [parked EXCEPT ![w] = 0]
  /\ UNCHANGED <<jobEpoch, activeHelpers, doneEpoch, start, shutdownCh,
                 dispatcher, jobs, runs, epoch>>

HelperStep(w) ==
  \/ Poll(w) \/ LoadActive(w) \/ Run(w) \/ StoreDone(w) \/ Idle(w)
  \/ Park(w) \/ Recheck(w) \/ Wakeup(w) \/ WakeupExit(w) \/ Unpark(w)

-----------------------------------------------------------------------------
(* The decoding goroutine: runVP9DecoderScheduledTileJobs,                 *)
(* startHelperWorkers, waitHelperWorkers and shutdown.                     *)

\* A frame arrives; its tile columns decide how many helpers it uses.
BeginFrame ==
  /\ dpc = "idle"
  /\ jobEpoch < MaxDispatch
  /\ \E h \in HelperChoices :
       /\ dHelpers' = h
       /\ corrupt' \in SUBSET (0..(h - 1))
  /\ dpc' = "prepare"
  /\ dScan' = 0
  /\ UNCHANGED <<pool, jobs, runs, pc, epoch, dEpoch, result>>

\* prepareTileJobRange(worker, ...)
PrepareJob ==
  /\ dpc = "prepare"
  /\ jobs' = [jobs EXCEPT ![dScan] = [work |-> "tiles", err |-> FALSE]]
  /\ runs' = [runs EXCEPT ![dScan] = 0]
  /\ dScan' = dScan + 1
  /\ dpc' = IF dScan + 1 = dHelpers THEN "activate" ELSE "prepare"
  /\ UNCHANGED <<pool, pc, epoch, dHelpers, dEpoch, corrupt, result>>

\* p.activeHelpers.Store(uint32(helpers))
StoreActive ==
  /\ dpc = "activate"
  /\ activeHelpers' = dHelpers
  /\ dpc' = "bump"
  /\ UNCHANGED <<jobEpoch, doneEpoch, parked, start, shutdownCh, jobs, runs,
                 pc, epoch, dHelpers, dEpoch, dScan, corrupt, result>>

\* epoch := p.jobEpoch.Add(1)
AddEpoch ==
  /\ dpc = "bump"
  /\ jobEpoch' = jobEpoch + 1
  /\ dEpoch' = jobEpoch + 1
  /\ dScan' = 0
  /\ dpc' = "wake"
  /\ UNCHANGED <<activeHelpers, doneEpoch, parked, start, shutdownCh, jobs,
                 runs, pc, epoch, dHelpers, corrupt, result>>

\* A non-blocking send to each started helper seen parked: dropped when the
\* channel already holds a token.
WakeHelper ==
  /\ dpc = "wake"
  /\ start' = IF parked[dScan] = 1 THEN [start EXCEPT ![dScan] = 1] ELSE start
  /\ IF dScan + 1 = dHelpers
       THEN dScan' = 0 /\ dpc' = "wait"
       ELSE dScan' = dScan + 1 /\ dpc' = "wake"
  /\ UNCHANGED <<jobEpoch, activeHelpers, doneEpoch, parked, shutdownCh, jobs,
                 runs, pc, epoch, dHelpers, dEpoch, corrupt, result>>

\* One doneEpoch load of helperWorkersDone that lets the scan go on.  doneEpoch
\* never decreases, so rescanning from helper 0 changes nothing.
WaitHelper ==
  /\ dpc = "wait"
  /\ doneEpoch[dScan] >= dEpoch
  /\ dScan' = dScan + 1
  /\ dpc' = IF dScan + 1 = dHelpers THEN "merge" ELSE "wait"
  /\ UNCHANGED <<pool, jobs, runs, pc, epoch, dHelpers, dEpoch, corrupt, result>>

\* The error of the frame is that of the first failed job.
Merge ==
  /\ dpc = "merge"
  /\ result' = IF \E w \in 0..(dHelpers - 1) : jobs[w].err THEN "err" ELSE "ok"
  /\ dpc' = "idle"
  /\ UNCHANGED <<pool, jobs, runs, pc, epoch, dHelpers, dEpoch, dScan, corrupt>>

\* Close: close(p.shutdownCh), then p.wg.Wait(), then the jobs are dropped.
CloseShutdown ==
  /\ dpc = "idle"
  /\ shutdownCh' = TRUE
  /\ dpc' = "closing"
  /\ UNCHANGED <<jobEpoch, activeHelpers, doneEpoch, parked, start, jobs, runs,
                 pc, epoch, dHelpers, dEpoch, dScan, corrupt, result>>

WaitExit ==
  /\ dpc = "closing"
  /\ \A w \in Helper : pc[w] = "exit"
  /\ jobs' = [w \in Helper |-> [work |-> "empty", err |-> FALSE]]
  /\ dpc' = "closed"
  /\ UNCHANGED <<pool, runs, pc, epoch, dHelpers, dEpoch, dScan, corrupt, result>>

DispatcherStep ==
  \/ PrepareJob \/ StoreActive \/ AddEpoch \/ WakeHelper \/ WaitHelper
  \/ Merge \/ WaitExit

Terminated == dpc = "closed" /\ UNCHANGED vars

Next ==
  \/ BeginFrame
  \/ CloseShutdown
  \/ DispatcherStep
  \/ \E w \in Helper : HelperStep(w)
  \/ Terminated

Spec == Init /\ [][Next]_vars

\* Go schedules every runnable goroutine; the arrival of frames and the
\* call of Close are the application's choice and are not fair.
Fairness ==
  /\ WF_vars(DispatcherStep)
  /\ \A w \in Helper : WF_vars(HelperStep(w))

FairSpec == Spec /\ Fairness

-----------------------------------------------------------------------------
(* Safety.                                                                 *)

\* The job records are plain memory: while the decoding goroutine writes them
\* (prepareTileJobRange), reads their errors (the merge loop) or is outside
\* the pool, no helper is inside job.run().
JobsExclusive ==
  \A w \in Helper :
    pc[w] = "run" => dpc \notin {"idle", "prepare", "merge", "closing", "closed"}

\* No started helper is missed: when the errors are merged every helper of the
\* frame has run the job that was prepared for it (a lost wakeup or a stale
\* doneEpoch would merge a record that was never run).
EveryJobRan ==
  dpc = "merge" => \A w \in 0..(dHelpers - 1) : runs[w] >= 1

\* A job is run once per preparation.
RunAtMostOnce == \A w \in Helper : runs[w] <= 1

\* Threaded decoding agrees with serial decoding on whether a frame is valid:
\* the error found in the records is that of the frame's own tiles.
ResultMatchesSerial ==
  dpc = "merge" =>
    \A w \in 0..(dHelpers - 1) : jobs[w].err <=> w \in corrupt

(* Liveness.                                                               *)

\* A frame handed to the pool is eventually answered: no helper sleeps through
\* the epoch that concerns it. Close returns: every helper, spinning or parked,
\* sees shutdownCh.
CallsReturn ==
  /\ dpc = "prepare" ~> dpc = "idle"
  /\ dpc = "closing" ~> dpc = "closed"
=============================================================================
