--------------------------- MODULE Vp8DecPipeline ---------------------------
(***************************************************************************)
(* ReconstructAndLoopFilterPipelined of the VP8 decoder: one goroutine     *)
(* reconstructs the macroblock rows of a frame, a second one applies the   *)
(* loop filter two rows behind it. They share two atomic words, reconAt    *)
(* and errFlag, taken from a package-level pool that keeps their last      *)
(* values from frame to frame. A row is one unit of work; each atomic load *)
(* and store is a step.                                                    *)
(***************************************************************************)
EXTENDS Integers

CONSTANT MaxRows      \* largest d.mbRows; frames of one row go another way

ASSUME MaxRowsAssumption == MaxRows \in Nat /\ MaxRows >= 2

Row == 0..(MaxRows - 1)

VARIABLES
  rows,           \* macroblock rows of the frame
  enabled,        \* loopFilterEnabled
  levelZero,      \* header.Level == 0
  reconAt,        \* state.reconAt
  errFlag,        \* state.errFlag
  recon,          \* the reconstructing goroutine: row, flag, release, done
  reconRow,       \* its row; the rows below it are reconstructed
  reconErr,       \* reconErr != nil
  filter,         \* the filtering goroutine: progress, flag, row, done
  filterRow,      \* its row
  filterErr,      \* lfErr: none, pipeline or row
  filtered,       \* rows the loop filter has changed
  result          \* what the call returned, or "running"

frame == <<rows, enabled, levelZero>>
reconVars == <<recon, reconRow, reconErr>>
filterVars == <<filter, filterRow, filterErr, filtered>>
vars == <<rows, enabled, levelZero, reconAt, errFlag, recon, reconRow, reconErr,
          filter, filterRow, filterErr, filtered, result>>

Init ==
  /\ rows = 2 /\ enabled = FALSE /\ levelZero = FALSE
  /\ reconAt = 0 /\ errFlag = FALSE
  /\ recon = "done" /\ reconRow = 0 /\ reconErr = FALSE
  /\ filter = "done" /\ filterRow = 0 /\ filterErr = "none" /\ filtered = {}
  /\ result = "ok"

\* Definitions named after another one with a suffix are faulty variants of
\* it. Next does not use them.

Start(n, e, z) ==
  /\ result # "running"
  /\ rows' = n /\ enabled' = e /\ levelZero' = z
  /\ recon' = "row" /\ reconRow' = 0 /\ reconErr' = FALSE
  /\ filter' = "progress" /\ filterRow' = 0 /\ filterErr' = "none"
  /\ filtered' = {}
  /\ result' = "running"

DecodeNoReset ==
  /\ \E n \in 2..MaxRows, e \in BOOLEAN, z \in BOOLEAN : Start(n, e, z)
  /\ UNCHANGED <<reconAt, errFlag>>
\* The call takes a state from the pool, resets it and starts both goroutines.
Decode ==
  /\ \E n \in 2..MaxRows, e \in BOOLEAN, z \in BOOLEAN : Start(n, e, z)
  /\ reconAt' = 0 /\ errFlag' = FALSE

-----------------------------------------------------------------------------
(* The reconstructing goroutine.                                            *)

ReconRowPublishesIndex ==
  /\ recon = "row"
  /\ reconAt' = reconRow
  /\ reconRow' = reconRow + 1
  /\ recon' = IF reconRow + 1 = rows THEN "done" ELSE "row"
  /\ UNCHANGED <<frame, errFlag, reconErr, filterVars, result>>
\* A row is done and published.
ReconRow ==
  /\ recon = "row"
  /\ reconAt' = reconRow + 1
  /\ reconRow' = reconRow + 1
  /\ recon' = IF reconRow + 1 = rows THEN "done" ELSE "row"
  /\ UNCHANGED <<frame, errFlag, reconErr, filterVars, result>>

\* A row fails: the error is noted, then errFlag is raised, then reconAt is
\* set to the end of the frame.
ReconFails ==
  /\ recon = "row"
  /\ reconErr' = TRUE
  /\ recon' = "flag"
  /\ UNCHANGED <<frame, reconAt, errFlag, reconRow, filterVars, result>>

ReconRaises ==
  /\ recon = "flag"
  /\ errFlag' = TRUE
  /\ recon' = "release"
  /\ UNCHANGED <<frame, reconAt, reconRow, reconErr, filterVars, result>>

ReconReleases ==
  /\ recon = "release"
  /\ reconAt' = rows
  /\ recon' = "done"
  /\ UNCHANGED <<frame, errFlag, reconRow, reconErr, filterVars, result>>

Recon == ReconRow \/ ReconFails \/ ReconRaises \/ ReconReleases

-----------------------------------------------------------------------------
(* The filtering goroutine.                                                 *)

NeededNextRowOnly ==
  IF enabled /\ filterRow + 1 < rows THEN filterRow + 1 ELSE rows
\* Row R is filtered after row R+1 is reconstructed.
Needed == IF enabled /\ filterRow + 2 < rows THEN filterRow + 2 ELSE rows

\* The row is finished, filtered or not.
NextRow ==
  /\ filterRow' = filterRow + 1
  /\ filter' = IF filterRow + 1 = rows THEN "done" ELSE "progress"

\* waitReconAtLeast loads reconAt first ...
FilterLoadsProgress ==
  /\ filter = "progress"
  /\ \/ /\ reconAt < Needed
        /\ filter' = "flag"
        /\ UNCHANGED filterRow
     \/ /\ reconAt >= Needed
        /\ ~enabled
        /\ filter' = "done"
        /\ UNCHANGED filterRow
     \/ /\ reconAt >= Needed
        /\ enabled /\ levelZero
        /\ NextRow
     \/ /\ reconAt >= Needed
        /\ enabled /\ ~levelZero
        /\ filter' = "row"
        /\ UNCHANGED filterRow
  /\ UNCHANGED <<frame, reconAt, errFlag, reconVars, filterErr, filtered, result>>

\* ... and errFlag when the rows are not there yet.
FilterLoadsFlag ==
  /\ filter = "flag"
  /\ IF errFlag
     THEN /\ filter' = "done"
          /\ filterErr' = IF enabled THEN "pipeline" ELSE filterErr
     ELSE filter' = "progress" /\ UNCHANGED filterErr
  /\ UNCHANGED <<frame, reconAt, errFlag, reconVars, filterRow, filtered, result>>

FilterRow ==
  /\ filter = "row"
  /\ NextRow
  /\ filtered' = filtered \cup {filterRow}
  /\ UNCHANGED <<frame, reconAt, errFlag, reconVars, filterErr, result>>

FilterFails ==
  /\ filter = "row"
  /\ filter' = "done"
  /\ filterErr' = "row"
  /\ filtered' = filtered \cup {filterRow}
  /\ UNCHANGED <<frame, reconAt, errFlag, reconVars, filterRow, result>>

Filter == FilterLoadsProgress \/ FilterLoadsFlag \/ FilterRow \/ FilterFails

-----------------------------------------------------------------------------
ReturnFirst ==
  /\ result = "running"
  /\ recon = "done"
  /\ result' = IF reconErr THEN "recon" ELSE IF filterErr # "none" THEN filterErr ELSE "ok"
  /\ UNCHANGED <<frame, reconAt, errFlag, reconVars, filterVars>>
\* wg.Wait, then the reconstruction's error before the filter's.
Return ==
  /\ result = "running"
  /\ recon = "done" /\ filter = "done"
  /\ result' = IF reconErr THEN "recon" ELSE IF filterErr # "none" THEN filterErr ELSE "ok"
  /\ UNCHANGED <<frame, reconAt, errFlag, reconVars, filterVars>>

Next == Decode \/ Recon \/ Filter \/ Return

Spec == Init /\ [][Next]_vars

\* Both goroutines keep running; wg.Wait returns.
FairSpec == Spec /\ WF_vars(Recon) /\ WF_vars(Filter) /\ WF_vars(Return)

-----------------------------------------------------------------------------
(* Properties.                                                              *)

TypeOK ==
  /\ rows \in 2..MaxRows /\ enabled \in BOOLEAN /\ levelZero \in BOOLEAN
  /\ reconAt \in 0..MaxRows /\ errFlag \in BOOLEAN
  /\ recon \in {"row", "flag", "release", "done"}
  /\ reconRow \in 0..MaxRows /\ reconErr \in BOOLEAN
  /\ filter \in {"progress", "flag", "row", "done"}
  /\ filterRow \in 0..MaxRows
  /\ filterErr \in {"none", "pipeline", "row"}
  /\ filtered \subseteq Row
  /\ result \in {"running", "ok", "recon", "pipeline", "row"}

\* Rows the loop filter has changed or is changing.
Touched == filtered \cup (IF filter = "row" THEN {filterRow} ELSE {})

\* A row being reconstructed reads the row above it, right border included,
\* before the loop filter changes it: the filter stays two rows behind, also
\* while an error is on its way and whatever the pooled state held before.
BorderIntact == recon = "row" => \A r \in Touched : r + 2 <= reconRow

\* A call that returns without an error has reconstructed every row, and
\* filtered every row when there is a filter to apply: output identical to the
\* serial path.
OkMeansComplete ==
  result = "ok" /\ reconRow # 0 =>
    /\ reconRow = rows
    /\ enabled /\ ~levelZero => \A r \in 0..(rows - 1) : r \in filtered

\* The caller sees the cause: a filter stage that gives up because of a failed
\* reconstruction never hides the reconstruction's error.
CauseReported ==
  /\ result # "running" => (reconErr <=> result = "recon")
  /\ result # "pipeline"

\* Neither goroutine waits for ever: every call returns.
CallReturns == result = "running" ~> result # "running"
=============================================================================
