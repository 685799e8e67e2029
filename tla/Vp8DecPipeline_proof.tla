------------------------ MODULE Vp8DecPipeline_proof ------------------------
(***************************************************************************)
(* Theorems about the decoder's row pipeline, for every number of rows.    *)
(* The inductive invariant ties the shared words to the goroutines that    *)
(* write them: until a failed reconstruction releases the filter, reconAt  *)
(* is the number of rows reconstructed, and errFlag is only up after a     *)
(* failure. The distance between the two goroutines follows from it.       *)
(***************************************************************************)
EXTENDS Vp8DecPipeline, TLAPS

\* What the reconstructing goroutine keeps true.
ReconInv ==
  /\ recon # "done" => result = "running" /\ reconRow < rows /\ reconAt = reconRow
  /\ recon = "row" => ~reconErr
  /\ recon \in {"flag", "release"} => reconErr
  /\ recon = "done" /\ ~reconErr /\ reconRow # 0 => reconRow = rows
  /\ errFlag => reconErr

\* What the filtering goroutine keeps true.
FilterInv ==
  /\ filter # "done" => result = "running" /\ filterRow < rows
  /\ filterRow <= rows
  /\ filter = "row" => enabled
  /\ filterErr # "none" => filter = "done"
  /\ filterErr = "pipeline" => reconErr
  /\ filter = "done" /\ filterErr = "none" /\ enabled => filterRow = rows
  /\ enabled /\ ~levelZero => \A r \in 0..(filterRow - 1) : r \in filtered

\* What the caller was told.
ResultInv ==
  /\ result = "running" \/ (recon = "done" /\ filter = "done")
  /\ result = "ok" => filterErr = "none"
  /\ CauseReported

Inv == TypeOK /\ ReconInv /\ FilterInv /\ ResultInv /\ BorderIntact

\* The invariant holds before the first call.
LEMMA InvInit == Init => Inv
  <1> SUFFICES ASSUME Init PROVE Inv
      OBVIOUS
  <1> USE MaxRowsAssumption DEF Init
  <1>1. TypeOK
    <2>1. filtered \subseteq Row
          OBVIOUS
    <2>2. /\ rows \in 2..MaxRows /\ reconAt \in 0..MaxRows
          /\ reconRow \in 0..MaxRows /\ filterRow \in 0..MaxRows
          OBVIOUS
    <2>3. enabled \in BOOLEAN /\ levelZero \in BOOLEAN /\ errFlag \in BOOLEAN /\ reconErr \in BOOLEAN
          BY Zenon
    <2> QED
        BY <2>1, <2>2, <2>3, Zenon DEF TypeOK
  <1>2. ReconInv /\ FilterInv
        BY DEF ReconInv, FilterInv
  <1>3. ResultInv
        BY DEF ResultInv, CauseReported
  <1>4. BorderIntact
        BY DEF BorderIntact
  <1> QED
      BY <1>1, <1>2, <1>3, <1>4 DEF Inv

\* Starting a frame resets the pooled words, so nothing of the last frame is left.
LEMMA InvDecode == Inv /\ Decode => Inv'
  <1> SUFFICES ASSUME Inv, Decode PROVE Inv'
      OBVIOUS
  <1> USE MaxRowsAssumption DEF Inv, Decode, Start
  <1>1. TypeOK'
    <2>1. filtered' \subseteq Row
          OBVIOUS
    <2>2. /\ rows' \in 2..MaxRows /\ reconAt' \in 0..MaxRows
          /\ reconRow' \in 0..MaxRows /\ filterRow' \in 0..MaxRows
          OBVIOUS
    <2>3. enabled' \in BOOLEAN /\ levelZero' \in BOOLEAN /\ errFlag' \in BOOLEAN /\ reconErr' \in BOOLEAN
          BY Zenon
    <2> QED
        BY <2>1, <2>2, <2>3, Zenon DEF TypeOK
  <1>2. ReconInv'
        BY DEF TypeOK, ReconInv
  <1>3. FilterInv'
        BY DEF TypeOK, FilterInv
  <1>4. ResultInv'
        BY DEF ResultInv, CauseReported
  <1>5. BorderIntact'
        BY DEF BorderIntact, Touched
  <1> QED
      BY <1>1, <1>2, <1>3, <1>4, <1>5

\* The reconstruction moves away from the filter, or stops.
LEMMA InvRecon == Inv /\ Recon => Inv'
  <1> SUFFICES ASSUME Inv, Recon PROVE Inv'
      OBVIOUS
  <1> USE MaxRowsAssumption DEF Inv
  <1>0. UNCHANGED <<frame, filterVars, result>>
        BY DEF Recon, ReconRow, ReconFails, ReconRaises, ReconReleases
  <1>1. CASE ReconRow
    <2>1. TypeOK'
          BY <1>1 DEF ReconRow, TypeOK, ReconInv, Row, frame, filterVars
    <2>2. ReconInv'
          BY <1>1 DEF ReconRow, TypeOK, ReconInv, frame
    <2>3. BorderIntact'
          BY <1>1 DEF ReconRow, TypeOK, BorderIntact, Touched, Row, filterVars
    <2>4. FilterInv' /\ ResultInv'
          BY <1>1 DEF ReconRow, ReconInv, FilterInv, ResultInv, CauseReported, frame, filterVars
    <2> QED
        BY <2>1, <2>2, <2>3, <2>4
  <1>2. CASE ReconFails
    <2>1. TypeOK'
          BY <1>2 DEF ReconFails, TypeOK, Row, frame, filterVars
    <2>2. ReconInv'
          BY <1>2 DEF ReconFails, ReconInv, frame
    <2>3. BorderIntact'
          BY <1>2 DEF ReconFails, BorderIntact
    <2>4. FilterInv' /\ ResultInv'
          BY <1>2 DEF ReconFails, ReconInv, FilterInv, ResultInv, CauseReported, frame, filterVars
    <2> QED
        BY <2>1, <2>2, <2>3, <2>4
  <1>3. CASE ReconRaises
    <2>1. TypeOK'
          BY <1>3 DEF ReconRaises, TypeOK, Row, frame, filterVars
    <2>2. ReconInv'
          BY <1>3 DEF ReconRaises, ReconInv, frame
    <2>3. BorderIntact'
          BY <1>3 DEF ReconRaises, BorderIntact
    <2>4. FilterInv' /\ ResultInv'
          BY <1>3 DEF ReconRaises, ReconInv, FilterInv, ResultInv, CauseReported, frame, filterVars
    <2> QED
        BY <2>1, <2>2, <2>3, <2>4
  <1>4. CASE ReconReleases
    <2>1. TypeOK'
          BY <1>4 DEF ReconReleases, TypeOK, Row, frame, filterVars
    <2>2. ReconInv'
          BY <1>4 DEF ReconReleases, ReconInv, frame
    <2>3. BorderIntact'
          BY <1>4 DEF ReconReleases, BorderIntact
    <2>4. FilterInv' /\ ResultInv'
          BY <1>4 DEF ReconReleases, ReconInv, FilterInv, ResultInv, CauseReported, frame, filterVars
    <2> QED
        BY <2>1, <2>2, <2>3, <2>4
  <1> QED
      BY <1>1, <1>2, <1>3, <1>4 DEF Recon

\* The filter only moves onto rows whose successor is reconstructed. While the
\* reconstruction is in a row, reconAt is below rows, so the clipped target of
\* the last two rows cannot be met early.
LEMMA InvFilter == Inv /\ Filter => Inv'
  <1> SUFFICES ASSUME Inv, Filter PROVE Inv'
      OBVIOUS
  <1> USE MaxRowsAssumption DEF Inv
  <1>0. UNCHANGED <<frame, reconAt, errFlag, reconVars, result>>
        BY DEF Filter, FilterLoadsProgress, FilterLoadsFlag, FilterRow, FilterFails
  <1>r. ReconInv'
        BY <1>0 DEF ReconInv, frame, reconVars
  <1>1. CASE FilterLoadsProgress
    <2>1. TypeOK'
          BY <1>0, <1>1 DEF FilterLoadsProgress, NextRow, TypeOK, FilterInv, Row, frame, reconVars
    <2>2. FilterInv'
      <3>1. CASE UNCHANGED filterRow
            BY <1>0, <1>1, <3>1 DEF FilterLoadsProgress, NextRow, TypeOK, FilterInv, frame, reconVars
      <3>2. CASE enabled /\ levelZero /\ NextRow
            BY <1>0, <1>1, <3>2 DEF FilterLoadsProgress, NextRow, TypeOK, FilterInv, frame, reconVars
      <3> QED
          BY <1>1, <3>1, <3>2 DEF FilterLoadsProgress
    <2>3. BorderIntact'
      <3>1. recon = "row" /\ filter' = "row" => filterRow + 2 <= reconRow /\ filterRow' = filterRow
            BY <1>1 DEF FilterLoadsProgress, NextRow, Needed, TypeOK, ReconInv
      <3> QED
          BY <1>0, <1>1, <3>1 DEF FilterLoadsProgress, BorderIntact, Touched, reconVars
    <2>4. ResultInv'
          BY <1>0, <1>1 DEF FilterLoadsProgress, FilterInv, ResultInv, CauseReported, reconVars
    <2> QED
        BY <1>r, <2>1, <2>2, <2>3, <2>4
  <1>2. CASE FilterLoadsFlag
    <2>1. TypeOK'
          BY <1>0, <1>2 DEF FilterLoadsFlag, TypeOK, Row, frame, reconVars
    <2>2. FilterInv'
          BY <1>0, <1>2 DEF FilterLoadsFlag, TypeOK, ReconInv, FilterInv, frame, reconVars
    <2>3. BorderIntact'
          BY <1>0, <1>2 DEF FilterLoadsFlag, BorderIntact, Touched, reconVars
    <2>4. ResultInv'
          BY <1>0, <1>2 DEF FilterLoadsFlag, FilterInv, ResultInv, CauseReported, reconVars
    <2> QED
        BY <1>r, <2>1, <2>2, <2>3, <2>4
  <1>3. CASE FilterRow
    <2>1. TypeOK'
          BY <1>0, <1>3 DEF FilterRow, NextRow, TypeOK, FilterInv, Row, frame, reconVars
    <2>2. FilterInv'
          BY <1>0, <1>3 DEF FilterRow, NextRow, TypeOK, FilterInv, frame, reconVars
    <2>3. BorderIntact'
          BY <1>0, <1>3 DEF FilterRow, NextRow, BorderIntact, Touched, reconVars
    <2>4. ResultInv'
          BY <1>0, <1>3 DEF FilterRow, FilterInv, ResultInv, CauseReported, reconVars
    <2> QED
        BY <1>r, <2>1, <2>2, <2>3, <2>4
  <1>4. CASE FilterFails
    <2>1. TypeOK'
          BY <1>0, <1>4 DEF FilterFails, TypeOK, FilterInv, Row, frame, reconVars
    <2>2. FilterInv'
          BY <1>0, <1>4 DEF FilterFails, TypeOK, FilterInv, frame, reconVars
    <2>3. BorderIntact'
          BY <1>0, <1>4 DEF FilterFails, BorderIntact, Touched, reconVars
    <2>4. ResultInv'
          BY <1>0, <1>4 DEF FilterFails, FilterInv, ResultInv, CauseReported, reconVars
    <2> QED
        BY <1>r, <2>1, <2>2, <2>3, <2>4
  <1> QED
      BY <1>1, <1>2, <1>3, <1>4 DEF Filter

\* Returning reports the reconstruction's error first.
LEMMA InvReturn == Inv /\ Return => Inv'
  <1> SUFFICES ASSUME Inv, Return PROVE Inv'
      OBVIOUS
  <1> USE DEF Inv, Return
  <1>1. TypeOK'
        BY DEF TypeOK, Row, frame, reconVars, filterVars
  <1>2. ReconInv'
        BY DEF ReconInv, frame, reconVars
  <1>3. FilterInv'
        BY DEF FilterInv, frame, reconVars, filterVars
  <1>4. ResultInv'
        BY DEF TypeOK, FilterInv, ResultInv, CauseReported, reconVars, filterVars
  <1>5. BorderIntact'
        BY DEF BorderIntact, reconVars
  <1> QED
      BY <1>1, <1>2, <1>3, <1>4, <1>5

\* The invariant holds in every reachable state.
THEOREM Invariance == Spec => []Inv
  <1>1. Inv /\ [Next]_vars => Inv'
    <2> SUFFICES ASSUME Inv, [Next]_vars PROVE Inv'
        OBVIOUS
    <2>1. CASE UNCHANGED vars
          BY <2>1 DEF vars, Inv, TypeOK, ReconInv, FilterInv, ResultInv,
                      CauseReported, BorderIntact, Touched
    <2> QED
        BY <2>1, InvDecode, InvRecon, InvFilter, InvReturn DEF Next
  <1> QED
      BY <1>1, InvInit, PTL DEF Spec

\* Type correctness, for every number of rows.
THEOREM TypeCorrect == Spec => []TypeOK
  <1>1. Inv => TypeOK
        BY DEF Inv
  <1> QED
      BY <1>1, Invariance, PTL

\* The filter never changes pixels the reconstruction still reads.
THEOREM BorderStaysIntact == Spec => []BorderIntact
  <1>1. Inv => BorderIntact
        BY DEF Inv
  <1> QED
      BY <1>1, Invariance, PTL

\* A frame returned without an error is complete.
THEOREM OkIsComplete == Spec => []OkMeansComplete
  <1>1. Inv => OkMeansComplete
        BY DEF Inv, ReconInv, FilterInv, ResultInv, CauseReported, OkMeansComplete
  <1> QED
      BY <1>1, Invariance, PTL

\* A failed reconstruction is reported, and only then.
THEOREM CauseIsReported == Spec => []CauseReported
  <1>1. Inv => CauseReported
        BY DEF Inv, ResultInv
  <1> QED
      BY <1>1, Invariance, PTL
=============================================================================
