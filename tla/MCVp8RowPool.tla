---------------------------- MODULE MCVp8RowPool ----------------------------
(***************************************************************************)
(* Model values for Vp8RowPool: frames without a failing macroblock, with  *)
(* one, or with two in different rows.                                     *)
(***************************************************************************)
EXTENDS Vp8RowPool

MCBadChoices ==
  {{}} \cup {{m} : m \in MB}
       \cup {{m, n} : m \in {x \in MB : x[1] = 0}, n \in {x \in MB : x[1] # 0}}
=============================================================================
