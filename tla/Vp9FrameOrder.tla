--------------------------- MODULE Vp9FrameOrder ---------------------------
(***************************************************************************)
(* What decoding one VP9 frame superblock by superblock promises, whatever *)
(* runs it: the order in which pixels are reconstructed and loop filtered  *)
(* is one whose output equals that of the serial decoder.                  *)
(*                                                                         *)
(*  - A superblock is reconstructed after its left neighbour in the tile   *)
(*    and after the superblock above it, and while nothing it predicts     *)
(*    from has been filtered: intra prediction reads unfiltered pixels,    *)
(*    and filtering row r-1 changes the bottom pixels of that row.         *)
(*  - A superblock is filtered after the row below it is reconstructed,    *)
(*    after its left neighbour, and after the superblock above and to the  *)
(*    right, whose left edge filter changes pixels that its top edge       *)
(*    filter reads.                                                        *)
(*  - A frame is returned as decoded only when every superblock is         *)
(*    reconstructed and, if the loop filter is on, filtered exactly once.  *)
(***************************************************************************)
EXTENDS Integers

CONSTANTS
  SbRows,         \* 64x64 superblock rows of the frame
  SbCols          \* and its superblock columns

Row == 0..(SbRows - 1)
Col == 0..(SbCols - 1)
SB == Row \X Col
FullRow(r) == {r} \X Col

VARIABLES
  tileCols,       \* tile columns the frame is cut into
  loopFilter,     \* the frame has a loop filter level and it is not skipped
  recon,          \* superblocks reconstructed
  filtered,       \* superblocks filtered
  outcome         \* "none" until decoding returns "ok" or "err"

orderVars == <<tileCols, loopFilter, recon, filtered, outcome>>

OrderInit ==
  /\ tileCols \in 1..SbCols
  /\ loopFilter \in BOOLEAN
  /\ recon = {}
  /\ filtered = {}
  /\ outcome = "none"

\* The first columns of the tiles.
TileStarts == {(t * SbCols) \div tileCols : t \in 0..(tileCols - 1)}

\* The superblocks whose pixels <<r, c>> is predicted from.
PredictsFrom(r, c) ==
  {s \in SB : \/ s = <<r - 1, c>>
              \/ s = <<r, c - 1>> /\ c \notin TileStarts}

\* No superblock has been filtered yet whose filter changes row r-1 or below.
UnfilteredFrom(r) == filtered \cap {s \in SB : s[1] >= r - 1} = {}

Reconstructed(r, c) ==
  /\ outcome = "none"
  /\ <<r, c>> \notin recon
  /\ PredictsFrom(r, c) \subseteq recon
  /\ UnfilteredFrom(r)
  /\ recon' = recon \cup {<<r, c>>}
  /\ UNCHANGED <<tileCols, loopFilter, filtered, outcome>>

\* The superblocks filtered before <<r, c>>.
FiltersAfter(r, c) ==
  {s \in SB : s \in {<<r, c - 1>>, <<r - 1, c>>, <<r - 1, c + 1>>}}

Filtered(r, c) ==
  /\ outcome = "none"
  /\ loopFilter
  /\ <<r, c>> \notin filtered
  /\ FullRow(r) \subseteq recon
  /\ r + 1 \in Row => FullRow(r + 1) \subseteq recon
  /\ FiltersAfter(r, c) \subseteq filtered
  /\ filtered' = filtered \cup {<<r, c>>}
  /\ UNCHANGED <<tileCols, loopFilter, recon, outcome>>

Returned ==
  /\ outcome = "none"
  /\ \/ /\ recon = SB
        /\ loopFilter => filtered = SB
        /\ outcome' = "ok"
     \/ outcome' = "err"
  /\ UNCHANGED <<tileCols, loopFilter, recon, filtered>>

OrderNext ==
  \/ \E r \in Row, c \in Col : Reconstructed(r, c) \/ Filtered(r, c)
  \/ Returned

OrderSpec == OrderInit /\ [][OrderNext]_orderVars
=============================================================================
