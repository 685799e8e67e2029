----------------------------- MODULE MCVp9Codec -----------------------------
(***************************************************************************)
(* Vp9Codec for TLC. The code tells reference slots apart only by their    *)
(* number, which nothing here depends on, so they are symmetric.           *)
(***************************************************************************)
EXTENDS Vp9Codec, TLC

SlotSymmetry == Permutations(Slot)

AllOptions == {{"conceal"}, {"external"}, {"post"}, {"align", "conceal"},
               {"external", "align", "post"}}

\* Storage that is free is painted over before it is looked at again, and so is
\* what was on show once nothing is claimed of it: states that differ in nothing
\* else have the same future. A clone may read a buffer the pool thinks is free.
Visible ==
  LET out == IF due = Nothing THEN None ELSE dec.last
      used == {b \in Leased : dec.leases[b] > 0} \cup {dec.img[s] : s \in Slot} \cup {out}
      live == IF helpers > 0 THEN Buffer ELSE {b \in Buffer : refCount[b] > 0}
  IN <<refCount, [b \in live |-> pixels[b]], recon, target, refBuf, own, valid, holds,
       keyNext, phase, todo, next, batch, helpers, view, packet, told, opts, due,
       dec.leases, dec.active, dec.lastLease, dec.img, out,
       [b \in used \cap Storage |-> dec.pix[b]], dec.ready>>
=============================================================================
