------------------------------- MODULE Vp8Refs -------------------------------
(***************************************************************************)
(* What the VP8 encoder and the VP8 decoder both keep between frames: three *)
(* reference pictures and one set of entropy probabilities, and the packet *)
(* that carries their changes.                                             *)
(*                                                                         *)
(* A picture and a table of coefficient and mode probabilities is a name.  *)
(* A new one takes a name the encoder does not hold.  A decoder that is out *)
(* of step may still hold what had the name before; then nothing is claimed *)
(* about what it holds, until a key frame replaces all of it.              *)
(***************************************************************************)
EXTENDS Integers

CONSTANTS
  MaxPic,   \* names of pictures: more than the references of the encoder
  MaxProbs  \* names of probabilities: more than the encoder's tables, two of them fixed

ASSUME NamesAssumption == MaxPic \in Nat /\ MaxPic >= 4 /\ MaxProbs \in Nat /\ MaxProbs >= 5

Ref == {"last", "golden", "alt"}

\* Contents the other side never has: an unset buffer, a damaged or wrongly
\* predicted picture, probabilities adapted from wrong symbols.
Garbage == 0

\* The tables a key frame starts from, and an all-zero table.
DefaultProbs == 1
ZeroProbs == 2

NewPic(held) == CHOOSE n \in (1..MaxPic) \ held : TRUE
NewProbs(held) == CHOOSE n \in (3..MaxProbs) \ held : TRUE

\* A frame as it is sent. "refresh" and "altFromGolden" are its header flags;
\* of the copy flags the encoder sets no other. "pic" and "next" are what the
\* encoder made of it, predicted from the references "base" and coded with the
\* tables "probs" and, for the modes of 4x4 blocks, "bmode".
Packet(key, refresh, altFromGolden, entropy, pic, base, probs, bmode, next) ==
  [key |-> key, refresh |-> refresh, altFromGolden |-> altFromGolden,
   entropy |-> entropy, pic |-> pic, base |-> base, probs |-> probs,
   bmode |-> bmode, next |-> next]
=============================================================================
