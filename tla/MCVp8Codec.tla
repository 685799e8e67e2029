----------------------------- MODULE MCVp8Codec -----------------------------
(* Vp8Codec, its states compared by what the properties can still see.     *)
EXTENDS Vp8Codec

RefreshSets == {{"golden"}, {"alt"}, {}}

\* Once the two sides are known to differ nothing is claimed of the decoder's
\* references and tables, and none of them survives the key frame that ends this:
\* states that differ in nothing else have the same future.
View ==
  IF told \/ parted THEN <<encVars, ec, needKey, ecActive, told, parted>> ELSE vars
=============================================================================
