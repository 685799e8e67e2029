------------------------------ MODULE Vp8Codec ------------------------------
(***************************************************************************)
(* A VP8 encoder and a VP8 decoder joined by a channel that may lose or    *)
(* damage packets, and the application between them, which knows what was  *)
(* lost and what Decode reported, and asks for a key frame at any time     *)
(* after that (VP8Encoder.ForceKeyFrame).  Packets keep their order, so a   *)
(* packet and its fate are one step; the two sides share nothing else.     *)
(***************************************************************************)
EXTENDS Vp8EncRefs, Vp8DecState

VARIABLES
  told,           \* the application knows that the decoder lacks a frame
  parted          \* history: the encoder left the state the decoder can follow

vars == <<encVars, decVars, told, parted>>

Init ==
  /\ EncInit
  /\ DecInit
  /\ told = TRUE
  /\ parted = FALSE

-----------------------------------------------------------------------------
(* What becomes of a packet.                                               *)

\* A whole key frame puts the decoder right, except that no frame restores the
\* encoder's B-mode table.
Arrives(p) ==
  /\ DecodeWhole(p)
  /\ told' = (told /\ ~p.key)
  /\ parted' = IF p.key THEN bmode # DefaultProbs ELSE parted

\* Some of it is missing.
ArrivesDamaged(p) ==
  /\ ConcealModes(p) \/ ConcealResidual(p) \/ DecodeFails(p) \/ Refuse(p)
  /\ told' = (told \/ corrupted')
  /\ UNCHANGED parted

\* None of it arrives; the application may say so to the decoder.
Lost ==
  /\ DecodeMissing \/ UNCHANGED decVars
  /\ told' = TRUE
  /\ UNCHANGED parted

Sent(p) == Arrives(p) \/ ArrivesDamaged(p) \/ Lost

-----------------------------------------------------------------------------
(* The calls of the encoder.                                               *)

Asked == {{}} \cup {{m} : m \in Masks}

\* A key frame: the first, a forced or a scheduled one, or an inter frame that
\* is coded again as one.
Key(no) ==
  LET p == KeyPacket(no) IN CommitKey(p) /\ Sent(p)

Inter(ext, no, golden) ==
  LET p == InterPacket(ext, no, golden)
  IN MayCodeInter(ext, golden) /\ CommitInter(p) /\ Sent(p)

\* A roll-back parts the two sides unless it changes nothing.
DropFrame(ext, no) ==
  /\ Drop(ext, no)
  /\ parted' = (parted \/ <<probs', bmode'>> # <<probs, bmode>>)
  /\ UNCHANGED <<decVars, told>>

Fails(ext, no) == EncodeFails(ext, no) /\ UNCHANGED <<decVars, told, parted>>

Encode ==
  \E no \in BOOLEAN :
    \/ Key(no)
    \/ \E ext \in Asked :
         \/ \E golden \in BOOLEAN : Inter(ext, no, golden)
         \/ DropFrame(ext, no)
         \/ Fails(ext, no)

Restart == EncReset /\ UNCHANGED <<decVars, told, parted>>

-----------------------------------------------------------------------------
(* The application.                                                        *)

\* A receiver that starts over.
Rejoin == DecReset /\ told' = TRUE /\ UNCHANGED <<encVars, parted>>

RequestKey ==
  /\ told /\ ~forceKey
  /\ ForceKeyFrame
  /\ UNCHANGED <<decVars, told, parted>>

\* The same picture is set on both sides between two packets. The encoder
\* writes every alias of the reference, the decoder the reference alone.
SetReferences(r) ==
  LET pic == NewPic(Held) IN
  /\ EncSetReference(r, pic)
  /\ DecSetReference(r, pic)
  /\ parted' = (parted \/ Group(r) # {r})
  /\ UNCHANGED told

Next ==
  \/ Encode \/ Restart
  \/ Rejoin \/ RequestKey
  \/ \E r \in Ref : SetReferences(r)

Spec == Init /\ [][Next]_vars

-----------------------------------------------------------------------------
(* Properties.                                                             *)

\* Type invariant.
TypeOK ==
  /\ refs \in [Ref -> 0..MaxPic] /\ drefs \in [Ref -> 0..MaxPic]
  /\ alias \in [goldenLast : BOOLEAN, altLast : BOOLEAN, goldenAlt : BOOLEAN]
  /\ {probs, saved.probs, dprobs} \subseteq 0..MaxProbs
  /\ {bmode, saved.bmode} \subseteq {DefaultProbs, ZeroProbs}
  /\ mask \in SUBSET Masks
  /\ {forceKey, first, noEntropy, ec, needKey, ecActive, corrupted, told, parted}
       \subseteq BOOLEAN

\* Unless the application was told otherwise, by a loss, an error or
\* FrameInfo.Corrupted, or the two sides were parted by a roll-back or by a
\* replaced alias, the decoder holds the references and tables that the next frame
\* is predicted and coded with, however drops, failed attempts, carried flags, key
\* frames and resets are mixed (vp8_decoder.go refreshReferences,
\* commitParsedState; vp8_encoder_frame.go encodeSourceInto).
DecoderAgrees ==
  ~told /\ ~parted /\ ~first =>
    drefs = refs /\ dprobs = probs /\ bmode = DefaultProbs

\* Two references that the encoder takes for one buffer hold the same picture, so
\* leaving one of them out of the search (interReferenceAvailability) loses
\* nothing, and replacing both (SetReferenceFrame) replaces no other picture:
\* whatever refreshes, copies and replacements came before.
AliasesMatchBuffers ==
  /\ alias.goldenLast => refs["golden"] = refs["last"]
  /\ alias.altLast => refs["alt"] = refs["last"]
  /\ alias.goldenAlt => refs["golden"] = refs["alt"]
=============================================================================
