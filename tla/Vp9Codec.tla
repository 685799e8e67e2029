------------------------------ MODULE Vp9Codec ------------------------------
(***************************************************************************)
(* A VP9 encoder with its pool of reconstruction buffers, a decoder with   *)
(* its leases, and between them a channel that may lose or damage packets  *)
(* but keeps their order. The application knows what was lost and what     *)
(* Decode reported; the two sides share nothing else.                      *)
(*                                                                         *)
(* Frames that a batch's clones code refresh nothing; to the decoder they  *)
(* are like any other frame that does not.                                 *)
(***************************************************************************)
EXTENDS Vp9RefPool, Vp9DecFrames

VARIABLES
  packet,   \* what the encoder has made and not yet handed over
  told      \* the application knows that the decoder lacks a picture

allVars == <<vars, decVars, packet, told>>

Packet(refresh, key) == [refresh |-> refresh, key |-> key, pic |-> next - 1]
NoPacket == [refresh |-> {}, key |-> FALSE, pic |-> NoPicture]

CodecInit == Init /\ DecInit /\ packet = NoPacket /\ told = TRUE

-----------------------------------------------------------------------------
(* The encoder.                                                            *)

Starts ==
  /\ packet = NoPacket
  /\ BeginFrame \/ ChangeResolution \/ BeginBatch \/ EndBatch
  /\ UNCHANGED <<decVars, packet, told>>

GoesOn ==
  /\ Recode \/ HelperReturns \/ \E s \in Slot : AliasSlot(s) \/ ReleaseSlot(s)
  /\ UNCHANGED <<decVars, packet, told>>

\* A frame that refreshes nothing, or comes to nothing.
Keeps ==
  /\ KeepReferences
  /\ packet' \in {NoPacket} \cup (IF keyNext THEN {} ELSE {Packet({}, FALSE)})
  /\ UNCHANGED <<decVars, told>>

\* A frame that refreshes every slot may be a key frame, and must be one when the
\* encoder has nothing to predict from.
Refreshes ==
  /\ RefreshReferences
  /\ \E key \in BOOLEAN :
       /\ key => todo' = Slot
       /\ keyNext \/ batch = "open" => key
       /\ packet' = Packet(todo', key)
  /\ UNCHANGED <<decVars, told>>

\* A reference replaced on one side only.
Parts(s) ==
  /\ packet = NoPacket /\ StoreCopy(s)
  /\ told' = TRUE
  /\ UNCHANGED <<decVars, packet>>

\* The same picture set on both sides.
SetReferences(s) ==
  /\ packet = NoPacket /\ StoreCopy(s) /\ DecSetReference(s, next)
  /\ UNCHANGED <<packet, told>>

\* EncodeShowExistingFrameInto, decoded.
ShowsExisting(s) ==
  /\ packet = NoPacket /\ Between /\ s \in valid
  /\ ShowExisting(s)
  /\ UNCHANGED <<vars, packet, told>>

-----------------------------------------------------------------------------
(* What becomes of a packet.                                               *)

Handed == phase = "idle" /\ packet # NoPacket /\ packet' = NoPacket

\* An inter frame is decoded from whatever the slots hold.
Arrives(shown) ==
  /\ Handed
  /\ packet.key \/ ValidRefs # {}
  /\ DecodeFrame(packet.refresh, IF packet.key \/ ~told THEN packet.pic ELSE Junk, shown)
  /\ told' = (told /\ ~packet.key)
  /\ UNCHANGED vars

\* A damaged packet, a buffer the application does not lend, a frame refused.
Fails ==
  /\ Handed
  /\ DecodeFails \/ (~packet.key /\ \E s \in Slot : Conceal(s))
  /\ told' = TRUE
  /\ UNCHANGED vars

\* The application may say so to the decoder, with an empty packet.
Lost ==
  /\ Handed
  /\ UNCHANGED decVars \/ \E s \in Slot : Conceal(s)
  /\ told' = TRUE
  /\ UNCHANGED vars

Takes == NextFrame /\ UNCHANGED <<vars, packet, told>>

Rejoins == DecReset /\ told' = TRUE /\ UNCHANGED <<vars, packet>>

CodecNext ==
  \/ Starts \/ GoesOn \/ Keeps \/ Refreshes
  \/ \E s \in Slot : Parts(s) \/ SetReferences(s) \/ ShowsExisting(s)
  \/ \E shown \in BOOLEAN : Arrives(shown)
  \/ Fails \/ Lost
  \/ Takes \/ Rejoins

CodecSpec == CodecInit /\ [][CodecNext]_allVars

-----------------------------------------------------------------------------
(* Properties.                                                             *)

\* As long as the application was told of no loss and no error, the decoder's
\* slots show the pictures that the encoder predicts from: neither pool has
\* used a buffer again that a slot still shows, whatever was shown, replaced,
\* post-processed or coded twice (refreshVP9ReferenceFrames,
\* aliasVP9EncoderRefToRecon).
DecoderAgrees ==
  ~told /\ phase # "refreshing" /\ packet = NoPacket =>
    \A s \in valid : s \in ValidRefs /\ dec.pix[dec.img[s]] = holds[s]
=============================================================================
