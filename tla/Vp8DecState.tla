---------------------------- MODULE Vp8DecState ----------------------------
(***************************************************************************)
(* The VP8 decoder's state between frames (vp8_decoder.go): its three      *)
(* references, the entropy tables, and what error concealment keeps.       *)
(*                                                                         *)
(* One action is one call of Decode.  A packet is whole or damaged: cut    *)
(* short, so that some reader runs past its end.  Which part the damage    *)
(* reaches decides how much of the frame's header is believed.             *)
(***************************************************************************)
EXTENDS Vp8Refs

VARIABLES
  ec,             \* opts.ErrorConcealment
  drefs,          \* d.lastRef, d.goldenRef, d.altRef
  dprobs,         \* d.coefProbs with d.modeProbs
  needKey,        \* d.needKey, and ~d.initialized
  ecActive,       \* d.ecActive
  corrupted       \* FrameInfo.Corrupted of the last frame, or an error

decVars == <<ec, drefs, dprobs, needKey, ecActive, corrupted>>

DecInit ==
  /\ ec \in BOOLEAN
  /\ drefs = [r \in Ref |-> Garbage]
  /\ dprobs = DefaultProbs
  /\ needKey = TRUE
  /\ ecActive = FALSE
  /\ corrupted = FALSE

\* refreshReferences: the copy comes before the refreshes.
Refreshed(p, pic) ==
  [r \in Ref |-> IF r \in p.refresh THEN pic
                 ELSE IF r = "alt" /\ p.altFromGolden THEN drefs["golden"]
                 ELSE drefs[r]]

\* The decoder predicts from, and reads with, what the encoder did.
InStep(p) == p.key \/ (/\ drefs = p.base /\ dprobs = p.probs
                       /\ p.bmode = DefaultProbs)

CanConceal(p) == ec /\ ~needKey /\ ~p.key

\* decodeFramePacket of a whole packet: reconstructFrame, refreshReferences and
\* commitParsedState.
DecodeWhole(p) ==
  LET right == InStep(p)
      pic == IF right THEN p.pic ELSE Garbage
  IN /\ p.key \/ ~needKey
     /\ drefs' = Refreshed(p, pic)
     /\ dprobs' = CASE p.entropy /\ right  -> p.next
                    [] p.entropy /\ ~right -> Garbage
                    [] ~p.entropy /\ p.key -> DefaultProbs
                    [] OTHER               -> dprobs
     /\ needKey' = FALSE
     /\ ecActive' = (ecActive \/ CanConceal(p))
     /\ corrupted' = FALSE
     /\ UNCHANGED ec

\* The damage begins in the frame header or the modes:
\* ApplyCorruptInterFrameRefresh refreshes LAST alone.
ConcealModes(p) ==
  /\ CanConceal(p)
  /\ drefs' = [drefs EXCEPT !["last"] = Garbage]
  /\ ecActive' = TRUE
  /\ corrupted' = TRUE
  /\ UNCHANGED <<ec, dprobs, needKey>>

\* Faulty variant of ConcealResidual: frameCorrupt is not set.
ConcealResidualUnmarked(p) ==
  /\ CanConceal(p)
  /\ drefs' = Refreshed(p, Garbage)
  /\ dprobs' = IF p.entropy THEN p.next ELSE dprobs
  /\ ecActive' = TRUE
  /\ corrupted' = FALSE
  /\ UNCHANGED <<ec, needKey>>

\* The damage begins in the coefficients: every reference the header names is
\* refreshed, the tables are not.
ConcealResidual(p) ==
  /\ CanConceal(p)
  /\ drefs' = Refreshed(p, Garbage)
  /\ ecActive' = TRUE
  /\ corrupted' = TRUE
  /\ UNCHANGED <<ec, dprobs, needKey>>

\* Decoding gives up. With concealment of an inter frame finishConcealedFrame
\* shows LAST again, without it Decode returns an error.
DecodeFails(p) ==
  /\ p.key \/ ~needKey
  /\ ecActive' = (ecActive \/ CanConceal(p))
  /\ corrupted' = TRUE
  /\ UNCHANGED <<ec, drefs, dprobs, needKey>>

\* ErrNeedKeyFrame
Refuse(p) ==
  /\ needKey /\ ~p.key
  /\ corrupted' = TRUE
  /\ UNCHANGED <<ec, drefs, dprobs, needKey, ecActive>>

\* Decode of an empty packet: concealMissingInterFrame, or an error.
DecodeMissing ==
  /\ IF ec /\ ecActive /\ ~needKey
       THEN /\ drefs' = [drefs EXCEPT !["last"] = Garbage]
       ELSE UNCHANGED drefs
  /\ corrupted' = TRUE
  /\ UNCHANGED <<ec, dprobs, needKey, ecActive>>

DecReset ==
  /\ drefs' = [r \in Ref |-> Garbage]
  /\ dprobs' = DefaultProbs
  /\ needKey' = TRUE
  /\ ecActive' = FALSE
  /\ corrupted' = FALSE
  /\ UNCHANGED ec

\* SetReferenceFrame
DecSetReference(r, pic) ==
  /\ ~needKey
  /\ drefs' = [drefs EXCEPT ![r] = pic]
  /\ UNCHANGED <<ec, dprobs, needKey, ecActive, corrupted>>
=============================================================================
