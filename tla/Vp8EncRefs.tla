----------------------------- MODULE Vp8EncRefs -----------------------------
(***************************************************************************)
(* The VP8 encoder's state that the decoder must share (vp8_encoder_frame, *)
(* vp8_encoder_entropy, vp8_encoder_reference_buffers and _controls):      *)
(* reference buffers, which of them alias each other, entropy tables, and  *)
(* the flags a call leaves armed for the packet that will carry them.      *)
(*                                                                         *)
(* One action is one call of encodeSourceInto. Rate control and mode       *)
(* decision are choices: a call may become a key frame, be dropped, fail,  *)
(* refresh GOLDEN on its own; a frame that only repeats a reference is one  *)
(* of the inter frames.                                                    *)
(***************************************************************************)
EXTENDS Vp8Refs

CONSTANTS
  ErrorResilient, \* opts.ErrorResilient
  Masks           \* bound of the model: refresh sets the NoUpdate* and Force*
                  \* flags of a call ask for

ASSUME EncoderAssumption == ErrorResilient \in BOOLEAN /\ Masks \subseteq SUBSET Ref

VARIABLES
  refs,           \* e.lastRef, e.goldenRef, e.altRef
  alias,          \* e.goldenRefAliasesLast, altRefAliasesLast, goldenRefAliasesAlt
  probs, bmode,   \* e.coefProbs with e.modeProbs, and e.modeProbs.BMode
  saved,          \* e.noUpdateEntropy{CoefProbs,ModeProbs,SubMVRefProbs}
  forceKey,       \* e.forceKeyFrame
  first,          \* e.frameCount = 0
  mask,           \* {} or {m}: carriedExternalRefresh and its three bits
  noEntropy       \* e.carriedNoUpdateEntropy

encVars == <<refs, alias, probs, bmode, saved, forceKey, first, mask, noEntropy>>

Aliased(gl, al, ga) == [goldenLast |-> gl, altLast |-> al, goldenAlt |-> ga]

EncInit ==
  /\ refs = [r \in Ref |-> Garbage]
  /\ alias = Aliased(FALSE, FALSE, FALSE)
  /\ probs = DefaultProbs
  /\ bmode = DefaultProbs
  /\ saved = [probs |-> ZeroProbs, bmode |-> ZeroProbs]
  /\ forceKey = FALSE
  /\ first = TRUE
  /\ mask = {}
  /\ noEntropy = FALSE

Held == {refs[r] : r \in Ref}

\* The flags of the call are armed before anything can fail or be dropped, and
\* stay armed until a packet is made. ext is {} or {m}: the refresh set asked for.
Arm(ext, no) ==
  /\ mask' = IF ext = {} THEN mask ELSE ext
  /\ noEntropy' = (noEntropy \/ no)

\* Faulty variant of AliasesAfter: a refreshed GOLDEN keeps aliasing ALTREF.
AliasesGoldenKept(refresh, altFromGolden) ==
  LET both(r, s) == r \in refresh /\ s \in refresh
      one(r, s)  == r \in refresh \/ s \in refresh
  IN Aliased(
       IF one("golden", "last") THEN both("golden", "last") ELSE alias.goldenLast,
       IF one("alt", "last") THEN both("alt", "last")
       ELSE IF altFromGolden THEN alias.goldenLast ELSE alias.altLast,
       IF altFromGolden \/ both("golden", "alt") THEN TRUE
       ELSE IF "alt" \in refresh THEN FALSE ELSE alias.goldenAlt)

\* updateInterReferenceAliases
AliasesAfter(refresh, altFromGolden) ==
  LET both(r, s) == r \in refresh /\ s \in refresh
      one(r, s)  == r \in refresh \/ s \in refresh
  IN Aliased(
       IF one("golden", "last") THEN both("golden", "last") ELSE alias.goldenLast,
       IF one("alt", "last") THEN both("alt", "last")
       ELSE IF altFromGolden THEN alias.goldenLast ELSE alias.altLast,
       IF one("golden", "alt") THEN both("golden", "alt")
       ELSE altFromGolden \/ alias.goldenAlt)

\* copyInterFrameReferences, then the refreshes.
RefsAfter(refresh, altFromGolden, pic) ==
  [r \in Ref |-> IF r \in refresh THEN pic
                 ELSE IF r = "alt" /\ altFromGolden THEN refs["golden"]
                 ELSE refs[r]]

-----------------------------------------------------------------------------
\* keyFrameRefreshEntropyProbs, and the inter frame's RefreshEntropyProbs.
KeepsEntropy(no) == ~(noEntropy \/ no) /\ ~ErrorResilient

\* The refreshes in force (libvpxExternalRefreshMask): what the call asks for, or
\* what an earlier one did that led to no packet.
Armed(ext) == IF ext = {} THEN mask ELSE ext

\* The packet of a key frame and of an inter frame. golden is rate control's own
\* GOLDEN refresh (goldenCBRRefresh), with GOLDEN copied to ALTREF before it.
KeyPacket(no) ==
  LET entropy == KeepsEntropy(no)
  IN Packet(TRUE, Ref, FALSE, entropy, NewPic(Held), refs, DefaultProbs,
            DefaultProbs,
            IF entropy THEN NewProbs({probs, saved.probs})
                       ELSE DefaultProbs)

InterPacket(ext, no, golden) ==
  LET refresh == IF Armed(ext) # {} THEN UNION Armed(ext)
                 ELSE {"last"} \cup (IF golden THEN {"golden"} ELSE {})
      entropy == KeepsEntropy(no)
  IN Packet(FALSE, refresh, golden /\ ext = {} /\ "alt" \notin refresh, entropy,
            NewPic(Held), refs, probs, bmode,
            IF entropy THEN NewProbs({probs, saved.probs}) ELSE probs)

\* The end of a call that made packet p: commitKeyFrameEntropy or
\* commitInterFrameAttempt, and clear...AfterPacket.
Commit(p) ==
  /\ probs' = p.next
  /\ saved' = IF p.entropy THEN saved ELSE [probs |-> p.next, bmode |-> bmode]
  /\ mask' = {}
  /\ noEntropy' = FALSE
  /\ UNCHANGED bmode

CommitKey(p) ==
  /\ refs' = [r \in Ref |-> p.pic]
  /\ alias' = Aliased(TRUE, TRUE, TRUE)
  /\ forceKey' = FALSE
  /\ first' = FALSE
  /\ Commit(p)

MayCodeInter(ext, golden) ==
  /\ ~first /\ ~forceKey
  /\ golden => ~ErrorResilient /\ (ext = {} \/ "golden" \in UNION ext)

CommitInter(p) ==
  /\ refs' = RefsAfter(p.refresh, p.altFromGolden, p.pic)
  /\ alias' = AliasesAfter(p.refresh, p.altFromGolden)
  /\ Commit(p)
  /\ UNCHANGED <<forceKey, first>>

\* Rate control drops the frame, before the attempt or after it. A pending
\* no-update flag rolls the tables back to those saved with the last frame that
\* was coded under it.
Drop(ext, no) ==
  /\ ~first /\ ~forceKey
  /\ Arm(ext, no)
  /\ IF noEntropy'
       THEN probs' = saved.probs /\ bmode' = saved.bmode
       ELSE UNCHANGED <<probs, bmode>>
  /\ UNCHANGED <<refs, alias, saved, forceKey, first>>

\* The attempt returns an error, the output buffer being too small.
EncodeFails(ext, no) ==
  /\ Arm(ext, no)
  /\ UNCHANGED <<refs, alias, probs, bmode, saved, forceKey, first>>

ForceKeyFrame ==
  /\ forceKey' = TRUE
  /\ UNCHANGED <<refs, alias, probs, bmode, saved, first, mask, noEntropy>>

\* Reset: a new stream.
EncReset ==
  /\ refs' = [r \in Ref |-> Garbage]
  /\ alias' = Aliased(FALSE, FALSE, FALSE)
  /\ probs' = DefaultProbs
  /\ bmode' = DefaultProbs
  /\ saved' = [probs |-> ZeroProbs, bmode |-> ZeroProbs]
  /\ forceKey' = FALSE
  /\ first' = TRUE
  /\ mask' = {}
  /\ noEntropy' = FALSE

\* referenceAliasGroup
Group(r) ==
  {s \in Ref :
     \/ s = r
     \/ {r, s} = {"golden", "last"} /\ alias.goldenLast
     \/ {r, s} = {"alt", "last"} /\ alias.altLast
     \/ {r, s} = {"golden", "alt"} /\ alias.goldenAlt}

\* SetReferenceFrame without a lookahead: setReferenceFrameNow.
EncSetReference(r, pic) ==
  /\ refs' = [s \in Ref |-> IF s \in Group(r) THEN pic ELSE refs[s]]
  /\ UNCHANGED <<alias, probs, bmode, saved, forceKey, first, mask, noEntropy>>
=============================================================================
