--------------------------- MODULE Vp8Codec_proof ---------------------------
(***************************************************************************)
(* Theorems about a VP8 encoder and the decoder at the other end of a      *)
(* faulty channel, for every choice of refresh sets, with and without error *)
(* resilience.  Both properties are inductive once aliases are known to be *)
(* transitive: setting one buffer of a group sets the whole group.         *)
(***************************************************************************)
EXTENDS Vp8Codec, TLAPS

\* If two pairs of references share a buffer, so does the third.
AliasesTransitive ==
  /\ alias.goldenLast /\ alias.altLast => alias.goldenAlt
  /\ alias.goldenLast /\ alias.goldenAlt => alias.altLast
  /\ alias.altLast /\ alias.goldenAlt => alias.goldenLast

\* The references are functions of the three names.
RefsShape == refs = [r \in Ref |-> refs[r]] /\ drefs = [r \in Ref |-> drefs[r]]

AliasInv == AliasesTransitive /\ AliasesMatchBuffers

Inv == RefsShape /\ AliasInv /\ DecoderAgrees

-----------------------------------------------------------------------------
(* The encoder's references and their aliases.                             *)

\* A packet that copies GOLDEN to ALTREF does not refresh ALTREF.
LEMMA CopyNotRefreshed ==
  ASSUME NEW ext, NEW no, NEW golden,
         InterPacket(ext, no, golden).altFromGolden
  PROVE  "alt" \notin InterPacket(ext, no, golden).refresh
BY DEF InterPacket, Packet

\* A committed inter frame leaves aliases that hold and are transitive.
LEMMA InterKeepsAliases ==
  ASSUME AliasInv, NEW p, CommitInter(p), p.altFromGolden \in BOOLEAN,
         p.altFromGolden => "alt" \notin p.refresh
  PROVE  AliasInv'
<1>1. /\ refs'["last"] = IF "last" \in p.refresh THEN p.pic ELSE refs["last"]
      /\ refs'["golden"] = IF "golden" \in p.refresh THEN p.pic ELSE refs["golden"]
      /\ refs'["alt"] = IF "alt" \in p.refresh THEN p.pic
                        ELSE IF p.altFromGolden THEN refs["golden"] ELSE refs["alt"]
      BY DEF CommitInter, RefsAfter, Ref
<1>2. /\ alias'.goldenLast = IF "golden" \in p.refresh \/ "last" \in p.refresh
                             THEN "golden" \in p.refresh /\ "last" \in p.refresh
                             ELSE alias.goldenLast
      /\ alias'.altLast = IF "alt" \in p.refresh \/ "last" \in p.refresh
                          THEN "alt" \in p.refresh /\ "last" \in p.refresh
                          ELSE IF p.altFromGolden THEN alias.goldenLast ELSE alias.altLast
      /\ alias'.goldenAlt = IF "golden" \in p.refresh \/ "alt" \in p.refresh
                            THEN "golden" \in p.refresh /\ "alt" \in p.refresh
                            ELSE p.altFromGolden \/ alias.goldenAlt
      BY DEF CommitInter, AliasesAfter, Aliased
<1>3. AliasesTransitive'
      BY <1>2 DEF AliasInv, AliasesTransitive
<1>4. AliasesMatchBuffers'
      <2>1. alias'.goldenLast => refs'["golden"] = refs'["last"]
            <3>1. CASE "golden" \in p.refresh /\ "last" \in p.refresh
                  BY <1>1, <3>1
            <3>2. CASE \/ "golden" \in p.refresh /\ "last" \notin p.refresh
                       \/ "golden" \notin p.refresh /\ "last" \in p.refresh
                  <4>1. ~alias'.goldenLast
                        BY <1>2, <3>2
                  <4> QED BY <4>1
            <3>3. CASE "golden" \notin p.refresh /\ "last" \notin p.refresh
                  BY <1>1, <1>2, <3>3 DEF AliasInv, AliasesMatchBuffers
            <3> QED BY <3>1, <3>2, <3>3
      <2>2. alias'.altLast => refs'["alt"] = refs'["last"]
            <3>1. CASE "alt" \in p.refresh /\ "last" \in p.refresh
                  BY <1>1, <3>1
            <3>2. CASE \/ "alt" \in p.refresh /\ "last" \notin p.refresh
                       \/ "alt" \notin p.refresh /\ "last" \in p.refresh
                  <4>1. ~alias'.altLast
                        BY <1>2, <3>2
                  <4> QED BY <4>1
            <3>3. CASE "alt" \notin p.refresh /\ "last" \notin p.refresh
                  BY <1>1, <1>2, <3>3 DEF AliasInv, AliasesMatchBuffers
            <3> QED BY <3>1, <3>2, <3>3
      <2>3. alias'.goldenAlt => refs'["golden"] = refs'["alt"]
            <3>1. CASE "golden" \in p.refresh /\ "alt" \in p.refresh
                  BY <1>1, <3>1
            <3>2. CASE \/ "golden" \in p.refresh /\ "alt" \notin p.refresh
                       \/ "golden" \notin p.refresh /\ "alt" \in p.refresh
                  <4>1. ~alias'.goldenAlt
                        BY <1>2, <3>2
                  <4> QED BY <4>1
            <3>3. CASE "golden" \notin p.refresh /\ "alt" \notin p.refresh
                  BY <1>1, <1>2, <3>3 DEF AliasInv, AliasesMatchBuffers
            <3> QED BY <3>1, <3>2, <3>3
      <2> QED BY <2>1, <2>2, <2>3 DEF AliasesMatchBuffers
<1> QED BY <1>3, <1>4 DEF AliasInv

\* A key frame makes the three references one.
LEMMA KeyKeepsAliases ==
  ASSUME NEW p, CommitKey(p)
  PROVE  AliasInv'
BY DEF CommitKey, AliasInv, AliasesTransitive, AliasesMatchBuffers, Aliased, Ref

\* Replacing a whole group keeps every pair of aliases equal, the groups being
\* transitive.
LEMMA SetKeepsAliases ==
  ASSUME AliasInv, NEW r \in Ref, NEW pic, EncSetReference(r, pic)
  PROVE  AliasInv'
<1>1. alias' = alias
      BY DEF EncSetReference
<1>2. \A s \in Ref : refs'[s] = IF s \in Group(r) THEN pic ELSE refs[s]
      BY DEF EncSetReference
<1>3. /\ alias.goldenLast => ("golden" \in Group(r) <=> "last" \in Group(r))
      /\ alias.altLast => ("alt" \in Group(r) <=> "last" \in Group(r))
      /\ alias.goldenAlt => ("golden" \in Group(r) <=> "alt" \in Group(r))
      <2>1. CASE r = "last"
            BY <2>1 DEF Group, Ref, AliasInv, AliasesTransitive
      <2>2. CASE r = "golden"
            BY <2>2 DEF Group, Ref, AliasInv, AliasesTransitive
      <2>3. CASE r = "alt"
            BY <2>3 DEF Group, Ref, AliasInv, AliasesTransitive
      <2> QED BY <2>1, <2>2, <2>3 DEF Ref
<1> QED BY <1>1, <1>2, <1>3 DEF AliasInv, AliasesTransitive, AliasesMatchBuffers, Ref

-----------------------------------------------------------------------------
(* What the decoder does with a packet.                                    *)

\* Either the application is told, or the decoder took the whole packet.
LEMMA TakenOrTold ==
  ASSUME NEW p, Sent(p), ~told'
  PROVE  Arrives(p)
BY DEF Sent, ArrivesDamaged, Lost, ConcealModes, ConcealResidual, DecodeFails,
       Refuse

\* Every way to receive a packet leaves the decoder's references a function.
LEMMA SentShape ==
  ASSUME RefsShape, NEW p, Sent(p)
  PROVE  drefs' = [r \in Ref |-> drefs'[r]]
<1>1. CASE drefs' = drefs
      BY <1>1 DEF RefsShape
<1>2. CASE \E pic : drefs' = [drefs EXCEPT !["last"] = pic]
      BY <1>2 DEF RefsShape
<1>3. CASE \E pic : drefs' = Refreshed(p, pic)
      BY <1>3 DEF Refreshed
<1> QED
  BY <1>1, <1>2, <1>3 DEF Sent, Arrives, DecodeWhole, ArrivesDamaged, ConcealModes,
     ConcealResidual, DecodeFails, Refuse, Lost, DecodeMissing, decVars

-----------------------------------------------------------------------------
(* The invariant.                                                          *)

LEMMA InitInv == Init => Inv
BY DEF Init, EncInit, DecInit, Inv, RefsShape, AliasInv, AliasesTransitive,
       AliasesMatchBuffers, DecoderAgrees, Aliased, Ref

LEMMA KeyInv ==
  ASSUME Inv, NEW no, Key(no)
  PROVE  Inv'
<1> DEFINE p == KeyPacket(no)
<1>1. CommitKey(p) /\ Sent(p)
      BY DEF Key
<1>2. /\ p.key /\ p.refresh = Ref /\ ~p.altFromGolden /\ p.entropy \in BOOLEAN
      /\ ~p.entropy => p.next = DefaultProbs
      BY DEF KeyPacket, Packet, KeepsEntropy
<1> HIDE DEF p
<1>3. RefsShape'
      BY <1>1, SentShape DEF Inv, RefsShape, CommitKey
<1>4. ASSUME ~told', ~parted' PROVE DecoderAgrees'
      <2>1. Arrives(p)
            BY <1>1, <1>4, TakenOrTold
      <2>2. InStep(p)
            BY <1>2 DEF InStep
      <2>3. drefs' = [r \in Ref |-> p.pic]
            BY <1>2, <2>1, <2>2 DEF Arrives, DecodeWhole, Refreshed
      <2>4. dprobs' = p.next
            BY <1>2, <2>1, <2>2 DEF Arrives, DecodeWhole
      <2>5. bmode' = DefaultProbs
            BY <1>1, <1>2, <1>4, <2>1 DEF Arrives, CommitKey, Commit
      <2> QED BY <1>1, <2>3, <2>4, <2>5 DEF DecoderAgrees, CommitKey, Commit
<1> QED BY <1>1, <1>3, <1>4, KeyKeepsAliases DEF Inv, DecoderAgrees

LEMMA InterInv ==
  ASSUME Inv, NEW ext, NEW no, NEW golden \in BOOLEAN, Inter(ext, no, golden)
  PROVE  Inv'
<1> DEFINE p == InterPacket(ext, no, golden)
<1>1. MayCodeInter(ext, golden) /\ CommitInter(p) /\ Sent(p)
      BY DEF Inter
<1>2. /\ ~p.key /\ p.base = refs /\ p.probs = probs /\ p.bmode = bmode
      /\ p.entropy \in BOOLEAN /\ p.altFromGolden \in BOOLEAN
      /\ ~p.entropy => p.next = probs
      BY DEF InterPacket, Packet, KeepsEntropy
<1>3. p.altFromGolden => "alt" \notin p.refresh
      BY CopyNotRefreshed
<1> HIDE DEF p
<1>4. RefsShape'
      BY <1>1, SentShape DEF Inv, RefsShape, CommitInter, RefsAfter
<1>5. AliasInv'
      BY <1>1, <1>2, <1>3, InterKeepsAliases DEF Inv
<1>6. ASSUME ~told', ~parted' PROVE DecoderAgrees'
      <2>1. Arrives(p)
            BY <1>1, <1>6, TakenOrTold
      <2>2. ~told /\ ~parted
            BY <1>2, <1>6, <2>1 DEF Arrives
      <2>3. drefs = refs /\ dprobs = probs /\ bmode = DefaultProbs
            BY <1>1, <2>2 DEF Inv, DecoderAgrees, MayCodeInter
      <2>4. InStep(p)
            BY <1>2, <2>3 DEF InStep
      <2>5. drefs' = refs'
            BY <1>1, <2>1, <2>3, <2>4 DEF Arrives, DecodeWhole, Refreshed, CommitInter,
               RefsAfter
      <2>6. dprobs' = p.next
            BY <1>2, <2>1, <2>3, <2>4 DEF Arrives, DecodeWhole
      <2> QED BY <1>1, <2>3, <2>5, <2>6 DEF DecoderAgrees, CommitInter, Commit
<1> QED BY <1>4, <1>5, <1>6 DEF Inv, DecoderAgrees

\* Steps that keep the references and their aliases.
LEMMA NoFrameInv ==
  ASSUME Inv, UNCHANGED <<refs, alias, drefs>>, DecoderAgrees'
  PROVE  Inv'
BY DEF Inv, RefsShape, AliasInv, AliasesTransitive, AliasesMatchBuffers

LEMMA SetInv ==
  ASSUME Inv, NEW r \in Ref, SetReferences(r)
  PROVE  Inv'
<1> DEFINE pic == NewPic(Held)
<1>1. /\ EncSetReference(r, pic) /\ DecSetReference(r, pic)
      /\ parted' = (parted \/ Group(r) # {r}) /\ told' = told
      BY DEF SetReferences
<1> HIDE DEF pic
<1>2. RefsShape'
      BY <1>1 DEF Inv, RefsShape, EncSetReference, DecSetReference
<1>3. ASSUME ~told', ~parted', ~first' PROVE drefs' = refs'
      <2>1. Group(r) = {r} /\ drefs = refs
            BY <1>1, <1>3 DEF Inv, DecoderAgrees, EncSetReference
      <2>2. refs' = [s \in Ref |-> IF s = r THEN pic ELSE refs[s]]
            BY <1>1, <2>1 DEF EncSetReference
      <2>3. drefs' = [s \in Ref |-> IF s = r THEN pic ELSE refs[s]]
            BY <1>1, <2>1 DEF DecSetReference, Inv, RefsShape
      <2> QED BY <2>2, <2>3
<1>4. DecoderAgrees'
      BY <1>1, <1>3 DEF Inv, DecoderAgrees, EncSetReference, DecSetReference
<1> QED BY <1>1, <1>2, <1>4, SetKeepsAliases DEF Inv

LEMMA NextInv == Inv /\ [Next]_vars => Inv'
<1> SUFFICES ASSUME Inv, [Next]_vars PROVE Inv'
    OBVIOUS
<1>1. ASSUME NEW no \in BOOLEAN, Key(no) PROVE Inv'
      BY <1>1, KeyInv
<1>2. ASSUME NEW no \in BOOLEAN, NEW ext \in Asked, NEW golden \in BOOLEAN,
             Inter(ext, no, golden)
      PROVE  Inv'
      BY <1>2, InterInv
<1>3. ASSUME NEW no \in BOOLEAN, NEW ext \in Asked, DropFrame(ext, no) PROVE Inv'
      <2>1. UNCHANGED <<refs, alias, drefs, dprobs, told, first>>
            /\ parted' = (parted \/ <<probs', bmode'>> # <<probs, bmode>>)
            BY <1>3 DEF DropFrame, Drop, decVars
      <2>2. DecoderAgrees'
            BY <2>1 DEF Inv, DecoderAgrees
      <2> QED BY <2>1, <2>2, NoFrameInv
<1>4. ASSUME NEW no \in BOOLEAN, NEW ext \in Asked, Fails(ext, no) PROVE Inv'
      BY <1>4, NoFrameInv DEF Fails, EncodeFails, decVars, Inv, DecoderAgrees
<1>5. CASE Restart
      BY <1>5 DEF Restart, EncReset, decVars, Inv, RefsShape, AliasInv,
         AliasesTransitive, AliasesMatchBuffers, DecoderAgrees, Aliased
<1>6. CASE Rejoin
      <2>1. told' /\ UNCHANGED <<refs, alias>> /\ drefs' = [r \in Ref |-> Garbage]
            BY <1>6 DEF Rejoin, DecReset, encVars
      <2> QED BY <2>1 DEF Inv, RefsShape, AliasInv, AliasesTransitive,
                 AliasesMatchBuffers, DecoderAgrees
<1>7. CASE RequestKey
      BY <1>7, NoFrameInv DEF RequestKey, ForceKeyFrame, decVars, Inv, DecoderAgrees
<1>8. ASSUME NEW r \in Ref, SetReferences(r) PROVE Inv'
      BY <1>8, SetInv
<1>9. CASE UNCHANGED vars
      BY <1>9, NoFrameInv DEF vars, encVars, decVars, Inv, DecoderAgrees
<1> QED BY <1>1, <1>2, <1>3, <1>4, <1>5, <1>6, <1>7, <1>8, <1>9 DEF Next, Encode

\* Whatever the channel and rate control do, a decoder about which the application
\* was told nothing holds the encoder's references and tables.
THEOREM DecoderStaysInStep == Spec => []DecoderAgrees
<1>1. Inv => DecoderAgrees
      BY DEF Inv
<1> QED BY InitInv, NextInv, <1>1, PTL DEF Spec

\* The encoder's alias flags are true of its buffers for ever: after any mix of
\* refreshes, copies, replaced references, key frames and resets.
THEOREM AliasesStayTrue == Spec => []AliasesMatchBuffers
<1>1. Inv => AliasesMatchBuffers
      BY DEF Inv, AliasInv
<1> QED BY InitInv, NextInv, <1>1, PTL DEF Spec
-----------------------------------------------------------------------------
(* Types.                                                                  *)

\* Four names are enough for a new picture, five for new tables.
LEMMA NewNames ==
  /\ NewPic(Held) \in 0..MaxPic
  /\ NewProbs({probs, saved.probs}) \in 0..MaxProbs
<1>1. Held = {refs["last"], refs["golden"], refs["alt"]}
      BY DEF Held, Ref
<1>2. \E n \in 1..4 : n \notin Held
      <2>1. CASE 1 \notin Held
            BY <2>1
      <2>2. CASE 2 \notin Held
            BY <2>2
      <2>3. CASE 3 \notin Held
            BY <2>3
      <2>4. CASE 4 \notin Held
            BY <2>4
      <2>5. CASE 1 \in Held /\ 2 \in Held /\ 3 \in Held /\ 4 \in Held
            BY <1>1, <2>5
      <2> QED BY <2>1, <2>2, <2>3, <2>4, <2>5
<1>3. \E n \in 3..5 : n \notin {probs, saved.probs}
      OBVIOUS
<1>4. (\E n \in (1..MaxPic) \ Held : TRUE)
      BY <1>2, NamesAssumption
<1>5. (\E n \in (3..MaxProbs) \ {probs, saved.probs} : TRUE)
      BY <1>3, NamesAssumption
<1> QED BY <1>4, <1>5, NamesAssumption DEF NewPic, NewProbs

\* The two sides' parts of the type invariant.
EncTypes ==
  /\ refs \in [Ref -> 0..MaxPic]
  /\ alias \in [goldenLast : BOOLEAN, altLast : BOOLEAN, goldenAlt : BOOLEAN]
  /\ probs \in 0..MaxProbs /\ saved.probs \in 0..MaxProbs
  /\ bmode \in {DefaultProbs, ZeroProbs} /\ saved.bmode \in {DefaultProbs, ZeroProbs}
  /\ mask \in SUBSET Masks
  /\ forceKey \in BOOLEAN /\ first \in BOOLEAN /\ noEntropy \in BOOLEAN

DecTypes ==
  /\ drefs \in [Ref -> 0..MaxPic]
  /\ dprobs \in 0..MaxProbs
  /\ ec \in BOOLEAN /\ needKey \in BOOLEAN /\ ecActive \in BOOLEAN
  /\ corrupted \in BOOLEAN /\ told \in BOOLEAN /\ parted \in BOOLEAN

Types == EncTypes /\ DecTypes

LEMMA TypeParts == Types => TypeOK
BY DEF Types, TypeOK, EncTypes, DecTypes

\* A packet carries a picture and tables that have names.
LEMMA PacketTypes ==
  ASSUME Types, NEW no \in BOOLEAN, NEW ext, NEW golden \in BOOLEAN,
         NEW p \in {KeyPacket(no), InterPacket(ext, no, golden)}
  PROVE  /\ p.pic \in 0..MaxPic /\ p.next \in 0..MaxProbs
         /\ p.key \in BOOLEAN /\ p.entropy \in BOOLEAN /\ p.altFromGolden \in BOOLEAN
<1> USE NewNames, NamesAssumption, EncoderAssumption DEF Types, EncTypes, Packet, KeepsEntropy, DefaultProbs
<1>1. CASE p = KeyPacket(no)
      BY <1>1 DEF KeyPacket
<1>2. CASE p = InterPacket(ext, no, golden)
      BY <1>2 DEF InterPacket
<1> QED BY <1>1, <1>2

LEMMA CommitTypes ==
  ASSUME EncTypes, NEW p, CommitKey(p) \/ CommitInter(p),
         p.pic \in 0..MaxPic, p.next \in 0..MaxProbs, p.altFromGolden \in BOOLEAN
  PROVE  EncTypes'
<1>1. /\ probs' \in 0..MaxProbs /\ mask' \in SUBSET Masks /\ noEntropy' \in BOOLEAN
      /\ bmode' \in {DefaultProbs, ZeroProbs} /\ forceKey' \in BOOLEAN /\ first' \in BOOLEAN
      BY DEF EncTypes, CommitKey, CommitInter, Commit
<1>2. saved'.probs \in 0..MaxProbs /\ saved'.bmode \in {DefaultProbs, ZeroProbs}
      <2>1. saved' = saved \/ saved' = [probs |-> p.next, bmode |-> bmode]
            BY DEF CommitKey, CommitInter, Commit
      <2> QED BY <2>1 DEF EncTypes
<1>3. refs' \in [Ref -> 0..MaxPic]
      BY DEF EncTypes, CommitKey, CommitInter, RefsAfter, Ref
<1>4. alias' \in [goldenLast : BOOLEAN, altLast : BOOLEAN, goldenAlt : BOOLEAN]
      <2>1. CASE CommitKey(p)
            BY <2>1 DEF CommitKey, Aliased
      <2>2. CASE CommitInter(p)
            BY <2>2 DEF EncTypes, CommitInter, AliasesAfter, Aliased
      <2> QED BY <2>1, <2>2
<1> QED BY <1>1, <1>2, <1>3, <1>4 DEF EncTypes

LEMMA SentTypes ==
  ASSUME Types, NEW p, Sent(p), p.pic \in 0..MaxPic, p.next \in 0..MaxProbs,
         p.key \in BOOLEAN, bmode' \in {DefaultProbs, ZeroProbs}
  PROVE  DecTypes'
<1> USE NamesAssumption DEF Types, DecTypes, Garbage
<1>1. CASE Arrives(p)
      <2>1. drefs' \in [Ref -> 0..MaxPic]
            BY <1>1 DEF Arrives, DecodeWhole, Refreshed, Ref
      <2>2. dprobs' \in 0..MaxProbs
            BY <1>1 DEF Arrives, DecodeWhole, DefaultProbs
      <2>3. /\ ec' \in BOOLEAN /\ needKey' \in BOOLEAN /\ ecActive' \in BOOLEAN
            /\ corrupted' \in BOOLEAN /\ told' \in BOOLEAN /\ parted' \in BOOLEAN
            BY <1>1 DEF Arrives, DecodeWhole, CanConceal
      <2> QED BY <2>1, <2>2, <2>3
<1>2. CASE ArrivesDamaged(p)
      <2>1. drefs' \in [Ref -> 0..MaxPic]
            BY <1>2 DEF ArrivesDamaged, ConcealModes, ConcealResidual, DecodeFails,
               Refuse, Refreshed, Ref
      <2>2. /\ dprobs' = dprobs
            /\ ec' \in BOOLEAN /\ needKey' \in BOOLEAN /\ ecActive' \in BOOLEAN
            /\ corrupted' \in BOOLEAN /\ told' \in BOOLEAN /\ parted' \in BOOLEAN
            BY <1>2 DEF ArrivesDamaged, ConcealModes, ConcealResidual, DecodeFails,
               Refuse, CanConceal
      <2> QED BY <2>1, <2>2
<1>3. CASE Lost
      <2>1. CASE DecodeMissing
            BY <1>3, <2>1 DEF Lost, DecodeMissing
      <2>2. CASE UNCHANGED decVars
            BY <1>3, <2>2 DEF Lost, decVars
      <2> QED BY <1>3, <2>1, <2>2 DEF Lost
<1> QED BY <1>1, <1>2, <1>3 DEF Sent

\* The first values are of their types.
LEMMA FirstValues ==
  /\ [r \in Ref |-> Garbage] \in [Ref -> 0..MaxPic]
  /\ Aliased(FALSE, FALSE, FALSE) \in
       [goldenLast : BOOLEAN, altLast : BOOLEAN, goldenAlt : BOOLEAN]
  /\ DefaultProbs \in 0..MaxProbs /\ ZeroProbs \in 0..MaxProbs
<1>1. Garbage \in 0..MaxPic
      BY NamesAssumption DEF Garbage
<1>2. DefaultProbs \in 0..MaxProbs /\ ZeroProbs \in 0..MaxProbs
      BY NamesAssumption DEF DefaultProbs, ZeroProbs
<1> QED BY <1>1, <1>2 DEF Aliased

LEMMA TypeNext == Types /\ [Next]_vars => Types'
<1> SUFFICES ASSUME Types, [Next]_vars PROVE Types'
    OBVIOUS
<1> USE NamesAssumption, EncoderAssumption DEF Types
<1>1. ASSUME NEW no \in BOOLEAN, Key(no) PROVE Types'
      <2> DEFINE p == KeyPacket(no)
      <2>1. /\ p.pic \in 0..MaxPic /\ p.next \in 0..MaxProbs
            /\ p.key \in BOOLEAN /\ p.altFromGolden \in BOOLEAN
            BY PacketTypes
      <2>2. CommitKey(p) /\ Sent(p)
            BY <1>1 DEF Key
      <2> HIDE DEF p
      <2>3. EncTypes'
            BY <2>1, <2>2, CommitTypes
      <2> QED BY <2>1, <2>2, <2>3, SentTypes DEF EncTypes
<1>2. ASSUME NEW no \in BOOLEAN, NEW ext \in Asked, NEW golden \in BOOLEAN,
             Inter(ext, no, golden)
      PROVE  Types'
      <2> DEFINE p == InterPacket(ext, no, golden)
      <2>1. /\ p.pic \in 0..MaxPic /\ p.next \in 0..MaxProbs
            /\ p.key \in BOOLEAN /\ p.altFromGolden \in BOOLEAN
            BY PacketTypes
      <2>2. CommitInter(p) /\ Sent(p)
            BY <1>2 DEF Inter
      <2> HIDE DEF p
      <2>3. EncTypes'
            BY <2>1, <2>2, CommitTypes
      <2> QED BY <2>1, <2>2, <2>3, SentTypes DEF EncTypes
<1>3. ASSUME NEW no \in BOOLEAN, NEW ext \in Asked, DropFrame(ext, no) PROVE Types'
      <2>1. mask' \in SUBSET Masks /\ noEntropy' \in BOOLEAN
            BY <1>3 DEF DropFrame, Drop, Arm, Asked, EncTypes
      <2> QED BY <1>3, <2>1 DEF DropFrame, Drop, EncTypes, DecTypes, decVars
<1>4. ASSUME NEW no \in BOOLEAN, NEW ext \in Asked, Fails(ext, no) PROVE Types'
      <2>1. mask' \in SUBSET Masks /\ noEntropy' \in BOOLEAN
            BY <1>4 DEF Fails, EncodeFails, Arm, Asked, EncTypes
      <2> QED BY <1>4, <2>1 DEF Fails, EncodeFails, EncTypes, DecTypes, decVars
<1>5. CASE Restart
      <2>1. EncTypes'
            BY <1>5, FirstValues DEF Restart, EncReset, EncTypes
      <2>2. DecTypes'
            BY <1>5 DEF Restart, decVars, DecTypes
      <2> QED BY <2>1, <2>2
<1>6. CASE Rejoin
      <2>1. EncTypes'
            BY <1>6 DEF Rejoin, encVars, EncTypes
      <2>2. DecTypes'
            BY <1>6, FirstValues DEF Rejoin, DecReset, DecTypes
      <2> QED BY <2>1, <2>2
<1>7. CASE RequestKey
      BY <1>7 DEF RequestKey, ForceKeyFrame, decVars, EncTypes, DecTypes
<1>8. ASSUME NEW r \in Ref, SetReferences(r) PROVE Types'
      <2> DEFINE pic == NewPic(Held)
      <2>1. /\ EncSetReference(r, pic) /\ DecSetReference(r, pic)
            /\ parted' = (parted \/ Group(r) # {r}) /\ told' = told
            BY <1>8 DEF SetReferences
      <2>2. pic \in 0..MaxPic
            BY NewNames
      <2> HIDE DEF pic
      <2>3. refs' \in [Ref -> 0..MaxPic] /\ drefs' \in [Ref -> 0..MaxPic]
            BY <2>1, <2>2 DEF EncSetReference, DecSetReference, EncTypes, DecTypes
      <2> QED BY <2>1, <2>3 DEF EncSetReference, DecSetReference, EncTypes, DecTypes
<1>9. CASE UNCHANGED vars
      BY <1>9 DEF vars, encVars, decVars, EncTypes, DecTypes
<1> QED BY <1>1, <1>2, <1>3, <1>4, <1>5, <1>6, <1>7, <1>8, <1>9 DEF Next, Encode

\* Every reference and table keeps a name of its range: the names never run out.
THEOREM TypesHold == Spec => []TypeOK
<1>1. Init => Types
      <2>1. ASSUME Init PROVE EncTypes
            <3>1. /\ refs = [r \in Ref |-> Garbage] /\ alias = Aliased(FALSE, FALSE, FALSE)
                  /\ probs = DefaultProbs /\ bmode = DefaultProbs
                  /\ saved.probs = ZeroProbs /\ saved.bmode = ZeroProbs
                  /\ mask = {} /\ forceKey = FALSE /\ first = TRUE /\ noEntropy = FALSE
                  BY <2>1 DEF Init, EncInit
            <3> QED BY <3>1, FirstValues DEF EncTypes
      <2>2. Init => DecTypes
            BY FirstValues DEF Init, DecInit, DecTypes
      <2> QED BY <2>1, <2>2 DEF Types
<1> QED BY <1>1, TypeNext, TypeParts, PTL DEF Spec
=============================================================================
