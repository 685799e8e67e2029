----------------------- MODULE Vp9WebRTCSender_proof -----------------------
(***************************************************************************)
(* What is sent can be decoded: for every temporal pattern, every picture  *)
(* id arithmetic and any number of frames and faults. The argument: unless *)
(* a key frame is required, the receiver holds what the encoder's          *)
(* references held before the access unit in hand; the encoder moves on    *)
(* when it codes, the receiver when the unit is sent, and every way to     *)
(* lose a coded unit in between requires a key frame, which replaces all   *)
(* references at once. And each frame given to the encoder takes one       *)
(* picture id: the id that comes next belongs to the unit in hand until    *)
(* the unit is packetized, given up or handed over as a drop.              *)
(*                                                                         *)
(* A receiver of the lower layers alone decodes what it gets, too. Every   *)
(* pattern keeps to the layers (Behaves, proved pattern by pattern at      *)
(* every position): a frame refers only to references that can belong to   *)
(* its layer or a lower one, and leaves alone none that can belong to its  *)
(* own. So that receiver holds what the encoder holds in all references of *)
(* its level and below (ThinInv), and at a switching point in those of the *)
(* next level too. And a descriptor says what the encoder did, because the *)
(* packetizer's record of picture ids, and whoever counts the base layer   *)
(* frames, are in step with the receiver unless a key frame is required.   *)
(***************************************************************************)
EXTENDS Vp9WebRTCSender, TLAPS

\* The access unit in hand was coded, so the encoder's references are ahead.
Coded == stage # "idle" /\ ~au.dropped

\* The shape of the state, as far as the argument needs it.
ShapeInv ==
  /\ stage \in Stages
  /\ DOMAIN pk = {"id", "tl0", "drop", "key", "valid", "refId"}
  /\ pk.key \in BOOLEAN
  /\ au.dropped \in BOOLEAN /\ au.key \in BOOLEAN
  /\ stage \in {"sized", "packed"} => ~au.dropped

\* How far the receiver is behind the encoder.
LagInv ==
  /\ ~Coded /\ ~pk.key => rxRef = encRef
  /\ Coded /\ ~au.key /\ (stage = "packed" \/ ~pk.key) => rxRef = au.used
  /\ Coded => encRef = Store(au.used)
  /\ Coded /\ au.key => au.refresh = Slot

Inv == ShapeInv /\ LagInv

\* The invariant holds before the first frame.
LEMMA InvInit == Init => Inv
  <1> SUFFICES ASSUME Init PROVE Inv
      OBVIOUS
  <1> USE DEF Init, NoAu
  <1>1. ShapeInv
        BY DEF ShapeInv, Stages
  <1>2. LagInv
        BY DEF LagInv, Coded
  <1> QED
      BY <1>1, <1>2 DEF Inv

\* The encoder codes a frame or drops it.
LEMMA InvEncode ==
  ASSUME Inv, EncodeDropped \/ EncodeInter \/ EncodeKey
  PROVE  Inv'
  <1> USE DEF Goto, Stages
  <1>1. CASE EncodeDropped
    <2>1. /\ stage = "idle" /\ stage' = "encoded"
          /\ au'.dropped = TRUE /\ au'.key = FALSE
          /\ UNCHANGED <<pk, encRef, rxRef>>
          BY <1>1 DEF EncodeDropped, NoAu, receivers
    <2>2. ShapeInv'
          BY <2>1 DEF Inv, ShapeInv
    <2>3. LagInv'
          BY <2>1 DEF Inv, LagInv, Coded
    <2> QED
        BY <2>2, <2>3 DEF Inv
  <1>2. CASE EncodeInter
    <2>1. PICK refresh \in Refreshes(NextFrame(t)) :
            /\ encRef' = [s \in Slot |-> IF s \in refresh THEN frames + 1
                                                          ELSE encRef[s]]
            /\ au' = [frame |-> frames + 1, dropped |-> FALSE, key |-> FALSE,
                      layer |-> NextFrame(t).layer, sync |-> NextFrame(t).sync,
                      tl0 |-> NextFrame(t).tl0, refs |-> Referenced(NextFrame(t)),
                      used |-> encRef, refresh |-> refresh]
          BY <1>2 DEF EncodeInter
    <2>2. stage = "idle" /\ stage' = "encoded" /\ UNCHANGED <<pk, rxRef>>
          BY <1>2 DEF EncodeInter, receivers
    <2>3. /\ au'.frame = frames + 1 /\ au'.dropped = FALSE /\ au'.key = FALSE
          /\ au'.used = encRef /\ au'.refresh = refresh
          BY <2>1
    <2>4. ShapeInv'
          BY <2>2, <2>3 DEF Inv, ShapeInv
    <2>5. encRef' = Store(au.used)'
          BY <2>1, <2>3 DEF Store
    <2>6. LagInv'
          BY <2>2, <2>3, <2>5 DEF Inv, LagInv, Coded
    <2> QED
        BY <2>4, <2>6 DEF Inv
  <1>3. CASE EncodeKey
    <2>1. /\ stage = "idle" /\ stage' = "encoded" /\ UNCHANGED <<pk, rxRef>>
          /\ encRef' = [s \in Slot |-> frames + 1]
          /\ au'.frame = frames + 1 /\ au'.dropped = FALSE /\ au'.key = TRUE
          /\ au'.used = encRef /\ au'.refresh = Slot
          BY <1>3 DEF EncodeKey, receivers
    <2>2. ShapeInv'
          BY <2>1 DEF Inv, ShapeInv
    <2>3. encRef' = Store(au.used)'
          BY <2>1 DEF Store
    <2>4. LagInv'
          BY <2>1, <2>3 DEF Inv, LagInv, Coded
    <2> QED
        BY <2>2, <2>4 DEF Inv
  <1> QED
      BY <1>1, <1>2, <1>3

\* An access unit that ends before it is sent.
LEMMA InvUnsent ==
  ASSUME Inv, HandDropped \/ PacketizeFails \/ Withhold
  PROVE  Inv'
  <1> USE DEF Goto, Stages
  <1>1. CASE HandDropped
    <2>1. /\ stage = "encoded" /\ au.dropped /\ UNCHANGED <<encRef, rxRef>>
          /\ pk' = ConsumeDropped(pk, au)
          /\ \/ stage' = "idle" /\ au' = NoAu
             \/ UNCHANGED <<stage, au>>
          BY <1>1 DEF HandDropped, encoder, receivers
    <2>2. /\ DOMAIN pk' = {"id", "tl0", "drop", "key", "valid", "refId"}
          /\ pk'.key \in BOOLEAN /\ (pk.key => pk'.key)
          BY <2>1 DEF ConsumeDropped, Inv, ShapeInv, DroppedNeedsKeyFrame
    <2>3. stage' = "idle" \/ (stage' = "encoded" /\ au'.dropped)
          BY <2>1
    <2>4. au'.dropped \in BOOLEAN /\ au'.key \in BOOLEAN
      <3>1. NoAu.dropped = FALSE /\ NoAu.key = FALSE
            BY DEF NoAu
      <3> QED
          BY <2>1, <3>1, Zenon DEF Inv, ShapeInv
    <2>5. ShapeInv'
          BY <2>2, <2>3, <2>4 DEF ShapeInv
    <2>6. LagInv'
          BY <2>1, <2>2, <2>3 DEF Inv, LagInv, Coded
    <2> QED
        BY <2>5, <2>6 DEF Inv
  <1>2. CASE PacketizeFails \/ Withhold
    <2>1. /\ stage' = "idle" /\ au' = NoAu
          /\ pk' = EncodedUnsent(pk) \/ pk' = Unsent(pk)
          BY <1>2 DEF PacketizeFails, GiveUp, Withhold
    <2>2. /\ DOMAIN pk' = {"id", "tl0", "drop", "key", "valid", "refId"}
          /\ pk'.key = TRUE
          BY <2>1 DEF Inv, ShapeInv, EncodedUnsent, Unsent
    <2>3. ShapeInv'
          BY <2>1, <2>2 DEF ShapeInv, NoAu
    <2>4. LagInv'
          BY <2>1, <2>2 DEF LagInv, Coded
    <2> QED
        BY <2>3, <2>4 DEF Inv
  <1> QED
      BY <1>1, <1>2

\* An access unit on its way to the receiver.
LEMMA InvSent ==
  ASSUME Inv, Size \/ Packetize \/ Send
  PROVE  Inv'
  <1> USE DEF Goto, Stages
  <1>1. CASE Size
    <2>1. /\ stage = "encoded" /\ stage' = "sized" /\ ~au.dropped
          /\ UNCHANGED <<encRef, rxRef, au>>
          /\ pk' = [pk EXCEPT !.drop = NoAu]
          BY <1>1 DEF Size, encoder, receivers
    <2>2. DOMAIN pk' = DOMAIN pk /\ pk'.key = pk.key
          BY <2>1 DEF Inv, ShapeInv
    <2>3. ShapeInv'
          BY <2>1, <2>2 DEF Inv, ShapeInv
    <2>4. Store(au.used)' = Store(au.used)
          BY <2>1 DEF Store
    <2>5. LagInv'
          BY <2>1, <2>2, <2>4 DEF Inv, LagInv, Coded
    <2> QED
        BY <2>3, <2>5 DEF Inv
  <1>2. CASE Packetize
    <2>1. /\ stage = "sized" /\ stage' = "packed"
          /\ UNCHANGED <<encRef, rxRef, au>>
          /\ Admissible(pk, au) /\ pk' = Packetized(pk, au)
          BY <1>2 DEF Packetize, encoder, receivers
    <2>2. DOMAIN pk' = DOMAIN pk /\ pk'.key = FALSE
          BY <2>1 DEF Inv, ShapeInv, Packetized
    <2>3. ShapeInv'
          BY <2>1, <2>2 DEF Inv, ShapeInv
    <2>4. Store(au.used)' = Store(au.used)
          BY <2>1 DEF Store
    <2>5. LagInv'
          BY <2>1, <2>2, <2>4 DEF Inv, ShapeInv, LagInv, Coded, Admissible
    <2> QED
        BY <2>3, <2>5 DEF Inv
  <1>3. CASE Send
    <2>1. /\ stage = "packed" /\ stage' = "idle" /\ au' = NoAu
          /\ UNCHANGED <<encRef, pk>>
          /\ rxRef' = Store(rxRef)
          BY <1>3 DEF Send, encoder
    <2>2. ShapeInv'
          BY <2>1 DEF Inv, ShapeInv, NoAu
    <2>3. Store(rxRef) = Store(au.used)
      <3>1. CASE au.key
            BY <3>1, <2>1 DEF Store, Inv, ShapeInv, LagInv, Coded
      <3>2. CASE ~au.key
            BY <3>2, <2>1 DEF Inv, ShapeInv, LagInv, Coded
      <3> QED
          BY <3>1, <3>2
    <2>4. rxRef' = encRef'
          BY <2>1, <2>3 DEF Inv, ShapeInv, LagInv, Coded
    <2>5. LagInv'
          BY <2>1, <2>4 DEF LagInv, Coded
    <2> QED
        BY <2>2, <2>5 DEF Inv
  <1> QED
      BY <1>1, <1>2, <1>3

\* Every step preserves the invariant.
LEMMA InvNext ==
  ASSUME Inv, [Next]_vars
  PROVE  Inv'
  <1>1. CASE EncodeDropped \/ EncodeInter \/ EncodeKey
        BY <1>1, InvEncode
  <1>2. CASE HandDropped \/ PacketizeFails \/ Withhold
        BY <1>2, InvUnsent
  <1>3. CASE Size \/ Packetize \/ Send
        BY <1>3, InvSent
  <1>4. CASE EncodeFails \/ RequestKeyFrame \/ Done \/ UNCHANGED vars
    <2>1. UNCHANGED <<stage, pk, au, encRef, rxRef>>
          BY <1>4 DEF EncodeFails, RequestKeyFrame, Done, vars, encoder, receivers
    <2> QED
        BY <2>1 DEF Inv, ShapeInv, LagInv, Coded, Store
  <1> QED
      BY <1>1, <1>2, <1>3, <1>4 DEF Next

\* An access unit about to be sent refers only to pictures the receiver has:
\* drops, failures and withheld units (NeedsKeyFrame, requireVP9RecoveryKey)
\* never let an undecodable frame out.
THEOREM SentFramesDecode == Spec => []SentIsDecodable
  <1>1. Inv => SentIsDecodable
        BY DEF Inv, ShapeInv, LagInv, Coded, SentIsDecodable, Inter
  <1>2. Spec => []Inv
        BY InvInit, InvNext, PTL DEF Spec
  <1> QED
      BY <1>1, <1>2, PTL

\* Quotient and remainder are unique.
LEMMA ModUnique ==
  ASSUME NEW m \in Nat \ {0}, NEW q \in Int, NEW r \in 0..(m - 1), NEW n \in Int,
         n = m * q + r
  PROVE  (n % m) = r
  <1> DEFINE p == n \div m
             s == (n % m)
  <1>1. p \in Int /\ s \in 0..(m - 1) /\ n = m * p + s
        BY SMT
  <1> HIDE DEF p, s
  <1>2. m * (p - q) = r - s
        BY <1>1
  <1>3. CASE p - q >= 1
    <2>1. m * (p - q) >= m
          BY <1>1, <1>3
    <2> QED
        BY <1>1, <1>2, <2>1
  <1>4. CASE p - q <= -1
    <2>1. m * (p - q) <= -m
          BY <1>1, <1>4
    <2> QED
        BY <1>1, <1>2, <2>1
  <1>5. CASE p = q
    <2>1. s = r
          BY <1>1, <1>5
    <2> QED
        BY <2>1 DEF s
  <1> QED
      BY <1>1, <1>3, <1>4, <1>5

\* Counting commutes with the remainder.
LEMMA ModSucc ==
  ASSUME NEW a \in Nat, NEW m \in Nat \ {0}
  PROVE  ((a % m) + 1) % m = ((a + 1) % m)
  <1> DEFINE q == a \div m
             r == (a % m)
  <1>1. q \in Int /\ r \in 0..(m - 1) /\ a = m * q + r
        BY SMT
  <1> HIDE DEF q, r
  <1>2. CASE r + 1 < m
    <2>1. a + 1 = m * q + (r + 1) /\ r + 1 \in 0..(m - 1)
          BY <1>1, <1>2
    <2>2. ((a + 1) % m) = r + 1
          BY <1>1, <2>1, ModUnique
    <2>3. ((r + 1) % m) = r + 1
          BY <1>1, <2>1, 0 \in Int, r + 1 = m * 0 + (r + 1), ModUnique
    <2> QED
        BY <2>2, <2>3 DEF r
  <1>3. CASE r + 1 = m
    <2>1. a + 1 = m * (q + 1) + 0
          BY <1>1, <1>3
    <2>2. ((a + 1) % m) = 0
          BY <1>1, <2>1, ModUnique
    <2>3. ((r + 1) % m) = 0
          BY <1>1, <1>3, r + 1 = m * 1 + 0, ModUnique
    <2> QED
        BY <2>2, <2>3 DEF r
  <1> QED
      BY <1>1, <1>2, <1>3

\* The dropped access unit in hand has taken its picture id already.
Handed == stage = "encoded" /\ au.dropped /\ pk.drop = au

\* Which picture id comes next: that of the access unit in hand until the unit
\* is packetized, given up, or handed over as a drop.
IdInv ==
  /\ frames \in Nat
  /\ stage # "idle" => au.frame = frames /\ frames >= 1
  /\ pk.drop.frame \in Nat /\ pk.drop.frame <= frames
  /\ stage = "idle" \/ stage = "packed" \/ Handed => pk.id = IdOf(frames + 1)
  /\ ~(stage = "idle" \/ stage = "packed" \/ Handed) => pk.id = IdOf(frames)
  /\ stage = "packed" => desc.id = IdOf(au.frame)

\* Picture ids count frames.
LEMMA NextIdOf ==
  ASSUME NEW n \in Nat, n >= 1
  PROVE  NextId(IdOf(n)) = IdOf(n + 1)
  <1>1. InitialId + n - 1 \in Nat /\ IdMod \in Nat \ {0}
        BY IdAssumption
  <1>2. (((InitialId + n - 1) % IdMod) + 1) % IdMod = (((InitialId + n - 1) + 1) % IdMod)
        BY <1>1, ModSucc
  <1>3. (InitialId + n - 1) + 1 = InitialId + (n + 1) - 1
        BY IdAssumption
  <1> QED
      BY <1>2, <1>3 DEF NextId, IdOf

\* It holds before the first frame.
LEMMA IdInit == Init => IdInv
  <1> SUFFICES ASSUME Init PROVE IdInv
      OBVIOUS
  <1>1. stage = "idle" /\ frames = 0 /\ pk.id = InitialId /\ pk.drop.frame = 0
        BY DEF Init, NoAu, NoFrame
  <1>2. IdOf(1) = InitialId
    <2>1. InitialId + 1 - 1 = IdMod * 0 + InitialId
          BY IdAssumption
    <2> QED
        BY <2>1, IdAssumption, ModUnique DEF IdOf
  <1> QED
      BY <1>1, <1>2 DEF IdInv

\* Encoding assigns no id yet.
LEMMA IdEncode ==
  ASSUME Inv, IdInv, EncodeDropped \/ EncodeInter \/ EncodeKey
  PROVE  IdInv'
  <1>1. /\ stage = "idle" /\ stage' = "encoded" /\ UNCHANGED pk
        /\ frames' = frames + 1 /\ au'.frame = frames + 1
    <2>1. CASE EncodeDropped
          BY <2>1 DEF EncodeDropped, Goto, NoAu
    <2>2. CASE EncodeInter
          BY <2>2 DEF EncodeInter, Goto
    <2>3. CASE EncodeKey
          BY <2>3 DEF EncodeKey, Goto
    <2> QED
        BY <2>1, <2>2, <2>3
  <1>2. pk'.drop # au'
        BY <1>1 DEF IdInv
  <1>3. ~Handed'
        BY <1>2 DEF Handed
  <1>4. pk'.id = IdOf(frames')
        BY <1>1 DEF IdInv, IdOf
  <1> QED
      BY <1>1, <1>3, <1>4 DEF IdInv

\* A drop takes its id once, however often it is handed over.
LEMMA IdHandDropped ==
  ASSUME Inv, IdInv, HandDropped
  PROVE  IdInv'
  <1>1. /\ stage = "encoded" /\ au.dropped /\ UNCHANGED <<frames, desc>>
        /\ pk' = ConsumeDropped(pk, au)
        /\ (stage' = "idle") \/ UNCHANGED <<stage, au>>
        BY DEF HandDropped, encoder
  <1>2. pk'.drop = au /\ pk'.id = IdOf(frames + 1)
    <2>1. CASE pk.drop = au
          BY <1>1, <2>1 DEF ConsumeDropped, Handed, IdInv
    <2>2. CASE pk.drop # au
      <3>1. pk'.drop = au /\ pk'.id = NextId(pk.id)
            BY <1>1, <2>2 DEF ConsumeDropped, Inv, ShapeInv
      <3>2. pk.id = IdOf(frames) /\ frames \in Nat /\ frames >= 1
            BY <1>1, <2>2 DEF Handed, IdInv
      <3> QED
          BY <3>1, <3>2, NextIdOf
    <2> QED
        BY <2>1, <2>2
  <1>3. stage' = "idle" \/ Handed'
        BY <1>1, <1>2 DEF Handed
  <1>4. IdOf(frames + 1)' = IdOf(frames + 1)
        BY <1>1 DEF IdOf
  <1>5. pk'.drop.frame \in Nat /\ pk'.drop.frame <= frames'
        BY <1>1, <1>2 DEF IdInv
  <1>6. stage' # "idle" => au'.frame = frames' /\ frames' >= 1
        BY <1>1 DEF IdInv
  <1> QED
      BY <1>1, <1>2, <1>3, <1>4, <1>5, <1>6 DEF IdInv

\* A unit given up before it was packetized takes its id, one held back after
\* packetizing has taken it already.
LEMMA IdGivenUp ==
  ASSUME Inv, IdInv, PacketizeFails \/ Withhold
  PROVE  IdInv'
  <1>1. stage' = "idle" /\ UNCHANGED frames
        BY DEF PacketizeFails, GiveUp, Withhold, Goto, encoder
  <1>2. pk'.drop = NoAu /\ pk'.id = IdOf(frames + 1)
    <2>1. CASE PacketizeFails
      <3>1. stage \in {"encoded", "sized"} /\ ~au.dropped /\ pk' = EncodedUnsent(pk)
            BY <2>1 DEF PacketizeFails, GiveUp
      <3>2. pk'.drop = NoAu /\ pk'.id = NextId(pk.id)
            BY <3>1 DEF EncodedUnsent, Unsent, Inv, ShapeInv
      <3>3. pk.id = IdOf(frames) /\ frames \in Nat /\ frames >= 1
            BY <3>1 DEF Handed, IdInv
      <3> QED
          BY <3>2, <3>3, NextIdOf
    <2>2. CASE Withhold
      <3>1. stage = "packed" /\ pk' = Unsent(pk)
            BY <2>2 DEF Withhold, Goto
      <3> QED
          BY <3>1 DEF Unsent, Inv, ShapeInv, IdInv
    <2> QED
        BY <2>1, <2>2
  <1>3. NoAu.frame = 0
        BY DEF NoAu, NoFrame
  <1>4. IdOf(frames + 1)' = IdOf(frames + 1)
        BY <1>1 DEF IdOf
  <1> QED
      BY <1>1, <1>2, <1>3, <1>4 DEF IdInv

\* Packetizing takes the id, the size query and sending do not.
LEMMA IdSent ==
  ASSUME Inv, IdInv, Size \/ Packetize \/ Send
  PROVE  IdInv'
  <1>1. CASE Size
    <2>1. /\ stage = "encoded" /\ stage' = "sized" /\ ~au.dropped
          /\ UNCHANGED <<frames, au>> /\ pk' = [pk EXCEPT !.drop = NoAu]
          BY <1>1 DEF Size, Goto, encoder
    <2>2. pk'.drop.frame = 0 /\ pk'.id = pk.id
          BY <2>1 DEF Inv, ShapeInv, NoAu, NoFrame
    <2>3. pk.id = IdOf(frames) /\ ~Handed'
          BY <2>1 DEF Handed, IdInv
    <2>4. IdOf(frames)' = IdOf(frames)
          BY <2>1 DEF IdOf
    <2> QED
        BY <2>1, <2>2, <2>3, <2>4 DEF IdInv
  <1>2. CASE Packetize
    <2>1. /\ stage = "sized" /\ stage' = "packed" /\ UNCHANGED <<frames, au>>
          /\ desc'.id = pk.id /\ pk' = Packetized(pk, au)
          BY <1>2 DEF Packetize, Goto, encoder
    <2>2. pk'.drop.frame = 0 /\ pk'.id = NextId(pk.id)
          BY <2>1 DEF Packetized, Inv, ShapeInv, NoAu, NoFrame
    <2>3. pk.id = IdOf(frames) /\ frames \in Nat /\ frames >= 1 /\ au.frame = frames
          BY <2>1 DEF Handed, IdInv
    <2>4. pk'.id = IdOf(frames + 1)
          BY <2>2, <2>3, NextIdOf
    <2>5. IdOf(frames + 1)' = IdOf(frames + 1) /\ IdOf(au.frame)' = IdOf(au.frame)
          BY <2>1 DEF IdOf
    <2> QED
        BY <2>1, <2>2, <2>3, <2>4, <2>5 DEF IdInv
  <1>3. CASE Send
    <2>1. /\ stage = "packed" /\ stage' = "idle" /\ UNCHANGED <<frames, pk>>
          BY <1>3 DEF Send, Goto, encoder
    <2>2. IdOf(frames + 1)' = IdOf(frames + 1)
          BY <2>1 DEF IdOf
    <2> QED
        BY <2>1, <2>2 DEF IdInv
  <1> QED
      BY <1>1, <1>2, <1>3

\* Every step preserves it.
LEMMA IdNext ==
  ASSUME Inv, IdInv, [Next]_vars
  PROVE  IdInv'
  <1>1. CASE EncodeDropped \/ EncodeInter \/ EncodeKey
        BY <1>1, IdEncode
  <1>2. CASE HandDropped
        BY <1>2, IdHandDropped
  <1>3. CASE PacketizeFails \/ Withhold
        BY <1>3, IdGivenUp
  <1>4. CASE Size \/ Packetize \/ Send
        BY <1>4, IdSent
  <1>5. CASE EncodeFails \/ RequestKeyFrame \/ Done \/ UNCHANGED vars
    <2>1. UNCHANGED <<stage, pk, au, frames, desc>>
          BY <1>5 DEF EncodeFails, RequestKeyFrame, Done, vars, encoder
    <2> QED
        BY <2>1 DEF IdInv, Handed, IdOf
  <1> QED
      BY <1>1, <1>2, <1>3, <1>4, <1>5 DEF Next

\* Every frame given to the encoder takes exactly one picture id, however it
\* ends (consumeDroppedFrame, MarkEncodedAccessUnitUnsent, advancePictureID).
THEOREM PictureIdsStayAligned == Spec => []PictureIdsAligned
  <1>1. IdInv => PictureIdsAligned
        BY DEF IdInv, PictureIdsAligned
  <1>2. Spec => [](Inv /\ IdInv)
        BY InvInit, InvNext, IdInit, IdNext, PTL DEF Spec
  <1> QED
      BY <1>1, <1>2, PTL

-----------------------------------------------------------------------------
(* The temporal patterns.                                                  *)

\* The layers a reference may come to belong to, in each pattern.
HeldBy(mode, s) ==
  IF mode = "FiveLayers"
    THEN IF s = "last" THEN 0..3 ELSE IF s = "golden" THEN 0..2 ELSE {0}
  ELSE IF s = "golden" /\ mode \notin {"Disabled", "OneLayer"} THEN {0, 1}
  ELSE IF s = "altref" /\ mode \in {"ThreeLayersSixFrame", "ThreeLayers",
                                    "ThreeLayersWithSync", "ThreeLayersOneReference"}
    THEN {0, 2}
  ELSE {0}

\* The references a frame may refresh, and those it does refresh.
MayRefresh(noUpd) == IF noUpd # {} THEN Slot \ noUpd ELSE LG
MustRefresh(noUpd) == IF noUpd # {} THEN Slot \ noUpd ELSE L

\* A frame of a pattern keeps to the layers: it leaves its layer only where
\* that layer is expected, it uses no reference that can belong to a higher
\* layer, and a reference it neither uses nor refreshes belongs to another
\* layer. The last holds of the golden frame in FiveLayers only for a reason
\* that PatternInv gives.
Fits(mode, layer, noRef, noUpd) ==
  /\ \A s \in MayRefresh(noUpd) : layer \in HeldBy(mode, s)
  /\ \A s \in Slot \ noRef : \A l \in HeldBy(mode, s) : l <= layer
  /\ layer > 0 => \A s \in noRef \ MustRefresh(noUpd) :
                    \/ layer \notin HeldBy(mode, s)
                    \/ mode = "FiveLayers" /\ s = "golden" /\ layer = 1

\* What every pattern does at every position n.
Behaves(mode, n) ==
  LET p == Pattern[mode]
      layer == p.ids[(n % Len(p.ids)) + 1]
      flag == p.flags[(n % Len(p.flags)) + 1]
  IN /\ TopLayer(mode) \in Nat /\ layer \in 0..TopLayer(mode)
     /\ \/ flag.key /\ mode = "FiveLayers"
        \/ Fits(mode, layer, flag.noRef, flag.noUpd)

\* The highest layer of a pattern.
LEMMA TopIs ==
  ASSUME NEW mode, NEW k \in LayerIds(mode), LayerIds(mode) \subseteq Nat,
         \A l \in LayerIds(mode) : l <= k
  PROVE  TopLayer(mode) = k
  BY DEF TopLayer

\* Disabled keeps to its layers.
LEMMA DisabledBehaves ==
  \A n \in Nat : Behaves("Disabled", n)
  <1> DEFINE m == "Disabled"
  <1>1. /\ Pattern[m].ids = <<0>>
        /\ Pattern[m].flags = <<Flag(None, None)>>
        BY DEF Pattern
  <1>2. Fits(m, 0, None, None)
        BY DEF Fits, HeldBy, MayRefresh, MustRefresh, Slot, GA, A, LA, LG, L, G, None
  <1>3. TopLayer(m) = 0
        BY <1>1, LayerIds(m) = {0}, TopIs DEF LayerIds
  <1> HIDE DEF m
  <1>4. SUFFICES ASSUME NEW n \in Nat PROVE Behaves(m, n)
        BY DEF m
  <1>5. n % 1 \in 0..0
        OBVIOUS
  <1> QED
        BY <1>1, <1>2, <1>3, <1>5, SMT DEF Behaves, Flag, KeyFlag

\* OneLayer keeps to its layers.
LEMMA OneLayerBehaves ==
  \A n \in Nat : Behaves("OneLayer", n)
  <1> DEFINE m == "OneLayer"
  <1>1. /\ Pattern[m].ids = <<0>>
        /\ Pattern[m].flags = <<KeyFlag(None, GA)>>
        BY DEF Pattern
  <1>2. Fits(m, 0, None, GA)
        BY DEF Fits, HeldBy, MayRefresh, MustRefresh, Slot, GA, A, LA, LG, L, G, None
  <1>3. TopLayer(m) = 0
        BY <1>1, LayerIds(m) = {0}, TopIs DEF LayerIds
  <1> HIDE DEF m
  <1>4. SUFFICES ASSUME NEW n \in Nat PROVE Behaves(m, n)
        BY DEF m
  <1>5. n % 1 \in 0..0
        OBVIOUS
  <1> QED
        BY <1>1, <1>2, <1>3, <1>5, SMT DEF Behaves, Flag, KeyFlag

\* TwoLayers keeps to its layers.
LEMMA TwoLayersBehaves ==
  \A n \in Nat : Behaves("TwoLayers", n)
  <1> DEFINE m == "TwoLayers"
  <1>1. /\ Pattern[m].ids = <<0, 1>>
        /\ Pattern[m].flags = <<KeyFlag(GA, GA), Flag(A, LA)>>
        BY DEF Pattern
  <1>2. /\ Fits(m, 0, GA, GA)
        /\ Fits(m, 1, A, LA)
        BY DEF Fits, HeldBy, MayRefresh, MustRefresh, Slot, GA, A, LA, LG, L, G, None
  <1>3. TopLayer(m) = 1
        BY <1>1, LayerIds(m) = {0, 1}, TopIs DEF LayerIds
  <1> HIDE DEF m
  <1>4. SUFFICES ASSUME NEW n \in Nat PROVE Behaves(m, n)
        BY DEF m
  <1>5. n % 2 \in 0..1
        OBVIOUS
  <1> QED
        BY <1>1, <1>2, <1>3, <1>5, SMT DEF Behaves, Flag, KeyFlag

\* TwoLayersThreeFrame keeps to its layers.
LEMMA TwoLayersThreeFrameBehaves ==
  \A n \in Nat : Behaves("TwoLayersThreeFrame", n)
  <1> DEFINE m == "TwoLayersThreeFrame"
  <1>1. /\ Pattern[m].ids = <<0, 1, 1>>
        /\ Pattern[m].flags = <<KeyFlag(GA, GA), Flag(GA, LA), Flag(GA, LA)>>
        BY DEF Pattern
  <1>2. /\ Fits(m, 0, GA, GA)
        /\ Fits(m, 1, GA, LA)
        BY DEF Fits, HeldBy, MayRefresh, MustRefresh, Slot, GA, A, LA, LG, L, G, None
  <1>3. TopLayer(m) = 1
        BY <1>1, LayerIds(m) = {0, 1}, TopIs DEF LayerIds
  <1> HIDE DEF m
  <1>4. SUFFICES ASSUME NEW n \in Nat PROVE Behaves(m, n)
        BY DEF m
  <1>5. n % 3 \in 0..2
        OBVIOUS
  <1> QED
        BY <1>1, <1>2, <1>3, <1>5, SMT DEF Behaves, Flag, KeyFlag

\* ThreeLayersSixFrame keeps to its layers.
LEMMA ThreeLayersSixFrameBehaves ==
  \A n \in Nat : Behaves("ThreeLayersSixFrame", n)
  <1> DEFINE m == "ThreeLayersSixFrame"
  <1>1. /\ Pattern[m].ids = <<0, 2, 2, 1, 2, 2>>
        /\ Pattern[m].flags = <<KeyFlag(GA, GA), Flag(None, LG), Flag(None, LG),
                                Flag(A, LA), Flag(None, LG), Flag(None, LG)>>
        BY DEF Pattern
  <1>2. /\ Fits(m, 0, GA, GA)
        /\ Fits(m, 2, None, LG)
        /\ Fits(m, 1, A, LA)
        BY DEF Fits, HeldBy, MayRefresh, MustRefresh, Slot, GA, A, LA, LG, L, G, None
  <1>3. TopLayer(m) = 2
    <2>1. LayerIds(m) = {0, 1, 2}
          BY <1>1 DEF LayerIds
    <2> QED
        BY <2>1, TopIs
  <1> HIDE DEF m
  <1>4. SUFFICES ASSUME NEW n \in Nat PROVE Behaves(m, n)
        BY DEF m
  <1>5. n % 6 \in 0..5
        OBVIOUS
  <1> QED
        BY <1>1, <1>2, <1>3, <1>5, SMT DEF Behaves, Flag, KeyFlag

\* ThreeLayersNoInterLayerPrediction keeps to its layers.
LEMMA ThreeLayersNoInterLayerPredictionBehaves ==
  \A n \in Nat : Behaves("ThreeLayersNoInterLayerPrediction", n)
  <1> DEFINE m == "ThreeLayersNoInterLayerPrediction"
  <1>1. /\ Pattern[m].ids = <<0, 2, 1, 2>>
        /\ Pattern[m].flags = <<KeyFlag(GA, GA), Flag(A, Slot), Flag(GA, LA),
                                Flag(A, Slot)>>
        BY DEF Pattern, ThreeIds
  <1>2. /\ Fits(m, 0, GA, GA)
        /\ Fits(m, 2, A, Slot)
        /\ Fits(m, 1, GA, LA)
        BY DEF Fits, HeldBy, MayRefresh, MustRefresh, Slot, GA, A, LA, LG, L, G, None
  <1>3. TopLayer(m) = 2
        BY <1>1, LayerIds(m) = {0, 1, 2}, TopIs DEF LayerIds
  <1> HIDE DEF m
  <1>4. SUFFICES ASSUME NEW n \in Nat PROVE Behaves(m, n)
        BY DEF m
  <1>5. n % 4 \in 0..3
        OBVIOUS
  <1> QED
        BY <1>1, <1>2, <1>3, <1>5, SMT DEF Behaves, Flag, KeyFlag

\* ThreeLayersLayerOnePrediction keeps to its layers.
LEMMA ThreeLayersLayerOnePredictionBehaves ==
  \A n \in Nat : Behaves("ThreeLayersLayerOnePrediction", n)
  <1> DEFINE m == "ThreeLayersLayerOnePrediction"
  <1>1. /\ Pattern[m].ids = <<0, 2, 1, 2>>
        /\ Pattern[m].flags = <<KeyFlag(GA, GA), Flag(A, Slot), Flag(A, LA),
                                Flag(A, Slot)>>
        BY DEF Pattern, ThreeIds
  <1>2. /\ Fits(m, 0, GA, GA)
        /\ Fits(m, 2, A, Slot)
        /\ Fits(m, 1, A, LA)
        BY DEF Fits, HeldBy, MayRefresh, MustRefresh, Slot, GA, A, LA, LG, L, G, None
  <1>3. TopLayer(m) = 2
        BY <1>1, LayerIds(m) = {0, 1, 2}, TopIs DEF LayerIds
  <1> HIDE DEF m
  <1>4. SUFFICES ASSUME NEW n \in Nat PROVE Behaves(m, n)
        BY DEF m
  <1>5. n % 4 \in 0..3
        OBVIOUS
  <1> QED
        BY <1>1, <1>2, <1>3, <1>5, SMT DEF Behaves, Flag, KeyFlag

\* ThreeLayers keeps to its layers.
LEMMA ThreeLayersBehaves ==
  \A n \in Nat : Behaves("ThreeLayers", n)
  <1> DEFINE m == "ThreeLayers"
  <1>1. /\ Pattern[m].ids = <<0, 2, 1, 2>>
        /\ Pattern[m].flags = <<KeyFlag(GA, GA), Flag(None, LG), Flag(A, LA),
                                Flag(None, LG)>>
        BY DEF Pattern, ThreeIds
  <1>2. /\ Fits(m, 0, GA, GA)
        /\ Fits(m, 2, None, LG)
        /\ Fits(m, 1, A, LA)
        BY DEF Fits, HeldBy, MayRefresh, MustRefresh, Slot, GA, A, LA, LG, L, G, None
  <1>3. TopLayer(m) = 2
        BY <1>1, LayerIds(m) = {0, 1, 2}, TopIs DEF LayerIds
  <1> HIDE DEF m
  <1>4. SUFFICES ASSUME NEW n \in Nat PROVE Behaves(m, n)
        BY DEF m
  <1>5. n % 4 \in 0..3
        OBVIOUS
  <1> QED
        BY <1>1, <1>2, <1>3, <1>5, SMT DEF Behaves, Flag, KeyFlag

\* FiveLayers keeps to its layers.
LEMMA FiveLayersBehaves ==
  \A n \in Nat : Behaves("FiveLayers", n)
  <1> DEFINE m == "FiveLayers"
  <1>1. /\ Pattern[m].ids = <<0, 4, 3, 4, 2, 4, 3, 4, 1, 4, 3, 4, 2, 4, 3, 4>>
        /\ Pattern[m].flags = <<KeyFlag(None, None), Flag(None, Slot),
                                Flag(None, GA), Flag(None, Slot), Flag(L, A),
                                Flag(None, Slot), Flag(None, GA),
                                Flag(None, Slot), Flag(LG, None),
                                Flag(None, Slot), Flag(None, GA),
                                Flag(None, Slot), Flag(L, A), Flag(None, Slot),
                                Flag(None, GA), Flag(None, Slot)>>
        BY DEF Pattern
  <1>2. /\ Fits(m, 4, None, Slot)
        /\ Fits(m, 3, None, GA)
        /\ Fits(m, 2, L, A)
        /\ Fits(m, 1, LG, None)
        BY DEF Fits, HeldBy, MayRefresh, MustRefresh, Slot, GA, A, LA, LG, L, G, None
  <1>3. TopLayer(m) = 4
        BY <1>1, LayerIds(m) = {0, 1, 2, 3, 4}, TopIs DEF LayerIds
  <1> HIDE DEF m
  <1>4. SUFFICES ASSUME NEW n \in Nat PROVE Behaves(m, n)
        BY DEF m
  <1>5. n % 16 \in 0..15
        OBVIOUS
  <1> QED
        BY <1>1, <1>2, <1>3, <1>5, SMT DEF Behaves, Flag, KeyFlag, m

\* TwoLayersWithSync keeps to its layers.
LEMMA TwoLayersWithSyncBehaves ==
  \A n \in Nat : Behaves("TwoLayersWithSync", n)
  <1> DEFINE m == "TwoLayersWithSync"
  <1>1. /\ Pattern[m].ids = <<0, 1>>
        /\ Pattern[m].flags = <<KeyFlag(G, A), Flag(G, LA), Flag(G, GA),
                                Flag(None, LA), Flag(G, GA), Flag(None, LA),
                                Flag(G, GA), Flag(None, LA)>>
        BY DEF Pattern
  <1>2. /\ Fits(m, 0, G, A)
        /\ Fits(m, 1, G, LA)
        /\ Fits(m, 0, G, GA)
        /\ Fits(m, 1, None, LA)
        BY DEF Fits, HeldBy, MayRefresh, MustRefresh, Slot, GA, A, LA, LG, L, G, None
  <1>3. TopLayer(m) = 1
        BY <1>1, LayerIds(m) = {0, 1}, TopIs DEF LayerIds
  <1> HIDE DEF m
  <1>4. SUFFICES ASSUME NEW n \in Nat PROVE Behaves(m, n)
        BY DEF m
  <1>5. \/ n % 2 = 0 /\ n % 8 \in {0, 2, 4, 6}
        \/ n % 2 = 1 /\ n % 8 \in {1, 3, 5, 7}
        OBVIOUS
  <1> QED
        BY <1>1, <1>2, <1>3, <1>5, SMT DEF Behaves, Flag, KeyFlag

\* ThreeLayersWithSync keeps to its layers.
LEMMA ThreeLayersWithSyncBehaves ==
  \A n \in Nat : Behaves("ThreeLayersWithSync", n)
  <1> DEFINE m == "ThreeLayersWithSync"
  <1>1. /\ Pattern[m].ids = <<0, 2, 1, 2>>
        /\ Pattern[m].flags = <<KeyFlag(GA, GA), Flag(GA, LG), Flag(GA, LA),
                                Flag(None, LG), Flag(GA, GA), Flag(None, LG),
                                Flag(A, LA), Flag(None, Slot)>>
        BY DEF Pattern, ThreeIds
  <1>2. /\ Fits(m, 0, GA, GA)
        /\ Fits(m, 2, GA, LG)
        /\ Fits(m, 1, GA, LA)
        /\ Fits(m, 2, None, LG)
        /\ Fits(m, 1, A, LA)
        /\ Fits(m, 2, None, Slot)
        BY DEF Fits, HeldBy, MayRefresh, MustRefresh, Slot, GA, A, LA, LG, L, G, None
  <1>3. TopLayer(m) = 2
        BY <1>1, LayerIds(m) = {0, 1, 2}, TopIs DEF LayerIds
  <1> HIDE DEF m
  <1>4. SUFFICES ASSUME NEW n \in Nat PROVE Behaves(m, n)
        BY DEF m
  <1>5. \/ n % 4 = 0 /\ n % 8 \in {0, 4}
        \/ n % 4 = 1 /\ n % 8 \in {1, 5}
        \/ n % 4 = 2 /\ n % 8 \in {2, 6}
        \/ n % 4 = 3 /\ n % 8 \in {3, 7}
        OBVIOUS
  <1> QED
        BY <1>1, <1>2, <1>3, <1>5, SMT DEF Behaves, Flag, KeyFlag

\* ThreeLayersAltRefWithSync keeps to its layers.
LEMMA ThreeLayersAltRefWithSyncBehaves ==
  \A n \in Nat : Behaves("ThreeLayersAltRefWithSync", n)
  <1> DEFINE m == "ThreeLayersAltRefWithSync"
  <1>1. /\ Pattern[m].ids = <<0, 2, 1, 2>>
        /\ Pattern[m].flags = <<KeyFlag(G, A), Flag(G, Slot), Flag(G, LA),
                                Flag(None, Slot), Flag(G, GA), Flag(None, Slot),
                                Flag(None, LA), Flag(None, Slot)>>
        BY DEF Pattern, ThreeIds
  <1>2. /\ Fits(m, 0, G, A)
        /\ Fits(m, 2, G, Slot)
        /\ Fits(m, 1, G, LA)
        /\ Fits(m, 2, None, Slot)
        /\ Fits(m, 0, G, GA)
        /\ Fits(m, 1, None, LA)
        BY DEF Fits, HeldBy, MayRefresh, MustRefresh, Slot, GA, A, LA, LG, L, G, None
  <1>3. TopLayer(m) = 2
        BY <1>1, LayerIds(m) = {0, 1, 2}, TopIs DEF LayerIds
  <1> HIDE DEF m
  <1>4. SUFFICES ASSUME NEW n \in Nat PROVE Behaves(m, n)
        BY DEF m
  <1>5. \/ n % 4 = 0 /\ n % 8 \in {0, 4}
        \/ n % 4 = 1 /\ n % 8 \in {1, 5}
        \/ n % 4 = 2 /\ n % 8 \in {2, 6}
        \/ n % 4 = 3 /\ n % 8 \in {3, 7}
        OBVIOUS
  <1> QED
        BY <1>1, <1>2, <1>3, <1>5, SMT DEF Behaves, Flag, KeyFlag

\* ThreeLayersOneReference keeps to its layers.
LEMMA ThreeLayersOneReferenceBehaves ==
  \A n \in Nat : Behaves("ThreeLayersOneReference", n)
  <1> DEFINE m == "ThreeLayersOneReference"
  <1>1. /\ Pattern[m].ids = <<0, 2, 1, 2>>
        /\ Pattern[m].flags = <<Flag(GA, GA), Flag(GA, LG), Flag(GA, LA),
                                Flag(LA, LG)>>
        BY DEF Pattern, ThreeIds
  <1>2. /\ Fits(m, 0, GA, GA)
        /\ Fits(m, 2, GA, LG)
        /\ Fits(m, 1, GA, LA)
        /\ Fits(m, 2, LA, LG)
        BY DEF Fits, HeldBy, MayRefresh, MustRefresh, Slot, GA, A, LA, LG, L, G, None
  <1>3. TopLayer(m) = 2
        BY <1>1, LayerIds(m) = {0, 1, 2}, TopIs DEF LayerIds
  <1> HIDE DEF m
  <1>4. SUFFICES ASSUME NEW n \in Nat PROVE Behaves(m, n)
        BY DEF m
  <1>5. n % 4 \in 0..3
        OBVIOUS
  <1> QED
        BY <1>1, <1>2, <1>3, <1>5, SMT DEF Behaves, Flag, KeyFlag

\* ThreeLayersNoSync keeps to its layers.
LEMMA ThreeLayersNoSyncBehaves ==
  \A n \in Nat : Behaves("ThreeLayersNoSync", n)
  <1> DEFINE m == "ThreeLayersNoSync"
  <1>1. /\ Pattern[m].ids = <<0, 2, 1, 2>>
        /\ Pattern[m].flags = <<Flag(G, GA), Flag(None, Slot), Flag(None, LA),
                                Flag(None, Slot), Flag(G, GA), Flag(None, Slot),
                                Flag(None, LA), Flag(None, Slot)>>
        BY DEF Pattern, ThreeIds
  <1>2. /\ Fits(m, 0, G, GA)
        /\ Fits(m, 2, None, Slot)
        /\ Fits(m, 1, None, LA)
        BY DEF Fits, HeldBy, MayRefresh, MustRefresh, Slot, GA, A, LA, LG, L, G, None
  <1>3. TopLayer(m) = 2
        BY <1>1, LayerIds(m) = {0, 1, 2}, TopIs DEF LayerIds
  <1> HIDE DEF m
  <1>4. SUFFICES ASSUME NEW n \in Nat PROVE Behaves(m, n)
        BY DEF m
  <1>5. \/ n % 4 = 0 /\ n % 8 \in {0, 4}
        \/ n % 4 = 1 /\ n % 8 \in {1, 5}
        \/ n % 4 = 2 /\ n % 8 \in {2, 6}
        \/ n % 4 = 3 /\ n % 8 \in {3, 7}
        OBVIOUS
  <1> QED
        BY <1>1, <1>2, <1>3, <1>5, SMT DEF Behaves, Flag, KeyFlag

\* The patterns there are (TemporalLayeringMode).
LEMMA ModesAre ==
  Modes = {"Disabled", "OneLayer", "TwoLayers", "TwoLayersThreeFrame",
           "ThreeLayersSixFrame", "ThreeLayersNoInterLayerPrediction",
           "ThreeLayersLayerOnePrediction", "ThreeLayers", "FiveLayers",
           "TwoLayersWithSync", "ThreeLayersWithSync",
           "ThreeLayersAltRefWithSync", "ThreeLayersOneReference",
           "ThreeLayersNoSync"}
  BY DEF Modes, Pattern

\* Every pattern of temporalLayeringPattern keeps to its layers, at every
\* position of its period.
LEMMA PatternsBehave ==
  ASSUME NEW mode \in Modes, NEW n \in Nat
  PROVE  Behaves(mode, n)
  BY ModesAre, DisabledBehaves, OneLayerBehaves, TwoLayersBehaves,
     TwoLayersThreeFrameBehaves, ThreeLayersSixFrameBehaves,
     ThreeLayersNoInterLayerPredictionBehaves,
     ThreeLayersLayerOnePredictionBehaves, ThreeLayersBehaves,
     FiveLayersBehaves, TwoLayersWithSyncBehaves, ThreeLayersWithSyncBehaves,
     ThreeLayersAltRefWithSyncBehaves, ThreeLayersOneReferenceBehaves,
     ThreeLayersNoSyncBehaves

\* Where FiveLayers puts its one frame of layer 1, and where it asks for a key
\* frame.
LEMMA FiveLayersPlaces ==
  ASSUME NEW n \in Nat
  PROVE  LET p == Pattern["FiveLayers"]
         IN /\ p.ids[(n % Len(p.ids)) + 1] = 1 => n % 16 = 8
            /\ n = 16 => p.flags[(n % Len(p.flags)) + 1].key
  <1> DEFINE p == Pattern["FiveLayers"]
  <1>1. p.ids = <<0, 4, 3, 4, 2, 4, 3, 4, 1, 4, 3, 4, 2, 4, 3, 4>>
        BY DEF Pattern
  <1>2. Len(p.flags) = 16 /\ p.flags[1].key = TRUE
        BY DEF Pattern, KeyFlag
  <1> HIDE DEF p
  <1>3. n % 16 \in 0..15
        OBVIOUS
  <1>4. p.ids[(n % Len(p.ids)) + 1] = 1 => n % 16 = 8
        BY <1>1, <1>3
  <1>5. n = 16 => p.flags[(n % Len(p.flags)) + 1].key
        BY <1>2
  <1> QED
      BY <1>4, <1>5 DEF p

\* Only the patterns with one layer have a single layer, so the encoder counts
\* the base layer frames of every other.
LEMMA DisabledHasOneLayer == TopLayer("Disabled") = 0
  <1>1. LayerIds("Disabled") = {0}
        BY DEF LayerIds, Pattern
  <1> QED
      BY <1>1, TopIs


\* The shape of temporalState.
IsTemporal(x) ==
  /\ DOMAIN x = {"mode", "frameIndex", "tl0", "tl0Valid", "refLayer"}
  /\ x.mode \in Modes /\ x.frameIndex \in Nat /\ x.tl0 \in Int
  /\ x.refLayer \in [Slot -> Nat]

\* The temporal state is one the patterns lead to. In FiveLayers the golden
\* frame belongs to layer 1 only behind the one frame that puts it there, and
\* the key frame that ends the period comes before that frame comes again.
PatternInv ==
  /\ IsTemporal(t)
  /\ \A s \in Slot : t.refLayer[s] \in HeldBy(t.mode, s)
  /\ frames # 0 => t.tl0Valid
  /\ t.mode = "FiveLayers" =>
       /\ frames # 0 => t.frameIndex \in 1..16
       /\ t.refLayer["golden"] = 1 => t.frameIndex >= 9

\* The forwarder lets the access unit in hand through to the second receiver.
Passes == au.layer <= level \/ (au.sync /\ au.layer = level + 1)

\* The second receiver holds what the encoder holds, up to its level.
ThinInv ==
  /\ level \in Nat
  /\ ~Coded /\ ~pk.key =>
       \A s \in Slot : t.refLayer[s] <= level => thinRef[s] = encRef[s]
  /\ Coded => au.layer \in Nat
  /\ Coded /\ au.key => au.layer = 0
  /\ Coded /\ ~au.key /\ (stage = "packed" \/ ~pk.key) =>
       /\ \A s \in Slot \ au.refresh : t.refLayer[s] <= level => thinRef[s] = encRef[s]
       /\ \A s \in Slot \cap au.refresh : t.refLayer[s] = au.layer
       /\ Passes => \A s \in au.refs : thinRef[s] = au.used[s]
       /\ au.sync => \A s \in Slot \ au.refresh : t.refLayer[s] # au.layer

\* The TL0PICIDX of the access unit in hand continues the receiver's count.
Continues(tl0) == tl0 = IF au.layer = 0 THEN (rxTl0 + 1) % Tl0Mod ELSE rxTl0

\* With one layer the packetizer counts the frames.
PacketizerCounts ==
  /\ stage # "packed" /\ ~pk.key /\ ~(Coded /\ au.key) /\ frames # 0 =>
       pk.tl0 = (rxTl0 + 1) % Tl0Mod
  /\ stage = "packed" => pk.tl0 = (desc.tl0 + 1) % Tl0Mod
  /\ stage = "packed" /\ ~au.key => desc.tl0 = (rxTl0 + 1) % Tl0Mod
  /\ Coded => au.layer = 0

\* With more layers the encoder counts the base layer frames.
EncoderCounts ==
  /\ ~Coded /\ ~pk.key /\ frames # 0 => rxTl0 = t.tl0
  /\ Coded => t.tl0 = au.tl0 /\ (au.key => au.layer = 0)
  /\ Coded /\ ~au.key /\ (stage = "packed" \/ ~pk.key) => Continues(au.tl0)
  /\ stage = "packed" => desc.tl0 = au.tl0

CountInv == ~flexible => IF Layers = 1 THEN PacketizerCounts ELSE EncoderCounts

\* The packetizer knows the picture ids of ref.
Knows(ref) == \A s \in pk.valid : pk.refId[s] = IdOf(ref[s])

\* Whose picture ids the packetizer knows.
RefIdInv ==
  /\ pk.valid \subseteq Slot /\ pk.refId \in [Slot -> Ids]
  /\ Coded => au.refresh \subseteq Slot
  /\ ~Coded /\ ~pk.key => Knows(encRef)
  /\ Coded /\ stage # "packed" /\ ~pk.key => Knows(au.used)
  /\ stage = "packed" => Knows(encRef)
  /\ Inter /\ flexible =>
       {(desc.id - d) % IdMod : d \in desc.diffs} = {IdOf(au.used[s]) : s \in au.refs}

\* What the encoder is told about a frame that is not a key frame: it refers
\* only to references of its own layer or below, and if it is a switching point,
\* no reference it leaves alone belongs to its layer.
LEMMA InterMeta ==
  ASSUME PatternInv, ~KeyFrameNext(NextFrame(t)),
         NEW refresh \in Refreshes(NextFrame(t))
  PROVE  /\ frames # 0
         /\ NextFrame(t).layer \in 0..TopLayer(t.mode) /\ TopLayer(t.mode) \in Nat
         /\ refresh \subseteq Slot
         /\ \A s \in refresh : NextFrame(t).layer \in HeldBy(t.mode, s)
         /\ \A s \in Referenced(NextFrame(t)) :
              s \in Slot /\ t.refLayer[s] <= NextFrame(t).layer
         /\ NextFrame(t).sync => \A s \in Slot \ refresh :
              t.refLayer[s] # NextFrame(t).layer
         /\ t.mode = "FiveLayers" =>
              t.frameIndex <= 15 /\ (NextFrame(t).layer = 1 => t.frameIndex = 8)
  <1> DEFINE mode == t.mode
             n == t.frameIndex
             p == Pattern[mode]
             layer == p.ids[(n % Len(p.ids)) + 1]
             flag == p.flags[(n % Len(p.flags)) + 1]
             meta == NextFrame(t)
  <1>1. mode \in Modes /\ n \in Nat /\ t.refLayer \in [Slot -> Nat]
        BY DEF PatternInv, IsTemporal
  <1>2. /\ meta.layer = layer /\ meta.noRef = flag.noRef /\ meta.noUpd = flag.noUpd
        /\ meta.key = (flag.key /\ (mode = "FiveLayers" \/ n = 0))
        /\ meta.sync = LayerSync(t, layer, flag.noRef)
        BY DEF NextFrame
  <1>3. frames # 0 /\ ~meta.key
        BY DEF KeyFrameNext
  <1>4. Behaves(mode, n)
        BY <1>1, PatternsBehave
  <1>5. mode = "FiveLayers" => n <= 15 /\ (layer = 1 => n = 8)
    <2> SUFFICES ASSUME mode = "FiveLayers" PROVE n <= 15 /\ (layer = 1 => n = 8)
        OBVIOUS
    <2>1. n \in 1..16
          BY <1>3 DEF PatternInv
    <2>2. n # 16
          BY <1>1, <1>2, <1>3, FiveLayersPlaces
    <2>3. layer = 1 => n % 16 = 8
          BY <1>1, FiveLayersPlaces
    <2> HIDE DEF layer, n
    <2> QED
        BY <2>1, <2>2, <2>3
  <1> HIDE DEF layer, flag, p
  <1>6. /\ TopLayer(mode) \in Nat /\ layer \in 0..TopLayer(mode)
        /\ Fits(mode, layer, flag.noRef, flag.noUpd)
        BY <1>2, <1>3, <1>4 DEF Behaves, layer, flag, p
  <1>7. /\ refresh \subseteq MayRefresh(flag.noUpd)
        /\ MustRefresh(flag.noUpd) \subseteq refresh
        /\ refresh \subseteq Slot
        BY <1>2 DEF Refreshes, MayRefresh, MustRefresh, Slot, L, LG, G
  <1>8. Referenced(meta) \subseteq Slot \ flag.noRef
        BY <1>2 DEF Referenced
  <1>9. \A s \in Slot : t.refLayer[s] \in HeldBy(mode, s)
        BY DEF PatternInv
  <1>10. \A s \in refresh : layer \in HeldBy(mode, s)
        BY <1>6, <1>7 DEF Fits
  <1>11. \A s \in Referenced(meta) : s \in Slot /\ t.refLayer[s] <= layer
        BY <1>6, <1>8, <1>9 DEF Fits
  <1>12. ASSUME meta.sync, NEW s \in Slot \ refresh
         PROVE  t.refLayer[s] # layer
    <2>1. layer > 0 /\ \A r \in Slot \ flag.noRef : t.refLayer[r] < layer
          BY <1>2, <1>12 DEF LayerSync
    <2>2. CASE s \notin flag.noRef
          BY <2>1, <2>2, <1>1, <1>6, <1>12
    <2>3. CASE s \in flag.noRef
      <3>1. \/ layer \notin HeldBy(mode, s)
            \/ mode = "FiveLayers" /\ s = "golden" /\ layer = 1
            BY <2>1, <2>3, <1>6, <1>7, <1>12 DEF Fits
      <3>2. CASE layer \notin HeldBy(mode, s)
            BY <3>2, <1>9, <1>12
      <3>3. CASE mode = "FiveLayers" /\ s = "golden" /\ layer = 1
        <4>1. t.refLayer["golden"] = 1 => n >= 9
              BY <3>3 DEF PatternInv
        <4>2. n = 8
              BY <3>3, <1>5
        <4> HIDE DEF n
        <4> QED
            BY <4>1, <4>2, <3>3
      <3> QED
          BY <3>1, <3>2, <3>3
    <2> QED
        BY <2>2, <2>3
  <1> QED
      BY <1>2, <1>3, <1>5, <1>6, <1>7, <1>10, <1>11, <1>12

\* The temporal state starts as the patterns expect it.
LEMMA PatternInit == Init => PatternInv
  <1> SUFFICES ASSUME Init PROVE PatternInv
      OBVIOUS
  <1>1. PICK m \in StreamModes : t = Configured(m)
        BY DEF Init
  <1>2. m \in Modes /\ frames = 0
        BY BoundsAssumption DEF Init
  <1>3. /\ t = [mode |-> m, frameIndex |-> 0, tl0 |-> 0, tl0Valid |-> FALSE,
               refLayer |-> [s \in Slot |-> 0]]
        /\ t.refLayer = [s \in Slot |-> 0]
        BY <1>1 DEF Configured
  <1>4. \A s \in Slot : 0 \in HeldBy(t.mode, s)
        BY DEF HeldBy
  <1>5. "golden" \in Slot
        BY DEF Slot
  <1> QED
      BY <1>2, <1>3, <1>4, <1>5 DEF PatternInv, IsTemporal

\* What finishFrame leaves behind a frame that is not a key frame.
LEMMA FinishInter ==
  ASSUME PatternInv, NEW refresh, NextFrame(t).layer \in Nat
  PROVE  LET r == FinishFrame(t, NextFrame(t), FALSE, refresh)
         IN /\ IsTemporal(r)
            /\ r.mode = t.mode /\ r.frameIndex = t.frameIndex + 1
            /\ r.tl0 = IF NextFrame(t).layer = 0 THEN NextTl0(t) ELSE t.tl0
            /\ t.tl0Valid => r.tl0Valid
            /\ r.refLayer = [s \in Slot |-> IF s \in refresh THEN NextFrame(t).layer
                                                            ELSE t.refLayer[s]]
  <1> DEFINE meta == NextFrame(t)
             l == [s \in Slot |-> IF s \in refresh THEN meta.layer ELSE t.refLayer[s]]
             c == IF meta.layer = 0 THEN NextTl0(t) ELSE t.tl0
             v == t.tl0Valid \/ meta.layer = 0
             r == FinishFrame(t, meta, FALSE, refresh)
  <1>1. IsTemporal(t)
        BY DEF PatternInv
  <1>2. meta.layer = 0 => meta.tl0 = NextTl0(t)
        BY DEF NextFrame
  <1>3. l \in [Slot -> Nat] /\ c \in Int /\ (t.tl0Valid => v)
        BY <1>1 DEF IsTemporal, NextTl0, Tl0Mod
  <1>4. r = [t EXCEPT !.refLayer = l, !.tl0 = c, !.tl0Valid = v,
                      !.frameIndex = t.frameIndex + 1]
        BY <1>1, <1>2 DEF IsTemporal, FinishFrame
  <1> HIDE DEF l, c, v, meta, r
  <1>5. /\ IsTemporal(r)
        /\ r.mode = t.mode /\ r.frameIndex = t.frameIndex + 1
        /\ r.tl0 = c /\ r.refLayer = l /\ (t.tl0Valid => r.tl0Valid)
        BY <1>1, <1>3, <1>4 DEF IsTemporal
  <1> QED
      BY <1>5 DEF l, c, meta, r

\* What finishFrame and restartAfterKeyFrame leave behind a key frame.
LEMMA FinishKey ==
  ASSUME PatternInv
  PROVE  LET r == RestartAfterKeyFrame(
                    FinishFrame(t, KeyFrameMeta(t, NextFrame(t)), TRUE, Slot))
         IN /\ IsTemporal(r)
            /\ r.mode = t.mode /\ r.frameIndex = 1 /\ r.tl0 = NextTl0(t)
            /\ r.tl0Valid /\ r.refLayer = [s \in Slot |-> 0]
  <1> DEFINE key == KeyFrameMeta(t, NextFrame(t))
             l == [s \in Slot |-> 0]
             c == NextTl0(t)
             q == FinishFrame(t, key, TRUE, Slot)
             r == RestartAfterKeyFrame(q)
  <1>1. IsTemporal(t)
        BY DEF PatternInv
  <1>2. key.layer = 0 /\ key.tl0 = c
        BY DEF KeyFrameMeta, NextFrame
  <1>3. l \in [Slot -> Nat] /\ c \in Int
        BY <1>1 DEF IsTemporal, NextTl0, Tl0Mod
  <1> HIDE DEF key
  <1>4. q = [t EXCEPT !.refLayer = l, !.tl0 = c, !.tl0Valid = TRUE,
                      !.frameIndex = t.frameIndex + 1]
        BY <1>1, <1>2 DEF IsTemporal, FinishFrame
  <1>5. r = [q EXCEPT !.frameIndex = 1]
        BY DEF RestartAfterKeyFrame
  <1> HIDE DEF l, c, q, r
  <1>6. /\ IsTemporal(r) /\ r.mode = t.mode /\ r.frameIndex = 1 /\ r.tl0 = c
        /\ r.tl0Valid /\ r.refLayer = l
        BY <1>1, <1>3, <1>4, <1>5 DEF IsTemporal
  <1> QED
      BY <1>6 DEF l, c, key, q, r

\* Coding or dropping a frame leads to a state the patterns expect.
LEMMA PatternEncode ==
  ASSUME PatternInv, frames \in Nat, EncodeDropped \/ EncodeInter \/ EncodeKey
  PROVE  PatternInv'
  <1> DEFINE meta == NextFrame(t)
  <1>1. IsTemporal(t) /\ (\A s \in Slot : t.refLayer[s] \in HeldBy(t.mode, s))
        BY DEF PatternInv
  <1>2. "golden" \in Slot
        BY DEF Slot
  <1>3. IsTemporal(t)' <=> IsTemporal(t')
        BY DEF IsTemporal
  <1>4. CASE EncodeDropped
    <2>1. ~KeyFrameNext(meta) /\ frames' = frames + 1 /\ t' = FinishDroppedFrame(t)
          BY <1>4 DEF EncodeDropped
    <2>2. PICK refresh : refresh \in Refreshes(meta)
          BY DEF Refreshes
    <2>3. frames # 0 /\ (t.mode = "FiveLayers" => t.frameIndex <= 15)
          BY <2>1, <2>2, InterMeta
    <2>4. /\ IsTemporal(t') /\ t'.mode = t.mode /\ t'.refLayer = t.refLayer
          /\ (t.tl0Valid => t'.tl0Valid) /\ t'.frameIndex = t.frameIndex + 1
          BY <1>1, <2>1 DEF FinishDroppedFrame, IsTemporal
    <2> QED
        BY <1>1, <1>3, <2>1, <2>3, <2>4 DEF PatternInv, IsTemporal
  <1>5. CASE EncodeInter
    <2>1. PICK refresh \in Refreshes(meta) : t' = FinishFrame(t, meta, FALSE, refresh)
          BY <1>5 DEF EncodeInter
    <2>2. ~KeyFrameNext(meta) /\ frames' = frames + 1
          BY <1>5 DEF EncodeInter
    <2>3. /\ frames # 0 /\ meta.layer \in Nat
          /\ \A s \in refresh : meta.layer \in HeldBy(t.mode, s)
          /\ t.mode = "FiveLayers" =>
               t.frameIndex <= 15 /\ (meta.layer = 1 => t.frameIndex = 8)
          BY <2>1, <2>2, InterMeta
    <2>4. /\ IsTemporal(t') /\ t'.mode = t.mode /\ t'.frameIndex = t.frameIndex + 1
          /\ t'.refLayer = [s \in Slot |-> IF s \in refresh THEN meta.layer
                                                            ELSE t.refLayer[s]]
          /\ t.tl0Valid => t'.tl0Valid
          BY <2>1, <2>3, FinishInter
    <2> HIDE DEF meta
    <2>5. \A s \in Slot : t'.refLayer[s] \in HeldBy(t'.mode, s)
          BY <1>1, <2>3, <2>4
    <2>6. t.frameIndex \in Nat
          BY <1>1 DEF IsTemporal
    <2>7. t'.mode = "FiveLayers" =>
            /\ t'.frameIndex \in 1..16
            /\ t'.refLayer["golden"] = 1 => t'.frameIndex >= 9
          BY <1>2, <2>3, <2>4, <2>6 DEF PatternInv
    <2> QED
        BY <1>3, <2>2, <2>3, <2>4, <2>5, <2>7 DEF PatternInv
  <1>6. CASE EncodeKey
    <2>1. /\ IsTemporal(t') /\ t'.mode = t.mode /\ t'.frameIndex = 1
          /\ t'.refLayer = [s \in Slot |-> 0] /\ t'.tl0Valid
          BY <1>6, FinishKey DEF EncodeKey
    <2>2. \A s \in Slot : 0 \in HeldBy(t.mode, s)
          BY DEF HeldBy
    <2> QED
        BY <1>2, <1>3, <2>1, <2>2 DEF PatternInv
  <1> QED
      BY <1>4, <1>5, <1>6

\* Every step preserves it.
LEMMA PatternNext ==
  ASSUME PatternInv, frames \in Nat, [Next]_vars
  PROVE  PatternInv'
  <1>1. CASE EncodeDropped \/ EncodeInter \/ EncodeKey
        BY <1>1, PatternEncode
  <1>2. CASE UNCHANGED <<t, frames>>
        BY <1>2 DEF PatternInv, IsTemporal
  <1>3. UNCHANGED <<t, frames>> \/ EncodeDropped \/ EncodeInter \/ EncodeKey
        BY DEF Next, vars, encoder, EncodeFails, RequestKeyFrame, HandDropped, Size,
               PacketizeFails, Packetize, Withhold, Send, Done
  <1> QED
      BY <1>1, <1>2, <1>3

\* Before the first frame nobody holds anything.
LEMMA ThinInit == Init => ThinInv
  <1> SUFFICES ASSUME Init PROVE ThinInv
      OBVIOUS
  <1>1. PICK m \in StreamModes : t = Configured(m)
        BY DEF Init
  <1>2. t.mode \in Modes /\ level = TopLayer(t.mode)
        BY <1>1, BoundsAssumption DEF Init, Configured
  <1>3. level \in Nat
        BY <1>2, 0 \in Nat, PatternsBehave DEF Behaves
  <1>4. stage = "idle" /\ thinRef = encRef
        BY DEF Init
  <1> QED
      BY <1>3, <1>4 DEF ThinInv, Coded

\* The encoder codes a frame or drops it.
LEMMA ThinEncode ==
  ASSUME Inv, PatternInv, ThinInv, frames \in Nat,
         EncodeDropped \/ EncodeInter \/ EncodeKey
  PROVE  ThinInv'
  <1> DEFINE meta == NextFrame(t)
  <1>1. /\ stage = "idle" /\ stage' = "encoded"
        /\ UNCHANGED <<pk, level, thinRef>>
        BY DEF EncodeDropped, EncodeInter, EncodeKey, Goto, receivers
  <1>2. level \in Nat
        BY DEF ThinInv
  <1>3. CASE EncodeDropped
    <2>1. au'.dropped /\ UNCHANGED encRef /\ t' = FinishDroppedFrame(t)
          BY <1>3 DEF EncodeDropped, NoAu
    <2>2. t'.refLayer = t.refLayer
          BY <2>1 DEF FinishDroppedFrame, PatternInv, IsTemporal
    <2> QED
        BY <1>1, <2>1, <2>2 DEF ThinInv, Coded
  <1>4. CASE EncodeInter
    <2>1. PICK refresh \in Refreshes(meta) :
            /\ t' = FinishFrame(t, meta, FALSE, refresh)
            /\ encRef' = [s \in Slot |-> IF s \in refresh THEN frames + 1
                                                          ELSE encRef[s]]
            /\ au' = [frame |-> frames + 1, dropped |-> FALSE, key |-> FALSE,
                      layer |-> meta.layer, sync |-> meta.sync, tl0 |-> meta.tl0,
                      refs |-> Referenced(meta), used |-> encRef, refresh |-> refresh]
          BY <1>4 DEF EncodeInter
    <2>2. ~KeyFrameNext(meta)
          BY <1>4 DEF EncodeInter
    <2>3. /\ meta.layer \in Nat
          /\ \A s \in Referenced(meta) : s \in Slot /\ t.refLayer[s] <= meta.layer
          /\ meta.sync => \A s \in Slot \ refresh : t.refLayer[s] # meta.layer
          BY <2>1, <2>2, InterMeta
    <2>4. t'.refLayer = [s \in Slot |-> IF s \in refresh THEN meta.layer
                                                         ELSE t.refLayer[s]]
          BY <2>1, <2>3, FinishInter
    <2>5. meta.sync => \A s \in Referenced(meta) : t.refLayer[s] < meta.layer
      <3>1. meta.sync = LayerSync(t, meta.layer, meta.noRef)
            BY DEF NextFrame
      <3>2. Referenced(meta) \subseteq Slot \ meta.noRef
            BY DEF Referenced
      <3> QED
          BY <3>1, <3>2 DEF LayerSync
    <2> HIDE DEF meta
    <2>6. /\ au'.layer = meta.layer /\ au'.sync = meta.sync /\ au'.refresh = refresh
          /\ au'.refs = Referenced(meta) /\ au'.used = encRef
          /\ au'.key = FALSE /\ au'.dropped = FALSE
          BY <2>1
    <2>7. \A s \in Slot : t.refLayer[s] \in Nat
          BY DEF PatternInv, IsTemporal
    <2>8. CASE pk.key
          BY <1>1, <1>2, <2>3, <2>6, <2>8 DEF ThinInv, Coded
    <2>9. CASE ~pk.key
      <3>1. \A s \in Slot : t.refLayer[s] <= level => thinRef[s] = encRef[s]
            BY <1>1, <2>9 DEF ThinInv, Coded
      <3>2. \A s \in Slot \ refresh : t'.refLayer[s] <= level => thinRef[s] = encRef'[s]
            BY <3>1, <2>1, <2>4
      <3>3. \A s \in Slot \cap refresh : t'.refLayer[s] = meta.layer
            BY <2>4
      <3>4. meta.sync => \A s \in Slot \ refresh : t'.refLayer[s] # meta.layer
            BY <2>3, <2>4
      <3>5. ASSUME meta.layer <= level \/ (meta.sync /\ meta.layer = level + 1),
                   NEW s \in Referenced(meta)
            PROVE  thinRef[s] = encRef[s]
            BY <1>2, <2>3, <2>5, <2>7, <3>1, <3>5
      <3>6. Passes' => \A s \in Referenced(meta) : thinRef[s] = encRef[s]
            BY <1>1, <2>6, <3>5 DEF Passes
      <3> QED
          BY <1>1, <1>2, <2>3, <2>6, <3>2, <3>3, <3>4, <3>6 DEF ThinInv, Coded
    <2> QED
        BY <2>8, <2>9
  <1>5. CASE EncodeKey
    <2>1. au'.key = TRUE /\ au'.layer = 0 /\ au'.dropped = FALSE
          BY <1>5 DEF EncodeKey, KeyFrameMeta, NextFrame
    <2> QED
        BY <1>1, <1>2, <2>1 DEF ThinInv, Coded
  <1> QED
      BY <1>3, <1>4, <1>5

\* An access unit that ends before it is sent, and one on its way.
LEMMA ThinMoves ==
  ASSUME Inv, ThinInv, HandDropped \/ PacketizeFails \/ Withhold \/ Size \/ Packetize
  PROVE  ThinInv'
  <1>1. UNCHANGED <<t, encRef, level, thinRef>> /\ level \in Nat
        BY DEF HandDropped, PacketizeFails, Withhold, Size, Packetize, encoder,
               receivers, ThinInv
  <1>2. CASE HandDropped
    <2>1. /\ stage = "encoded" /\ au.dropped
          /\ pk' = ConsumeDropped(pk, au)
          /\ stage' = "idle" \/ UNCHANGED <<stage, au>>
          BY <1>2 DEF HandDropped
    <2>2. pk.key => pk'.key
          BY <2>1 DEF ConsumeDropped, Inv, ShapeInv, DroppedNeedsKeyFrame
    <2>3. ~Coded /\ ~Coded'
          BY <2>1 DEF Coded
    <2> QED
        BY <1>1, <2>2, <2>3 DEF ThinInv
  <1>3. CASE PacketizeFails \/ Withhold
    <2>1. /\ stage' = "idle"
          /\ pk' = EncodedUnsent(pk) \/ pk' = Unsent(pk)
          BY <1>3 DEF PacketizeFails, GiveUp, Withhold, Goto
    <2>2. pk'.key = TRUE
          BY <2>1 DEF Inv, ShapeInv, EncodedUnsent, Unsent
    <2> QED
        BY <1>1, <2>1, <2>2 DEF ThinInv, Coded
  <1>4. CASE Size
    <2>1. /\ stage = "encoded" /\ stage' = "sized" /\ ~au.dropped
          /\ UNCHANGED au /\ pk' = [pk EXCEPT !.drop = NoAu]
          BY <1>4 DEF Size, Goto
    <2>2. pk'.key = pk.key
          BY <2>1 DEF Inv, ShapeInv
    <2> QED
        BY <1>1, <2>1, <2>2 DEF ThinInv, Coded, Passes
  <1>5. CASE Packetize
    <2>1. /\ stage = "sized" /\ stage' = "packed" /\ UNCHANGED au
          /\ Admissible(pk, au)
          BY <1>5 DEF Packetize, Goto
    <2>2. au.key \/ ~pk.key
          BY <2>1 DEF Admissible
    <2> QED
        BY <1>1, <2>1, <2>2 DEF ThinInv, Coded, Passes, Inv, ShapeInv
  <1> QED
      BY <1>2, <1>3, <1>4, <1>5

\* The second receiver gets an access unit, or the forwarder keeps it back.
LEMMA ThinSend ==
  ASSUME Inv, PatternInv, ThinInv, Send
  PROVE  ThinInv'
  <1>1. /\ stage = "packed" /\ stage' = "idle" /\ UNCHANGED <<t, encRef, pk>>
        /\ level' \in NextLevels
        /\ thinRef' = IF au.layer <= level' THEN Store(thinRef) ELSE thinRef
        BY DEF Send, Goto, encoder
  <1>2. Coded /\ level \in Nat /\ au.layer \in Nat
        BY <1>1 DEF Coded, Inv, ShapeInv, ThinInv
  <1>3. TopLayer(t.mode) \in Nat
        BY 0 \in Nat, PatternsBehave DEF Behaves, PatternInv, IsTemporal
  <1>4. level' \in Nat
        BY <1>1, <1>2, <1>3 DEF NextLevels
  <1>5. encRef = Store(au.used)
        BY <1>2 DEF Inv, LagInv
  <1>6. \A s \in Slot \cap au.refresh : encRef[s] = au.frame
        BY <1>5 DEF Store
  <1>7. \A s \in Slot : t.refLayer[s] \in Nat
        BY DEF PatternInv, IsTemporal
  <1>8. ASSUME NEW s \in Slot, t.refLayer[s] <= level'
        PROVE  thinRef'[s] = encRef[s]
    <2>1. CASE au.key
      <3>1. au.refresh = Slot /\ au.layer = 0
            BY <1>2, <2>1 DEF Inv, LagInv, ThinInv
      <3>2. thinRef' = Store(thinRef)
            BY <1>1, <1>4, <3>1
      <3> QED
          BY <1>6, <3>1, <3>2 DEF Store
    <2>2. CASE ~au.key
      <3>1. /\ \A r \in Slot \ au.refresh :
                 t.refLayer[r] <= level => thinRef[r] = encRef[r]
            /\ \A r \in Slot \cap au.refresh : t.refLayer[r] = au.layer
            /\ au.sync => \A r \in Slot \ au.refresh : t.refLayer[r] # au.layer
            BY <1>1, <1>2, <2>2 DEF ThinInv
      <3>2. level' <= level \/ (au.sync /\ au.layer = level + 1 /\ level' = au.layer)
            BY <1>1, <1>2, <2>2 DEF NextLevels
      <3>3. CASE s \in au.refresh
            BY <1>1, <1>6, <1>8, <3>1, <3>3 DEF Store
      <3>4. CASE s \notin au.refresh
        <4>1. thinRef'[s] = thinRef[s]
              BY <1>1, <3>4 DEF Store
        <4>2. t.refLayer[s] <= level
              BY <1>2, <1>4, <1>7, <1>8, <3>1, <3>2, <3>4
        <4> QED
            BY <3>1, <3>4, <4>1, <4>2
      <3> QED
          BY <3>3, <3>4
    <2> QED
        BY <2>1, <2>2
  <1> QED
      BY <1>1, <1>4, <1>8 DEF ThinInv, Coded

\* Every step preserves it.
LEMMA ThinNext ==
  ASSUME Inv, PatternInv, ThinInv, frames \in Nat, [Next]_vars
  PROVE  ThinInv'
  <1>1. CASE EncodeDropped \/ EncodeInter \/ EncodeKey
        BY <1>1, ThinEncode
  <1>2. CASE HandDropped \/ PacketizeFails \/ Withhold \/ Size \/ Packetize
        BY <1>2, ThinMoves
  <1>3. CASE Send
        BY <1>3, ThinSend
  <1>4. CASE EncodeFails \/ RequestKeyFrame \/ Done \/ UNCHANGED vars
    <2>1. UNCHANGED <<t, stage, pk, au, encRef, level, thinRef>>
          BY <1>4 DEF EncodeFails, RequestKeyFrame, Done, vars, encoder, receivers
    <2> QED
        BY <2>1 DEF ThinInv, Coded, Passes
  <1> QED
      BY <1>1, <1>2, <1>3, <1>4 DEF Next

\* A receiver that gets only the lower temporal layers, and goes up at switching
\* points, can decode every frame it gets, in every pattern of temporal.go, at
\* every position of it, and whatever is dropped or withheld on the way.
THEOREM LayersStayDecodable == Spec => []LayersDecodable
  <1>1. Inv /\ ThinInv => LayersDecodable
    <2> SUFFICES ASSUME Inv, ThinInv, Inter, Passes
                 PROVE  \A s \in au.refs : thinRef[s] = au.used[s]
        BY DEF LayersDecodable, Passes
    <2>1. Coded /\ ~au.key /\ stage = "packed"
          BY DEF Inter, Coded, Inv, ShapeInv
    <2> QED
        BY <2>1 DEF ThinInv
  <1>2. IdInv => frames \in Nat
        BY DEF IdInv
  <1>3. Spec => [](Inv /\ IdInv /\ PatternInv /\ ThinInv)
        BY <1>2, InvInit, InvNext, IdInit, IdNext, PatternInit, PatternNext, ThinInit,
           ThinNext, PTL DEF Spec
  <1> QED
      BY <1>1, <1>3, PTL

\* No access unit, no picture id and no count before the first frame.
LEMMA CountInit == Init => CountInv
  BY DEF Init, CountInv, PacketizerCounts, EncoderCounts, Coded

\* The mode of the stream, and so the number of its layers, never changes.
LEMMA SameLayers ==
  ASSUME PatternInv, [Next]_vars
  PROVE  t'.mode = t.mode /\ Layers' = Layers /\ flexible' = flexible
  <1>1. flexible' = flexible
        BY DEF Next, vars, options, EncodeDropped, EncodeInter, EncodeKey, EncodeFails,
               RequestKeyFrame, HandDropped, Size, PacketizeFails, Packetize, Withhold,
               Send, Done
  <1>2. t'.mode = t.mode
    <2>1. CASE EncodeDropped
          BY <2>1 DEF EncodeDropped, FinishDroppedFrame, PatternInv, IsTemporal
    <2>2. CASE EncodeInter
      <3>1. PICK refresh \in Refreshes(NextFrame(t)) :
              t' = FinishFrame(t, NextFrame(t), FALSE, refresh)
            BY <2>2 DEF EncodeInter
      <3>2. NextFrame(t).layer \in Nat
            BY <2>2, <3>1, InterMeta DEF EncodeInter
      <3> QED
          BY <3>1, <3>2, FinishInter
    <2>3. CASE EncodeKey
          BY <2>3, FinishKey DEF EncodeKey
    <2>4. CASE UNCHANGED t
          BY <2>4
    <2>5. UNCHANGED t \/ EncodeDropped \/ EncodeInter \/ EncodeKey
          BY DEF Next, vars, encoder, EncodeFails, RequestKeyFrame, HandDropped, Size,
                 PacketizeFails, Packetize, Withhold, Send, Done
    <2> QED
        BY <2>1, <2>2, <2>3, <2>4, <2>5
  <1> QED
      BY <1>1, <1>2 DEF Layers, TopLayer, LayerIds

\* The encoder codes a frame or drops it.
LEMMA CountEncode ==
  ASSUME Inv, PatternInv, CountInv, ~flexible, frames \in Nat,
         Layers' = Layers, EncodeDropped \/ EncodeInter \/ EncodeKey
  PROVE  IF Layers = 1 THEN PacketizerCounts' ELSE EncoderCounts'
  <1> DEFINE meta == NextFrame(t)
  <1>1. /\ stage = "idle" /\ stage' = "encoded" /\ frames' = frames + 1
        /\ UNCHANGED <<pk, rxTl0>>
        BY DEF EncodeDropped, EncodeInter, EncodeKey, Goto, receivers
  <1>2. meta.tl0 = IF meta.layer = 0 THEN NextTl0(t) ELSE t.tl0
        BY DEF NextFrame
  <1>3. CASE EncodeDropped
    <2>1. ~KeyFrameNext(meta) /\ au'.dropped /\ t' = FinishDroppedFrame(t)
          BY <1>3 DEF EncodeDropped, NoAu
    <2>2. t'.tl0 = t.tl0 /\ frames # 0
          BY <2>1 DEF FinishDroppedFrame, PatternInv, IsTemporal, KeyFrameNext
    <2> QED
        BY <1>1, <2>1, <2>2 DEF CountInv, PacketizerCounts, EncoderCounts, Coded
  <1>4. CASE EncodeInter
    <2>1. PICK refresh \in Refreshes(meta) :
            /\ t' = FinishFrame(t, meta, FALSE, refresh)
            /\ au' = [frame |-> frames + 1, dropped |-> FALSE, key |-> FALSE,
                      layer |-> meta.layer, sync |-> meta.sync, tl0 |-> meta.tl0,
                      refs |-> Referenced(meta), used |-> encRef, refresh |-> refresh]
          BY <1>4 DEF EncodeInter
    <2>2. ~KeyFrameNext(meta)
          BY <1>4 DEF EncodeInter
    <2>3. /\ frames # 0 /\ meta.layer \in 0..TopLayer(t.mode)
          /\ TopLayer(t.mode) \in Nat
          BY <2>1, <2>2, InterMeta
    <2>4. t'.tl0 = meta.tl0
      <3>1. meta.layer \in Nat
            BY <2>3
      <3>2. t'.tl0 = IF meta.layer = 0 THEN NextTl0(t) ELSE t.tl0
            BY <2>1, <3>1, FinishInter
      <3> QED
          BY <1>2, <3>2
    <2>5. /\ au'.layer = meta.layer /\ au'.tl0 = meta.tl0
          /\ au'.key = FALSE /\ au'.dropped = FALSE
          BY <2>1
    <2>6. t.tl0Valid
          BY <2>3 DEF PatternInv
    <2> HIDE DEF meta
    <2>7. CASE Layers = 1
      <3>1. meta.layer = 0
            BY <2>3, <2>7 DEF Layers
      <3> QED
          BY <1>1, <2>3, <2>5, <2>7, <3>1 DEF CountInv, PacketizerCounts, Coded
    <2>8. CASE Layers # 1
      <3>1. t.mode # "Disabled"
            BY <2>8, DisabledHasOneLayer DEF Layers
      <3>2. meta.layer = 0 => meta.tl0 = (t.tl0 + 1) % Tl0Mod
            BY <1>2, <2>6, <3>1 DEF NextTl0
      <3>3. ~pk.key => rxTl0 = t.tl0
            BY <1>1, <2>3, <2>8 DEF CountInv, EncoderCounts, Coded
      <3>4. ~pk.key => Continues(au.tl0)'
            BY <1>1, <1>2, <2>5, <3>2, <3>3 DEF Continues
      <3>5. EncoderCounts'
            BY <1>1, <2>4, <2>5, <3>4 DEF EncoderCounts, Coded
      <3> QED
          BY <2>8, <3>5
    <2> QED
        BY <2>7, <2>8
  <1>5. CASE EncodeKey
    <2>1. /\ au'.key = TRUE /\ au'.dropped = FALSE
          /\ au'.layer = 0 /\ au'.tl0 = NextTl0(t)
          BY <1>5 DEF EncodeKey, KeyFrameMeta, NextFrame
    <2>2. t'.tl0 = NextTl0(t)
          BY <1>5, FinishKey DEF EncodeKey
    <2> QED
        BY <1>1, <2>1, <2>2 DEF PacketizerCounts, EncoderCounts, Coded
  <1> QED
      BY <1>3, <1>4, <1>5

\* An access unit that ends before it is sent, and one on its way.
LEMMA CountMoves ==
  ASSUME Inv, IdInv, CountInv, ~flexible, Layers' = Layers,
         HandDropped \/ PacketizeFails \/ Withhold \/ Size \/ Packetize
  PROVE  IF Layers = 1 THEN PacketizerCounts' ELSE EncoderCounts'
  <1>1. UNCHANGED <<t, frames, rxTl0>>
        BY DEF HandDropped, PacketizeFails, Withhold, Size, Packetize, encoder, receivers
  <1>2. CASE HandDropped
    <2>1. /\ stage = "encoded" /\ au.dropped
          /\ pk' = ConsumeDropped(pk, au)
          /\ stage' = "idle" \/ UNCHANGED <<stage, au>>
          BY <1>2 DEF HandDropped
    <2>2. (pk.key => pk'.key) /\ pk'.tl0 = pk.tl0
          BY <2>1 DEF ConsumeDropped, Inv, ShapeInv, DroppedNeedsKeyFrame
    <2>3. ~Coded /\ ~Coded' /\ stage' # "packed"
          BY <2>1 DEF Coded
    <2> QED
        BY <1>1, <2>1, <2>2, <2>3 DEF CountInv, PacketizerCounts, EncoderCounts
  <1>3. CASE PacketizeFails \/ Withhold
    <2>1. /\ stage' = "idle"
          /\ pk' = EncodedUnsent(pk) \/ pk' = Unsent(pk)
          BY <1>3 DEF PacketizeFails, GiveUp, Withhold, Goto
    <2>2. pk'.key = TRUE
          BY <2>1 DEF Inv, ShapeInv, EncodedUnsent, Unsent
    <2> QED
        BY <2>1, <2>2 DEF PacketizerCounts, EncoderCounts, Coded
  <1>4. CASE Size
    <2>1. /\ stage = "encoded" /\ stage' = "sized" /\ ~au.dropped
          /\ UNCHANGED au /\ pk' = [pk EXCEPT !.drop = NoAu]
          BY <1>4 DEF Size, Goto
    <2>2. pk'.key = pk.key /\ pk'.tl0 = pk.tl0
          BY <2>1 DEF Inv, ShapeInv
    <2> QED
        BY <1>1, <2>1, <2>2 DEF CountInv, PacketizerCounts, EncoderCounts, Coded, Continues
  <1>5. CASE Packetize
    <2>1. /\ stage = "sized" /\ stage' = "packed" /\ UNCHANGED au
          /\ Admissible(pk, au) /\ pk' = Packetized(pk, au)
          /\ desc'.tl0 = DescriptorTl0(pk, au)
          BY <1>5 DEF Packetize, Goto
    <2>2. /\ au.key \/ ~pk.key
          /\ Coded /\ Coded' /\ frames # 0
          BY <2>1 DEF Admissible, Coded, Inv, ShapeInv, IdInv
    <2>3. CASE Layers = 1
      <3>1. pk'.tl0 = (pk.tl0 + 1) % Tl0Mod /\ desc'.tl0 = pk.tl0
            BY <2>1, <2>3 DEF Packetized, DescriptorTl0, Inv, ShapeInv
      <3> QED
          BY <1>1, <2>1, <2>2, <2>3, <3>1 DEF CountInv, PacketizerCounts
    <2>4. CASE Layers # 1
      <3>1. desc'.tl0 = au.tl0
            BY <2>1, <2>4 DEF DescriptorTl0
      <3> QED
          BY <1>1, <2>1, <2>2, <2>4, <3>1 DEF CountInv, EncoderCounts, Continues
    <2> QED
        BY <2>3, <2>4
  <1> QED
      BY <1>2, <1>3, <1>4, <1>5

\* The receiver gets an access unit.
LEMMA CountSend ==
  ASSUME Inv, CountInv, ~flexible, Layers' = Layers, Send
  PROVE  IF Layers = 1 THEN PacketizerCounts' ELSE EncoderCounts'
  <1>1. /\ stage = "packed" /\ stage' = "idle" /\ UNCHANGED <<t, pk>>
        /\ rxTl0' = IF au.layer = 0 THEN desc.tl0 ELSE rxTl0
        BY DEF Send, Goto, encoder
  <1>2. Coded /\ ~Coded'
        BY <1>1 DEF Coded, Inv, ShapeInv
  <1> QED
      BY <1>1, <1>2 DEF CountInv, PacketizerCounts, EncoderCounts, Continues

\* Every step preserves it.
LEMMA CountNext ==
  ASSUME Inv, IdInv, PatternInv, CountInv, [Next]_vars
  PROVE  CountInv'
  <1>1. Layers' = Layers /\ flexible' = flexible
        BY SameLayers
  <1> SUFFICES ASSUME ~flexible
               PROVE  IF Layers = 1 THEN PacketizerCounts' ELSE EncoderCounts'
      BY <1>1 DEF CountInv
  <1>2. frames \in Nat
        BY DEF IdInv
  <1>3. CASE EncodeDropped \/ EncodeInter \/ EncodeKey
        BY <1>1, <1>2, <1>3, CountEncode
  <1>4. CASE HandDropped \/ PacketizeFails \/ Withhold \/ Size \/ Packetize
        BY <1>1, <1>4, CountMoves
  <1>5. CASE Send
        BY <1>1, <1>5, CountSend
  <1>6. CASE EncodeFails \/ RequestKeyFrame \/ Done \/ UNCHANGED vars
    <2>1. UNCHANGED <<t, frames, stage, pk, au, desc, rxTl0>>
          BY <1>6 DEF EncodeFails, RequestKeyFrame, Done, vars, encoder, receivers
    <2> QED
        BY <2>1 DEF CountInv, PacketizerCounts, EncoderCounts, Coded, Continues
  <1> QED
      BY <1>3, <1>4, <1>5, <1>6 DEF Next

\* The remainder of a number below zero.
LEMMA ModBelow ==
  ASSUME NEW m \in Nat \ {0}, NEW r \in 0..(m - 1), NEW n \in Int, n = r - m
  PROVE  (n % m) = r
  <1>1. -1 \in Int /\ m * (-1) = -m
        OBVIOUS
  <1>2. n = m * (-1) + r
        BY <1>1
  <1> QED
      BY <1>1, <1>2, ModUnique

\* Going back by the difference of two picture ids leads from one to the other.
LEMMA DiffBack ==
  ASSUME NEW id \in Ids, NEW r \in Ids
  PROVE  (id - ((id - r) % IdMod)) % IdMod = r
  <1>1. IdMod \in Nat \ {0} /\ id \in 0..(IdMod - 1) /\ r \in 0..(IdMod - 1)
        BY IdAssumption DEF Ids
  <1>2. CASE id >= r
    <2>1. id - r = IdMod * 0 + (id - r) /\ id - r \in 0..(IdMod - 1)
          BY <1>1, <1>2
    <2>2. ((id - r) % IdMod) = id - r
          BY <1>1, <2>1, ModUnique
    <2>3. r = IdMod * 0 + r
          BY <1>1
    <2>4. (r % IdMod) = r
          BY <1>1, <2>3, ModUnique
    <2>5. id - (id - r) = r
          BY <1>1
    <2> QED
        BY <2>2, <2>4, <2>5
  <1>3. CASE id < r
    <2> DEFINE a == id - r
               b == a + IdMod
               n == id - b
    <2>1. a \in Int /\ b \in 0..(IdMod - 1) /\ a = b - IdMod
          BY <1>1, <1>3
    <2>2. n \in Int /\ n = r - IdMod
          BY <1>1
    <2> HIDE DEF a, b, n
    <2>3. (a % IdMod) = b /\ (n % IdMod) = r
          BY <1>1, <2>1, <2>2, ModBelow
    <2> QED
        BY <2>3 DEF a, n
  <1> QED
      BY <1>1, <1>2, <1>3

\* A descriptor that names each reference by its distance names the references.
LEMMA DiffsNameReferences ==
  ASSUME NEW p, NEW a, flexible, ~a.key, Expressible(p, a), p.id \in Ids,
         p.valid \subseteq Slot, p.refId \in [Slot -> Ids],
         \A s \in p.valid : p.refId[s] = IdOf(a.used[s])
  PROVE  {(p.id - d) % IdMod : d \in Diffs(p, a)} = {IdOf(a.used[s]) : s \in a.refs}
  <1>1. \A s \in a.refs : s \in p.valid
        BY DEF Expressible
  <1>2. ASSUME NEW s \in a.refs
        PROVE  (p.id - Diff(p, s)) % IdMod = IdOf(a.used[s])
    <2>1. p.refId[s] \in Ids /\ p.refId[s] = IdOf(a.used[s])
          BY <1>1
    <2> QED
        BY <2>1, DiffBack DEF Diff
  <1>3. Diffs(p, a) = {Diff(p, s) : s \in a.refs}
        BY DEF Diffs
  <1> QED
      BY <1>2, <1>3

\* The remainder by the number of picture ids is a picture id.
LEMMA IdOfIsId ==
  ASSUME NEW n \in Nat
  PROVE  IdOf(n) \in Ids
  <1>1. InitialId + n - 1 \in Int /\ IdMod \in Nat \ {0}
        BY IdAssumption
  <1> QED
      BY <1>1 DEF IdOf, Ids

\* The packetizer knows no reference before the first frame.
LEMMA RefIdInit == Init => RefIdInv
  <1> SUFFICES ASSUME Init PROVE RefIdInv
      OBVIOUS
  <1>1. /\ stage = "idle"
        /\ pk = [id |-> InitialId, tl0 |-> 0, drop |-> NoAu, key |-> FALSE,
                 valid |-> {}, refId |-> [s \in Slot |-> 0]]
        BY DEF Init
  <1>2. 0 \in Ids
        BY IdAssumption DEF Ids
  <1>3. pk.valid = {} /\ pk.refId = [s \in Slot |-> 0]
        BY <1>1
  <1> QED
      BY <1>1, <1>2, <1>3 DEF RefIdInv, Knows, Coded, Inter

\* The encoder moves on, the packetizer does not yet.
LEMMA RefIdEncode ==
  ASSUME RefIdInv, EncodeDropped \/ EncodeInter \/ EncodeKey
  PROVE  RefIdInv'
  <1>1. /\ stage = "idle" /\ stage' = "encoded" /\ UNCHANGED pk
        BY DEF EncodeDropped, EncodeInter, EncodeKey, Goto
  <1>2. ~pk.key => Knows(encRef)
        BY <1>1 DEF RefIdInv, Coded
  <1>3. CASE EncodeDropped
    <2>1. au'.dropped /\ UNCHANGED encRef
          BY <1>3 DEF EncodeDropped, NoAu
    <2> QED
        BY <1>1, <1>2, <2>1 DEF RefIdInv, Knows, IdOf, Coded, Inter
  <1>4. CASE EncodeInter
    <2>1. PICK refresh \in Refreshes(NextFrame(t)) :
            au' = [frame |-> frames + 1, dropped |-> FALSE, key |-> FALSE,
                   layer |-> NextFrame(t).layer, sync |-> NextFrame(t).sync,
                   tl0 |-> NextFrame(t).tl0, refs |-> Referenced(NextFrame(t)),
                   used |-> encRef, refresh |-> refresh]
          BY <1>4 DEF EncodeInter
    <2>2. refresh \subseteq Slot
          BY DEF Refreshes, Slot, L, LG, G
    <2>3. au'.used = encRef /\ au'.refresh \subseteq Slot /\ au'.dropped = FALSE
          BY <2>1, <2>2
    <2>4. Knows(au.used)' <=> Knows(encRef)
          BY <1>1, <2>3 DEF Knows, IdOf
    <2> QED
        BY <1>1, <1>2, <2>3, <2>4 DEF RefIdInv, Coded, Inter
  <1>5. CASE EncodeKey
    <2>1. au'.used = encRef /\ au'.refresh = Slot /\ au'.dropped = FALSE
          BY <1>5 DEF EncodeKey
    <2>2. Knows(au.used)' <=> Knows(encRef)
          BY <1>1, <2>1 DEF Knows, IdOf
    <2> QED
        BY <1>1, <1>2, <2>1, <2>2 DEF RefIdInv, Coded, Inter
  <1> QED
      BY <1>3, <1>4, <1>5

\* Packetizing records the references and names those used.
LEMMA RefIdPacketize ==
  ASSUME Inv, IdInv, RefIdInv, Packetize
  PROVE  RefIdInv'
  <1>1. /\ stage = "sized" /\ stage' = "packed"
        /\ UNCHANGED <<au, encRef, frames, flexible>>
        /\ Admissible(pk, au) /\ Expressible(pk, au) /\ pk' = Packetized(pk, au)
        /\ desc'.id = pk.id /\ desc'.diffs = Diffs(pk, au)
        BY DEF Packetize, Goto, encoder, options
  <1>2. Coded
        BY <1>1 DEF Coded, Inv, ShapeInv
  <1>3. pk.id = IdOf(au.frame) /\ pk.id \in Ids
        BY <1>1, IdOfIsId DEF IdInv, Handed
  <1>4. /\ pk'.valid = pk.valid \cup au.refresh
        /\ pk'.refId = [s \in Slot |-> IF s \in au.refresh THEN pk.id ELSE pk.refId[s]]
        BY <1>1 DEF Packetized, Inv, ShapeInv
  <1>5. encRef = [s \in Slot |-> IF s \in au.refresh THEN au.frame ELSE au.used[s]]
        BY <1>2 DEF Inv, LagInv, Store
  <1>6. au.refresh = Slot \/ (~pk.key /\ Knows(au.used))
        BY <1>1, <1>2 DEF Admissible, Inv, LagInv, RefIdInv
  <1>7. au.refresh \subseteq Slot
        BY <1>2 DEF RefIdInv
  <1>8. pk'.valid \subseteq Slot /\ pk'.refId \in [Slot -> Ids]
        BY <1>3, <1>4, <1>7 DEF RefIdInv
  <1>9. \A s \in pk'.valid : pk'.refId[s] = IdOf(encRef[s])
        BY <1>3, <1>4, <1>5, <1>6, <1>8 DEF Knows
  <1>10. ASSUME ~au.key, flexible
         PROVE  {(desc'.id - d) % IdMod : d \in desc'.diffs} = {IdOf(au.used[s]) : s \in au.refs}
    <2>1. \A s \in pk.valid : pk.refId[s] = IdOf(au.used[s])
          BY <1>1, <1>2, <1>10 DEF Admissible, RefIdInv, Knows
    <2>2. pk.valid \subseteq Slot /\ pk.refId \in [Slot -> Ids]
          BY DEF RefIdInv
    <2>3. {(pk.id - d) % IdMod : d \in Diffs(pk, au)} = {IdOf(au.used[s]) : s \in au.refs}
          BY <1>1, <1>3, <1>10, <2>1, <2>2, DiffsNameReferences
    <2> QED
        BY <1>1, <2>3
  <1>11. Knows(encRef)'
        BY <1>1, <1>9 DEF Knows, IdOf
  <1>12. Inter' /\ flexible' =>
           {(desc'.id - d) % IdMod : d \in desc'.diffs} = {IdOf(au.used[s]) : s \in au.refs}'
        BY <1>1, <1>10 DEF Inter, IdOf
  <1> QED
      BY <1>1, <1>2, <1>7, <1>8, <1>11, <1>12 DEF RefIdInv, Coded

\* An access unit that ends, sent or not, and the size query.
LEMMA RefIdMoves ==
  ASSUME Inv, RefIdInv, HandDropped \/ PacketizeFails \/ Withhold \/ Size \/ Send
  PROVE  RefIdInv'
  <1>1. UNCHANGED encRef /\ stage' # "packed"
        BY DEF HandDropped, PacketizeFails, GiveUp, Withhold, Size, Send, Goto, encoder
  <1>2. pk'.valid = pk.valid /\ pk'.refId = pk.refId
        BY DEF HandDropped, PacketizeFails, GiveUp, Withhold, Size, Send, ConsumeDropped,
               Unsent, EncodedUnsent, Inv, ShapeInv
  <1>3. Knows(encRef)' <=> Knows(encRef)
        BY <1>1, <1>2 DEF Knows, IdOf
  <1>4. ~Inter'
        BY <1>1 DEF Inter
  <1>5. CASE HandDropped
    <2>1. /\ stage = "encoded" /\ au.dropped
          /\ pk' = ConsumeDropped(pk, au)
          /\ stage' = "idle" \/ UNCHANGED <<stage, au>>
          BY <1>5 DEF HandDropped
    <2>2. pk.key => pk'.key
          BY <2>1 DEF ConsumeDropped, Inv, ShapeInv, DroppedNeedsKeyFrame
    <2>3. ~Coded /\ ~Coded'
          BY <2>1 DEF Coded
    <2> QED
        BY <1>1, <1>2, <1>3, <1>4, <2>2, <2>3 DEF RefIdInv
  <1>6. CASE PacketizeFails \/ Withhold
    <2>1. /\ stage' = "idle"
          /\ pk' = EncodedUnsent(pk) \/ pk' = Unsent(pk)
          BY <1>6 DEF PacketizeFails, GiveUp, Withhold, Goto
    <2>2. pk'.key = TRUE
          BY <2>1 DEF Inv, ShapeInv, EncodedUnsent, Unsent
    <2> QED
        BY <1>1, <1>2, <1>4, <2>1, <2>2 DEF RefIdInv, Coded
  <1>7. CASE Size
    <2>1. /\ stage = "encoded" /\ stage' = "sized" /\ ~au.dropped
          /\ UNCHANGED au /\ pk' = [pk EXCEPT !.drop = NoAu]
          BY <1>7 DEF Size, Goto
    <2>2. pk'.key = pk.key /\ Coded
          BY <2>1 DEF Inv, ShapeInv, Coded
    <2>3. Knows(au.used)' <=> Knows(au.used)
          BY <1>2, <2>1 DEF Knows, IdOf
    <2> QED
        BY <1>1, <1>2, <1>4, <2>1, <2>2, <2>3 DEF RefIdInv, Coded
  <1>8. CASE Send
    <2>1. stage = "packed" /\ stage' = "idle"
          BY <1>8 DEF Send, Goto
    <2> QED
        BY <1>1, <1>2, <1>3, <1>4, <2>1 DEF RefIdInv, Coded
  <1> QED
      BY <1>5, <1>6, <1>7, <1>8

\* Every step preserves it.
LEMMA RefIdNext ==
  ASSUME Inv, IdInv, RefIdInv, [Next]_vars
  PROVE  RefIdInv'
  <1>1. CASE EncodeDropped \/ EncodeInter \/ EncodeKey
        BY <1>1, RefIdEncode
  <1>2. CASE HandDropped \/ PacketizeFails \/ Withhold \/ Size \/ Send
        BY <1>2, RefIdMoves
  <1>3. CASE Packetize
        BY <1>3, RefIdPacketize
  <1>4. CASE EncodeFails \/ RequestKeyFrame \/ Done \/ UNCHANGED vars
    <2>1. UNCHANGED <<stage, pk, au, desc, encRef, flexible>>
          BY <1>4 DEF EncodeFails, RequestKeyFrame, Done, vars, encoder, options
    <2> QED
        BY <2>1 DEF RefIdInv, Knows, IdOf, Coded, Inter
  <1> QED
      BY <1>1, <1>2, <1>3, <1>4 DEF Next

\* What an RTP descriptor says is what the encoder did: its differences name
\* the pictures the frame was predicted from, and TL0PICIDX has no gap at the
\* receiver, with every picture id arithmetic and whatever was lost before.
THEOREM DescriptorsMatch == Spec => []DescriptorMatchesFrame
  <1>1. Inv /\ CountInv /\ RefIdInv => DescriptorMatchesFrame
    <2> SUFFICES ASSUME Inv, CountInv, RefIdInv, Inter PROVE DescriptorMatchesFrame
        BY DEF DescriptorMatchesFrame
    <2>1. Coded /\ ~au.key /\ stage = "packed"
          BY DEF Inter, Coded, Inv, ShapeInv
    <2>2. CASE flexible
          BY <2>2 DEF RefIdInv, DescriptorMatchesFrame
    <2>3. CASE ~flexible
      <3>1. desc.tl0 = IF au.layer = 0 THEN (rxTl0 + 1) % Tl0Mod ELSE rxTl0
            BY <2>1, <2>3 DEF CountInv, PacketizerCounts, EncoderCounts, Continues
      <3> QED
          BY <2>3, <3>1 DEF DescriptorMatchesFrame
    <2> QED
        BY <2>2, <2>3
  <1>2. IdInv => frames \in Nat
        BY DEF IdInv
  <1>3. Spec => [](Inv /\ IdInv /\ PatternInv /\ CountInv /\ RefIdInv)
        BY <1>2, InvInit, InvNext, IdInit, IdNext, PatternInit, PatternNext, CountInit,
           CountNext, RefIdInit, RefIdNext, PTL DEF Spec
  <1> QED
      BY <1>1, <1>3, PTL
=============================================================================
