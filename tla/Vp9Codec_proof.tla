--------------------------- MODULE Vp9Codec_proof ---------------------------
(***************************************************************************)
(* Theorems about a VP9 encoder's pool of buffers, a decoder's leases and  *)
(* the channel between them, for any number of slots, at least two         *)
(* encoder buffers more than slots, and at least one decoder buffer more.  *)
(*                                                                         *)
(* The encoder: counts are exact; a pigeonhole over the slots and the      *)
(* working buffer then gives a free buffer whenever one is needed, so that *)
(* the fallbacks are never taken; and what is written is a buffer no slot  *)
(* points to, so that no reference changes under a slot or under a         *)
(* helper's copy of the slots. With a decoder beside it the encoder takes  *)
(* the same steps and no others.                                           *)
(*                                                                         *)
(* The decoder: within a call its storage goes from one function to the    *)
(* next as a record, so the invariant is a predicate on such a record, and *)
(* one lemma for each function says what it leaves of the counts, of what  *)
(* the slots show and of the picture on show. FoldSet, by which the slots  *)
(* are refreshed and released one by one, gets a rule of its own.          *)
(*                                                                         *)
(* Both together: a slot that was refreshed and not yet sent shows the     *)
(* picture of the packet, and every other one what the decoder's does.     *)
(***************************************************************************)
EXTENDS Vp9Codec, FiniteSetTheorems, WellFoundedInduction, TLAPS

\* The shape of the state.
ShapeInv ==
  /\ refCount \in [Buffer -> Int]
  /\ pixels \in [Buffer -> Nat]
  /\ recon \in Buffer \cup {NoBuffer} /\ target = recon
  /\ refBuf \in [Slot -> Buffer \cup {NoBuffer}]
  /\ valid \subseteq Slot /\ todo \subseteq Slot
  /\ holds \in [Slot -> Nat]
  /\ own = {}
  /\ phase \in {"idle", "coding", "refreshing", "releasing"}
  /\ batch \in {"none", "open", "done"}
  /\ next \in Nat \ {0}
  /\ helpers \in Nat

\* The picture being coded is in the working buffer, which no slot has yet
\* when coding begins.
WorkInv ==
  /\ phase \in {"coding", "refreshing"} => recon \in Buffer /\ pixels[recon] = next - 1
  /\ phase = "coding" => Owners(recon) = {}

\* Valid slots show what they were given.
SlotInv == \A s \in valid : refBuf[s] \in Buffer /\ pixels[refBuf[s]] = holds[s]

\* A batch: the slots the helpers copied are those of the encoder until its
\* own frame of the batch refreshes them, and none becomes invalid.
BatchInv ==
  /\ helpers > 0 => batch # "none"
  /\ batch = "done" => phase = "idle"
  /\ batch # "none" =>
       /\ phase # "releasing"
       /\ view.valid \subseteq valid /\ view.own = {}
       /\ \A s \in view.valid :
            /\ view.buf[s] \in Buffer
            /\ pixels[view.buf[s]] = view.holds[s]
  /\ batch = "open" /\ phase \in {"idle", "coding"} => view.buf = refBuf

Inv == ShapeInv /\ CountsExact /\ WorkInv /\ SlotInv /\ BatchInv

-----------------------------------------------------------------------------
(* Counting.                                                               *)

\* Owners are finitely many, and their number is that of the empty set only
\* if there are none.
LEMMA OwnersFinite ==
  ASSUME NEW b
  PROVE  /\ IsFiniteSet(Owners(b)) /\ Cardinality(Owners(b)) \in Nat
         /\ Cardinality(Owners(b)) = 0 <=> Owners(b) = {}
  <1>1. IsFiniteSet(Owners(b))
        BY SlotAssumption, Owners(b) \in SUBSET Slot, FS_Subset DEF Owners
  <1> QED
      BY <1>1, FS_CardinalityType, FS_EmptySet

\* Fewer holders than buffers leave a buffer over.
LEMMA Pigeonhole ==
  ASSUME ShapeInv, NEW r \in Buffer \cup {NoBuffer}
  PROVE  \E b \in Buffer : Owners(b) = {} /\ b # r
  <1> DEFINE T == {refBuf[s] : s \in Slot}
             U == T \cup {r}
  <1>1. refBuf \in Surjection(Slot, T)
        BY DEF ShapeInv, Surjection
  <1>2. IsFiniteSet(T) /\ Cardinality(T) <= Cardinality(Slot)
        BY <1>1, FS_Surjection, SlotAssumption
  <1>3. IsFiniteSet(U) /\ Cardinality(U) <= Cardinality(Slot) + 1
    <2>1. /\ IsFiniteSet(U)
          /\ Cardinality(U) = IF r \in T THEN Cardinality(T) ELSE Cardinality(T) + 1
          BY <1>2, FS_AddElement
    <2>2. Cardinality(T) \in Nat /\ Cardinality(Slot) \in Nat
          BY <1>2, SlotAssumption, FS_CardinalityType
    <2> QED
        BY <1>2, <2>1, <2>2
  <1>4. IsFiniteSet(Buffer) /\ Cardinality(Buffer) = NumBuffers
    <2>1. 0 \in Int /\ NumBuffers - 1 \in Int /\ NumBuffers >= 1
      <3>1. Cardinality(Slot) \in Nat
            BY SlotAssumption, FS_CardinalityType
      <3> QED
          BY <3>1, PoolAssumption
    <2>2. /\ IsFiniteSet(0..(NumBuffers - 1))
          /\ Cardinality(0..(NumBuffers - 1)) =
               IF 0 > NumBuffers - 1 THEN 0 ELSE NumBuffers - 1 - 0 + 1
          BY <2>1, FS_Interval
    <2> QED
        BY <2>1, <2>2, PoolAssumption DEF Buffer
  <1> HIDE DEF T, U
  <1>5. ~(Buffer \subseteq U)
    <2> SUFFICES ASSUME Buffer \in SUBSET U PROVE FALSE
        OBVIOUS
    <2>1. Cardinality(Buffer) <= Cardinality(U)
          BY <1>3, FS_Subset
    <2>2. Cardinality(U) \in Nat /\ Cardinality(Slot) \in Nat
          BY <1>3, SlotAssumption, FS_CardinalityType
    <2> QED
        BY <1>3, <1>4, <2>1, <2>2, PoolAssumption
  <1>6. PICK b \in Buffer : b \notin U
        BY <1>5
  <1>7. Owners(b) = {} /\ b # r
        BY <1>6 DEF Owners, T, U
  <1> QED
      BY <1>6, <1>7

\* A set of natural numbers has a least one.
LEMMA LeastNat ==
  ASSUME NEW T \in SUBSET Nat, T # {}
  PROVE  \E x \in T : \A y \in T : x <= y
  <1> DEFINE R == OpToRel(<, Nat)
  <1>1. IsWellFoundedOn(R, Nat)
        BY NatLessThanWellFounded
  <1> HIDE DEF R
  <1>2. PICK x \in T : \A y \in T : ~(<<y, x>> \in R)
        BY <1>1, WFMin
  <1>3. \A y \in T : y < x => <<y, x>> \in R
        BY DEF R, OpToRel
  <1>4. \A y \in T : x <= y
    <2> SUFFICES ASSUME NEW y \in T PROVE x <= y
        OBVIOUS
    <2>1. ~(<<y, x>> \in R)
          BY <1>2
    <2>2. ~(y < x)
          BY <1>3, <2>1, Zenon
    <2> QED
        BY <2>2
  <1> QED
      BY <1>4

\* freeIndex finds a buffer with count zero if there is one.
LEMMA FreeIndexIsFree ==
  ASSUME NEW count, \E b \in Buffer : count[b] = 0
  PROVE  FreeIndex(count) \in Buffer /\ count[FreeIndex(count)] = 0
  <1> DEFINE free == {b \in Buffer : count[b] = 0}
  <1>1. free # {} /\ free \in SUBSET Nat
        BY DEF Buffer
  <1>2. FreeIndex(count) = CHOOSE b \in free : \A c \in free : b <= c
        BY <1>1 DEF FreeIndex
  <1>3. free \subseteq Buffer /\ \A b \in free : count[b] = 0
        OBVIOUS
  <1> HIDE DEF free
  <1>4. \E b \in free : \A c \in free : b <= c
        BY <1>1, LeastNat
  <1>5. FreeIndex(count) \in free
        BY <1>2, <1>4
  <1> QED
      BY <1>3, <1>5

\* A buffer that a slot points to has a positive count.
LEMMA CountedSlot ==
  ASSUME ShapeInv, CountsExact, NEW s \in Slot, refBuf[s] # NoBuffer
  PROVE  refBuf[s] \in Buffer /\ refCount[refBuf[s]] > 0
  <1>1. refBuf[s] \in Buffer /\ Owners(refBuf[s]) # {}
        BY DEF ShapeInv, Owners
  <1>2. Cardinality(Owners(refBuf[s])) \in Nat \ {0}
        BY <1>1, OwnersFinite
  <1>3. recon \in Buffer \cup {NoBuffer} /\ refCount[refBuf[s]] =
          Cardinality(Owners(refBuf[s])) + (IF recon = refBuf[s] THEN 1 ELSE 0)
        BY <1>1 DEF CountsExact, ShapeInv
  <1> QED
      BY <1>1, <1>2, <1>3

\* What Released returns for a slot: one less for the buffer it held.
LEMMA ReleasedSlot ==
  ASSUME ShapeInv, CountsExact, NEW s \in Slot
  PROVE  /\ Released(refCount, refBuf[s]) \in [Buffer -> Int]
         /\ \A b \in Buffer : Released(refCount, refBuf[s])[b] =
              refCount[b] - (IF b = refBuf[s] THEN 1 ELSE 0)
  <1>1. CASE refBuf[s] = NoBuffer
        BY <1>1 DEF Released, ShapeInv, NoBuffer, Buffer
  <1>2. CASE refBuf[s] # NoBuffer
    <2>1. refBuf[s] \in Buffer /\ refCount[refBuf[s]] > 0
          BY <1>2, CountedSlot
    <2>2. Released(refCount, refBuf[s]) = [refCount EXCEPT ![refBuf[s]] = @ - 1]
          BY <1>2, <2>1 DEF Released
    <2> QED
        BY <2>1, <2>2 DEF ShapeInv
  <1> QED
      BY <1>1, <1>2

\* The holders of b in an assignment of the slots.
HoldersIn(f, b) == {x \in Slot : f[x] = b}

\* Moving a slot to c moves one holder.
LEMMA HoldersMoved ==
  ASSUME NEW f, f = [x \in Slot |-> f[x]], NEW s \in Slot, NEW c, NEW b
  PROVE  /\ Cardinality(HoldersIn(f, b)) \in Nat
         /\ Cardinality(HoldersIn([f EXCEPT ![s] = c], b))
              = Cardinality(HoldersIn(f, b)) - (IF b = f[s] THEN 1 ELSE 0)
                  + (IF b = c THEN 1 ELSE 0)
  <1> DEFINE moved == [f EXCEPT ![s] = c]
             H == HoldersIn(f, b)
  <1>0. \A x \in Slot : moved[x] = IF x = s THEN c ELSE f[x]
        OBVIOUS
  <1>1. HoldersIn(moved, b) = (H \ {s}) \cup (IF b = c THEN {s} ELSE {})
    <2> HIDE DEF moved
    <2> QED
        BY <1>0 DEF HoldersIn
  <1>2. IsFiniteSet(H)
    <2>1. H \in SUBSET Slot
          BY DEF HoldersIn
    <2> QED
        BY <2>1, SlotAssumption, FS_Subset
  <1>3. s \in H <=> b = f[s]
        BY DEF HoldersIn
  <1> HIDE DEF moved, H
  <1>4. /\ IsFiniteSet(H \ {s}) /\ Cardinality(H) \in Nat
        /\ Cardinality(H \ {s}) = Cardinality(H) - (IF b = f[s] THEN 1 ELSE 0)
    <2>1. /\ IsFiniteSet(H \ {s})
          /\ Cardinality(H \ {s}) =
               IF s \in H THEN Cardinality(H) - 1 ELSE Cardinality(H)
          BY <1>2, FS_RemoveElement
    <2>2. Cardinality(H) \in Nat
          BY <1>2, FS_CardinalityType
    <2> QED
        BY <1>3, <2>1, <2>2
  <1>5. CASE b = c
    <2>1. HoldersIn(moved, b) = (H \ {s}) \cup {s}
          BY <1>1, <1>5
    <2>2. Cardinality((H \ {s}) \cup {s}) = Cardinality(H \ {s}) + 1
          BY <1>4, FS_AddElement, s \notin H \ {s}
    <2> QED
        BY <1>4, <1>5, <2>1, <2>2 DEF moved, H
  <1>6. CASE b # c
    <2>1. HoldersIn(moved, b) = H \ {s}
          BY <1>1, <1>6
    <2>2. Cardinality(HoldersIn(moved, b)) = Cardinality(H \ {s})
          BY <2>1
    <2> QED
        BY <1>4, <1>6, <2>2 DEF moved, H
  <1> QED
      BY <1>5, <1>6

\* Counts stay exact when a slot moves to buffer c and the counts with it.
LEMMA CountsMoved ==
  ASSUME ShapeInv, CountsExact, NEW s \in Slot, NEW c,
         refBuf' = [refBuf EXCEPT ![s] = c], recon' = recon,
         \A b \in Buffer : refCount'[b] =
           Released(refCount, refBuf[s])[b] + (IF b = c THEN 1 ELSE 0)
  PROVE  CountsExact'
  <1> SUFFICES ASSUME NEW b \in Buffer
               PROVE  refCount'[b] =
                        Cardinality(Owners(b)') + (IF recon' = b THEN 1 ELSE 0)
      BY DEF CountsExact
  <1>1. refCount'[b] = refCount[b] - (IF b = refBuf[s] THEN 1 ELSE 0)
                                   + (IF b = c THEN 1 ELSE 0)
        BY ReleasedSlot
  <1>2. refCount[b] = Cardinality(Owners(b)) + (IF recon = b THEN 1 ELSE 0)
        BY DEF CountsExact
  <1>3. Cardinality(Owners(b)') = Cardinality(Owners(b))
          - (IF b = refBuf[s] THEN 1 ELSE 0) + (IF b = c THEN 1 ELSE 0)
    <2>1. /\ Owners(b)' = HoldersIn([refBuf EXCEPT ![s] = c], b)
          /\ Owners(b) = HoldersIn(refBuf, b)
          BY DEF Owners, HoldersIn
    <2>2. refBuf = [x \in Slot |-> refBuf[x]]
          BY DEF ShapeInv
    <2>3. Cardinality(HoldersIn([refBuf EXCEPT ![s] = c], b)) =
            Cardinality(HoldersIn(refBuf, b))
            - (IF b = refBuf[s] THEN 1 ELSE 0) + (IF b = c THEN 1 ELSE 0)
      <3> DEFINE f == refBuf
      <3>1. f = [x \in Slot |-> f[x]]
            BY <2>2
      <3> HIDE DEF f
      <3>2. Cardinality(HoldersIn([f EXCEPT ![s] = c], b)) = Cardinality(HoldersIn(f, b))
              - (IF b = f[s] THEN 1 ELSE 0) + (IF b = c THEN 1 ELSE 0)
            BY <3>1, HoldersMoved
      <3> QED
          BY <3>2 DEF f
    <2> QED
        BY <2>1, <2>3, Zenon
  <1>4. Cardinality(Owners(b)) \in Nat
        BY OwnersFinite
  <1> QED
      BY <1>1, <1>2, <1>3, <1>4

-----------------------------------------------------------------------------
(* The steps.                                                              *)

\* The invariant holds before the first frame.
LEMMA InvInit == Init => Inv
  <1> SUFFICES ASSUME Init PROVE Inv
      OBVIOUS
  <1>1. ShapeInv
        BY DEF Init, ShapeInv, NoPicture
  <1>2. CountsExact
    <2> SUFFICES ASSUME NEW b \in Buffer
                 PROVE  refCount[b] =
                          Cardinality(Owners(b)) + (IF recon = b THEN 1 ELSE 0)
        BY DEF CountsExact
    <2>1. Owners(b) = {} /\ recon # b /\ refCount[b] = 0
          BY DEF Init, Owners, NoBuffer, Buffer
    <2> QED
        BY <2>1, FS_EmptySet
  <1>3. WorkInv /\ SlotInv
        BY DEF Init, WorkInv, SlotInv
  <1>4. BatchInv
        BY DEF Init, BatchInv
  <1> QED
      BY <1>1, <1>2, <1>3, <1>4 DEF Inv

\* A new working buffer: there is one, no slot points to it, and it shows the
\* picture being coded.
LEMMA PrepareFinds ==
  ASSUME Inv, Prepare, UNCHANGED refBuf
  PROVE  /\ refCount' \in [Buffer -> Int] /\ CountsExact'
         /\ recon' \in Buffer /\ target' = recon'
         /\ Owners(recon') = {}
         /\ pixels' = [b \in Buffer |-> IF b = recon' THEN next ELSE pixels[b]]
         /\ next' = next + 1
  <1> DEFINE released == Released(refCount, recon)
  <1>0. ShapeInv /\ CountsExact
        BY DEF Inv
  <1>1. CASE SoleOwner
    <2>1. UNCHANGED <<refCount, recon, target>> /\ recon \in Buffer
          BY <1>0, <1>1 DEF Prepare, SoleOwner, ShapeInv
    <2>2. Owners(recon) = {}
      <3>1. 1 = Cardinality(Owners(recon)) + 1
            BY <1>0, <1>1, <2>1 DEF CountsExact, SoleOwner
      <3>2. Cardinality(Owners(recon)) \in Nat
            BY OwnersFinite
      <3>3. Cardinality(Owners(recon)) = 0
            BY <3>1, <3>2
      <3> QED
          BY <3>3, OwnersFinite
    <2>3. CountsExact'
          BY <1>0, <2>1 DEF CountsExact, Owners
    <2>4. Owners(recon') = {}
          BY <2>1, <2>2
    <2> QED
        BY <1>0, <2>1, <2>3, <2>4 DEF Prepare, ShapeInv
  <1>2. CASE ~SoleOwner
    <2>1. /\ released \in [Buffer -> Int]
          /\ \A b \in Buffer : released[b] = Cardinality(Owners(b))
      <3> SUFFICES ASSUME NEW b \in Buffer
                   PROVE  /\ released \in [Buffer -> Int]
                          /\ released[b] = Cardinality(Owners(b))
          BY PoolAssumption, Pigeonhole, <1>0
      <3>1. /\ refCount[b] = Cardinality(Owners(b)) + (IF recon = b THEN 1 ELSE 0)
            /\ Cardinality(Owners(b)) \in Nat
            BY <1>0, OwnersFinite DEF CountsExact
      <3>2. CASE recon = NoBuffer
            BY <1>0, <3>1, <3>2 DEF Released, ShapeInv, NoBuffer, Buffer
      <3>3. CASE recon # NoBuffer
        <4>1. recon \in Buffer /\ refCount[recon] = Cardinality(Owners(recon)) + 1
              BY <1>0, <3>3 DEF CountsExact, ShapeInv
        <4>2. refCount[recon] > 0
              BY <4>1, OwnersFinite
        <4>3. released = [refCount EXCEPT ![recon] = @ - 1]
              BY <3>3, <4>2 DEF Released
        <4> QED
            BY <1>0, <3>1, <4>1, <4>3 DEF ShapeInv
      <3> QED
          BY <3>2, <3>3
    <2> DEFINE idx == FreeIndex(released)
    <2> HIDE DEF released
    <2>2. \E b \in Buffer : released[b] = 0
      <3>1. PICK b \in Buffer : Owners(b) = {}
            BY <1>0, Pigeonhole DEF ShapeInv
      <3> QED
          BY <2>1, <3>1, OwnersFinite
    <2>3. idx \in Buffer /\ released[idx] = 0
          BY <2>2, FreeIndexIsFree
    <2>4. Owners(idx) = {}
          BY <2>1, <2>3, OwnersFinite
    <2>5. /\ recon' = idx /\ target' = idx
          /\ refCount' = [released EXCEPT ![idx] = 1]
      <3>1. idx # NoBuffer
            BY <2>3 DEF Buffer, NoBuffer
      <3> QED
          BY <1>2, <3>1 DEF Prepare, released
    <2>6. CountsExact'
      <3> SUFFICES ASSUME NEW b \in Buffer
                   PROVE  refCount'[b] =
                            Cardinality(Owners(b)') + (IF recon' = b THEN 1 ELSE 0)
          BY DEF CountsExact
      <3>1. Owners(b)' = Owners(b)
            BY DEF Owners
      <3>2. Cardinality(Owners(b)) \in Nat /\ released[b] = Cardinality(Owners(b))
            BY <2>1, OwnersFinite
      <3>3. CASE b = idx
            BY <2>1, <2>3, <2>5, <3>1, <3>2, <3>3
      <3>4. CASE b # idx
            BY <2>1, <2>3, <2>5, <3>1, <3>2, <3>4
      <3> QED
          BY <3>3, <3>4
    <2>7. refCount' \in [Buffer -> Int]
      <3>1. idx \in Buffer => [released EXCEPT ![idx] = 1] \in [Buffer -> Int]
            BY <2>1
      <3> QED
          BY <2>3, <2>5, <3>1
    <2>8. Owners(recon') = {} /\ recon' \in Buffer
          BY <2>3, <2>4, <2>5
    <2> QED
        BY <2>3, <2>5, <2>6, <2>7, <2>8 DEF Prepare
  <1> QED
      BY <1>1, <1>2

\* Counts stay exact when neither they nor what they count changes.
LEMMA CountsKept ==
  ASSUME CountsExact, UNCHANGED <<refCount, recon, refBuf>>
  PROVE  CountsExact'
  BY DEF CountsExact, Owners

\* BeginFrame and Recode: the buffer that is painted over is none that a slot,
\* or a helper's copy of a slot, points to.
LEMMA PaintStep ==
  ASSUME Inv, BeginFrame \/ Recode
  PROVE  Inv'
  <1>1. /\ Prepare /\ UNCHANGED <<refBuf, own, valid, holds, todo, batch, helpers, view>>
        /\ phase' = "coding" /\ phase \in {"idle", "coding"}
        /\ batch \in {"none", "open"}
        BY DEF BeginFrame, Recode, slots, batching, Inv, ShapeInv, BatchInv
  <1>2. /\ refCount' \in [Buffer -> Int] /\ CountsExact'
        /\ recon' \in Buffer /\ target' = recon'
        /\ Owners(recon') = {}
        /\ pixels' = [b \in Buffer |-> IF b = recon' THEN next ELSE pixels[b]]
        /\ next' = next + 1
        BY <1>1, PrepareFinds
  <1>3. ShapeInv /\ SlotInv /\ BatchInv
        BY DEF Inv
  <1>4. ShapeInv'
        BY <1>1, <1>2, <1>3 DEF ShapeInv
  <1>5. WorkInv'
    <2>1. pixels'[recon'] = next' - 1
          BY <1>2, <1>3 DEF ShapeInv
    <2>2. (Owners(recon) = {})'
          BY <1>1, <1>2 DEF Owners
    <2> QED
        BY <1>2, <2>1, <2>2 DEF WorkInv
  <1>6. \A s \in Slot : refBuf[s] \in Buffer => pixels'[refBuf[s]] = pixels[refBuf[s]]
        BY <1>2 DEF Owners
  <1>7. SlotInv'
        BY <1>1, <1>3, <1>6 DEF SlotInv, ShapeInv
  <1>8. BatchInv'
    <2>1. batch = "open" => view.buf = refBuf
          BY <1>1, <1>3 DEF BatchInv
    <2> QED
        BY <1>1, <1>3, <1>6, <2>1 DEF BatchInv, ShapeInv
  <1> QED
      BY <1>2, <1>4, <1>5, <1>7, <1>8 DEF Inv

\* KeepReferences
LEMMA KeepStep ==
  ASSUME Inv, KeepReferences
  PROVE  Inv'
  <1>1. /\ UNCHANGED <<refCount, pixels, recon, target, refBuf, own, valid, holds,
                       todo, next, helpers, view>>
        /\ phase' = "idle" /\ phase = "coding"
        /\ batch' = (IF batch = "open" THEN "done" ELSE batch)
        BY DEF KeepReferences, EndFrame, pool, slots
  <1>2. CountsExact'
        BY <1>1, CountsKept DEF Inv
  <1>3. ShapeInv'
        BY <1>1 DEF Inv, ShapeInv
  <1>4. WorkInv' /\ SlotInv'
        BY <1>1 DEF Inv, WorkInv, SlotInv
  <1>5. BatchInv'
        BY <1>1 DEF Inv, BatchInv, ShapeInv
  <1> QED
      BY <1>2, <1>3, <1>4, <1>5 DEF Inv

\* RefreshReferences
LEMMA RefreshStep ==
  ASSUME Inv, RefreshReferences
  PROVE  Inv'
  <1>1. /\ UNCHANGED <<refCount, pixels, recon, target, refBuf, own, valid, holds,
                       next, batch, helpers, view>>
        /\ phase' = "refreshing" /\ phase = "coding" /\ todo' \subseteq Slot
        BY DEF RefreshReferences, pool, slots, batching
  <1>2. CountsExact'
        BY <1>1, CountsKept DEF Inv
  <1>3. ShapeInv'
        BY <1>1 DEF Inv, ShapeInv
  <1>4. WorkInv' /\ SlotInv'
        BY <1>1 DEF Inv, WorkInv, SlotInv
  <1>5. BatchInv'
        BY <1>1 DEF Inv, BatchInv, ShapeInv
  <1> QED
      BY <1>2, <1>3, <1>4, <1>5 DEF Inv

\* AliasSlot: the slot gets the working buffer, which shows the coded picture.
LEMMA AliasStep ==
  ASSUME Inv, NEW s \in Slot, AliasSlot(s)
  PROVE  Inv'
  <1>1. ShapeInv /\ CountsExact /\ WorkInv /\ SlotInv /\ BatchInv
        BY DEF Inv
  <1>2. phase = "refreshing" /\ recon \in Buffer /\ pixels[recon] = next - 1
        BY <1>1 DEF AliasSlot, WorkInv
  <1>3. recon # NoBuffer
        BY <1>2 DEF Buffer, NoBuffer
  <1>4. /\ own' = {}
        /\ refCount' = [Released(refCount, refBuf[s]) EXCEPT ![recon] = @ + 1]
        /\ refBuf' = [refBuf EXCEPT ![s] = recon]
        /\ valid' = valid \cup {s} /\ holds' = [holds EXCEPT ![s] = next - 1]
        /\ UNCHANGED <<pixels, recon, target, next, helpers, view>>
        BY <1>1, <1>3 DEF AliasSlot, ShapeInv
  <1>5. /\ todo' \subseteq Slot /\ phase' \in {"idle", "refreshing"}
        /\ \/ phase' = "refreshing" /\ batch' = batch /\ batch # "done"
           \/ phase' = "idle" /\ batch' = (IF batch = "open" THEN "done" ELSE batch)
        BY <1>1, <1>2 DEF AliasSlot, EndFrame, ShapeInv, BatchInv
  <1>6. CountsExact'
    <2>1. \A b \in Buffer : refCount'[b] =
            Released(refCount, refBuf[s])[b] + (IF b = recon THEN 1 ELSE 0)
      <3>1. Released(refCount, refBuf[s]) \in [Buffer -> Int]
            BY <1>1, ReleasedSlot
      <3> QED
          BY <1>4, <3>1
    <2> QED
        BY <1>1, <1>4, <2>1, CountsMoved
  <1>7. refCount' \in [Buffer -> Int]
    <2>1. Released(refCount, refBuf[s]) \in [Buffer -> Int]
          BY <1>1, ReleasedSlot
    <2> HIDE DEF Released
    <2> QED
        BY <1>2, <1>4, <2>1
  <1>8. ShapeInv'
        BY <1>1, <1>2, <1>4, <1>5, <1>7 DEF ShapeInv
  <1>9. WorkInv'
        BY <1>2, <1>4, <1>5 DEF WorkInv
  <1>10. SlotInv'
        BY <1>1, <1>2, <1>4 DEF SlotInv, ShapeInv
  <1>11. BatchInv'
    <2>1. helpers' > 0 => batch' # "none"
          BY <1>1, <1>4, <1>5 DEF BatchInv
    <2>2. batch' = "done" => phase' = "idle"
          BY <1>1, <1>5 DEF ShapeInv
    <2>3. batch' = "open" => phase' = "refreshing"
          BY <1>1, <1>5 DEF ShapeInv
    <2>4. batch' # "none" => batch # "none"
          BY <1>5
    <2> QED
        BY <1>1, <1>4, <1>5, <2>1, <2>2, <2>3, <2>4 DEF BatchInv
  <1> QED
      BY <1>6, <1>8, <1>9, <1>10, <1>11 DEF Inv

\* StoreCopy: the copy goes to a buffer nobody holds.
LEMMA StoreStep ==
  ASSUME Inv, NEW s \in Slot, StoreCopy(s)
  PROVE  Inv'
  <1> DEFINE idx == FreeIndex(refCount)
  <1>1. ShapeInv /\ CountsExact /\ SlotInv /\ BatchInv
        BY DEF Inv
  <1>2. phase = "idle" /\ batch = "none"
        BY DEF StoreCopy, Between
  <1>3. idx \in Buffer /\ refCount[idx] = 0
    <2>1. PICK b \in Buffer : Owners(b) = {} /\ b # recon
          BY <1>1, Pigeonhole DEF ShapeInv
    <2>2. refCount[b] = 0
      <3>1. Cardinality(Owners(b)) = 0
            BY <2>1, OwnersFinite
      <3> QED
          BY <1>1, <2>1, <3>1 DEF CountsExact
    <2> QED
        BY <2>2, FreeIndexIsFree
  <1>4. Owners(idx) = {}
    <2>1. refCount[idx] = Cardinality(Owners(idx)) + (IF recon = idx THEN 1 ELSE 0)
          BY <1>1, <1>3 DEF CountsExact
    <2>2. Cardinality(Owners(idx)) \in Nat
          BY OwnersFinite
    <2>3. Cardinality(Owners(idx)) = 0
          BY <1>3, <2>1, <2>2
    <2> QED
        BY <2>3, OwnersFinite
  <1>5. idx # NoBuffer
        BY <1>3 DEF Buffer, NoBuffer
  <1>6. /\ own' = {} /\ pixels' = [pixels EXCEPT ![idx] = next]
        /\ refCount' = [Released(refCount, refBuf[s]) EXCEPT ![idx] = @ + 1]
        /\ refBuf' = [refBuf EXCEPT ![s] = idx]
        /\ valid' = valid \cup {s} /\ holds' = [holds EXCEPT ![s] = next]
        /\ next' = next + 1
        /\ UNCHANGED <<recon, target, phase, todo, batch, helpers, view>>
        BY <1>1, <1>5 DEF StoreCopy, ShapeInv, batching
  <1> HIDE DEF idx
  <1>7. Released(refCount, refBuf[s]) \in [Buffer -> Int]
        BY <1>1, ReleasedSlot
  <1>8. CountsExact'
    <2>1. \A b \in Buffer : refCount'[b] =
            Released(refCount, refBuf[s])[b] + (IF b = idx THEN 1 ELSE 0)
          BY <1>6, <1>7
    <2> QED
        BY <1>1, <1>6, <2>1, CountsMoved
  <1>9. refCount' \in [Buffer -> Int]
        BY <1>3, <1>6, <1>7
  <1>10. ShapeInv'
        BY <1>1, <1>3, <1>6, <1>9 DEF ShapeInv
  <1>11. WorkInv'
        BY <1>2, <1>6 DEF WorkInv
  <1>12. SlotInv'
    <2> SUFFICES ASSUME NEW t \in valid'
                 PROVE  refBuf'[t] \in Buffer /\ pixels'[refBuf'[t]] = holds'[t]
        BY DEF SlotInv
    <2>1. CASE t = s
          BY <1>1, <1>3, <1>6, <2>1 DEF ShapeInv
    <2>2. CASE t # s
      <3>1. t \in valid /\ t \in Slot /\ refBuf[t] # idx
            BY <1>1, <1>4, <1>6, <2>2 DEF ShapeInv, Owners
      <3> QED
          BY <1>1, <1>6, <2>2, <3>1 DEF SlotInv, ShapeInv
    <2> QED
        BY <2>1, <2>2
  <1>13. BatchInv'
        BY <1>1, <1>2, <1>6 DEF BatchInv
  <1> QED
      BY <1>8, <1>10, <1>11, <1>12, <1>13 DEF Inv

\* ReleaseSlot
LEMMA ReleaseStep ==
  ASSUME Inv, NEW s \in Slot, ReleaseSlot(s)
  PROVE  Inv'
  <1>1. ShapeInv /\ CountsExact /\ SlotInv /\ BatchInv
        BY DEF Inv
  <1>2. /\ refCount' = Released(refCount, refBuf[s])
        /\ refBuf' = [refBuf EXCEPT ![s] = NoBuffer]
        /\ own' = own \ {s} /\ valid' = valid \ {s} /\ todo' = todo \ {s}
        /\ phase = "releasing" /\ phase' \in {"idle", "releasing"}
        /\ UNCHANGED <<pixels, recon, target, holds, next, batch, helpers, view>>
        BY DEF ReleaseSlot, batching
  <1>3. Released(refCount, refBuf[s]) \in [Buffer -> Int]
        BY <1>1, ReleasedSlot
  <1>4. CountsExact'
    <2>1. \A b \in Buffer : refCount'[b] =
            Released(refCount, refBuf[s])[b] + (IF b = NoBuffer THEN 1 ELSE 0)
      <3>1. \A b \in Buffer : Released(refCount, refBuf[s])[b] \in Int
            BY <1>3
      <3>2. \A b \in Buffer : b # NoBuffer
            BY DEF Buffer, NoBuffer
      <3> QED
          BY <1>2, <3>1, <3>2
    <2> QED
        BY <1>1, <1>2, <2>1, CountsMoved
  <1>5. ShapeInv'
        BY <1>1, <1>2, <1>3 DEF ShapeInv
  <1>6. WorkInv'
        BY <1>2 DEF WorkInv
  <1>7. SlotInv'
        BY <1>1, <1>2 DEF SlotInv, ShapeInv
  <1>8. BatchInv'
        BY <1>1, <1>2 DEF BatchInv, ShapeInv
  <1> QED
      BY <1>4, <1>5, <1>6, <1>7, <1>8 DEF Inv

\* ChangeResolution, BeginBatch, HelperReturns, EndBatch and the steps that
\* change nothing: what the counts are about stays as it is.
LEMMA OtherStep ==
  ASSUME Inv, ChangeResolution \/ BeginBatch \/ HelperReturns \/ EndBatch
                \/ UNCHANGED vars
  PROVE  Inv'
  <1>1. ShapeInv /\ CountsExact /\ WorkInv /\ SlotInv /\ BatchInv
        BY DEF Inv
  <1>2. CountsExact'
    <2>1. UNCHANGED <<refCount, recon, refBuf>>
          BY DEF ChangeResolution, BeginBatch, HelperReturns, EndBatch, vars, pool, slots
    <2> QED
        BY <1>1, <2>1, CountsKept
  <1>3. CASE ChangeResolution
        BY <1>1, <1>2, <1>3 DEF ChangeResolution, Between, Inv, ShapeInv, WorkInv,
           SlotInv, BatchInv, pool, slots, batching
  <1>4. CASE BeginBatch
    <2>1. /\ view' = View /\ batch' = "open" /\ helpers' \in Nat /\ phase = "idle"
          /\ UNCHANGED <<refCount, pixels, recon, target, refBuf, own, valid, holds,
                         phase, todo, next>>
          BY <1>4, BoundsAssumption DEF BeginBatch, Between, pool, slots
    <2>2. ShapeInv' /\ WorkInv' /\ SlotInv'
          BY <1>1, <2>1 DEF ShapeInv, WorkInv, SlotInv
    <2>3. BatchInv'
          BY <1>1, <2>1 DEF BatchInv, View, ShapeInv, SlotInv
    <2> QED
        BY <1>2, <2>2, <2>3 DEF Inv
  <1>5. CASE HelperReturns
    <2>1. /\ helpers' = helpers - 1 /\ helpers > 0
          /\ UNCHANGED <<refCount, pixels, recon, target, refBuf, own, valid, holds,
                         phase, todo, next, batch, view>>
          BY <1>5 DEF HelperReturns, pool, slots
    <2>2. ShapeInv'
          BY <1>1, <2>1 DEF ShapeInv
    <2>3. WorkInv'
          BY <1>1, <2>1 DEF WorkInv, Owners
    <2>4. SlotInv'
          BY <1>1, <2>1 DEF SlotInv
    <2>5. BatchInv'
          BY <1>1, <2>1 DEF BatchInv
    <2> QED
        BY <1>2, <2>2, <2>3, <2>4, <2>5 DEF Inv
  <1>6. CASE EndBatch
    <2>1. /\ batch = "done" /\ batch' = "none" /\ helpers = 0 /\ phase = "idle"
          /\ valid' = view.valid
          /\ UNCHANGED <<refCount, pixels, recon, target, refBuf, own, holds,
                         phase, todo, next, helpers>>
          BY <1>6 DEF EndBatch, pool
    <2>2. valid' \subseteq valid
          BY <1>1, <2>1 DEF BatchInv
    <2>3. ShapeInv' /\ WorkInv' /\ SlotInv'
          BY <1>1, <2>1, <2>2 DEF ShapeInv, WorkInv, SlotInv
    <2>4. BatchInv'
          BY <2>1 DEF BatchInv
    <2> QED
        BY <1>2, <2>3, <2>4 DEF Inv
  <1>7. CASE UNCHANGED vars
    <2>1. ShapeInv' /\ SlotInv' /\ BatchInv'
          BY <1>1, <1>7 DEF ShapeInv, SlotInv, BatchInv, vars
    <2>2. WorkInv'
          BY <1>1, <1>7 DEF WorkInv, Owners, vars
    <2> QED
        BY <1>2, <2>1, <2>2 DEF Inv
  <1> QED
      BY <1>3, <1>4, <1>5, <1>6, <1>7

\* Every step of the encoder preserves the invariant.
LEMMA InvNext == Inv /\ [Next]_vars => Inv'
  <1> SUFFICES ASSUME Inv, [Next]_vars PROVE Inv'
      OBVIOUS
  <1>1. CASE BeginFrame \/ Recode
        BY <1>1, PaintStep
  <1>2. CASE KeepReferences
        BY <1>2, KeepStep
  <1>3. CASE RefreshReferences
        BY <1>3, RefreshStep
  <1>4. ASSUME NEW s \in Slot, AliasSlot(s) PROVE Inv'
        BY <1>4, AliasStep
  <1>5. ASSUME NEW s \in Slot, StoreCopy(s) PROVE Inv'
        BY <1>5, StoreStep
  <1>6. ASSUME NEW s \in Slot, ReleaseSlot(s) PROVE Inv'
        BY <1>6, ReleaseStep
  <1>7. CASE ChangeResolution \/ BeginBatch \/ HelperReturns \/ EndBatch
               \/ UNCHANGED vars
        BY <1>7, OtherStep
  <1>8. Done => UNCHANGED vars
        BY DEF Done
  <1> QED
      BY <1>1, <1>2, <1>3, <1>4, <1>5, <1>6, <1>7, <1>8 DEF Next

\* The invariant holds throughout.
LEMMA InvAlways == Spec => []Inv
  BY InvInit, InvNext, PTL DEF Spec

\* With a channel and a decoder around it the encoder behaves as it does alone.
LEMMA CodecStepsPool == [CodecNext]_allVars => [Next]_vars
  <1> SUFFICES ASSUME [CodecNext]_allVars PROVE [Next]_vars
      OBVIOUS
  <1>1. CASE Starts \/ GoesOn \/ Keeps \/ Refreshes
        BY <1>1 DEF Starts, GoesOn, Keeps, Refreshes, Next
  <1>2. ASSUME NEW s \in Slot, Parts(s) \/ SetReferences(s) \/ ShowsExisting(s)
        PROVE  [Next]_vars
        BY <1>2 DEF Parts, SetReferences, ShowsExisting, Next
  <1>3. ASSUME NEW shown \in BOOLEAN, Arrives(shown) PROVE UNCHANGED vars
        BY <1>3 DEF Arrives
  <1>4. CASE Fails \/ Lost \/ Takes \/ Rejoins \/ UNCHANGED allVars
        BY <1>4 DEF Fails, Lost, Takes, Rejoins, allVars
  <1> QED
      BY <1>1, <1>2, <1>3, <1>4 DEF CodecNext

LEMMA CodecHasPool == CodecSpec => Spec
  <1>1. CodecInit => Init
        BY DEF CodecInit
  <1> QED
      BY <1>1, CodecStepsPool, PTL DEF CodecSpec, Spec

-----------------------------------------------------------------------------
(* Folding over a set. FoldSet stands for a function defined by recursion  *)
(* on the subsets of the set; it exists if the set is finite.              *)

\* The element that FoldSet takes out of s first.
Picked(s) == CHOOSE x \in s : TRUE

LEMMA PickedIn ==
  ASSUME NEW s, s # {}
  PROVE  Picked(s) \in s
  BY DEF Picked

\* Among sets of subsets of a finite set there is a smallest one.
LEMMA SmallestSet ==
  ASSUME NEW R, IsFiniteSet(R), NEW T \in SUBSET (SUBSET R), T # {}
  PROVE  \E t \in T : \A u \in T : u \subseteq t => u = t
  <1> DEFINE Q == StrictSubsetOrdering(R)
             P == SUBSET R
  <1>1. IsWellFoundedOn(Q, P)
        BY FS_StrictSubsetOrderingWellFounded, FS_FiniteSubsetsOfFinite
  <1>2. T \subseteq P
        OBVIOUS
  <1> HIDE DEF Q, P
  <1>3. PICK t \in T : \A u \in T : ~(<<u, t>> \in Q)
        BY <1>1, <1>2, WFMin
  <1>4. \A u \in T : u \subseteq t /\ u # t => <<u, t>> \in Q
        BY <1>2 DEF StrictSubsetOrdering, Q, P
  <1> QED
    <2> SUFFICES ASSUME NEW u \in T, u \subseteq t PROVE u = t
        OBVIOUS
    <2>1. ~(<<u, t>> \in Q)
          BY <1>3
    <2> QED
        BY <1>4, <2>1

\* g solves the recursion on the subsets of T.
Solves(g, T, X, f, base) ==
  /\ g \in [SUBSET T -> X]
  /\ \A s \in SUBSET T :
       g[s] = IF s = {} THEN base ELSE f[<<Picked(s), g[s \ {Picked(s)}]>>]

\* Two solutions agree where both are defined.
LEMMA SolutionsAgree ==
  ASSUME NEW R, IsFiniteSet(R), NEW X, NEW f, NEW base,
         NEW A \in SUBSET R, NEW B \in SUBSET R,
         NEW g, Solves(g, A, X, f, base), NEW h, Solves(h, B, X, f, base)
  PROVE  \A s \in SUBSET (A \cap B) : g[s] = h[s]
  <1> DEFINE Bad == {s \in SUBSET (A \cap B) : g[s] # h[s]}
  <1> SUFFICES ASSUME Bad # {} PROVE FALSE
      OBVIOUS
  <1>1. PICK t \in Bad : \A u \in Bad : u \subseteq t => u = t
    <2>1. Bad \in SUBSET (SUBSET R)
          OBVIOUS
    <2> HIDE DEF Bad
    <2> QED
        BY <2>1, SmallestSet
  <1>2. t # {}
        BY DEF Solves
  <1>3. Picked(t) \in t
        BY <1>2, PickedIn
  <1>4. g[t \ {Picked(t)}] = h[t \ {Picked(t)}]
        BY <1>1, <1>3
  <1>5. g[t] = f[<<Picked(t), g[t \ {Picked(t)}]>>]
        BY <1>1, <1>2 DEF Solves
  <1>6. h[t] = f[<<Picked(t), h[t \ {Picked(t)}]>>]
        BY <1>1, <1>2 DEF Solves
  <1> QED
      BY <1>1, <1>4, <1>5, <1>6

\* There is a solution: the one for a set is made of those for smaller sets.
LEMMA SolutionExists ==
  ASSUME NEW R, IsFiniteSet(R), NEW X, NEW base \in X, NEW f \in [R \X X -> X]
  PROVE  \E g : Solves(g, R, X, f, base)
  <1> DEFINE Sol(T) == CHOOSE g : Solves(g, T, X, f, base)
             Bad == {T \in SUBSET R : ~ \E g : Solves(g, T, X, f, base)}
  <1> SUFFICES ASSUME Bad # {} PROVE FALSE
      OBVIOUS
  <1>1. PICK T \in Bad : \A U \in Bad : U \subseteq T => U = T
    <2>1. Bad \in SUBSET (SUBSET R)
          OBVIOUS
    <2> HIDE DEF Bad
    <2> QED
        BY <2>1, SmallestSet
  <1>2. T \in SUBSET R /\ ~ \E g : Solves(g, T, X, f, base)
        BY <1>1
  <1>3. \A U \in SUBSET T : U # T => Solves(Sol(U), U, X, f, base)
        BY <1>1, <1>2
  <1> HIDE DEF Bad, Sol
  <1> DEFINE last == f[<<Picked(T), Sol(T \ {Picked(T)})[T \ {Picked(T)}]>>]
             h == [s \in SUBSET T |->
                     IF s = {} THEN base ELSE IF s = T THEN last ELSE Sol(s)[s]]
  <1>4. \A s \in SUBSET T : s # {} /\ s # T =>
          Sol(s)[s] \in X /\
          Sol(s)[s] = f[<<Picked(s), Sol(s \ {Picked(s)})[s \ {Picked(s)}]>>]
    <2> SUFFICES ASSUME NEW s \in SUBSET T, s # {}, s # T
                 PROVE  Sol(s)[s] \in X /\
                   Sol(s)[s] = f[<<Picked(s), Sol(s \ {Picked(s)})[s \ {Picked(s)}]>>]
        OBVIOUS
    <2> DEFINE r == s \ {Picked(s)}
    <2>1. Picked(s) \in s
          BY PickedIn
    <2>2. r \in SUBSET T /\ r # T /\ r \in SUBSET (s \cap r)
          BY <2>1
    <2>3. Solves(Sol(s), s, X, f, base) /\ Solves(Sol(r), r, X, f, base)
          BY <1>3, <2>2
    <2>4. Sol(s)[s] \in X /\ Sol(s)[s] = f[<<Picked(s), Sol(s)[r]>>]
          BY <2>3 DEF Solves
    <2> HIDE DEF r
    <2>5. s \in SUBSET R /\ r \in SUBSET R
          BY <1>2, <2>2
    <2>6. Sol(s)[r] = Sol(r)[r]
          BY <2>2, <2>3, <2>5, SolutionsAgree
    <2> QED
        BY <2>4, <2>6 DEF r
  <1>5. T # {} => last \in X
    <2> SUFFICES ASSUME T # {} PROVE last \in X
        OBVIOUS
    <2> DEFINE r == T \ {Picked(T)}
    <2>1. Picked(T) \in T /\ Picked(T) \in R
          BY <1>2, PickedIn
    <2>2. r \in SUBSET T /\ r # T
          BY <2>1
    <2>3. Solves(Sol(r), r, X, f, base)
          BY <1>3, <2>2
    <2> HIDE DEF r
    <2>4. Sol(r)[r] \in X
          BY <2>3 DEF Solves
    <2> QED
        BY <2>1, <2>4 DEF r
  <1>6. h \in [SUBSET T -> X]
        BY <1>4, <1>5
  <1>7. ASSUME NEW s \in SUBSET T, s # {}
        PROVE  h[s] = f[<<Picked(s), h[s \ {Picked(s)}]>>]
    <2> DEFINE r == s \ {Picked(s)}
    <2>1. Picked(s) \in s
          BY <1>7, PickedIn
    <2>2. r \in SUBSET T /\ r # T
          BY <2>1
    <2>3. h[r] = IF r = {} THEN base ELSE Sol(r)[r]
          BY <2>2
    <2>4. Sol({})[{}] = base
      <3>1. {} \in SUBSET T /\ {} # T
            BY <1>7
      <3>2. Solves(Sol({}), {}, X, f, base)
            BY <1>3, <3>1
      <3> QED
          BY <3>2 DEF Solves
    <2>5. h[r] = Sol(r)[r]
          BY <2>3, <2>4
    <2>6. h[s] = f[<<Picked(s), Sol(r)[r]>>]
          BY <1>4, <1>7
    <2> QED
        BY <2>5, <2>6
  <1>8. h[{}] = base
        OBVIOUS
  <1> HIDE DEF h
  <1>9. Solves(h, T, X, f, base)
        BY <1>6, <1>7, <1>8 DEF Solves
  <1> QED
      BY <1>2, <1>9

\* A function that satisfies the recursion as long as it stays in X does so.
LEMMA StaysInside ==
  ASSUME NEW R, IsFiniteSet(R), NEW X, NEW base \in X, NEW f \in [R \X X -> X],
         NEW g, g = [s \in SUBSET R |-> g[s]], g[{}] = base,
         \A s \in SUBSET R : s # {} /\ g[s \ {Picked(s)}] \in X =>
           g[s] = f[<<Picked(s), g[s \ {Picked(s)}]>>]
  PROVE  Solves(g, R, X, f, base)
  <1> DEFINE Bad == {s \in SUBSET R : g[s] \notin X}
  <1>1. Bad = {}
    <2> SUFFICES ASSUME Bad # {} PROVE FALSE
        OBVIOUS
    <2>1. PICK t \in Bad : \A u \in Bad : u \subseteq t => u = t
      <3>1. Bad \in SUBSET (SUBSET R)
            OBVIOUS
      <3> HIDE DEF Bad
      <3> QED
          BY <3>1, SmallestSet
    <2>2. t # {} /\ t \in SUBSET R
          BY <2>1
    <2>3. Picked(t) \in t
          BY <2>2, PickedIn
    <2>4. g[t \ {Picked(t)}] \in X
      <3>1. t \ {Picked(t)} \in SUBSET R /\ t \ {Picked(t)} # t
            BY <2>2, <2>3
      <3>2. t \ {Picked(t)} \notin Bad
            BY <2>1, <3>1
      <3> QED
          BY <3>1, <3>2
    <2>5. g[t] = f[<<Picked(t), g[t \ {Picked(t)}]>>]
          BY <2>2, <2>4
    <2>6. <<Picked(t), g[t \ {Picked(t)}]>> \in R \X X
          BY <2>2, <2>3, <2>4
    <2> QED
        BY <2>1, <2>5, <2>6
  <1>2. \A s \in SUBSET R : g[s] \in X
        BY <1>1
  <1>3. \A s \in SUBSET R : s \ {Picked(s)} \in SUBSET R
        OBVIOUS
  <1> QED
      BY <1>2, <1>3 DEF Solves

\* Adding an element leads from a pair of J to a pair of J.
Inductive(J, R, X, f) ==
  \A s \in SUBSET R, x \in R, d \in X :
    x \notin s /\ <<s, d>> \in J => <<s \cup {x}, f[<<x, d>>]>> \in J

\* What holds of the base, and of each step if it held before, holds of the fold.
LEMMA FoldRule ==
  ASSUME NEW R, IsFiniteSet(R), NEW X, NEW f, NEW base,
         NEW g, Solves(g, R, X, f, base),
         NEW J, <<{}, base>> \in J, Inductive(J, R, X, f)
  PROVE  <<R, g[R]>> \in J
  <1> DEFINE Bad == {s \in SUBSET R : <<s, g[s]>> \notin J}
  <1> SUFFICES ASSUME Bad # {} PROVE FALSE
      BY R \in SUBSET R
  <1>1. PICK t \in Bad : \A u \in Bad : u \subseteq t => u = t
    <2>1. Bad \in SUBSET (SUBSET R)
          OBVIOUS
    <2> HIDE DEF Bad
    <2> QED
        BY <2>1, SmallestSet
  <1> DEFINE x == Picked(t)
             r == t \ {x}
  <1>2. t \in SUBSET R /\ <<t, g[t]>> \notin J
        BY <1>1
  <1>3. t # {}
        BY <1>2 DEF Solves
  <1>4. x \in t
        BY <1>3, PickedIn
  <1>5. r \in SUBSET R /\ r # t /\ x \notin r /\ r \cup {x} = t /\ x \in R
        BY <1>2, <1>4
  <1>6. <<r, g[r]>> \in J
        BY <1>1, <1>5
  <1>7. g[t] = f[<<x, g[r]>>] /\ g[r] \in X
        BY <1>2, <1>3, <1>5 DEF Solves
  <1> HIDE DEF x, r, Bad
  <1> QED
      BY <1>2, <1>5, <1>6, <1>7 DEF Inductive

-----------------------------------------------------------------------------
(* The decoder's storage.                                                  *)

StoreType ==
  [leases : [Leased -> Nat], active : Leased \cup {None}, lastLease : Leased \cup {None},
   img : [Slot -> Storage \cup {None}], last : Storage \cup {None},
   pix : [Storage -> Int], ready : BOOLEAN]

\* The slots that show b.
Showing(d, b) == {s \in Slot : d.img[s] = b}

Counted(d, b) ==
  Cardinality(Showing(d, b)) + (IF d.lastLease = b THEN 1 ELSE 0)
                             + (IF d.active = b THEN 1 ELSE 0)

\* Storage in which every lease is counted, also within a call: the frame at
\* work has a lease of its own, and so has the one on show, but never both.
Exact(d) ==
  /\ d \in StoreType
  /\ d.active = None \/ d.lastLease = None
  /\ \A b \in Leased : d.leases[b] = Counted(d, b)
  /\ \A s \in Slot : d.img[s] \in Leased \cup {OwnOf(s), None}

\* Nothing lent is held.
Apart(d) ==
  /\ d.active \notin App /\ d.lastLease \notin App
  /\ \A s \in Slot : d.img[s] \notin App


\* pic is on show and held until the next call that decodes.
OnShow(d, pic) ==
  /\ d.last \in Storage /\ d.pix[d.last] = pic
  /\ d.last \in Leased => d.lastLease = d.last

\* Nothing that a slot shows has been moved or painted over.
Same(d, e) ==
  /\ e.img = d.img
  /\ \A s \in Slot : d.img[s] # None => e.pix[d.img[s]] = d.pix[d.img[s]]

\* The kinds of storage are distinct.
LEMMA Kinds ==
  /\ None \notin Storage /\ Post \in Storage /\ Post \notin Leased /\ Post # None
  /\ Leased \subseteq Storage /\ Pool \subseteq Leased /\ App \subseteq Leased
  /\ Pool \cap App = {} /\ None \notin Leased /\ None \notin App
  /\ \A s \in Slot : OwnOf(s) \in Storage \ Leased /\ OwnOf(s) \notin {Post, None}
  /\ \A s, t \in Slot : OwnOf(s) = OwnOf(t) => s = t
  <1>1. Pool \cap App = {} /\ Post \notin Leased /\ None \notin Leased /\ Post # None
        BY DEF Pool, App, Leased, Post, None
  <1>2. \A s \in Slot : OwnOf(s) \notin Leased /\ OwnOf(s) \notin {Post, None}
        BY DEF Pool, App, Leased, Post, None, OwnOf
  <1>3. \A s, t \in Slot : OwnOf(s) = OwnOf(t) => s = t
        BY DEF OwnOf
  <1> QED
      BY <1>1, <1>2, <1>3 DEF Storage, Leased

\* Finitely many slots show b.
LEMMA ShowingFinite ==
  ASSUME NEW d, NEW b
  PROVE  /\ IsFiniteSet(Showing(d, b)) /\ Cardinality(Showing(d, b)) \in Nat
         /\ Cardinality(Showing(d, b)) = 0 <=> Showing(d, b) = {}
  <1>1. IsFiniteSet(Showing(d, b))
        BY SlotAssumption, Showing(d, b) \in SUBSET Slot, FS_Subset DEF Showing
  <1> QED
      BY <1>1, FS_CardinalityType, FS_EmptySet

\* Counts depend on the slots and on the two frames held besides.
LEMMA CountedAs ==
  ASSUME NEW d, NEW e, NEW b, e.img = d.img
  PROVE  /\ Counted(d, b) \in Nat
         /\ Counted(e, b) = Counted(d, b) - (IF d.lastLease = b THEN 1 ELSE 0)
                                          + (IF e.lastLease = b THEN 1 ELSE 0)
                                          - (IF d.active = b THEN 1 ELSE 0)
                                          + (IF e.active = b THEN 1 ELSE 0)
  <1>1. Showing(e, b) = Showing(d, b)
        BY DEF Showing
  <1> DEFINE n == Cardinality(Showing(d, b))
  <1>2. n \in Nat /\ Cardinality(Showing(e, b)) = n
        BY <1>1, ShowingFinite
  <1> HIDE DEF n
  <1> QED
      BY <1>2 DEF Counted, n

\* What is held is counted, and what has no lease is not held.
LEMMA HeldHasLease ==
  ASSUME NEW d, Exact(d), NEW b \in Leased
  PROVE  /\ d.leases[b] \in Nat
         /\ d.leases[b] = 0 =>
              d.active # b /\ d.lastLease # b /\ \A s \in Slot : d.img[s] # b
         /\ \A s \in Slot : d.img[s] = b /\ (d.active = b \/ d.lastLease = b)
                              => d.leases[b] >= 2
  <1> DEFINE n == Cardinality(Showing(d, b))
  <1>1. n \in Nat /\ (n = 0 <=> Showing(d, b) = {})
        BY ShowingFinite
  <1>2. \A s \in Slot : d.img[s] = b => n # 0
        BY <1>1 DEF Showing
  <1>3. d.leases[b] = n + (IF d.lastLease = b THEN 1 ELSE 0) + (IF d.active = b THEN 1 ELSE 0)
        BY DEF Exact, Counted
  <1> HIDE DEF n
  <1> QED
      BY <1>1, <1>2, <1>3

\* What Release does to storage of the right type.
LEMMA ReleaseFields ==
  ASSUME NEW d \in StoreType, NEW b
  PROVE  /\ Release(d, b) \in StoreType
         /\ Release(d, b).active = d.active /\ Release(d, b).lastLease = d.lastLease
         /\ Release(d, b).img = d.img /\ Release(d, b).last = d.last
         /\ Release(d, b).ready = d.ready
         /\ \A c \in Leased : Release(d, b).leases[c] =
              d.leases[c] - (IF c = b /\ d.leases[c] > 0 THEN 1 ELSE 0)
         /\ \A c \in Storage : Release(d, b).pix[c] # d.pix[c] =>
              c = b /\ c \in App /\ d.leases[c] = 1
  <1>1. CASE b \notin Leased \/ d.leases[b] = 0
        BY <1>1 DEF Release, StoreType
  <1>2. CASE b \in Leased /\ d.leases[b] # 0
    <2> DEFINE v == IF b \in App /\ d.leases[b] = 1 THEN Junk ELSE d.pix[b]
    <2>1. /\ d.leases[b] \in Nat /\ d.leases[b] > 0 /\ d.leases[b] - 1 \in Nat
          /\ b \in Storage
          BY <1>2, Kinds DEF StoreType
    <2>2. Release(d, b) = [d EXCEPT !.leases[b] = d.leases[b] - 1, !.pix[b] = v]
          BY <1>2 DEF Release
    <2>3. v \in Int
          BY <2>1 DEF StoreType, Junk
    <2>4. v # d.pix[b] => b \in App /\ d.leases[b] = 1
          OBVIOUS
    <2> HIDE DEF v
    <2>5. /\ Release(d, b).leases = [d.leases EXCEPT ![b] = d.leases[b] - 1]
          /\ Release(d, b).pix = [d.pix EXCEPT ![b] = v]
          /\ Release(d, b).active = d.active /\ Release(d, b).lastLease = d.lastLease
          /\ Release(d, b).img = d.img /\ Release(d, b).last = d.last
          /\ Release(d, b).ready = d.ready
          BY <2>2 DEF StoreType
    <2>6. Release(d, b) \in StoreType
      <3> DEFINE l == [d.leases EXCEPT ![b] = d.leases[b] - 1]
                 p == [d.pix EXCEPT ![b] = v]
      <3>1. Release(d, b) = [d EXCEPT !.leases = l, !.pix = p]
            BY <2>2 DEF StoreType
      <3>2. l \in [Leased -> Nat] /\ p \in [Storage -> Int]
            BY <2>1, <2>3 DEF StoreType
      <3> HIDE DEF l, p
      <3> QED
          BY <3>1, <3>2 DEF StoreType
    <2>7. \A c \in Leased : Release(d, b).leases[c] =
              d.leases[c] - (IF c = b /\ d.leases[c] > 0 THEN 1 ELSE 0)
          BY <2>1, <2>5 DEF StoreType
    <2>8. \A c \in Storage : Release(d, b).pix[c] # d.pix[c] =>
              c = b /\ c \in App /\ d.leases[c] = 1
          BY <2>1, <2>4, <2>5 DEF StoreType
    <2> QED
        BY <2>5, <2>6, <2>7, <2>8
  <1> QED
      BY <1>1, <1>2

\* releaseVP9ActiveInternalFrame, and what is let go of the picture on show:
\* no slot changes, and what is on show is painted over only if nobody holds it.
LetGo(d, e) ==
  /\ Exact(e) /\ Same(d, e)
  /\ e.last = d.last /\ e.ready = d.ready
  /\ \A c \in Storage : e.pix[c] # d.pix[c] => c \in App /\ e.leases[c] = 0
  /\ Apart(d) => Apart(e)

\* Counts stay exact if they move with the frames held.
LEMMA Recounted ==
  ASSUME NEW d, Exact(d), NEW e \in StoreType, e.img = d.img,
         e.active = None \/ e.lastLease = None,
         \A c \in Leased : e.leases[c] = d.leases[c]
           - (IF d.lastLease = c THEN 1 ELSE 0) + (IF e.lastLease = c THEN 1 ELSE 0)
           - (IF d.active = c THEN 1 ELSE 0) + (IF e.active = c THEN 1 ELSE 0)
  PROVE  Exact(e)
  <1>1. ASSUME NEW c \in Leased PROVE e.leases[c] = Counted(e, c)
    <2>1. d.leases[c] = Counted(d, c)
          BY DEF Exact
    <2> QED
        BY <2>1, CountedAs
  <1> QED
      BY <1>1 DEF Exact

\* What is painted over without a lease is not shown by a slot.
LEMMA Unshown ==
  ASSUME NEW d, NEW e, Exact(e), e.img = d.img,
         \A c \in Storage : e.pix[c] # d.pix[c] => c = Post \/ (c \in Leased /\ e.leases[c] = 0)
  PROVE  Same(d, e)
  <1> SUFFICES ASSUME NEW s \in Slot, d.img[s] # None
               PROVE  e.pix[d.img[s]] = d.pix[d.img[s]]
      BY DEF Same
  <1>1. d.img[s] \in Storage /\ d.img[s] # Post
        BY Kinds DEF Exact
  <1>2. d.img[s] \in Leased => e.leases[d.img[s]] # 0
        BY HeldHasLease
  <1> QED
      BY <1>1, <1>2

\* ReleaseActive lets go of the frame at work and of nothing else.
LEMMA ReleaseActiveLetsGo ==
  ASSUME NEW d, Exact(d)
  PROVE  /\ LetGo(d, ReleaseActive(d))
         /\ ReleaseActive(d).active = None /\ ReleaseActive(d).lastLease = d.lastLease
  <1> DEFINE r == Release(d, d.active)
             e == ReleaseActive(d)
  <1>1. d \in StoreType /\ d.active \in Leased \cup {None}
        BY DEF Exact, StoreType
  <1>2. /\ r \in StoreType /\ r.lastLease = d.lastLease /\ r.img = d.img
        /\ r.last = d.last /\ r.ready = d.ready
        /\ \A c \in Leased : r.leases[c] =
              d.leases[c] - (IF c = d.active /\ d.leases[c] > 0 THEN 1 ELSE 0)
        /\ \A c \in Storage : r.pix[c] # d.pix[c] =>
              c = d.active /\ c \in App /\ d.leases[c] = 1
        BY <1>1, ReleaseFields
  <1>3. /\ e = [r EXCEPT !.active = None]
        BY DEF ReleaseActive
  <1> HIDE DEF r, e
  <1>4. /\ e \in StoreType /\ e.lastLease = d.lastLease /\ e.img = d.img
        /\ e.last = d.last /\ e.ready = d.ready /\ e.active = None
        /\ e.leases = r.leases /\ e.pix = r.pix
        BY <1>2, <1>3 DEF StoreType
  <1>5. \A c \in Leased : e.leases[c] = d.leases[c] - (IF d.active = c THEN 1 ELSE 0)
    <2> SUFFICES ASSUME NEW c \in Leased
                 PROVE  e.leases[c] = d.leases[c] - (IF d.active = c THEN 1 ELSE 0)
        OBVIOUS
    <2>1. d.leases[c] \in Nat /\ (d.leases[c] = 0 => d.active # c)
          BY HeldHasLease
    <2> QED
        BY <1>2, <1>4, <2>1
  <1>6. Exact(e)
    <2>1. \A c \in Leased : e.leases[c] = d.leases[c]
           - (IF d.lastLease = c THEN 1 ELSE 0) + (IF e.lastLease = c THEN 1 ELSE 0)
           - (IF d.active = c THEN 1 ELSE 0) + (IF e.active = c THEN 1 ELSE 0)
      <3>1. \A c \in Leased : d.leases[c] \in Nat /\ e.active # c
            BY <1>4, HeldHasLease, Kinds
      <3> QED
          BY <1>4, <1>5, <3>1
    <2> QED
        BY <1>4, <2>1, Recounted
  <1>7. \A c \in Storage : e.pix[c] # d.pix[c] => c \in App /\ e.leases[c] = 0
    <2> SUFFICES ASSUME NEW c \in Storage, e.pix[c] # d.pix[c]
                 PROVE  c \in App /\ e.leases[c] = 0
        OBVIOUS
    <2>1. c = d.active /\ c \in App /\ d.leases[c] = 1
          BY <1>2, <1>4
    <2>2. e.leases[c] = 1 - 1
          BY <1>5, <2>1, Kinds
    <2> QED
        BY <2>1, <2>2
  <1>8. Same(d, e)
        BY <1>4, <1>6, <1>7, Unshown, Kinds
  <1>9. Apart(d) => Apart(e)
        BY <1>4, Kinds DEF Apart
  <1> QED
      BY <1>4, <1>6, <1>7, <1>8, <1>9 DEF LetGo, e

\* replaceVP9LastFrameInternal with nothing.
LEMMA LastLetGo ==
  ASSUME NEW d, Exact(d)
  PROVE  /\ LetGo(d, ReplaceLast(d, None))
         /\ ReplaceLast(d, None).lastLease = None /\ ReplaceLast(d, None).active = d.active
  <1> DEFINE r == Release(d, d.lastLease)
             e == ReplaceLast(d, None)
  <1>1. d \in StoreType /\ d.lastLease \in Leased \cup {None}
        BY DEF Exact, StoreType
  <1>2. CASE d.lastLease = None
    <2>1. e = d
          BY <1>2 DEF ReplaceLast
    <2> QED
        BY <1>2, <2>1 DEF LetGo, Same
  <1>3. CASE d.lastLease # None
    <2>1. /\ r \in StoreType /\ r.active = d.active /\ r.img = d.img
          /\ r.last = d.last /\ r.ready = d.ready
          /\ \A c \in Leased : r.leases[c] =
                d.leases[c] - (IF c = d.lastLease /\ d.leases[c] > 0 THEN 1 ELSE 0)
          /\ \A c \in Storage : r.pix[c] # d.pix[c] =>
                c = d.lastLease /\ c \in App /\ d.leases[c] = 1
          BY <1>1, ReleaseFields
    <2>2. /\ e = [r EXCEPT !.lastLease = None]
          BY <1>3 DEF ReplaceLast
    <2> HIDE DEF r, e
    <2>3. /\ e \in StoreType /\ e.active = d.active /\ e.img = d.img
          /\ e.last = d.last /\ e.ready = d.ready /\ e.lastLease = None
          /\ e.leases = r.leases /\ e.pix = r.pix
          BY <2>1, <2>2 DEF StoreType
    <2>4. \A c \in Leased : e.leases[c] = d.leases[c] - (IF d.lastLease = c THEN 1 ELSE 0)
      <3> SUFFICES ASSUME NEW c \in Leased
                   PROVE  e.leases[c] = d.leases[c] - (IF d.lastLease = c THEN 1 ELSE 0)
          OBVIOUS
      <3>1. d.leases[c] \in Nat /\ (d.leases[c] = 0 => d.lastLease # c)
            BY HeldHasLease
      <3> QED
          BY <2>1, <2>3, <3>1
    <2>5. Exact(e)
      <3>1. \A c \in Leased : e.leases[c] = d.leases[c]
             - (IF d.lastLease = c THEN 1 ELSE 0) + (IF e.lastLease = c THEN 1 ELSE 0)
             - (IF d.active = c THEN 1 ELSE 0) + (IF e.active = c THEN 1 ELSE 0)
        <4>1. \A c \in Leased : d.leases[c] \in Nat /\ e.lastLease # c
              BY <2>3, HeldHasLease, Kinds
        <4> QED
            BY <2>3, <2>4, <4>1
      <3> QED
          BY <2>3, <3>1, Recounted
    <2>6. \A c \in Storage : e.pix[c] # d.pix[c] => c \in App /\ e.leases[c] = 0
      <3> SUFFICES ASSUME NEW c \in Storage, e.pix[c] # d.pix[c]
                   PROVE  c \in App /\ e.leases[c] = 0
          OBVIOUS
      <3>1. c = d.lastLease /\ c \in App /\ d.leases[c] = 1
            BY <2>1, <2>3
      <3>2. e.leases[c] = 1 - 1
            BY <2>4, <3>1, Kinds
      <3> QED
          BY <3>1, <3>2
    <2>7. Same(d, e)
          BY <2>3, <2>5, <2>6, Unshown, Kinds
    <2>8. Apart(d) => Apart(e)
          BY <2>3, Kinds DEF Apart
    <2> QED
        BY <2>3, <2>5, <2>6, <2>7, <2>8 DEF LetGo, e
  <1> QED
      BY <1>2, <1>3

\* Vacate lets go of both.
LEMMA Vacated ==
  ASSUME NEW d, Exact(d)
  PROVE  /\ Exact(Vacate(d)) /\ Same(d, Vacate(d))
         /\ Vacate(d).active = None /\ Vacate(d).lastLease = None
         /\ Vacate(d).last = d.last /\ Vacate(d).ready = d.ready
         /\ Apart(d) => Apart(Vacate(d))
  <1> DEFINE v == ReplaceLast(d, None)
             e == ReleaseActive(v)
  <1>1. LetGo(d, v) /\ v.lastLease = None
        BY LastLetGo
  <1>2. Exact(v)
        BY <1>1 DEF LetGo
  <1> HIDE DEF v
  <1>3. LetGo(v, e) /\ e.active = None /\ e.lastLease = v.lastLease
        BY <1>2, ReleaseActiveLetsGo
  <1>4. Vacate(d) = e
        BY DEF Vacate, v
  <1> HIDE DEF e
  <1>5. Same(d, e)
        BY <1>1, <1>3 DEF LetGo, Same
  <1> QED
      BY <1>1, <1>3, <1>4, <1>5 DEF LetGo

\* With more indices than slots one is left over.
LEMMA IndexLeft ==
  ASSUME NEW N \in Nat, N > Cardinality(Slot), NEW f
  PROVE  \E i \in 0..(N - 1) : \A s \in Slot : f[s] # i
  <1> DEFINE T == {f[s] : s \in Slot}
             g == [s \in Slot |-> f[s]]
             I == 0..(N - 1)
  <1>1. Cardinality(Slot) \in Nat
        BY SlotAssumption, FS_CardinalityType
  <1>2. IsFiniteSet(T) /\ Cardinality(T) <= Cardinality(Slot)
    <2>1. g \in Surjection(Slot, T)
          BY DEF Surjection
    <2> HIDE DEF T, g
    <2> QED
        BY <2>1, FS_Surjection, SlotAssumption
  <1>3. Cardinality(I) = N
    <2>1. 0 \in Int /\ N - 1 \in Int /\ N >= 1
          BY <1>1
    <2>2. Cardinality(0..(N - 1)) = IF 0 > N - 1 THEN 0 ELSE N - 1 - 0 + 1
          BY <2>1, FS_Interval
    <2> QED
        BY <2>1, <2>2
  <1> HIDE DEF T, I
  <1>4. ~(I \subseteq T)
    <2> SUFFICES ASSUME I \in SUBSET T PROVE FALSE
        OBVIOUS
    <2>1. Cardinality(I) <= Cardinality(T) /\ Cardinality(T) \in Nat
          BY <1>2, FS_Subset, FS_CardinalityType
    <2> QED
        BY <1>1, <1>2, <1>3, <2>1
  <1>5. PICK i \in I : i \notin T
        BY <1>4
  <1>6. \A s \in Slot : f[s] # i
        BY <1>5 DEF T
  <1> QED
      BY <1>5, <1>6 DEF I

\* Whoever holds no frame of his own finds a buffer nobody holds.
LEMMA LowestIsFree ==
  ASSUME NEW v, Exact(v), v.active = None, v.lastLease = None, NEW from \in {Pool, App}
  PROVE  /\ Lowest(FreeBuffers(v, from)) \in from
         /\ v.leases[Lowest(FreeBuffers(v, from))] = 0
  <1> DEFINE free == FreeBuffers(v, from)
             nums == {b[2] : b \in free}
  <1>1. \E b \in from : \A s \in Slot : v.img[s] # b
    <2> DEFINE f == [s \in Slot |-> v.img[s][2]]
    <2>0. \A s \in Slot : f[s] = v.img[s][2]
          OBVIOUS
    <2> HIDE DEF f
    <2>1. CASE from = Pool
      <3>0. PoolSize \in Nat /\ PoolSize > Cardinality(Slot)
            BY DecFramesAssumption
      <3>1. PICK i \in 0..(PoolSize - 1) : \A s \in Slot : f[s] # i
            BY <3>0, IndexLeft
      <3>2. <<"pool", i>> \in Pool /\ \A s \in Slot : v.img[s] # <<"pool", i>>
            BY <2>0, <3>1 DEF Pool
      <3> QED
          BY <2>1, <3>2
    <2>2. CASE from = App
      <3>0. AppBuffers \in Nat /\ AppBuffers > Cardinality(Slot)
            BY DecFramesAssumption
      <3>1. PICK i \in 0..(AppBuffers - 1) : \A s \in Slot : f[s] # i
            BY <3>0, IndexLeft
      <3>2. <<"app", i>> \in App /\ \A s \in Slot : v.img[s] # <<"app", i>>
            BY <2>0, <3>1 DEF App
      <3> QED
          BY <2>2, <3>2
    <2> QED
        BY <2>1, <2>2
  <1>2. from \subseteq Leased /\ \A b \in from : b[2] \in Nat
        BY Kinds, DecFramesAssumption DEF Pool, App
  <1>3. free # {}
    <2>1. PICK b \in from : \A s \in Slot : v.img[s] # b
          BY <1>1
    <2>2. Cardinality(Showing(v, b)) = 0
      <3>1. Showing(v, b) = {}
            BY <2>1 DEF Showing
      <3> QED
          BY <3>1, ShowingFinite
    <2>3. v.leases[b] = Counted(v, b) /\ b # None
          BY <1>2, Kinds DEF Exact
    <2>4. v.leases[b] = 0
          BY <2>2, <2>3 DEF Counted
    <2> QED
        BY <2>4 DEF FreeBuffers
  <1>4. free \subseteq from /\ \A b \in free : v.leases[b] = 0
        BY DEF FreeBuffers
  <1>5. nums \in SUBSET Nat /\ nums # {}
        BY <1>2, <1>3, <1>4
  <1>6. \E b \in free : \A c \in free : b[2] <= c[2]
    <2>1. \A b \in free : b[2] \in nums
          OBVIOUS
    <2>2. \A n \in nums : \E b \in free : n = b[2]
          OBVIOUS
    <2> HIDE DEF nums, free
    <2>3. PICK x \in nums : \A y \in nums : x <= y
          BY <1>5, LeastNat
    <2> QED
        BY <2>1, <2>2, <2>3
  <1>7. Lowest(free) \in free
    <2> HIDE DEF free
    <2> QED
        BY <1>6 DEF Lowest
  <1> QED
      BY <1>4, <1>7

\* A frame in hand: pic is painted, and the buffer is held.
InHand(d, pic) ==
  /\ d.last \in Storage /\ d.pix[d.last] = pic
  /\ d.last \in Leased => d.active = d.last

\* Allocate takes a buffer nobody shows and holds it.
LEMMA Allocated ==
  ASSUME NEW d, Exact(d), NEW from \in {Pool, App}
  PROVE  LET e == Allocate(d, from)
         IN /\ Exact(e) /\ Same(d, e)
            /\ e.active \in from /\ e.last = e.active /\ e.lastLease = None
            /\ \A s \in Slot : e.img[s] # e.active
            /\ Apart(d) /\ from = Pool => Apart(e)
  <1> DEFINE v == Vacate(d)
             b == Lowest(FreeBuffers(v, from))
             e == Allocate(d, from)
  <1>1. /\ Exact(v) /\ Same(d, v) /\ v.active = None /\ v.lastLease = None
        /\ Apart(d) => Apart(v)
        BY Vacated
  <1>2. e = [v EXCEPT !.leases[b] = 1, !.active = b, !.last = b, !.pix[b] = Junk]
        BY DEF Allocate
  <1> HIDE DEF v
  <1>3. b \in from /\ v.leases[b] = 0
        BY <1>1, LowestIsFree
  <1> HIDE DEF b, e
  <1>4. b \in Leased /\ b \in Storage /\ b # Post /\ b # None
        BY <1>3, Kinds
  <1>5. v \in StoreType
        BY <1>1 DEF Exact
  <1>6. /\ e.leases = [v.leases EXCEPT ![b] = 1] /\ e.pix = [v.pix EXCEPT ![b] = Junk]
        /\ e.active = b /\ e.last = b /\ e.lastLease = None /\ e.img = v.img
        BY <1>1, <1>2, <1>5 DEF StoreType
  <1>7. e \in StoreType
    <2> DEFINE l == [v.leases EXCEPT ![b] = 1]
               p == [v.pix EXCEPT ![b] = Junk]
    <2>1. e = [v EXCEPT !.leases = l, !.active = b, !.last = b, !.pix = p]
          BY <1>2, <1>5 DEF StoreType
    <2>2. l \in [Leased -> Nat] /\ p \in [Storage -> Int]
          BY <1>4, <1>5 DEF StoreType, Junk
    <2> HIDE DEF l, p
    <2> QED
        BY <1>4, <1>5, <2>1, <2>2 DEF StoreType
  <1>8. \A s \in Slot : v.img[s] # b
        BY <1>1, <1>3, <1>4, HeldHasLease
  <1>9. Exact(e)
    <2>1. \A c \in Leased : e.leases[c] = v.leases[c]
           - (IF v.lastLease = c THEN 1 ELSE 0) + (IF e.lastLease = c THEN 1 ELSE 0)
           - (IF v.active = c THEN 1 ELSE 0) + (IF e.active = c THEN 1 ELSE 0)
          BY <1>1, <1>3, <1>5, <1>6, Kinds DEF StoreType
    <2> QED
        BY <1>1, <1>6, <1>7, <2>1, Recounted
  <1>10. Same(d, e)
    <2>1. \A s \in Slot : e.pix[v.img[s]] = v.pix[v.img[s]]
          BY <1>5, <1>6, <1>8 DEF StoreType
    <2> QED
        BY <1>1, <1>6, <2>1 DEF Same
  <1>11. Apart(d) /\ from = Pool => Apart(e)
        BY <1>1, <1>3, <1>6, Kinds DEF Apart
  <1> QED
      BY <1>3, <1>6, <1>8, <1>9, <1>10, <1>11 DEF e

LEMMA SameTwice ==
  ASSUME NEW d, NEW e, NEW f, Same(d, e), Same(e, f)
  PROVE  Same(d, f)
  BY DEF Same

\* Painting over what no slot shows.
LEMMA Painted ==
  ASSUME NEW d, Exact(d), NEW b \in Storage, \A s \in Slot : d.img[s] # b, NEW pic \in Int
  PROVE  LET e == [d EXCEPT !.pix[b] = pic]
         IN /\ Exact(e) /\ Same(d, e) /\ (Apart(d) => Apart(e))
            /\ e.active = d.active /\ e.lastLease = d.lastLease /\ e.last = d.last
            /\ e.pix[b] = pic /\ e.leases = d.leases
            /\ \A c \in Storage : c # b => e.pix[c] = d.pix[c]
  <1> DEFINE e == [d EXCEPT !.pix[b] = pic]
             p == [d.pix EXCEPT ![b] = pic]
  <1>1. d \in StoreType
        BY DEF Exact
  <1>2. e = [d EXCEPT !.pix = p] /\ p \in [Storage -> Int]
        /\ p[b] = pic /\ \A c \in Storage : c # b => p[c] = d.pix[c]
        BY <1>1 DEF StoreType
  <1> HIDE DEF p, e
  <1>3. /\ e \in StoreType /\ e.active = d.active /\ e.lastLease = d.lastLease
        /\ e.last = d.last /\ e.leases = d.leases /\ e.img = d.img /\ e.pix = p
        BY <1>1, <1>2 DEF StoreType
  <1>4. Exact(e)
    <2>1. \A c \in Leased : e.leases[c] = d.leases[c]
             - (IF d.lastLease = c THEN 1 ELSE 0) + (IF e.lastLease = c THEN 1 ELSE 0)
             - (IF d.active = c THEN 1 ELSE 0) + (IF e.active = c THEN 1 ELSE 0)
          BY <1>1, <1>3 DEF StoreType
    <2>2. e.active = None \/ e.lastLease = None
          BY <1>3 DEF Exact
    <2> QED
        BY <1>3, <2>1, <2>2, Recounted
  <1>5. Same(d, e)
    <2> SUFFICES ASSUME NEW s \in Slot, d.img[s] # None
                 PROVE  e.pix[d.img[s]] = d.pix[d.img[s]]
        BY <1>3 DEF Same
    <2>1. d.img[s] \in Storage /\ d.img[s] # b
          BY Kinds DEF Exact
    <2> QED
        BY <1>2, <1>3, <2>1
  <1>6. Apart(d) => Apart(e)
        BY <1>3 DEF Apart
  <1> QED
      BY <1>2, <1>3, <1>4, <1>5, <1>6 DEF e

\* CopyOut has the picture in hand, in a buffer of the pool.
LEMMA CopiedOut ==
  ASSUME NEW d, Exact(d), NEW pic \in Int
  PROVE  LET e == CopyOut(d, pic)
         IN Exact(e) /\ Same(d, e) /\ InHand(e, pic) /\ (Apart(d) => Apart(e))
  <1> DEFINE p == Allocate(d, Pool)
             b == p.last
             e == [p EXCEPT !.pix[b] = pic]
  <1>1. /\ Exact(p) /\ Same(d, p)
        /\ p.active \in Pool /\ p.last = p.active
        /\ \A s \in Slot : p.img[s] # p.active
        /\ Apart(d) => Apart(p)
        BY Allocated
  <1>2. CopyOut(d, pic) = e
        BY DEF CopyOut
  <1> HIDE DEF p
  <1>3. b \in Storage /\ \A s \in Slot : p.img[s] # b
        BY <1>1, Kinds
  <1> HIDE DEF b
  <1>4. /\ Exact(e) /\ Same(p, e) /\ (Apart(p) => Apart(e))
        /\ e.active = p.active /\ e.last = p.last /\ e.pix[b] = pic
        BY <1>1, <1>3, Painted
  <1> HIDE DEF e
  <1>5. Same(d, e)
        BY <1>1, <1>4, SameTwice
  <1>6. InHand(e, pic)
        BY <1>1, <1>3, <1>4 DEF InHand, b
  <1> QED
      BY <1>1, <1>2, <1>4, <1>5, <1>6

\* outputVP9FrameImage: the picture stays, in whatever storage.
LEMMA OutputKeeps ==
  ASSUME NEW d, Exact(d), NEW pic, d.last \in Storage, d.pix[d.last] = pic
  PROVE  LET e == Output(d)
         IN /\ Exact(e) /\ Same(d, e) /\ (Apart(d) => Apart(e))
            /\ "post" \notin opts => e = d
            /\ "post" \in opts => InHand(e, pic)
  <1> DEFINE post == [d EXCEPT !.pix[Post] = d.pix[d.last]]
             w == [post EXCEPT !.last = Post]
  <1>1. d.pix[d.last] \in Int /\ pic \in Int
        BY DEF Exact, StoreType
  <1>2. /\ Exact(post) /\ Same(d, post) /\ (Apart(d) => Apart(post))
        /\ post.pix[Post] = d.pix[d.last]
    <2>1. Post \in Storage /\ \A s \in Slot : d.img[s] # Post
          BY Kinds DEF Exact
    <2> QED
        BY <1>1, <2>1, Painted
  <1>3. Output(d) = IF "post" \notin opts THEN d
                    ELSE IF "align" \in opts THEN CopyOut(post, d.pix[d.last]) ELSE w
        BY DEF Output
  <1> HIDE DEF post
  <1>4. CASE "post" \notin opts
        BY <1>3, <1>4 DEF Same
  <1>5. CASE "post" \in opts /\ "align" \in opts
    <2> DEFINE e == CopyOut(post, d.pix[d.last])
    <2>1. Exact(e) /\ Same(post, e) /\ InHand(e, pic) /\ (Apart(post) => Apart(e))
          BY <1>1, <1>2, CopiedOut
    <2>2. Same(d, e)
      <3> HIDE DEF e
      <3> QED
          BY <1>2, <2>1, SameTwice
    <2> HIDE DEF e
    <2>3. Output(d) = e
          BY <1>3, <1>5 DEF e
    <2> QED
        BY <1>2, <1>5, <2>1, <2>2, <2>3
  <1>6. CASE "post" \in opts /\ "align" \notin opts
    <2>1. post \in StoreType
          BY <1>2 DEF Exact
    <2>2. /\ w.leases = post.leases /\ w.active = post.active /\ w.img = post.img
          /\ w.lastLease = post.lastLease /\ w.pix = post.pix /\ w.last = Post
          /\ w \in StoreType
          BY <2>1, Kinds DEF StoreType
    <2> HIDE DEF w
    <2>3. Exact(w)
      <3>1. \A c \in Leased : w.leases[c] = post.leases[c]
               - (IF post.lastLease = c THEN 1 ELSE 0) + (IF w.lastLease = c THEN 1 ELSE 0)
               - (IF post.active = c THEN 1 ELSE 0) + (IF w.active = c THEN 1 ELSE 0)
            BY <2>1, <2>2 DEF StoreType
      <3>2. w.active = None \/ w.lastLease = None
            BY <1>2, <2>2 DEF Exact
      <3> QED
          BY <1>2, <2>2, <3>1, <3>2, Recounted
    <2>4. Same(post, w) /\ (Apart(post) => Apart(w))
          BY <2>2 DEF Same, Apart
    <2>5. Same(d, w)
          BY <1>2, <2>4, SameTwice
    <2>6. InHand(w, pic)
          BY <1>2, <2>2, Kinds DEF InHand
    <2> QED
        BY <1>2, <1>3, <1>6, <2>3, <2>4, <2>5, <2>6
  <1> QED
      BY <1>4, <1>5, <1>6

\* transferVP9ActiveFrameToLastIfAliased: a picture in hand is on show.
LEMMA Kept ==
  ASSUME NEW d, Exact(d), NEW pic, InHand(d, pic)
  PROVE  LET e == Keep(d)
         IN /\ Exact(e) /\ Same(d, e) /\ (Apart(d) => Apart(e))
            /\ e.active = None /\ OnShow(e, pic)
  <1>1. CASE d.active # None /\ d.active = d.last
    <2> DEFINE b == d.active
               r == Release(d, None)
               q == [r EXCEPT !.lastLease = b]
               e == [q EXCEPT !.active = None]
    <2>1. d \in StoreType /\ d.lastLease = None /\ b \in Leased /\ b # None
          BY <1>1 DEF Exact, StoreType
    <2>2. Keep(d) = e
      <3>1. ReplaceLast(d, b) = q
            BY <2>1 DEF ReplaceLast
      <3> QED
          BY <1>1, <3>1 DEF Keep
    <2>3. r = d
          BY Kinds DEF Release
    <2>4. /\ e \in StoreType /\ e.leases = d.leases /\ e.pix = d.pix /\ e.img = d.img
          /\ e.last = d.last /\ e.lastLease = b /\ e.active = None
          BY <2>1, <2>3 DEF StoreType
    <2> HIDE DEF e
    <2>5. Exact(e)
      <3>1. \A c \in Leased : e.leases[c] = d.leases[c]
               - (IF d.lastLease = c THEN 1 ELSE 0) + (IF e.lastLease = c THEN 1 ELSE 0)
               - (IF d.active = c THEN 1 ELSE 0) + (IF e.active = c THEN 1 ELSE 0)
        <4>1. \A c \in Leased : d.leases[c] \in Nat /\ c # None
              BY <2>1, Kinds DEF StoreType
        <4> QED
            BY <2>1, <2>4, <4>1
      <3> QED
          BY <2>4, <3>1, Recounted
    <2>6. Same(d, e) /\ (Apart(d) => Apart(e))
          BY <2>1, <2>4, Kinds DEF Same, Apart
    <2>7. OnShow(e, pic)
          BY <1>1, <2>4 DEF OnShow, InHand
    <2> QED
        BY <2>2, <2>4, <2>5, <2>6, <2>7
  <1>2. CASE ~(d.active # None /\ d.active = d.last)
    <2> DEFINE v == ReleaseActive(d)
               e == ReplaceLast(v, None)
    <2>1. Keep(d) = e
          BY <1>2 DEF Keep
    <2>2. LetGo(d, v) /\ v.active = None /\ v.lastLease = d.lastLease
          BY ReleaseActiveLetsGo
    <2>3. Exact(v)
          BY <2>2 DEF LetGo
    <2> HIDE DEF v
    <2>4. LetGo(v, e) /\ e.lastLease = None /\ e.active = v.active
          BY <2>3, LastLetGo
    <2> HIDE DEF e
    <2>5. Same(d, e)
          BY <2>2, <2>4, SameTwice DEF LetGo
    <2>6. d.last \in Storage /\ d.pix[d.last] = pic /\ d.last \notin Leased
          BY <1>2, Kinds DEF InHand
    <2>7. e.last = d.last /\ v.pix[d.last] = pic /\ e.pix[d.last] = pic
          BY <2>2, <2>4, <2>6, Kinds DEF LetGo
    <2>8. OnShow(e, pic)
          BY <2>6, <2>7 DEF OnShow
    <2> QED
        BY <2>1, <2>2, <2>4, <2>5, <2>8 DEF LetGo
  <1> QED
      BY <1>1, <1>2

\* frameReady has nothing to do with storage.
LEMMA ReadySet ==
  ASSUME NEW d, Exact(d), NEW r \in BOOLEAN
  PROVE  LET e == [d EXCEPT !.ready = r]
         IN /\ Exact(e) /\ Same(d, e) /\ (Apart(d) => Apart(e))
            /\ e.active = d.active /\ \A pic : OnShow(d, pic) => OnShow(e, pic)
  <1> DEFINE e == [d EXCEPT !.ready = r]
  <1>1. d \in StoreType
        BY DEF Exact
  <1>2. /\ e \in StoreType /\ e.active = d.active /\ e.lastLease = d.lastLease
        /\ e.last = d.last /\ e.leases = d.leases /\ e.pix = d.pix /\ e.img = d.img
        BY <1>1 DEF StoreType
  <1> HIDE DEF e
  <1>3. Exact(e)
    <2>1. \A c \in Leased : e.leases[c] = d.leases[c]
             - (IF d.lastLease = c THEN 1 ELSE 0) + (IF e.lastLease = c THEN 1 ELSE 0)
             - (IF d.active = c THEN 1 ELSE 0) + (IF e.active = c THEN 1 ELSE 0)
          BY <1>1, <1>2 DEF StoreType
    <2>2. e.active = None \/ e.lastLease = None
          BY <1>2 DEF Exact
    <2> QED
        BY <1>2, <2>1, <2>2, Recounted
  <1> QED
      BY <1>2, <1>3 DEF Same, Apart, OnShow, e

\* Naming another picture as the one on show changes nothing else.
LEMMA Named ==
  ASSUME NEW d, Exact(d), NEW b \in Storage
  PROVE  LET q == [d EXCEPT !.last = b]
         IN /\ Exact(q) /\ Same(d, q) /\ (Apart(d) => Apart(q))
            /\ q.active = d.active /\ q.lastLease = d.lastLease /\ q.last = b
            /\ q.leases = d.leases /\ q.pix = d.pix /\ q.img = d.img
  <1> DEFINE q == [d EXCEPT !.last = b]
  <1>1. d \in StoreType
        BY DEF Exact
  <1>2. /\ q \in StoreType /\ q.active = d.active /\ q.lastLease = d.lastLease
        /\ q.last = b /\ q.leases = d.leases /\ q.pix = d.pix /\ q.img = d.img
        BY <1>1 DEF StoreType
  <1> HIDE DEF q
  <1>3. Exact(q)
    <2>1. \A c \in Leased : q.leases[c] = d.leases[c]
             - (IF d.lastLease = c THEN 1 ELSE 0) + (IF q.lastLease = c THEN 1 ELSE 0)
             - (IF d.active = c THEN 1 ELSE 0) + (IF q.active = c THEN 1 ELSE 0)
          BY <1>1, <1>2 DEF StoreType
    <2>2. q.active = None \/ q.lastLease = None
          BY <1>2 DEF Exact
    <2> QED
        BY <1>2, <2>1, <2>2, Recounted
  <1> QED
      BY <1>2, <1>3 DEF Same, Apart, q

\* retainVP9LastFrameInternal: the picture on show is that of a slot, and held.
LEMMA Retained ==
  ASSUME NEW q, Exact(q), q.active = None, NEW s \in Slot, q.img[s] # None,
         q.last = q.img[s]
  PROVE  LET e == RetainLast(q, q.img[s])
         IN /\ Exact(e) /\ Same(q, e) /\ (Apart(q) => Apart(e))
            /\ e.active = None /\ OnShow(e, q.pix[q.img[s]])
  <1> DEFINE b == q.img[s]
  <1>1. q \in StoreType /\ b \in Storage
        BY Kinds DEF Exact, StoreType
  <1>2. CASE b \notin Leased
    <2> DEFINE e == ReplaceLast(q, None)
    <2>1. RetainLast(q, b) = e
          BY <1>2 DEF RetainLast
    <2>2. LetGo(q, e) /\ e.lastLease = None /\ e.active = None
          BY LastLetGo
    <2> HIDE DEF e
    <2>3. OnShow(e, q.pix[b])
      <3>1. e.pix[b] = q.pix[b] /\ e.last = b
            BY <1>1, <1>2, <2>2, Kinds DEF LetGo
      <3> QED
          BY <1>1, <1>2, <3>1 DEF OnShow
    <2> QED
        BY <2>1, <2>2, <2>3 DEF LetGo
  <1>3. CASE b \in Leased /\ q.lastLease = b
    <2>1. RetainLast(q, b) = q
          BY <1>3 DEF RetainLast
    <2> QED
        BY <1>1, <1>3, <2>1 DEF OnShow, Same
  <1>4. CASE b \in Leased /\ q.lastLease # b
    <2> DEFINE r == Retain(q, b)
               f == Release(r, r.lastLease)
               e == [f EXCEPT !.lastLease = b]
    <2> HIDE DEF b
    <2>1. /\ r.leases = [q.leases EXCEPT ![b] = q.leases[b] + 1]
          /\ r.active = None /\ r.lastLease = q.lastLease /\ r.img = q.img
          /\ r.last = q.last /\ r.pix = q.pix /\ r \in StoreType
      <3> DEFINE l == [q.leases EXCEPT ![b] = q.leases[b] + 1]
      <3>1. r = [q EXCEPT !.leases = l] /\ l \in [Leased -> Nat]
            BY <1>1, <1>4 DEF Retain, StoreType
      <3> HIDE DEF l, r
      <3>2. r \in StoreType /\ r.leases = l
            /\ r.active = None /\ r.lastLease = q.lastLease /\ r.img = q.img
            /\ r.last = q.last /\ r.pix = q.pix
            BY <1>1, <3>1 DEF StoreType
      <3> QED
          BY <3>2 DEF l
    <2>2. RetainLast(q, b) = e
      <3>1. RetainLast(q, b) = ReplaceLast(r, b)
            BY <1>4 DEF RetainLast
      <3>2. r.lastLease # b
            BY <1>4, <2>1
      <3> HIDE DEF r
      <3> QED
          BY <3>1, <3>2 DEF ReplaceLast
    <2> HIDE DEF r
    <2>3. /\ f \in StoreType /\ f.active = None /\ f.img = q.img /\ f.last = q.last
          /\ \A c \in Leased : f.leases[c] =
                r.leases[c] - (IF c = q.lastLease /\ r.leases[c] > 0 THEN 1 ELSE 0)
          /\ \A c \in Storage : f.pix[c] # q.pix[c] =>
                c = q.lastLease /\ c \in App /\ r.leases[c] = 1
      <3>0. r \in StoreType
            BY <2>1
      <3>1. /\ f \in StoreType /\ f.active = r.active /\ f.img = r.img /\ f.last = r.last
            /\ \A c \in Leased : f.leases[c] =
                  r.leases[c] - (IF c = r.lastLease /\ r.leases[c] > 0 THEN 1 ELSE 0)
            /\ \A c \in Storage : f.pix[c] # r.pix[c] =>
                  c = r.lastLease /\ c \in App /\ r.leases[c] = 1
            BY <3>0, ReleaseFields
      <3> QED
          BY <2>1, <3>1
    <2> HIDE DEF f
    <2>4. /\ e \in StoreType /\ e.active = None /\ e.img = q.img /\ e.last = b
          /\ e.leases = f.leases /\ e.pix = f.pix /\ e.lastLease = b
          BY <1>4, <2>3 DEF StoreType, b
    <2> HIDE DEF e
    <2>5. ASSUME NEW c \in Leased
          PROVE  e.leases[c] = q.leases[c] - (IF q.lastLease = c THEN 1 ELSE 0)
                                           + (IF b = c THEN 1 ELSE 0)
      <3>1. q.leases[c] \in Nat /\ (q.leases[c] = 0 => q.lastLease # c)
            BY HeldHasLease
      <3>2. r.leases[c] = q.leases[c] + (IF b = c THEN 1 ELSE 0)
            BY <1>1, <2>1 DEF StoreType
      <3>3. e.leases[c] =
              r.leases[c] - (IF c = q.lastLease /\ r.leases[c] > 0 THEN 1 ELSE 0)
            BY <2>3, <2>4
      <3> QED
          BY <1>4, <3>1, <3>2, <3>3
    <2>6. Exact(e)
      <3>1. \A c \in Leased : e.leases[c] = q.leases[c]
               - (IF q.lastLease = c THEN 1 ELSE 0) + (IF e.lastLease = c THEN 1 ELSE 0)
               - (IF q.active = c THEN 1 ELSE 0) + (IF e.active = c THEN 1 ELSE 0)
        <4>1. \A c \in Leased : q.leases[c] \in Nat /\ c # None
              BY <1>1, Kinds DEF StoreType
        <4> QED
            BY <2>4, <2>5, <4>1
      <3> QED
          BY <2>4, <3>1, Recounted
    <2>7. \A c \in Storage : e.pix[c] # q.pix[c] => c \in Leased /\ e.leases[c] = 0 /\ c # b
      <3> SUFFICES ASSUME NEW c \in Storage, e.pix[c] # q.pix[c]
                   PROVE  c \in Leased /\ e.leases[c] = 0 /\ c # b
          OBVIOUS
      <3>1. c = q.lastLease /\ c \in App /\ r.leases[c] = 1 /\ c \in Leased /\ c # b
            BY <1>4, <2>3, <2>4, Kinds
      <3>2. q.leases[c] = 1
            BY <1>1, <2>1, <3>1 DEF StoreType
      <3> QED
          BY <2>5, <3>1, <3>2
    <2>8. Same(q, e)
          BY <2>4, <2>6, <2>7, Unshown
    <2>9. OnShow(e, q.pix[b])
      <3>1. e.pix[b] = q.pix[b]
            BY <1>1, <2>7
      <3> QED
          BY <1>1, <2>4, <3>1 DEF OnShow
    <2>10. Apart(q) => Apart(e)
      <3>1. Apart(q) => b \notin App
            BY DEF Apart, b
      <3> QED
          BY <2>4, <3>1, Kinds DEF Apart
    <2> QED
        BY <2>2, <2>4, <2>6, <2>8, <2>9, <2>10 DEF b
  <1> QED
      BY <1>2, <1>3, <1>4

\* publishVP9ReferenceFrame shows the picture of slot s.
LEMMA PublishedShows ==
  ASSUME NEW d, Exact(d), d.active = None, NEW s \in Slot, d.img[s] # None,
         NEW aligned \in BOOLEAN
  PROVE  LET e == Published(d, s, aligned)
         IN /\ Exact(e) /\ Same(d, e) /\ (Apart(d) => Apart(e))
            /\ e.active = None /\ OnShow(e, d.pix[d.img[s]])
  <1> DEFINE pic == d.pix[d.img[s]]
             q == [d EXCEPT !.last = d.img[s]]
             c == CopyOut(d, pic)
  <1>1. d.img[s] \in Storage /\ d.img[s] # Post /\ pic \in Int
        BY Kinds DEF Exact, StoreType
  <1>2. CASE "align" \notin opts \/ aligned \/ d.img[s] # OwnOf(s)
    <2> DEFINE e == RetainLast(q, q.img[s])
    <2>1. /\ Exact(q) /\ Same(d, q) /\ (Apart(d) => Apart(q))
          /\ q.active = None /\ q.last = d.img[s] /\ q.pix = d.pix /\ q.img = d.img
          BY <1>1, Named
    <2>2. Published(d, s, aligned) = e
          BY <1>2, <2>1 DEF Published
    <2> HIDE DEF q
    <2>3. /\ Exact(e) /\ Same(q, e) /\ (Apart(q) => Apart(e))
          /\ e.active = None /\ OnShow(e, q.pix[q.img[s]])
          BY <2>1, Retained
    <2> HIDE DEF e
    <2>4. Same(d, e)
          BY <2>1, <2>3, SameTwice
    <2> QED
        BY <2>1, <2>2, <2>3, <2>4
  <1>3. CASE ~("align" \notin opts \/ aligned \/ d.img[s] # OwnOf(s))
    <2> DEFINE e == Keep(c)
    <2>1. Published(d, s, aligned) = e
          BY <1>3 DEF Published
    <2> HIDE DEF pic
    <2>2. Exact(c) /\ Same(d, c) /\ InHand(c, pic) /\ (Apart(d) => Apart(c))
          BY <1>1, CopiedOut
    <2> HIDE DEF c
    <2>3. /\ Exact(e) /\ Same(c, e) /\ (Apart(c) => Apart(e))
          /\ e.active = None /\ OnShow(e, pic)
          BY <2>2, Kept
    <2> HIDE DEF e
    <2>4. Same(d, e)
          BY <2>2, <2>3, SameTwice
    <2> QED
        BY <2>1, <2>2, <2>3, <2>4 DEF pic
  <1> QED
      BY <1>2, <1>3

\* The same with what the output of a picture does to it.
LEMMA ShownShows ==
  ASSUME NEW d, Exact(d), d.active = None, NEW s \in Slot, d.img[s] # None,
         NEW aligned \in BOOLEAN
  PROVE  LET e == Shown(d, s, aligned)
         IN /\ Exact(e) /\ Same(d, e) /\ (Apart(d) => Apart(e))
            /\ e.active = None /\ OnShow(e, d.pix[d.img[s]])
  <1> DEFINE pic == d.pix[d.img[s]]
             p == Published(d, s, aligned)
             o == Output(p)
             k == IF "post" \in opts THEN Keep(o) ELSE o
             e == [k EXCEPT !.ready = TRUE]
  <1>1. Shown(d, s, aligned) = e
        BY DEF Shown
  <1>2. /\ Exact(p) /\ Same(d, p) /\ (Apart(d) => Apart(p))
        /\ p.active = None /\ OnShow(p, pic)
        BY PublishedShows
  <1> HIDE DEF pic, p
  <1>3. /\ Exact(o) /\ Same(p, o) /\ (Apart(p) => Apart(o))
        /\ "post" \notin opts => o = p
        /\ "post" \in opts => InHand(o, pic)
        BY <1>2, OutputKeeps DEF OnShow
  <1> HIDE DEF o
  <1>4. /\ Exact(k) /\ Same(o, k) /\ (Apart(o) => Apart(k))
        /\ k.active = None /\ OnShow(k, pic)
    <2>1. CASE "post" \in opts
      <3> DEFINE t == Keep(o)
      <3>1. /\ Exact(t) /\ Same(o, t) /\ (Apart(o) => Apart(t))
            /\ t.active = None /\ OnShow(t, pic)
            BY <1>3, <2>1, Kept
      <3> QED
          BY <2>1, <3>1
    <2>2. CASE "post" \notin opts
          BY <1>2, <1>3, <2>2 DEF Same
    <2> QED
        BY <2>1, <2>2
  <1> HIDE DEF k
  <1>5. Same(d, k)
        BY <1>2, <1>3, <1>4, SameTwice
  <1>6. /\ Exact(e) /\ Same(k, e) /\ (Apart(k) => Apart(e))
        /\ e.active = k.active /\ (OnShow(k, pic) => OnShow(e, pic))
        BY <1>4, ReadySet
  <1> HIDE DEF e
  <1>7. Same(d, e)
        BY <1>5, <1>6, SameTwice
  <1> QED
      BY <1>1, <1>2, <1>3, <1>4, <1>6, <1>7 DEF pic

\* What RefreshSlot does to storage of the right type.
LEMMA RefreshFields ==
  ASSUME NEW e \in StoreType, NEW s \in Slot
  PROVE  LET f == RefreshSlot(s, e)
         IN /\ f \in StoreType
            /\ f.active = e.active /\ f.lastLease = e.lastLease /\ f.last = e.last
            /\ f.img = [e.img EXCEPT ![s] = e.last]
            /\ \A c \in Leased : f.leases[c] =
                 e.leases[c] - (IF c = e.img[s] /\ e.leases[c] > 0 THEN 1 ELSE 0)
                             + (IF c = e.active THEN 1 ELSE 0)
            /\ \A c \in Storage : f.pix[c] # e.pix[c] =>
                 c = e.img[s] /\ c \in App /\ e.leases[c] = 1
  <1> DEFINE r == Release(e, e.img[s])
             q == Retain(r, e.active)
             f == [q EXCEPT !.img[s] = e.last]
  <1>1. RefreshSlot(s, e) = f
        BY DEF RefreshSlot
  <1>2. /\ r \in StoreType
        /\ r.active = e.active /\ r.lastLease = e.lastLease
        /\ r.img = e.img /\ r.last = e.last
        /\ \A c \in Leased : r.leases[c] =
             e.leases[c] - (IF c = e.img[s] /\ e.leases[c] > 0 THEN 1 ELSE 0)
        /\ \A c \in Storage : r.pix[c] # e.pix[c] =>
             c = e.img[s] /\ c \in App /\ e.leases[c] = 1
        BY ReleaseFields
  <1> HIDE DEF r
  <1>3. /\ q \in StoreType
        /\ q.active = e.active /\ q.lastLease = e.lastLease
        /\ q.img = e.img /\ q.last = e.last /\ q.pix = r.pix
        /\ \A c \in Leased : q.leases[c] = r.leases[c] + (IF c = e.active THEN 1 ELSE 0)
    <2>1. CASE e.active \notin Leased
      <3>1. q = r
            BY <2>1 DEF Retain
      <3>2. r.leases \in [Leased -> Nat]
            BY <1>2 DEF StoreType
      <3> QED
          BY <1>2, <2>1, <3>1, <3>2
    <2>2. CASE e.active \in Leased
      <3> DEFINE l == [r.leases EXCEPT ![e.active] = r.leases[e.active] + 1]
      <3>1. l \in [Leased -> Nat] /\
              \A c \in Leased : l[c] = r.leases[c] + (IF c = e.active THEN 1 ELSE 0)
            BY <1>2, <2>2 DEF StoreType
      <3>2. q = [r EXCEPT !.leases = l]
            BY <1>2, <2>2 DEF Retain, StoreType
      <3> HIDE DEF l, q
      <3> QED
          BY <1>2, <3>1, <3>2 DEF StoreType
    <2> QED
        BY <2>1, <2>2
  <1> HIDE DEF q
  <1>4. /\ f \in StoreType /\ f.active = q.active /\ f.lastLease = q.lastLease
        /\ f.last = q.last /\ f.pix = q.pix /\ f.leases = q.leases
        /\ f.img = [q.img EXCEPT ![s] = e.last]
    <2> DEFINE m == [q.img EXCEPT ![s] = e.last]
    <2>1. f = [q EXCEPT !.img = m] /\ m \in [Slot -> Storage \cup {None}]
          BY <1>3 DEF StoreType
    <2> HIDE DEF m, f
    <2>2. /\ f \in StoreType /\ f.active = q.active /\ f.lastLease = q.lastLease
          /\ f.last = q.last /\ f.pix = q.pix /\ f.leases = q.leases /\ f.img = m
          BY <1>3, <2>1 DEF StoreType
    <2> QED
        BY <2>2 DEF m
  <1> HIDE DEF f
  <1>5. \A c \in Leased : f.leases[c] =
             e.leases[c] - (IF c = e.img[s] /\ e.leases[c] > 0 THEN 1 ELSE 0)
                         + (IF c = e.active THEN 1 ELSE 0)
        BY <1>2, <1>3, <1>4
  <1> QED
      BY <1>1, <1>2, <1>3, <1>4, <1>5

\* What the slots of r have become when they are refreshed with the frame in hand.
Refreshed(d, r, e) ==
  /\ Exact(e)
  /\ e.active = d.active /\ e.last = d.last /\ e.lastLease = d.lastLease
  /\ e.pix[d.last] = d.pix[d.last]
  /\ \A s \in Slot : e.img[s] = IF s \in r THEN d.last ELSE d.img[s]
  /\ \A s \in Slot \ r : d.img[s] # None => e.pix[d.img[s]] = d.pix[d.img[s]]
  /\ Apart(d) => Apart(e)

\* RefreshSlot refreshes one slot more.
LEMMA RefreshOne ==
  ASSUME NEW d, d.active \in Leased, d.last = d.active, d.lastLease = None,
         NEW r \in SUBSET Slot, NEW s \in Slot, s \notin r,
         NEW e, Refreshed(d, r, e)
  PROVE  Refreshed(d, r \cup {s}, RefreshSlot(s, e))
  <1> DEFINE f == RefreshSlot(s, e)
             b == d.active
  <1>1. /\ Exact(e) /\ e \in StoreType /\ e.active = b /\ e.last = b /\ e.lastLease = None
        /\ b \in Leased /\ b \in Storage /\ b # None
        BY Kinds DEF Refreshed, Exact
  <1>2. /\ f \in StoreType
        /\ f.active = b /\ f.lastLease = None /\ f.last = b
        /\ f.img = [e.img EXCEPT ![s] = b]
        /\ \A c \in Leased : f.leases[c] =
             e.leases[c] - (IF c = e.img[s] /\ e.leases[c] > 0 THEN 1 ELSE 0)
                         + (IF c = b THEN 1 ELSE 0)
        /\ \A c \in Storage : f.pix[c] # e.pix[c] =>
             c = e.img[s] /\ c \in App /\ e.leases[c] = 1
        BY <1>1, RefreshFields
  <1> HIDE DEF f, b
  <1>3. ASSUME NEW c \in Leased PROVE f.leases[c] = Counted(f, c)
    <2> DEFINE g == e.img
               n == Cardinality(HoldersIn(g, c))
               m == Cardinality(HoldersIn([g EXCEPT ![s] = b], c))
    <2>1. g = [x \in Slot |-> g[x]]
          BY <1>1 DEF StoreType
    <2> HIDE DEF g
    <2>2. n \in Nat /\ m = n - (IF c = g[s] THEN 1 ELSE 0) + (IF c = b THEN 1 ELSE 0)
          BY <2>1, HoldersMoved
    <2>3. Showing(e, c) = HoldersIn(g, c) /\ Showing(f, c) = HoldersIn([g EXCEPT ![s] = b], c)
          BY <1>2 DEF Showing, HoldersIn, g
    <2> HIDE DEF n, m
    <2>4. c # None
          BY Kinds
    <2>5. e.leases[c] = n + (IF b = c THEN 1 ELSE 0)
          BY <1>1, <2>3, <2>2, <2>4 DEF Exact, Counted, n
    <2>6. Counted(f, c) = m + (IF b = c THEN 1 ELSE 0)
          BY <1>2, <2>3, <2>2, <2>4 DEF Counted, m
    <2>7. e.leases[c] \in Nat /\ (e.img[s] = c => e.leases[c] > 0)
          BY <1>1, HeldHasLease
    <2> QED
        BY <1>2, <2>2, <2>5, <2>6, <2>7 DEF g
  <1>4. \A t \in Slot : f.img[t] = IF t = s THEN b ELSE e.img[t]
        BY <1>1, <1>2 DEF StoreType
  <1>5. Exact(f)
    <2>1. \A t \in Slot : f.img[t] \in Leased \cup {OwnOf(t), None}
          BY <1>1, <1>4 DEF Exact
    <2> QED
        BY <1>2, <1>3, <2>1 DEF Exact
  <1>6. \A c \in Storage : f.pix[c] # e.pix[c] =>
          c \in Leased /\ \A t \in Slot : f.img[t] # c /\ c # b
    <2> SUFFICES ASSUME NEW c \in Storage, f.pix[c] # e.pix[c]
                 PROVE  c \in Leased /\ c # b /\ \A t \in Slot : f.img[t] # c
        OBVIOUS
    <2>1. c = e.img[s] /\ c \in Leased /\ e.leases[c] = 1
          BY <1>2, Kinds
    <2>2. c # b
          BY <1>1, <2>1, HeldHasLease
    <2>3. f.leases[c] = 0
          BY <1>2, <2>1, <2>2
    <2> QED
        BY <1>5, <2>1, <2>2, <2>3, HeldHasLease
  <1>7. f.pix[b] = d.pix[b]
    <2>1. e.pix[b] = d.pix[b]
          BY DEF Refreshed, b
    <2>2. f.pix[b] = e.pix[b]
          BY <1>1, <1>2, <1>6
    <2> QED
        BY <2>1, <2>2
  <1>8. \A t \in Slot : f.img[t] = IF t \in r \cup {s} THEN d.last ELSE d.img[t]
        BY <1>4 DEF Refreshed, b
  <1>9. ASSUME NEW t \in Slot \ (r \cup {s}), d.img[t] # None
        PROVE  f.pix[d.img[t]] = d.pix[d.img[t]]
    <2>1. e.img[t] = d.img[t] /\ f.img[t] = d.img[t] /\ e.pix[d.img[t]] = d.pix[d.img[t]]
          BY <1>8, <1>9 DEF Refreshed
    <2>2. e.img[t] \in Storage
          BY <1>1, <1>9, <2>1, Kinds DEF Exact
    <2> QED
        BY <1>6, <2>1, <2>2
  <1>10. Apart(d) => Apart(f)
        BY <1>2, <1>4, Kinds DEF Refreshed, Apart, b
  <1> QED
      BY <1>2, <1>5, <1>7, <1>8, <1>9, <1>10 DEF Refreshed, f, b

\* refreshVP9ReferenceFrames
LEMMA RefreshedAll ==
  ASSUME NEW d, Exact(d), d.active \in Leased, d.last = d.active, d.lastLease = None,
         NEW refresh \in SUBSET Slot
  PROVE  Refreshed(d, refresh, FoldSet(RefreshSlot, d, refresh))
  <1> DEFINE X == StoreType
             body(g) == [s \in SUBSET refresh |->
                           IF s = {} THEN d ELSE RefreshSlot(Picked(s), g[s \ {Picked(s)}])]
             G == CHOOSE g : g = body(g)
             f == [p \in refresh \X X |-> RefreshSlot(p[1], p[2])]
             J == {p \in (SUBSET refresh) \X X : Refreshed(d, p[1], p[2])}
  <1>1. FoldSet(RefreshSlot, d, refresh) = G[refresh]
        BY DEF FoldSet, MapThenFoldSet, Picked
  <1>2. IsFiniteSet(refresh)
        BY SlotAssumption, FS_Subset
  <1>3. d \in X
        BY DEF Exact
  <1>4. f \in [refresh \X X -> X]
    <2>1. \A p \in refresh \X X : RefreshSlot(p[1], p[2]) \in X
          BY RefreshFields
    <2> HIDE DEF X
    <2> QED
        BY <2>1
  <1>5. \A x \in refresh, e \in X : f[<<x, e>>] = RefreshSlot(x, e)
    <2> HIDE DEF X
    <2> QED
        OBVIOUS
  <1> HIDE DEF X, f
  <1>6. \E g : g = body(g)
    <2>1. PICK g : Solves(g, refresh, X, f, d)
          BY <1>2, <1>3, <1>4, SolutionExists
    <2>2. g \in [SUBSET refresh -> X]
          BY <2>1 DEF Solves
    <2>3. \A s \in SUBSET refresh : g[s] =
            IF s = {} THEN d ELSE RefreshSlot(Picked(s), g[s \ {Picked(s)}])
      <3> SUFFICES ASSUME NEW s \in SUBSET refresh, s # {}
                   PROVE  g[s] = RefreshSlot(Picked(s), g[s \ {Picked(s)}])
          BY <2>1 DEF Solves
      <3>1. Picked(s) \in refresh /\ g[s \ {Picked(s)}] \in X
            BY <2>2, PickedIn
      <3>2. g[s] = f[<<Picked(s), g[s \ {Picked(s)}]>>]
            BY <2>1 DEF Solves
      <3> QED
          BY <1>5, <3>1, <3>2
    <2>4. g = body(g)
      <3> HIDE DEF RefreshSlot
      <3> QED
          BY <2>2, <2>3
    <2> QED
        BY <2>4
  <1>7. G = body(G)
    <2> HIDE DEF body
    <2> QED
        BY <1>6
  <1> HIDE DEF G
  <1>8. Solves(G, refresh, X, f, d)
    <2>1. G = [s \in SUBSET refresh |-> G[s]] /\ G[{}] = d
          BY <1>7
    <2>2. \A s \in SUBSET refresh : s # {} /\ G[s \ {Picked(s)}] \in X =>
            G[s] = f[<<Picked(s), G[s \ {Picked(s)}]>>]
      <3> SUFFICES ASSUME NEW s \in SUBSET refresh, s # {}, G[s \ {Picked(s)}] \in X
                   PROVE  G[s] = f[<<Picked(s), G[s \ {Picked(s)}]>>]
          OBVIOUS
      <3>1. G[s] = RefreshSlot(Picked(s), G[s \ {Picked(s)}])
            BY <1>7
      <3>2. Picked(s) \in refresh
            BY PickedIn
      <3> QED
          BY <1>5, <3>1, <3>2
    <2> HIDE DEF body
    <2> QED
        BY <1>2, <1>3, <1>4, <2>1, <2>2, StaysInside
  <1>9. <<{}, d>> \in J
    <2>1. Refreshed(d, {}, d)
          BY DEF Refreshed
    <2> QED
        BY <1>3, <2>1
  <1>10. Inductive(J, refresh, X, f)
    <2> SUFFICES ASSUME NEW s \in SUBSET refresh, NEW x \in refresh, NEW e \in X,
                        x \notin s, <<s, e>> \in J
                 PROVE  <<s \cup {x}, f[<<x, e>>]>> \in J
        BY Zenon DEF Inductive
    <2>1. Refreshed(d, s, e) /\ s \in SUBSET Slot /\ x \in Slot
          OBVIOUS
    <2>2. Refreshed(d, s \cup {x}, RefreshSlot(x, e))
          BY <2>1, RefreshOne
    <2>3. f[<<x, e>>] \in X /\ f[<<x, e>>] = RefreshSlot(x, e)
          BY <1>4, <1>5
    <2> QED
        BY <2>2, <2>3
  <1> HIDE DEF J
  <1>11. <<refresh, G[refresh]>> \in J
        BY <1>2, <1>8, <1>9, <1>10, FoldRule
  <1> QED
      BY <1>1, <1>11 DEF J

\* In e the slots of refresh show pic and the others what they do in d.
TakesOver(d, refresh, pic, e) ==
  /\ \A s \in refresh : e.img[s] # None /\ e.pix[e.img[s]] = pic
  /\ \A s \in Slot \ refresh : d.img[s] # None =>
       e.img[s] = d.img[s] /\ e.pix[d.img[s]] = d.pix[d.img[s]]

\* A frame that decodes to pic: the slots it refreshes show it, the others what
\* they did, and so does the picture on show if the frame is shown.
LEMMA DecodedShows ==
  ASSUME NEW d, Exact(d), NEW refresh \in SUBSET Slot, NEW pic \in Int,
         NEW shown \in BOOLEAN
  PROVE  LET e == Decoded(d, refresh, pic, shown)
         IN /\ Exact(e) /\ e.active = None
            /\ "external" \notin opts /\ Apart(d) => Apart(e)
            /\ shown => OnShow(e, pic)
            /\ TakesOver(d, refresh, pic, e)
  <1> DEFINE from == IF "external" \in opts THEN App ELSE Pool
             p == Allocate(d, from)
             b == p.last
             q == [p EXCEPT !.pix[b] = pic]
             r == FoldSet(RefreshSlot, q, refresh)
             o == Output(r)
             k == IF shown THEN Keep(o) ELSE ReleaseActive(r)
             e == [k EXCEPT !.ready = shown]
  <1>1. Decoded(d, refresh, pic, shown) = e
    <2>1. CASE shown
          BY <2>1 DEF Decoded
    <2>2. CASE ~shown
          BY <2>2 DEF Decoded
    <2> QED
        BY <2>1, <2>2
  <1>2. /\ Exact(p) /\ Same(d, p) /\ p.active \in from /\ b = p.active
        /\ p.lastLease = None /\ \A s \in Slot : p.img[s] # b
        /\ Apart(d) /\ from = Pool => Apart(p)
    <2> HIDE DEF from
    <2>1. from \in {Pool, App}
          BY DEF from
    <2> QED
        BY <2>1, Allocated
  <1>3. b \in Leased /\ b \in Storage
        BY <1>2, Kinds
  <1>4. "external" \notin opts => from = Pool
        OBVIOUS
  <1> HIDE DEF from, p, b
  <1>5. /\ Exact(q) /\ Same(p, q) /\ (Apart(p) => Apart(q))
        /\ q.active = b /\ q.lastLease = None /\ q.last = b /\ q.pix[b] = pic
    <2>1. /\ Exact(q) /\ Same(p, q) /\ (Apart(p) => Apart(q))
          /\ q.active = p.active /\ q.lastLease = p.lastLease /\ q.last = p.last
          /\ q.pix[b] = pic
          BY <1>2, <1>3, Painted
    <2> QED
        BY <1>2, <2>1 DEF b
  <1> HIDE DEF q
  <1>6. Same(d, q)
        BY <1>2, <1>5, SameTwice
  <1>7. Refreshed(q, refresh, r)
        BY <1>3, <1>5, RefreshedAll
  <1> HIDE DEF r
  <1>8. Exact(r) /\ InHand(r, pic) /\ r.last = b /\ (Apart(q) => Apart(r))
        BY <1>3, <1>5, <1>7 DEF Refreshed, InHand
  <1>9. \A s \in refresh : r.img[s] # None /\ r.pix[r.img[s]] = pic
        BY <1>3, <1>5, <1>7, Kinds DEF Refreshed
  <1>10. \A s \in Slot \ refresh : d.img[s] # None =>
           r.img[s] = d.img[s] /\ r.pix[d.img[s]] = d.pix[d.img[s]]
        BY <1>6, <1>7 DEF Refreshed, Same
  <1>11. /\ Exact(k) /\ Same(r, k) /\ (Apart(r) => Apart(k)) /\ k.active = None
         /\ shown => OnShow(k, pic)
    <2>1. CASE shown
      <3>1. /\ Exact(o) /\ Same(r, o) /\ (Apart(r) => Apart(o))
            /\ "post" \notin opts => o = r
            /\ "post" \in opts => InHand(o, pic)
            BY <1>8, OutputKeeps DEF InHand
      <3> HIDE DEF o
      <3>2. InHand(o, pic)
            BY <1>8, <3>1
      <3> DEFINE t == Keep(o)
      <3>3. /\ Exact(t) /\ Same(o, t) /\ (Apart(o) => Apart(t))
            /\ t.active = None /\ OnShow(t, pic)
            BY <3>1, <3>2, Kept
      <3>4. k = t
            BY <2>1
      <3> HIDE DEF t, k
      <3>5. Same(r, t)
            BY <3>1, <3>3, SameTwice
      <3> QED
          BY <3>1, <3>3, <3>4, <3>5
    <2>2. CASE ~shown
      <3> DEFINE t == ReleaseActive(r)
      <3>1. LetGo(r, t) /\ t.active = None
            BY <1>8, ReleaseActiveLetsGo
      <3>2. k = t
            BY <2>2
      <3> HIDE DEF t, k
      <3> QED
          BY <2>2, <3>1, <3>2 DEF LetGo
    <2> QED
        BY <2>1, <2>2
  <1> HIDE DEF k
  <1>12. /\ Exact(e) /\ Same(k, e) /\ (Apart(k) => Apart(e))
         /\ e.active = k.active /\ (OnShow(k, pic) => OnShow(e, pic))
        BY <1>11, ReadySet
  <1> HIDE DEF e
  <1>13. Same(r, e)
        BY <1>11, <1>12, SameTwice
  <1>14. \A s \in refresh : e.img[s] # None /\ e.pix[e.img[s]] = pic
        BY <1>9, <1>13 DEF Same
  <1>15. \A s \in Slot \ refresh : d.img[s] # None =>
           e.img[s] = d.img[s] /\ e.pix[d.img[s]] = d.pix[d.img[s]]
        BY <1>10, <1>13 DEF Same
  <1>16. TakesOver(d, refresh, pic, e)
        BY <1>14, <1>15 DEF TakesOver
  <1>17. "external" \notin opts /\ Apart(d) => Apart(e)
        BY <1>2, <1>4, <1>5, <1>8, <1>11, <1>12
  <1> QED
      BY <1>1, <1>11, <1>12, <1>16, <1>17

\* What a failing call leaves behind: every slot shows what it did.
LEMMA FailedKeeps ==
  ASSUME Exact(dec), dec.active = None, NEW e \in FailedStates
  PROVE  /\ Exact(e) /\ Same(dec, e) /\ e.active = None
         /\ "external" \notin opts /\ Apart(dec) => Apart(e)
  <1> DEFINE from == IF "external" \in opts THEN App ELSE Pool
             p == Allocate(dec, from)
             t == ReleaseActive(p)
             u == [t EXCEPT !.ready = FALSE]
  <1>1. \/ e = dec \/ e = [dec EXCEPT !.ready = FALSE] \/ e = t \/ e = u
        \/ "external" \in opts /\ e = Vacate(dec)
        BY DEF FailedStates
  <1>2. CASE e = dec
        BY <1>2 DEF Same
  <1>3. CASE e = [dec EXCEPT !.ready = FALSE]
    <2> DEFINE g == [dec EXCEPT !.ready = FALSE]
    <2>1. /\ Exact(g) /\ Same(dec, g) /\ (Apart(dec) => Apart(g)) /\ g.active = dec.active
          BY ReadySet
    <2> QED
        BY <1>3, <2>1
  <1>4. CASE e = Vacate(dec)
        BY <1>4, Vacated
  <1>5. /\ Exact(p) /\ Same(dec, p)
        /\ "external" \notin opts /\ Apart(dec) => Apart(p)
    <2> HIDE DEF from
    <2>1. from \in {Pool, App} /\ ("external" \notin opts => from = Pool)
          BY DEF from
    <2> QED
        BY <2>1, Allocated
  <1> HIDE DEF p
  <1>6. LetGo(p, t) /\ t.active = None
        BY <1>5, ReleaseActiveLetsGo
  <1> HIDE DEF t
  <1>7. /\ Exact(t) /\ Same(dec, t) /\ t.active = None
        /\ "external" \notin opts /\ Apart(dec) => Apart(t)
        BY <1>5, <1>6, SameTwice DEF LetGo
  <1>8. /\ Exact(u) /\ Same(t, u) /\ (Apart(t) => Apart(u)) /\ u.active = t.active
        BY <1>7, ReadySet
  <1> HIDE DEF u
  <1>9. Same(dec, u)
        BY <1>7, <1>8, SameTwice
  <1> QED
      BY <1>1, <1>2, <1>3, <1>4, <1>7, <1>8, <1>9

\* What Reset has made of storage v with the slots of r let go.
StillShowing(v, r, c) == {x \in Slot \ r : v.img[x] = c}

Emptied(v, r, e) ==
  /\ e \in StoreType
  /\ e.img = v.img /\ e.active = v.active /\ e.lastLease = v.lastLease
  /\ \A c \in Leased : e.leases[c] = Cardinality(StillShowing(v, r, c))

\* Releasing what a slot shows empties one slot more.
LEMMA EmptyOne ==
  ASSUME NEW v, NEW r \in SUBSET Slot, NEW s \in Slot, s \notin r, NEW e, Emptied(v, r, e)
  PROVE  Emptied(v, r \cup {s}, Release(e, e.img[s]))
  <1> DEFINE f == Release(e, e.img[s])
  <1>1. e \in StoreType
        BY DEF Emptied
  <1>2. /\ f \in StoreType /\ f.active = e.active /\ f.lastLease = e.lastLease
        /\ f.img = e.img
        /\ \A c \in Leased : f.leases[c] =
             e.leases[c] - (IF c = e.img[s] /\ e.leases[c] > 0 THEN 1 ELSE 0)
        BY <1>1, ReleaseFields
  <1> HIDE DEF f
  <1>3. ASSUME NEW c \in Leased
        PROVE  f.leases[c] = Cardinality(StillShowing(v, r \cup {s}, c))
    <2> DEFINE B == StillShowing(v, r, c)
    <2>1. IsFiniteSet(B)
      <3>1. B \in SUBSET Slot
            BY DEF StillShowing
      <3> QED
          BY <3>1, SlotAssumption, FS_Subset
    <2>2. StillShowing(v, r \cup {s}, c) = B \ {s}
          BY DEF StillShowing
    <2>3. s \in B <=> c = v.img[s]
          BY DEF StillShowing
    <2>4. e.leases[c] = Cardinality(B) /\ e.img = v.img
          BY DEF Emptied
    <2> HIDE DEF B
    <2>5. /\ Cardinality(B) \in Nat
          /\ Cardinality(B \ {s}) = IF s \in B THEN Cardinality(B) - 1 ELSE Cardinality(B)
          BY <2>1, FS_RemoveElement, FS_CardinalityType
    <2>6. s \in B => Cardinality(B) # 0
          BY <2>1, FS_EmptySet
    <2>7. Cardinality(StillShowing(v, r \cup {s}, c)) = Cardinality(B \ {s})
          BY <2>2
    <2> QED
        BY <1>2, <2>3, <2>4, <2>5, <2>6, <2>7
  <1> QED
      BY <1>2, <1>3 DEF Emptied, f

\* All leases of storage that nobody works on are given back.
LEMMA EmptiedAll ==
  ASSUME NEW v, Exact(v), v.active = None, v.lastLease = None
  PROVE  Emptied(v, Slot, FoldSet(LAMBDA s, d : Release(d, d.img[s]), v, Slot))
  <1> DEFINE X == StoreType
             body(g) == [t \in SUBSET Slot |->
                           IF t = {} THEN v
                           ELSE Release(g[t \ {Picked(t)}], g[t \ {Picked(t)}].img[Picked(t)])]
             G == CHOOSE g : g = body(g)
             f == [p \in Slot \X X |-> Release(p[2], p[2].img[p[1]])]
             J == {p \in (SUBSET Slot) \X X : Emptied(v, p[1], p[2])}
  <1>1. FoldSet(LAMBDA s, d : Release(d, d.img[s]), v, Slot) = G[Slot]
        BY DEF FoldSet, MapThenFoldSet, Picked
  <1>2. IsFiniteSet(Slot)
        BY SlotAssumption
  <1>3. v \in X
        BY DEF Exact
  <1>4. f \in [Slot \X X -> X]
    <2>1. \A p \in Slot \X X : Release(p[2], p[2].img[p[1]]) \in X
          BY ReleaseFields
    <2> HIDE DEF X
    <2> QED
        BY <2>1
  <1>5. \A x \in Slot, e \in X : f[<<x, e>>] = Release(e, e.img[x])
    <2> HIDE DEF X
    <2> QED
        OBVIOUS
  <1> HIDE DEF X, f
  <1>6. \E g : g = body(g)
    <2>1. PICK g : Solves(g, Slot, X, f, v)
          BY <1>2, <1>3, <1>4, SolutionExists
    <2>2. g \in [SUBSET Slot -> X]
          BY <2>1 DEF Solves
    <2>3. \A t \in SUBSET Slot : g[t] =
            IF t = {} THEN v
            ELSE Release(g[t \ {Picked(t)}], g[t \ {Picked(t)}].img[Picked(t)])
      <3> SUFFICES ASSUME NEW t \in SUBSET Slot, t # {}
                   PROVE  g[t] = Release(g[t \ {Picked(t)}],
                                         g[t \ {Picked(t)}].img[Picked(t)])
          BY <2>1 DEF Solves
      <3>1. Picked(t) \in Slot /\ g[t \ {Picked(t)}] \in X
            BY <2>2, PickedIn
      <3>2. g[t] = f[<<Picked(t), g[t \ {Picked(t)}]>>]
            BY <2>1 DEF Solves
      <3> QED
          BY <1>5, <3>1, <3>2
    <2> QED
        BY <2>2, <2>3
  <1>7. G = body(G)
    <2> HIDE DEF body
    <2> QED
        BY <1>6
  <1> HIDE DEF G
  <1>8. Solves(G, Slot, X, f, v)
    <2>1. G = [t \in SUBSET Slot |-> G[t]] /\ G[{}] = v
          BY <1>7
    <2>2. \A t \in SUBSET Slot : t # {} /\ G[t \ {Picked(t)}] \in X =>
            G[t] = f[<<Picked(t), G[t \ {Picked(t)}]>>]
      <3> SUFFICES ASSUME NEW t \in SUBSET Slot, t # {}, G[t \ {Picked(t)}] \in X
                   PROVE  G[t] = f[<<Picked(t), G[t \ {Picked(t)}]>>]
          OBVIOUS
      <3>1. G[t] = Release(G[t \ {Picked(t)}], G[t \ {Picked(t)}].img[Picked(t)])
            BY <1>7
      <3>2. Picked(t) \in Slot
            BY PickedIn
      <3> QED
          BY <1>5, <3>1, <3>2
    <2> HIDE DEF body
    <2> QED
        BY <1>2, <1>3, <1>4, <2>1, <2>2, StaysInside
  <1>9. <<{}, v>> \in J
    <2>1. Emptied(v, {}, v)
      <3> SUFFICES ASSUME NEW c \in Leased
                   PROVE  v.leases[c] = Cardinality(StillShowing(v, {}, c))
          BY <1>3 DEF Emptied, X
      <3>1. StillShowing(v, {}, c) = Showing(v, c) /\ c # None
            BY Kinds DEF StillShowing, Showing
      <3>2. v.leases[c] = Counted(v, c) /\ Cardinality(Showing(v, c)) \in Nat
            BY ShowingFinite DEF Exact
      <3> QED
          BY <3>1, <3>2 DEF Counted
    <2> QED
        BY <1>3, <2>1
  <1>10. Inductive(J, Slot, X, f)
    <2> SUFFICES ASSUME NEW s \in SUBSET Slot, NEW x \in Slot, NEW e \in X,
                        x \notin s, <<s, e>> \in J
                 PROVE  <<s \cup {x}, f[<<x, e>>]>> \in J
        BY Zenon DEF Inductive
    <2>1. Emptied(v, s, e)
          OBVIOUS
    <2>2. Emptied(v, s \cup {x}, Release(e, e.img[x]))
          BY <2>1, EmptyOne
    <2>3. f[<<x, e>>] \in X /\ f[<<x, e>>] = Release(e, e.img[x])
          BY <1>4, <1>5
    <2> QED
        BY <2>2, <2>3
  <1> HIDE DEF J
  <1>11. <<Slot, G[Slot]>> \in J
        BY <1>2, <1>8, <1>9, <1>10, FoldRule
  <1> QED
      BY <1>1, <1>11 DEF J

\* SetReferenceFrame of slot s to pic.
LEMMA ReferenceSet ==
  ASSUME NEW d, Exact(d), d.active = None, NEW s \in Slot, NEW pic \in Int
  PROVE  LET e == [Release(d, d.img[s]) EXCEPT !.img[s] = OwnOf(s), !.pix[OwnOf(s)] = pic]
         IN /\ Exact(e) /\ e.active = None /\ (Apart(d) => Apart(e))
            /\ e.last = d.last /\ e.lastLease = d.lastLease
            /\ e.img[s] = OwnOf(s) /\ e.pix[OwnOf(s)] = pic
            /\ \A t \in Slot : t # s /\ d.img[t] # None =>
                 e.img[t] = d.img[t] /\ e.pix[d.img[t]] = d.pix[d.img[t]]
            /\ d.last \in Storage /\ d.last # OwnOf(s) /\ (d.last \in Leased => d.lastLease = d.last)
                 => e.pix[d.last] = d.pix[d.last]
  <1> DEFINE r == Release(d, d.img[s])
             o == OwnOf(s)
             m == [r.img EXCEPT ![s] = o]
             p == [r.pix EXCEPT ![o] = pic]
             e == [r EXCEPT !.img[s] = o, !.pix[o] = pic]
  <1>1. d \in StoreType /\ o \in Storage /\ o \notin Leased /\ o # None
        BY Kinds DEF Exact
  <1>2. /\ r \in StoreType
        /\ r.active = None /\ r.lastLease = d.lastLease /\ r.img = d.img /\ r.last = d.last
        /\ \A c \in Leased : r.leases[c] =
             d.leases[c] - (IF c = d.img[s] /\ d.leases[c] > 0 THEN 1 ELSE 0)
        /\ \A c \in Storage : r.pix[c] # d.pix[c] =>
             c = d.img[s] /\ c \in App /\ d.leases[c] = 1
        BY <1>1, ReleaseFields
  <1> HIDE DEF r
  <1>3. e = [r EXCEPT !.img = m, !.pix = p]
        BY <1>2 DEF StoreType
  <1>4. /\ m \in [Slot -> Storage \cup {None}] /\ p \in [Storage -> Int]
        /\ \A t \in Slot : m[t] = IF t = s THEN o ELSE d.img[t]
        /\ \A c \in Storage : p[c] = IF c = o THEN pic ELSE r.pix[c]
        BY <1>1, <1>2 DEF StoreType
  <1>5. m = [d.img EXCEPT ![s] = o]
        BY <1>2
  <1> HIDE DEF e, m, p
  <1>6. /\ e \in StoreType /\ e.active = None /\ e.lastLease = d.lastLease /\ e.last = d.last
        /\ e.img = m /\ e.pix = p /\ e.leases = r.leases
        BY <1>2, <1>3, <1>4 DEF StoreType
  <1>7. ASSUME NEW c \in Leased PROVE e.leases[c] = Counted(e, c)
    <2> DEFINE g == d.img
               n == Cardinality(HoldersIn(g, c))
               k == Cardinality(HoldersIn([g EXCEPT ![s] = o], c))
    <2>1. g = [x \in Slot |-> g[x]]
          BY <1>1 DEF StoreType
    <2> HIDE DEF g
    <2>2. n \in Nat /\ k = n - (IF c = g[s] THEN 1 ELSE 0) + (IF c = o THEN 1 ELSE 0)
          BY <2>1, HoldersMoved
    <2>3. Showing(d, c) = HoldersIn(g, c) /\ Showing(e, c) = HoldersIn([g EXCEPT ![s] = o], c)
          BY <1>5, <1>6 DEF Showing, HoldersIn, g
    <2> HIDE DEF n, k
    <2>4. c # None /\ c # o
          BY <1>1, Kinds
    <2>5. d.leases[c] = n + (IF d.lastLease = c THEN 1 ELSE 0)
          BY <2>2, <2>3, <2>4 DEF Exact, Counted, n
    <2>6. Counted(e, c) = k + (IF d.lastLease = c THEN 1 ELSE 0)
          BY <1>6, <2>2, <2>3, <2>4 DEF Counted, k
    <2>7. d.leases[c] \in Nat /\ (d.img[s] = c => d.leases[c] > 0)
          BY HeldHasLease
    <2> QED
        BY <1>2, <1>6, <2>2, <2>4, <2>5, <2>6, <2>7 DEF g
  <1>8. Exact(e)
    <2>1. \A t \in Slot : e.img[t] \in Leased \cup {OwnOf(t), None}
          BY <1>4, <1>6 DEF Exact, o
    <2> QED
        BY <1>6, <1>7, <2>1 DEF Exact
  <1>9. Apart(d) => Apart(e)
        BY <1>1, <1>4, <1>6, Kinds DEF Apart
  <1>10. ASSUME NEW t \in Slot, t # s, d.img[t] # None
         PROVE  e.img[t] = d.img[t] /\ e.pix[d.img[t]] = d.pix[d.img[t]]
    <2> DEFINE c == d.img[t]
    <2>1. e.img[t] = c
          BY <1>4, <1>6, <1>10
    <2>2. c \in Storage /\ c # o
      <3>1. c \in Leased \cup {OwnOf(t)}
            BY <1>10 DEF Exact
      <3>2. OwnOf(t) # o /\ OwnOf(t) \in Storage
            BY <1>10, Kinds
      <3> QED
          BY <1>1, <3>1, <3>2, Kinds
    <2>3. r.pix[c] = d.pix[c]
      <3> SUFFICES ASSUME r.pix[c] # d.pix[c] PROVE FALSE
          OBVIOUS
      <3>1. c = d.img[s] /\ c \in Leased /\ d.leases[c] = 1
            BY <1>2, <2>2, Kinds
      <3>2. e.leases[c] = 0
            BY <1>2, <1>6, <3>1
      <3> QED
          BY <1>8, <2>1, <3>1, <3>2, HeldHasLease
    <2> QED
        BY <1>4, <1>6, <2>1, <2>2, <2>3
  <1>11. ASSUME d.last \in Storage, d.last # o, d.last \in Leased => d.lastLease = d.last
         PROVE  e.pix[d.last] = d.pix[d.last]
    <2>1. r.pix[d.last] = d.pix[d.last]
      <3> SUFFICES ASSUME r.pix[d.last] # d.pix[d.last] PROVE FALSE
          OBVIOUS
      <3>1. d.last = d.img[s] /\ d.last \in Leased /\ d.leases[d.last] = 1
            BY <1>2, <1>11, Kinds
      <3>2. d.leases[d.last] >= 2
            BY <1>11, <3>1, HeldHasLease
      <3> QED
          BY <3>1, <3>2
    <2> QED
        BY <1>4, <1>6, <1>11, <2>1
  <1>12. e.img[s] = o /\ e.pix[o] = pic
        BY <1>1, <1>4, <1>6
  <1> QED
      BY <1>6, <1>8, <1>9, <1>10, <1>11, <1>12 DEF e, r

-----------------------------------------------------------------------------
(* The calls of the decoder.                                               *)

DecInv ==
  /\ Exact(dec) /\ dec.active = None
  /\ "external" \notin opts => Apart(dec)
  /\ due \in Int
  /\ due # Nothing => OnShow(dec, due)

\* At the start every lease is zero and every slot is empty.
LEMMA ColdIsExact ==
  ASSUME NEW d \in StoreType, d.active = None, d.lastLease = None,
         \A s \in Slot : d.img[s] = None, \A b \in Leased : d.leases[b] = 0
  PROVE  Exact(d) /\ Apart(d)
  <1>1. ASSUME NEW b \in Leased PROVE d.leases[b] = Counted(d, b)
    <2>1. b # None /\ Showing(d, b) = {}
          BY Kinds DEF Showing
    <2> QED
        BY <2>1, FS_EmptySet DEF Counted
  <1> QED
      BY <1>1, Kinds DEF Exact, Apart

LEMMA DecInvInit == DecInit => DecInv
  <1> SUFFICES ASSUME DecInit PROVE DecInv
      OBVIOUS
  <1>1. /\ dec \in StoreType /\ dec.active = None /\ dec.lastLease = None
        /\ \A s \in Slot : dec.img[s] = None
        /\ \A b \in Leased : dec.leases[b] = 0
        BY DEF DecInit, Cold, StoreType, Junk
  <1>2. Exact(dec) /\ Apart(dec)
        BY <1>1, ColdIsExact
  <1> QED
      BY <1>1, <1>2 DEF DecInit, DecInv, Nothing

\* DecodeFrame
LEMMA DecodeFrameStep ==
  ASSUME DecInv, NEW refresh \in SUBSET Slot, NEW pic \in Int, NEW shown \in BOOLEAN,
         DecodeFrame(refresh, pic, shown)
  PROVE  DecInv'
  <1> DEFINE e == Decoded(dec, refresh, pic, shown)
  <1>1. dec' = e /\ opts' = opts /\ due' = IF shown THEN pic ELSE Nothing
        BY DEF DecodeFrame
  <1>2. Exact(dec) /\ ("external" \notin opts => Apart(dec))
        BY DEF DecInv
  <1>3. /\ Exact(e) /\ e.active = None
        /\ "external" \notin opts /\ Apart(dec) => Apart(e)
        /\ shown => OnShow(e, pic)
        BY <1>2, DecodedShows
  <1> HIDE DEF e
  <1>4. Exact(dec') /\ dec'.active = None /\ ("external" \notin opts' => Apart(dec'))
        BY <1>1, <1>2, <1>3
  <1>5. due' \in Int /\ (due' # Nothing => OnShow(dec', due'))
        BY <1>1, <1>3 DEF Nothing
  <1> QED
      BY <1>4, <1>5 DEF DecInv, Exact, Apart, OnShow, Counted, Showing

\* A slot's picture is shown again, from storage that d makes of dec.
LEMMA ShownStep ==
  ASSUME DecInv, NEW s \in ValidRefs, NEW d, Exact(d), Same(dec, d), d.active = None,
         "external" \notin opts /\ Apart(dec) => Apart(d),
         NEW aligned \in BOOLEAN, dec' = Shown(d, s, aligned),
         due' = dec.pix[dec.img[s]], opts' = opts
  PROVE  DecInv' /\ Same(dec, dec')
  <1> DEFINE e == Shown(d, s, aligned)
  <1>1. s \in Slot /\ dec.img[s] # None /\ d.img[s] = dec.img[s]
        /\ d.pix[d.img[s]] = dec.pix[dec.img[s]]
        BY DEF ValidRefs, Same
  <1>2. /\ Exact(e) /\ Same(d, e) /\ (Apart(d) => Apart(e))
        /\ e.active = None /\ OnShow(e, d.pix[d.img[s]])
        BY <1>1, ShownShows
  <1>3. dec' = e
        OBVIOUS
  <1> HIDE DEF e
  <1>4. Same(dec, e)
        BY <1>2, SameTwice
  <1>5. Exact(dec') /\ dec'.active = None /\ ("external" \notin opts' => Apart(dec'))
        BY <1>2, <1>3 DEF DecInv
  <1>6. due' \in Int
    <2>1. dec.img[s] \in Storage
          BY <1>1, Kinds DEF DecInv, Exact
    <2> QED
        BY <2>1 DEF DecInv, Exact, StoreType
  <1>7. OnShow(dec', due')
        BY <1>1, <1>2, <1>3
  <1> QED
      BY <1>3, <1>4, <1>5, <1>6, <1>7 DEF DecInv, Exact, Apart, OnShow, Counted, Showing

\* ShowExisting
LEMMA ShowExistingStep ==
  ASSUME DecInv, NEW s \in Slot, ShowExisting(s)
  PROVE  DecInv' /\ Same(dec, dec')
  <1>1. s \in ValidRefs /\ due' = dec.pix[dec.img[s]] /\ opts' = opts
        BY DEF ShowExisting
  <1>2. PICK aligned \in BOOLEAN : dec' = Shown(dec, s, aligned)
        BY DEF ShowExisting
  <1>3. Exact(dec) /\ dec.active = None /\ Same(dec, dec)
        BY DEF DecInv, Same
  <1> QED
      BY <1>1, <1>2, <1>3, ShownStep

\* Conceal
LEMMA ConcealStep ==
  ASSUME DecInv, NEW s \in Slot, Conceal(s)
  PROVE  DecInv'
  <1>1. s \in ValidRefs /\ due' = dec.pix[dec.img[s]] /\ opts' = opts
        BY DEF Conceal
  <1>2. PICK d \in FailedStates, aligned \in BOOLEAN : dec' = Shown(d, s, aligned)
        BY DEF Conceal
  <1>3. Exact(dec) /\ dec.active = None
        BY DEF DecInv
  <1>4. /\ Exact(d) /\ Same(dec, d) /\ d.active = None
        /\ "external" \notin opts /\ Apart(dec) => Apart(d)
        BY <1>3, FailedKeeps
  <1> QED
      BY <1>1, <1>2, <1>4, ShownStep

\* DecodeFails
LEMMA DecodeFailsStep ==
  ASSUME DecInv, DecodeFails
  PROVE  DecInv'
  <1>1. dec' \in FailedStates /\ opts' = opts /\ due' = IF dec' = dec THEN due ELSE Nothing
        BY DEF DecodeFails
  <1>2. Exact(dec) /\ dec.active = None
        BY DEF DecInv
  <1>3. PICK e \in FailedStates : e = dec'
        BY <1>1
  <1>4. /\ Exact(e) /\ e.active = None
        /\ "external" \notin opts /\ Apart(dec) => Apart(e)
        BY <1>2, FailedKeeps
  <1>5. Exact(dec') /\ dec'.active = None /\ ("external" \notin opts' => Apart(dec'))
        BY <1>1, <1>3, <1>4 DEF DecInv
  <1>6. due' \in Int /\ (due' # Nothing => OnShow(dec', due'))
        BY <1>1 DEF DecInv, Nothing
  <1> QED
      BY <1>5, <1>6 DEF DecInv, Exact, Apart, OnShow, Counted, Showing

\* NextFrame
LEMMA NextFrameStep ==
  ASSUME DecInv, NextFrame
  PROVE  DecInv'
  <1> DEFINE e == [dec EXCEPT !.ready = FALSE]
  <1>1. dec' = e /\ opts' = opts /\ due' = due
        BY DEF NextFrame
  <1>2. Exact(dec)
        BY DEF DecInv
  <1>3. /\ Exact(e) /\ (Apart(dec) => Apart(e)) /\ e.active = dec.active
        /\ \A pic : OnShow(dec, pic) => OnShow(e, pic)
        BY <1>2, ReadySet
  <1> HIDE DEF e
  <1>4. /\ Exact(dec') /\ dec'.active = None /\ ("external" \notin opts' => Apart(dec'))
        /\ due' \in Int /\ (due' # Nothing => OnShow(dec', due'))
        BY <1>1, <1>3 DEF DecInv
  <1> QED
      BY <1>4 DEF DecInv, Exact, Apart, OnShow, Counted, Showing

\* DecSetReference, which also leaves the other slots as they are.
LEMMA SetReferenceStep ==
  ASSUME DecInv, NEW s \in Slot, NEW pic \in Int, DecSetReference(s, pic)
  PROVE  /\ DecInv'
         /\ dec'.img[s] # None /\ dec'.pix[dec'.img[s]] = pic
         /\ \A t \in Slot : t # s /\ dec.img[t] # None =>
              dec'.img[t] = dec.img[t] /\ dec'.pix[dec.img[t]] = dec.pix[dec.img[t]]
  <1> DEFINE e == [Release(dec, dec.img[s]) EXCEPT !.img[s] = OwnOf(s),
                                                   !.pix[OwnOf(s)] = pic]
  <1>1. dec' = e /\ opts' = opts /\ due' = IF dec.last = OwnOf(s) THEN Nothing ELSE due
        BY DEF DecSetReference
  <1>2. Exact(dec) /\ dec.active = None
        BY DEF DecInv
  <1>3. /\ Exact(e) /\ e.active = None /\ (Apart(dec) => Apart(e))
        /\ e.last = dec.last /\ e.lastLease = dec.lastLease
        /\ e.img[s] = OwnOf(s) /\ e.pix[OwnOf(s)] = pic
        /\ \A t \in Slot : t # s /\ dec.img[t] # None =>
             e.img[t] = dec.img[t] /\ e.pix[dec.img[t]] = dec.pix[dec.img[t]]
        /\ dec.last \in Storage /\ dec.last # OwnOf(s)
             /\ (dec.last \in Leased => dec.lastLease = dec.last)
             => e.pix[dec.last] = dec.pix[dec.last]
        BY <1>2, ReferenceSet
  <1> HIDE DEF e
  <1>4. Exact(dec') /\ dec'.active = None /\ ("external" \notin opts' => Apart(dec'))
        BY <1>1, <1>3 DEF DecInv
  <1>5. due' \in Int /\ (due' # Nothing => OnShow(dec', due'))
        BY <1>1, <1>3 DEF DecInv, OnShow, Nothing
  <1>6. DecInv'
        BY <1>4, <1>5 DEF DecInv, Exact, Apart, OnShow, Counted, Showing
  <1> QED
      BY <1>1, <1>3, <1>6, Kinds

\* DecReset
LEMMA ResetStep ==
  ASSUME DecInv, DecReset
  PROVE  DecInv'
  <1> DEFINE v == Vacate(dec)
             f == FoldSet(LAMBDA s, d : Release(d, d.img[s]), v, Slot)
             e == [f EXCEPT !.img = [s \in Slot |-> None], !.last = None, !.ready = FALSE]
  <1>1. dec' = e /\ due' = Nothing
        BY DEF DecReset
  <1>2. Exact(v) /\ v.active = None /\ v.lastLease = None
        BY Vacated DEF DecInv
  <1> HIDE DEF v
  <1>3. Emptied(v, Slot, f)
        BY <1>2, EmptiedAll
  <1> HIDE DEF f
  <1>4. /\ f \in StoreType /\ f.active = None /\ f.lastLease = None
        BY <1>2, <1>3 DEF Emptied
  <1>5. \A b \in Leased : f.leases[b] = 0
    <2> SUFFICES ASSUME NEW b \in Leased PROVE f.leases[b] = 0
        OBVIOUS
    <2>1. StillShowing(v, Slot, b) = {}
          BY DEF StillShowing
    <2> QED
        BY <1>3, <2>1, FS_EmptySet DEF Emptied
  <1>6. /\ e \in StoreType /\ e.active = None /\ e.lastLease = None
        /\ \A s \in Slot : e.img[s] = None
        /\ e.leases = f.leases
        BY <1>4 DEF StoreType
  <1> HIDE DEF e
  <1>7. Exact(e) /\ Apart(e)
        BY <1>5, <1>6, ColdIsExact
  <1>8. Exact(dec') /\ dec'.active = None /\ Apart(dec')
        BY <1>1, <1>6, <1>7
  <1> QED
      BY <1>1, <1>8 DEF DecInv, Exact, Apart, OnShow, Counted, Showing, Nothing

-----------------------------------------------------------------------------
(* Encoder and decoder together.                                           *)

Agrees(s) == dec.img[s] # None /\ dec.pix[dec.img[s]] = holds[s]

\* Slots whose picture the encoder has replaced and not yet sent.
Awaited == packet.refresh \ (IF phase = "refreshing" THEN todo ELSE {})

AgreeInv ==
  /\ packet.refresh \subseteq Slot /\ packet.key \in BOOLEAN /\ packet.pic \in Int
  /\ phase = "coding" => packet = NoPacket
  /\ phase = "refreshing" => todo \subseteq packet.refresh /\ packet.pic = next - 1
  /\ packet.key => packet.refresh = Slot
  /\ \A s \in valid \cap Awaited : holds[s] = packet.pic
  /\ ~told => \A s \in valid \ packet.refresh : Agrees(s)

CodecInv == Inv /\ DecInv /\ AgreeInv

\* The decoder's slots are as they were, those of r aside.
LEMMA AgreesKept ==
  ASSUME NEW s, Same(dec, dec'), Agrees(s), s \in Slot, holds'[s] = holds[s]
  PROVE  Agrees(s)'
  BY DEF Same, Agrees

\* Nothing that the agreement is about changes but that slots become invalid.
LEMMA AgreeLess ==
  ASSUME AgreeInv, valid' \subseteq valid, UNCHANGED <<holds, dec, told, packet>>,
         phase' # "refreshing", phase # "refreshing", phase' = "coding" => packet = NoPacket
  PROVE  AgreeInv'
  <1>1. Awaited' = packet.refresh /\ Awaited = packet.refresh
        BY DEF Awaited
  <1>2. \A s : Agrees(s) => Agrees(s)'
        BY DEF Agrees
  <1> QED
      BY <1>1, <1>2 DEF AgreeInv

\* Starts
LEMMA StartsAgree ==
  ASSUME CodecInv, Starts
  PROVE  AgreeInv'
  <1>1. /\ UNCHANGED <<holds, dec, told, packet>> /\ packet = NoPacket
        /\ phase = "idle" /\ phase' # "refreshing"
        BY DEF Starts, BeginFrame, ChangeResolution, BeginBatch, EndBatch, Between,
           decVars, slots
  <1>2. valid' \subseteq valid
        BY DEF Starts, BeginFrame, ChangeResolution, BeginBatch, EndBatch, slots,
           CodecInv, Inv, BatchInv
  <1> QED
      BY <1>1, <1>2, AgreeLess DEF CodecInv

\* AliasSlot: the slot was given the picture that is on its way.
LEMMA AliasAgree ==
  ASSUME CodecInv, NEW s \in Slot, AliasSlot(s), UNCHANGED <<decVars, packet, told>>
  PROVE  AgreeInv'
  <1>1. /\ phase = "refreshing" /\ s \in todo /\ todo' = todo \ {s}
        /\ valid' = valid \cup {s} /\ holds' = [holds EXCEPT ![s] = next - 1]
        /\ next' = next /\ dec' = dec /\ packet' = packet /\ told' = told
        /\ phase' = IF todo' = {} THEN "idle" ELSE phase
        BY DEF AliasSlot, decVars
  <1>2. /\ todo \subseteq packet.refresh /\ packet.pic = next - 1
        /\ packet.refresh \subseteq Slot
        /\ Awaited = packet.refresh \ todo
        BY <1>1 DEF CodecInv, AgreeInv, Awaited
  <1>3. Awaited' = packet.refresh \ todo'
        BY <1>1 DEF Awaited
  <1>4. holds \in [Slot -> Nat] /\ valid \subseteq Slot
        BY DEF CodecInv, Inv, ShapeInv
  <1>5. \A t \in valid' \cap Awaited' : holds'[t] = packet.pic
    <2> SUFFICES ASSUME NEW t \in valid', t \in Awaited' PROVE holds'[t] = packet.pic
        OBVIOUS
    <2>1. CASE t = s
          BY <1>1, <1>2, <1>4, <2>1
    <2>2. CASE t # s
      <3>1. t \in valid \cap Awaited
            BY <1>1, <1>2, <1>3, <2>2
      <3> QED
          BY <1>1, <1>4, <2>2, <3>1 DEF CodecInv, AgreeInv
    <2> QED
        BY <2>1, <2>2
  <1>6. ~told' => \A t \in valid' \ packet.refresh : Agrees(t)'
    <2> SUFFICES ASSUME ~told, NEW t \in valid' \ packet.refresh PROVE Agrees(t)'
        BY <1>1
    <2>1. t # s /\ t \in valid \ packet.refresh
          BY <1>1, <1>2
    <2>2. Agrees(t) /\ holds'[t] = holds[t]
          BY <1>1, <1>4, <2>1 DEF CodecInv, AgreeInv
    <2> QED
        BY <1>1, <2>2 DEF Agrees
  <1> QED
      BY <1>1, <1>2, <1>3, <1>5, <1>6 DEF CodecInv, AgreeInv

\* GoesOn
LEMMA GoesOnAgree ==
  ASSUME CodecInv, GoesOn
  PROVE  AgreeInv'
  <1>0. UNCHANGED <<decVars, packet, told>>
        BY DEF GoesOn
  <1>1. CASE Recode
    <2>1. UNCHANGED <<valid, holds, dec, told, packet>> /\ phase' = "coding" /\ phase = "coding"
          BY <1>0, <1>1 DEF Recode, decVars, slots
    <2> QED
        BY <2>1, AgreeLess DEF CodecInv, AgreeInv
  <1>2. CASE HelperReturns
    <2>1. UNCHANGED <<valid, holds, dec, told, packet, phase, todo, next>>
          BY <1>0, <1>2 DEF HelperReturns, decVars, slots
    <2>2. Awaited' = Awaited /\ \A s : Agrees(s) <=> Agrees(s)'
          BY <2>1 DEF Awaited, Agrees
    <2> QED
        BY <2>1, <2>2 DEF CodecInv, AgreeInv
  <1>3. ASSUME NEW s \in Slot, AliasSlot(s) PROVE AgreeInv'
        BY <1>0, <1>3, AliasAgree
  <1>4. ASSUME NEW s \in Slot, ReleaseSlot(s) PROVE AgreeInv'
    <2>1. /\ valid' \subseteq valid /\ UNCHANGED <<holds, dec, told, packet>>
          /\ phase = "releasing" /\ phase' \in {"idle", "releasing"}
          BY <1>0, <1>4 DEF ReleaseSlot, decVars
    <2> QED
        BY <2>1, AgreeLess DEF CodecInv
  <1> QED
      BY <1>1, <1>2, <1>3, <1>4 DEF GoesOn

\* Keeps
LEMMA KeepsAgree ==
  ASSUME CodecInv, Keeps
  PROVE  AgreeInv'
  <1>1. /\ UNCHANGED <<valid, holds, dec, told, next>> /\ phase = "coding" /\ phase' = "idle"
        /\ packet' = NoPacket \/ packet' = Packet({}, FALSE)
        BY DEF Keeps, KeepReferences, decVars, slots
  <1>2. packet = NoPacket /\ packet.refresh = {}
        BY <1>1 DEF CodecInv, AgreeInv, NoPacket
  <1>3. /\ packet'.refresh = {} /\ packet'.key = FALSE /\ packet'.pic \in Int
        BY <1>1 DEF NoPacket, Packet, NoPicture, CodecInv, Inv, ShapeInv
  <1>4. Awaited' = {}
        BY <1>1, <1>3 DEF Awaited
  <1>5. ~told' => \A s \in valid' \ packet'.refresh : Agrees(s)'
        BY <1>1, <1>2 DEF CodecInv, AgreeInv, Agrees
  <1> QED
      BY <1>1, <1>3, <1>4, <1>5 DEF AgreeInv

\* Refreshes: the slots to do are those of the packet.
LEMMA RefreshesAgree ==
  ASSUME CodecInv, Refreshes
  PROVE  AgreeInv'
  <1>1. /\ UNCHANGED <<valid, holds, dec, told, next>> /\ phase = "coding"
        /\ phase' = "refreshing"
        BY DEF Refreshes, RefreshReferences, decVars, slots
  <1>2. PICK key \in BOOLEAN : (key => todo' = Slot) /\ packet' = Packet(todo', key)
        BY DEF Refreshes
  <1>3. todo' \subseteq Slot
        BY DEF Refreshes, RefreshReferences
  <1>4. packet = NoPacket /\ packet.refresh = {}
        BY <1>1 DEF CodecInv, AgreeInv, NoPacket
  <1>5. /\ packet'.refresh = todo' /\ packet'.key = key /\ packet'.pic = next - 1
        /\ next - 1 \in Int
        BY <1>2 DEF Packet, CodecInv, Inv, ShapeInv
  <1>6. Awaited' = {}
        BY <1>1, <1>5 DEF Awaited
  <1>7. ~told' => \A s \in valid' \ packet'.refresh : Agrees(s)'
        BY <1>1, <1>4 DEF CodecInv, AgreeInv, Agrees
  <1> QED
      BY <1>1, <1>2, <1>3, <1>5, <1>6, <1>7 DEF AgreeInv

\* Once the application is told, nothing is claimed of the decoder.
LEMMA ToldAgree ==
  ASSUME AgreeInv, told', packet' = packet, UNCHANGED <<phase, todo, next>>,
         \A s \in valid' \cap Awaited : holds'[s] = packet.pic
  PROVE  AgreeInv'
  <1>1. Awaited' = Awaited
        BY DEF Awaited
  <1> QED
      BY <1>1 DEF AgreeInv

\* A packet handed over is awaited no more.
LEMMA HandedAgree ==
  ASSUME CodecInv, Handed, UNCHANGED vars,
         ~told' => \A s \in valid : Agrees(s)'
  PROVE  AgreeInv'
  <1>1. packet' = NoPacket /\ phase = "idle" /\ phase' = "idle" /\ valid' = valid
        BY DEF Handed, vars
  <1>2. /\ packet'.refresh = {} /\ packet'.key = FALSE /\ packet'.pic \in Int
        BY <1>1 DEF NoPacket, NoPicture
  <1>3. Awaited' = {}
        BY <1>2 DEF Awaited
  <1> QED
      BY <1>1, <1>2, <1>3 DEF AgreeInv

\* Arrives: the slots awaited get the picture of the packet.
LEMMA ArrivesAgree ==
  ASSUME CodecInv, NEW shown \in BOOLEAN, Arrives(shown)
  PROVE  CodecInv'
  <1> DEFINE pic == IF packet.key \/ ~told THEN packet.pic ELSE Junk
             e == Decoded(dec, packet.refresh, pic, shown)
  <1>1. /\ Handed /\ UNCHANGED vars /\ told' = (told /\ ~packet.key)
        /\ DecodeFrame(packet.refresh, pic, shown)
        BY DEF Arrives
  <1>2. /\ packet.refresh \in SUBSET Slot /\ pic \in Int
        /\ packet.key => packet.refresh = Slot
        BY DEF CodecInv, AgreeInv, Junk
  <1>3. Inv'
        BY <1>1, OtherStep DEF CodecInv
  <1>4. DecInv'
        BY <1>1, <1>2, DecodeFrameStep DEF CodecInv
  <1>5. dec' = e
        BY <1>1 DEF DecodeFrame
  <1> HIDE DEF pic
  <1>6. /\ \A s \in packet.refresh : e.img[s] # None /\ e.pix[e.img[s]] = pic
        /\ \A s \in Slot \ packet.refresh : dec.img[s] # None =>
             e.img[s] = dec.img[s] /\ e.pix[dec.img[s]] = dec.pix[dec.img[s]]
    <2>1. Exact(dec) /\ packet.refresh \in SUBSET Slot /\ pic \in Int
          BY <1>2 DEF CodecInv, DecInv
    <2>2. TakesOver(dec, packet.refresh, pic, e)
          BY <2>1, DecodedShows
    <2> HIDE DEF e
    <2> QED
        BY <2>2 DEF TakesOver
  <1> HIDE DEF e
  <1>7. phase = "idle" /\ holds' = holds /\ valid \subseteq Slot
        BY <1>1 DEF Handed, vars, CodecInv, Inv, ShapeInv
  <1>8. \A s \in valid \cap packet.refresh : holds[s] = packet.pic
        BY <1>7 DEF CodecInv, AgreeInv, Awaited
  <1>9. ~told => \A s \in valid \ packet.refresh : Agrees(s)
        BY DEF CodecInv, AgreeInv
  <1>10. ASSUME ~told', NEW s \in valid PROVE Agrees(s)'
    <2>1. pic = packet.pic
          BY <1>1, <1>10 DEF pic
    <2>2. CASE s \in packet.refresh
          BY <1>5, <1>6, <1>7, <1>8, <2>1, <2>2 DEF Agrees
    <2>3. CASE s \notin packet.refresh
      <3>1. ~told
            BY <1>1, <1>2, <1>7, <1>10, <2>3
      <3>2. Agrees(s)
            BY <1>9, <2>3, <3>1
      <3> QED
          BY <1>5, <1>6, <1>7, <2>3, <3>2 DEF Agrees
    <2> QED
        BY <2>2, <2>3
  <1>11. AgreeInv'
        BY <1>1, <1>10, HandedAgree
  <1> QED
      BY <1>3, <1>4, <1>11 DEF CodecInv

\* SetReferences: both sides hold the new picture.
LEMMA SetReferencesAgree ==
  ASSUME CodecInv, NEW s \in Slot, SetReferences(s)
  PROVE  CodecInv'
  <1>1. /\ packet = NoPacket /\ packet' = packet /\ told' = told
        /\ StoreCopy(s) /\ DecSetReference(s, next)
        BY DEF SetReferences
  <1>2. /\ phase = "idle" /\ UNCHANGED <<phase, todo>> /\ valid' = valid \cup {s}
        /\ holds' = [holds EXCEPT ![s] = next]
        BY <1>1 DEF StoreCopy, Between
  <1>3. /\ holds \in [Slot -> Nat] /\ valid \subseteq Slot /\ next \in Int
        BY DEF CodecInv, Inv, ShapeInv
  <1>4. Inv'
        BY <1>1, StoreStep DEF CodecInv
  <1>5. /\ DecInv'
        /\ dec'.img[s] # None /\ dec'.pix[dec'.img[s]] = next
        /\ \A t \in Slot : t # s /\ dec.img[t] # None =>
             dec'.img[t] = dec.img[t] /\ dec'.pix[dec.img[t]] = dec.pix[dec.img[t]]
        BY <1>1, <1>3, SetReferenceStep DEF CodecInv
  <1>6. packet.refresh = {}
        BY <1>1 DEF NoPacket
  <1>7. ASSUME ~told', NEW t \in valid' PROVE Agrees(t)'
    <2>1. CASE t = s
          BY <1>2, <1>3, <1>5, <2>1 DEF Agrees
    <2>2. CASE t # s
      <3>1. t \in valid /\ t \in Slot /\ Agrees(t)
            BY <1>1, <1>2, <1>3, <1>6, <1>7, <2>2 DEF CodecInv, AgreeInv
      <3> QED
          BY <1>2, <1>3, <1>5, <2>2, <3>1 DEF Agrees
    <2> QED
        BY <2>1, <2>2
  <1>8. Awaited' = {}
        BY <1>1, <1>6 DEF Awaited
  <1>9. AgreeInv'
        BY <1>1, <1>2, <1>7, <1>8 DEF CodecInv, AgreeInv
  <1> QED
      BY <1>4, <1>5, <1>9 DEF CodecInv

\* ShowsExisting: a slot's picture is shown, and every slot keeps its own.
LEMMA ShowsExistingAgree ==
  ASSUME CodecInv, NEW s \in Slot, ShowsExisting(s)
  PROVE  CodecInv'
  <1>1. ShowExisting(s) /\ UNCHANGED <<vars, packet, told>>
        BY DEF ShowsExisting
  <1>2. Inv'
        BY <1>1, OtherStep DEF CodecInv
  <1>3. DecInv' /\ Same(dec, dec')
        BY <1>1, ShowExistingStep DEF CodecInv
  <1>4. UNCHANGED <<valid, holds, phase, todo, next, packet, told>>
        BY <1>1 DEF vars
  <1>5. Awaited' = Awaited /\ valid \subseteq Slot
        BY <1>4 DEF Awaited, CodecInv, Inv, ShapeInv
  <1>6. \A t \in valid : Agrees(t) => Agrees(t)'
        BY <1>3, <1>4, <1>5, AgreesKept
  <1>7. AgreeInv'
        BY <1>4, <1>5, <1>6 DEF CodecInv, AgreeInv
  <1> QED
      BY <1>2, <1>3, <1>7 DEF CodecInv

\* DecInv is about the decoder's variables only.
LEMMA DecInvKept ==
  ASSUME DecInv, UNCHANGED decVars
  PROVE  DecInv'
  BY DEF DecInv, Exact, Apart, OnShow, Counted, Showing, decVars

LEMMA CodecInvInit == CodecInit => CodecInv
  <1> SUFFICES ASSUME CodecInit PROVE CodecInv
      OBVIOUS
  <1>1. Inv /\ DecInv
        BY InvInit, DecInvInit DEF CodecInit
  <1>2. AgreeInv
        BY DEF CodecInit, Init, AgreeInv, Awaited, NoPacket, NoPicture
  <1> QED
      BY <1>1, <1>2 DEF CodecInv

\* Every step of either side, or of the channel, preserves the invariant.
LEMMA CodecInvNext == CodecInv /\ [CodecNext]_allVars => CodecInv'
  <1> SUFFICES ASSUME CodecInv, [CodecNext]_allVars PROVE CodecInv'
      OBVIOUS
  <1>1. Inv'
        BY CodecStepsPool, InvNext DEF CodecInv
  <1>2. CASE Starts \/ GoesOn \/ Keeps \/ Refreshes
    <2>1. UNCHANGED decVars
          BY <1>2 DEF Starts, GoesOn, Keeps, Refreshes
    <2>2. DecInv'
          BY <2>1, DecInvKept DEF CodecInv
    <2>3. AgreeInv'
          BY <1>2, StartsAgree, GoesOnAgree, KeepsAgree, RefreshesAgree
    <2> QED
        BY <1>1, <2>2, <2>3 DEF CodecInv
  <1>3. ASSUME NEW s \in Slot, Parts(s) PROVE CodecInv'
    <2>1. /\ UNCHANGED <<decVars, packet, phase, todo>> /\ told' /\ packet = NoPacket
          /\ phase = "idle"
          BY <1>3 DEF Parts, StoreCopy, Between
    <2>2. packet'.refresh = {} /\ Awaited' = {}
          BY <2>1 DEF NoPacket, Awaited
    <2>3. DecInv' /\ AgreeInv'
          BY <2>1, <2>2, DecInvKept DEF CodecInv, AgreeInv
    <2> QED
        BY <1>1, <2>3 DEF CodecInv
  <1>4. ASSUME NEW s \in Slot, SetReferences(s) \/ ShowsExisting(s) PROVE CodecInv'
        BY <1>4, SetReferencesAgree, ShowsExistingAgree
  <1>5. ASSUME NEW shown \in BOOLEAN, Arrives(shown) PROVE CodecInv'
        BY <1>5, ArrivesAgree
  <1>6. CASE Fails \/ Lost
    <2>1. Handed /\ told' /\ UNCHANGED vars
          BY <1>6 DEF Fails, Lost
    <2>2. DecInv'
      <3>1. DecodeFails \/ (\E s \in Slot : Conceal(s)) \/ UNCHANGED decVars
            BY <1>6 DEF Fails, Lost
      <3> QED
          BY <3>1, DecodeFailsStep, ConcealStep, DecInvKept DEF CodecInv
    <2>3. AgreeInv'
          BY <2>1, HandedAgree
    <2> QED
        BY <1>1, <2>2, <2>3 DEF CodecInv
  <1>7. CASE Takes
    <2>1. NextFrame /\ UNCHANGED <<vars, packet, told>>
          BY <1>7 DEF Takes
    <2>2. /\ UNCHANGED <<valid, holds, phase, todo, next, packet, told>>
          /\ valid \subseteq Slot
          BY <2>1 DEF vars, CodecInv, Inv, ShapeInv
    <2>3. Same(dec, dec')
      <3>1. dec' = [dec EXCEPT !.ready = FALSE] /\ dec \in StoreType
            BY <2>1 DEF NextFrame, CodecInv, DecInv, Exact
      <3> QED
          BY <3>1 DEF Same, StoreType
    <2>4. Awaited' = Awaited /\ \A t \in valid : Agrees(t) => Agrees(t)'
          BY <2>2, <2>3, AgreesKept DEF Awaited
    <2>5. AgreeInv'
          BY <2>2, <2>4 DEF CodecInv, AgreeInv
    <2>6. DecInv'
          BY <2>1, NextFrameStep DEF CodecInv
    <2> QED
        BY <1>1, <2>5, <2>6 DEF CodecInv
  <1>8. CASE Rejoins
    <2>1. DecReset /\ told' /\ UNCHANGED <<vars, packet>>
          BY <1>8 DEF Rejoins
    <2>2. UNCHANGED <<valid, holds, phase, todo, next, packet>>
          BY <2>1 DEF vars
    <2>3. AgreeInv'
          BY <2>1, <2>2, ToldAgree DEF CodecInv, AgreeInv
    <2>4. DecInv'
          BY <2>1, ResetStep DEF CodecInv
    <2> QED
        BY <1>1, <2>3, <2>4 DEF CodecInv
  <1>9. CASE UNCHANGED allVars
    <2>1. UNCHANGED <<valid, holds, phase, todo, next, packet, told, dec>> /\ UNCHANGED decVars
          BY <1>9 DEF allVars, vars, decVars
    <2>2. Awaited' = Awaited /\ \A t : Agrees(t) <=> Agrees(t)'
          BY <2>1 DEF Awaited, Agrees
    <2>3. DecInv' /\ AgreeInv'
          BY <2>1, <2>2, DecInvKept DEF CodecInv, AgreeInv
    <2> QED
        BY <1>1, <2>3 DEF CodecInv
  <1> QED
      BY <1>2, <1>3, <1>4, <1>5, <1>6, <1>7, <1>8, <1>9 DEF CodecNext

LEMMA CodecInvAlways == CodecSpec => []CodecInv
  BY CodecInvInit, CodecInvNext, PTL DEF CodecSpec

-----------------------------------------------------------------------------
(* The theorems.                                                           *)

\* A buffer's count is the number of its holders, whatever frames fail, are
\* coded twice or are replaced (the bookkeeping of vp9_encoder_ref_pool.go).
THEOREM CountsStayExact == CodecSpec => []CountsExact
  <1>1. Inv => CountsExact
        BY DEF Inv
  <1> QED
      BY <1>1, InvAlways, CodecHasPool, PTL

\* A frame always finds a buffer, so that acquireVP9ReconFrameBuffer never
\* takes its fallback and no slot ever needs a copy of its own.
THEOREM PoolAlwaysSuffices == CodecSpec => []PoolSuffices
  <1>1. Inv => PoolSuffices
        BY DEF Inv, PoolSuffices, ShapeInv, WorkInv, Buffer, NoBuffer
  <1> QED
      BY <1>1, InvAlways, CodecHasPool, PTL

\* A valid slot shows the picture it was given (aliasVP9EncoderRefToRecon).
THEOREM ReferencesStayIntact == CodecSpec => []ReferencesIntact
  <1>1. Inv => ReferencesIntact
        BY DEF Inv, ReferencesIntact, SlotInv
  <1> QED
      BY <1>1, InvAlways, CodecHasPool, PTL

\* Nothing is written into a buffer a helper of the batch still reads
\* (prepareVP9FrameParallelWorker copies pointers and counts nothing).
THEOREM HelpersReadUndisturbed == CodecSpec => []HelpersReadIntact
  <1>1. Inv => HelpersReadIntact
        BY DEF Inv, HelpersReadIntact, BatchInv
  <1> QED
      BY <1>1, InvAlways, CodecHasPool, PTL

\* A lease of the decoder counts exactly the slots that show its buffer and the
\* picture on show, whatever call fails or is concealed, and Reset leaves none
\* (releaseVP9InternalFrame, releaseVP9ExternalFrame).
THEOREM LeasesStayExact == CodecSpec => []LeasesExact
  <1>1. DecInv => LeasesExact
    <2> SUFFICES ASSUME DecInv PROVE LeasesExact
        OBVIOUS
    <2>1. ASSUME NEW b \in Leased
          PROVE  dec.leases[b] = Cardinality({s \in Slot : dec.img[s] = b})
                                 + (IF dec.lastLease = b THEN 1 ELSE 0)
      <3>1. dec.leases[b] = Counted(dec, b) /\ dec.active # b
            BY Kinds DEF DecInv, Exact
      <3>2. Cardinality(Showing(dec, b)) \in Nat
            BY ShowingFinite
      <3> QED
          BY <3>1, <3>2 DEF Counted, Showing
    <2>2. ASSUME "external" \notin opts, NEW b \in App PROVE dec.leases[b] = 0
      <3>1. Apart(dec) /\ b \in Leased
            BY <2>2, Kinds DEF DecInv
      <3>2. Showing(dec, b) = {} /\ dec.lastLease # b
            BY <3>1 DEF Apart, Showing
      <3> QED
          BY <2>1, <3>1, <3>2, FS_EmptySet DEF Showing
    <2> QED
        BY <2>1, <2>2 DEF LeasesExact, DecInv
  <1> QED
      BY <1>1, CodecInvAlways, PTL DEF CodecInv

\* What NextFrame returns stays as it is until the next call that decodes,
\* whichever references are replaced meanwhile.
THEOREM ShownStaysIntact == CodecSpec => []ShownIsIntact
  <1>1. DecInv => ShownIsIntact
    <2> SUFFICES ASSUME DecInv, due # Nothing
                 PROVE  dec.pix[dec.last] = due
                        /\ (dec.last \in Leased => dec.leases[dec.last] > 0)
        BY DEF ShownIsIntact
    <2>1. OnShow(dec, due) /\ Exact(dec)
          BY DEF DecInv
    <2> QED
        BY <2>1, HeldHasLease DEF OnShow
  <1> QED
      BY <1>1, CodecInvAlways, PTL DEF CodecInv

\* As long as the application was told of no loss, the decoder's slots show what
\* the encoder predicts from.
THEOREM DecoderStaysInStep == CodecSpec => []DecoderAgrees
  <1>1. CodecInv => DecoderAgrees
    <2> SUFFICES ASSUME CodecInv, ~told, packet = NoPacket, NEW s \in valid
                 PROVE  s \in ValidRefs /\ dec.pix[dec.img[s]] = holds[s]
        BY DEF DecoderAgrees
    <2>1. s \in Slot /\ packet.refresh = {}
          BY DEF CodecInv, Inv, ShapeInv, NoPacket
    <2>2. Agrees(s)
          BY <2>1 DEF CodecInv, AgreeInv
    <2> QED
        BY <2>1, <2>2 DEF Agrees, ValidRefs
  <1> QED
      BY <1>1, CodecInvAlways, PTL
=============================================================================
