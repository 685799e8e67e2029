------------------------- MODULE Vp8Lookahead_proof -------------------------
(***************************************************************************)
(* Proofs about Vp8Lookahead: whatever the encoder decides and whatever    *)
(* fails, frames are encoded in the order they were submitted and none     *)
(* twice; no accepted frame is lost until a call leaves the queue at its   *)
(* depth, which without the ARF driver never happens. The newest deferred  *)
(* replacement of a reference is always waiting, queued or applied. Until  *)
(* that depth is reached, every call is a step of the frame queue.         *)
(*                                                                         *)
(* A call works on the ring as a record, so the invariant is a predicate   *)
(* on such a record, and one lemma for each ring operation says what the   *)
(* operation makes of it: of the order, of the frames held, and of the     *)
(* replacements they carry.                                                *)
(***************************************************************************)
EXTENDS Vp8Lookahead, FiniteSetTheorems, TLAPS

RingType == [sl : [Index -> Entry], rd : Index, wr : Index, n : 0..Depth,
             st : Frame \cup {NoFrame}, ps : SetId \cup {NoSet}]

\* The k-th frame of the queue.
Nth(q, k) == q.sl[At(q.rd, k)].frame

\* The frames of q are among 1..high, increase, and come after those of done;
\* the stashed frame comes last.
Ordered(q, done, high) ==
  /\ q \in RingType
  /\ q.wr = At(q.rd, q.n)
  /\ \A k \in 0..(q.n - 1) : Nth(q, k) \in 1..high
  /\ \A k \in 0..(q.n - 1) : \A g \in done : g < Nth(q, k)
  /\ \A j, k \in 0..(q.n - 1) : j < k => Nth(q, j) < Nth(q, k)
  /\ q.st # NoFrame =>
       /\ q.st \in 1..high
       /\ \A g \in done : g < q.st
       /\ \A k \in 0..(q.n - 1) : Nth(q, k) < q.st

OrderInv ==
  /\ submitted \in 0..MaxFrames
  /\ shown \subseteq 1..submitted
  /\ Ordered(Here, shown, submitted)

-----------------------------------------------------------------------------
\* Positions of the ring: in range, distinct, and the successor of one is the
\* next one.
LEMMA Positions ==
  ASSUME LookaheadAssumption, NEW r \in Index
  PROVE  /\ Next1(r) \in Index
         /\ At(r, 0) = r
         /\ \A k \in 0..Depth : At(r, k) \in Index
         /\ \A j, k \in 0..Depth : At(r, j) = At(r, k) => j = k
         /\ \A k \in 0..(Depth - 1) : At(Next1(r), k) = At(r, k + 1)
         /\ \A k \in 0..(Depth - 1) : Next1(At(r, k)) = At(r, k + 1)
  BY SMT DEF LookaheadAssumption, Index, RingLen, Next1, At

\* What a push changes.
LEMMA PushFields ==
  ASSUME LookaheadAssumption, NEW q \in RingType, NEW f \in Frame, ~Full(q)
  PROVE  /\ Push(q, f) \in RingType
         /\ Push(q, f).sl = [q.sl EXCEPT ![q.wr] = [frame |-> f, set |-> q.ps]]
         /\ Push(q, f).rd = q.rd /\ Push(q, f).wr = Next1(q.wr)
         /\ Push(q, f).n = q.n + 1 /\ Push(q, f).st = q.st
  <1>1. Next1(q.wr) \in Index  BY Positions DEF RingType
  <1>2. q.n + 1 \in 0..Depth
    BY DEF RingType, Full, RingLen, LookaheadAssumption
  <1>3. [frame |-> f, set |-> q.ps] \in Entry  BY DEF RingType, Entry
  <1>4. [q.sl EXCEPT ![q.wr] = [frame |-> f, set |-> q.ps]] \in [Index -> Entry]
    BY <1>3 DEF RingType
  <1> QED  BY <1>1, <1>2, <1>4 DEF RingType, Push

\* What a pop followed by the clearing of the popped entry changes.
LEMMA PopFields ==
  ASSUME LookaheadAssumption, NEW q \in RingType, NEW d \in BOOLEAN, CanPop(q, d)
  PROVE  /\ ClearSet(Pop(q), q.rd) \in RingType
         /\ ClearSet(Pop(q), q.rd).sl = [q.sl EXCEPT ![q.rd].set = NoSet]
         /\ ClearSet(Pop(q), q.rd).rd = Next1(q.rd)
         /\ ClearSet(Pop(q), q.rd).wr = q.wr
         /\ ClearSet(Pop(q), q.rd).n = q.n - 1
         /\ ClearSet(Pop(q), q.rd).st = q.st
  <1>1. Next1(q.rd) \in Index  BY Positions DEF RingType
  <1>2. q.n - 1 \in 0..Depth
    BY DEF RingType, CanPop, LookaheadAssumption
  <1>3. [q.sl EXCEPT ![q.rd].set = NoSet] \in [Index -> Entry]
    BY DEF RingType, Entry
  <1> QED  BY <1>1, <1>2, <1>3 DEF RingType, Pop, ClearSet

\* A frame later than all others may be pushed.
LEMMA PushOrdered ==
  ASSUME LookaheadAssumption, NEW q, NEW done, NEW high \in Nat, NEW f \in Frame,
         NEW new \in Nat, high <= new, f <= new,
         Ordered(q, done, high), q.st = NoFrame, ~Full(q),
         \A g \in done : g < f,
         \A k \in 0..(q.n - 1) : Nth(q, k) < f
  PROVE  /\ Ordered(Push(q, f), done, new)
         /\ Nth(Push(q, f), q.n) = f
         /\ \A k \in 0..(q.n - 1) : Nth(Push(q, f), k) = Nth(q, k)
  <1> DEFINE p == Push(q, f)
  <1>1. q \in RingType /\ q.wr = At(q.rd, q.n)  BY DEF Ordered
  <1>2. /\ p \in RingType
        /\ p.sl = [q.sl EXCEPT ![q.wr] = [frame |-> f, set |-> q.ps]]
        /\ p.rd = q.rd /\ p.wr = Next1(q.wr) /\ p.n = q.n + 1 /\ p.st = q.st
    BY <1>1, PushFields
  <1>3. q.rd \in Index /\ q.n \in 0..(Depth - 1) /\ p.sl \in [Index -> Entry]
    BY <1>1, <1>2 DEF RingType, Full, RingLen, LookaheadAssumption
  <1>4. p.wr = At(p.rd, p.n)
    <2>1. \A k \in 0..(Depth - 1) : Next1(At(q.rd, k)) = At(q.rd, k + 1)
      BY <1>3, Positions
    <2>2. Next1(At(q.rd, q.n)) = At(q.rd, q.n + 1)  BY <1>3, <2>1
    <2> QED  BY <1>1, <1>2, <2>2
  <1>5. Nth(p, q.n) = f
    BY <1>1, <1>2, <1>3, Positions DEF Nth, RingType, LookaheadAssumption
  <1>6. ASSUME NEW k \in 0..(q.n - 1)  PROVE Nth(p, k) = Nth(q, k)
    <2>1. k \in 0..Depth /\ q.n \in 0..Depth /\ k # q.n
      BY <1>3 DEF LookaheadAssumption
    <2>2. At(q.rd, k) \in Index /\ At(q.rd, q.n) \in Index
      BY <1>3, <2>1, Positions
    <2>3. \A i, j \in 0..Depth : At(q.rd, i) = At(q.rd, j) => i = j
      BY <1>3, Positions
    <2>4. At(q.rd, k) # q.wr  BY <1>1, <2>1, <2>3
    <2> QED  BY <1>1, <1>2, <2>2, <2>4 DEF Nth, RingType
  <1> HIDE DEF p
  <1>7. \A k \in 0..(p.n - 1) : k \in 0..(q.n - 1) \/ k = q.n
    BY <1>2, <1>3
  <1>8. \A k \in 0..(q.n - 1) : Nth(q, k) \in 1..high  BY DEF Ordered
  <1>9. \A k \in 0..(p.n - 1) : Nth(p, k) \in 1..new
    BY <1>5, <1>6, <1>7, <1>8 DEF Frame
  <1>10. \A k \in 0..(p.n - 1) : \A g \in done : g < Nth(p, k)
    BY <1>5, <1>6, <1>7 DEF Ordered
  <1>11. ASSUME NEW j \in 0..(p.n - 1), NEW k \in 0..(p.n - 1), j < k
         PROVE  Nth(p, j) < Nth(p, k)
    <2>1. j \in 0..(q.n - 1)  BY <1>2, <1>3, <1>11
    <2>2. CASE k = q.n  BY <2>1, <2>2, <1>5, <1>6
    <2>3. CASE k \in 0..(q.n - 1)  BY <2>1, <2>3, <1>6, <1>11 DEF Ordered
    <2> QED  BY <2>2, <2>3, <1>7
  <1>12. Ordered(p, done, new)  BY <1>2, <1>4, <1>9, <1>10, <1>11 DEF Ordered
  <1> QED  BY <1>5, <1>6, <1>12 DEF p

\* The head of the queue is later than every frame encoded before, and what is
\* left comes after the head.
LEMMA PopOrdered ==
  ASSUME LookaheadAssumption, NEW q, NEW done, NEW high \in Nat, NEW d \in BOOLEAN,
         Ordered(q, done, high), CanPop(q, d)
  PROVE  /\ q.sl[q.rd].frame \in 1..high
         /\ \A g \in done : g < q.sl[q.rd].frame
         /\ Ordered(ClearSet(Pop(q), q.rd), done \cup {q.sl[q.rd].frame}, high)
         /\ Nth(q, 0) = q.sl[q.rd].frame
         /\ \A k \in 0..(q.n - 2) : Nth(ClearSet(Pop(q), q.rd), k) = Nth(q, k + 1)
  <1> DEFINE p == ClearSet(Pop(q), q.rd)
             h == q.sl[q.rd].frame
  <1>1. q \in RingType /\ q.wr = At(q.rd, q.n)  BY DEF Ordered
  <1>2. /\ p \in RingType
        /\ p.sl = [q.sl EXCEPT ![q.rd].set = NoSet]
        /\ p.rd = Next1(q.rd) /\ p.wr = q.wr /\ p.n = q.n - 1 /\ p.st = q.st
    BY <1>1, PopFields
  <1>3. q.rd \in Index /\ q.n \in 1..Depth
    BY <1>1 DEF RingType, CanPop, LookaheadAssumption
  <1>4. 0 \in 0..(q.n - 1) /\ Nth(q, 0) = h
    BY <1>3, Positions DEF Nth
  <1>5. h \in 1..high /\ \A g \in done : g < h  BY <1>4 DEF Ordered
  <1>6. p.wr = At(p.rd, p.n)
    <2>1. q.n - 1 \in 0..(Depth - 1) /\ (q.n - 1) + 1 = q.n
      BY <1>3 DEF LookaheadAssumption
    <2> QED  BY <1>1, <1>2, <1>3, <2>1, Positions
  <1>7. ASSUME NEW k \in 0..(p.n - 1)
        PROVE  k + 1 \in 0..(q.n - 1) /\ Nth(p, k) = Nth(q, k + 1)
    <2>1. k \in 0..(Depth - 1) /\ k + 1 \in 0..(q.n - 1) /\ k + 1 \in 0..Depth
      BY <1>2, <1>3 DEF LookaheadAssumption
    <2>2. At(p.rd, k) = At(q.rd, k + 1) /\ At(q.rd, k + 1) \in Index
      BY <1>2, <1>3, <2>1, Positions
    <2>3. \A i \in Index : p.sl[i].frame = q.sl[i].frame
      BY <1>1, <1>2 DEF RingType, Entry
    <2> QED  BY <2>1, <2>2, <2>3 DEF Nth
  <1> HIDE DEF p, h
  <1>8. \A k \in 0..(p.n - 1) : Nth(p, k) \in 1..high  BY <1>7 DEF Ordered
  <1>9. \A k \in 0..(p.n - 1) : \A g \in done \cup {h} : g < Nth(p, k)
    <2>1. SUFFICES ASSUME NEW k \in 0..(p.n - 1)
                   PROVE  (\A g \in done : g < Nth(p, k)) /\ h < Nth(p, k)
      OBVIOUS
    <2>2. k + 1 \in 0..(q.n - 1) /\ Nth(p, k) = Nth(q, k + 1) /\ 0 < k + 1
      BY <1>7
    <2> QED  BY <2>2, <1>4 DEF Ordered
  <1>10. \A j, k \in 0..(p.n - 1) : j < k => Nth(p, j) < Nth(p, k)
    <2>1. SUFFICES ASSUME NEW j \in 0..(p.n - 1), NEW k \in 0..(p.n - 1), j < k
                   PROVE  Nth(p, j) < Nth(p, k)
      OBVIOUS
    <2>2. j + 1 < k + 1  BY <2>1
    <2> QED  BY <2>2, <1>7 DEF Ordered
  <1>11. p.st # NoFrame =>
           /\ p.st \in 1..high
           /\ \A g \in done \cup {h} : g < p.st
           /\ \A k \in 0..(p.n - 1) : Nth(p, k) < p.st
    BY <1>2, <1>4, <1>7 DEF Ordered
  <1>12. Ordered(p, done \cup {h}, high)
    BY <1>2, <1>6, <1>8, <1>9, <1>10, <1>11 DEF Ordered
  <1>13. \A k \in 0..(q.n - 2) : Nth(p, k) = Nth(q, k + 1)  BY <1>2, <1>3, <1>7
  <1> QED  BY <1>4, <1>5, <1>12, <1>13 DEF p, h

\* Raising the bound, stashing a later frame and forgetting a reference
\* replacement keep the order.
LEMMA StashOrdered ==
  ASSUME LookaheadAssumption, NEW q, NEW done, NEW high \in Nat, NEW f \in Frame,
         NEW new \in Nat, high <= new, f <= new,
         Ordered(q, done, high), q.st = NoFrame,
         \A g \in done : g < f,
         \A k \in 0..(q.n - 1) : Nth(q, k) < f
  PROVE  Ordered([q EXCEPT !.st = f], done, new)
  <1> DEFINE p == [q EXCEPT !.st = f]
  <1>1. q \in RingType  BY DEF Ordered
  <1>2. /\ p \in RingType /\ p.sl = q.sl /\ p.rd = q.rd /\ p.wr = q.wr
        /\ p.n = q.n /\ p.st = f /\ f # NoFrame
    BY <1>1 DEF RingType, Frame, NoFrame
  <1> HIDE DEF p
  <1>3. \A k : Nth(p, k) = Nth(q, k)  BY <1>2 DEF Nth
  <1>4. \A k \in 0..(p.n - 1) : Nth(p, k) \in 1..new
    BY <1>2, <1>3 DEF Ordered
  <1>5. f \in 1..new  BY DEF Frame
  <1> QED  BY <1>2, <1>3, <1>4, <1>5 DEF Ordered, p

\* Raising the bound keeps the order.
LEMMA RaiseOrdered ==
  ASSUME NEW q, NEW done, NEW high \in Nat, NEW new \in Nat, high <= new,
         Ordered(q, done, high)
  PROVE  Ordered(q, done, new)
  <1>1. 1..high \subseteq 1..new  OBVIOUS
  <1> QED  BY <1>1 DEF Ordered

\* Clearing an entry's replacement keeps the order.
LEMMA ClearOrdered ==
  ASSUME LookaheadAssumption, NEW q, NEW done, NEW high \in Nat, NEW i \in Index,
         Ordered(q, done, high)
  PROVE  Ordered(ClearSet(q, i), done, high)
  <1> DEFINE p == ClearSet(q, i)
  <1>1. q \in RingType  BY DEF Ordered
  <1>2. p.sl = [q.sl EXCEPT ![i].set = NoSet] /\ p.rd = q.rd /\ p.wr = q.wr
          /\ p.n = q.n /\ p.st = q.st /\ p.ps = q.ps
    BY <1>1 DEF RingType, ClearSet
  <1>3. [q.sl EXCEPT ![i].set = NoSet] \in [Index -> Entry]
    BY <1>1 DEF RingType, Entry
  <1>4. p \in RingType  BY <1>1, <1>3 DEF RingType, ClearSet
  <1>5. \A j \in Index : p.sl[j].frame = q.sl[j].frame
    BY <1>1, <1>2 DEF RingType, Entry
  <1>6. \A k \in 0..Depth : At(q.rd, k) \in Index
    BY <1>1, Positions DEF RingType
  <1>7. \A k \in 0..(q.n - 1) : k \in 0..Depth
    BY <1>1 DEF RingType, LookaheadAssumption
  <1> HIDE DEF p
  <1>8. \A k \in 0..(q.n - 1) : Nth(p, k) = Nth(q, k)
    BY <1>2, <1>5, <1>6, <1>7 DEF Nth
  <1>9. \A k \in 0..(p.n - 1) : Nth(p, k) \in 1..high  BY <1>2, <1>8 DEF Ordered
  <1>10. \A k \in 0..(p.n - 1) : \A g \in done : g < Nth(p, k)
    BY <1>2, <1>8 DEF Ordered
  <1>11. \A j, k \in 0..(p.n - 1) : j < k => Nth(p, j) < Nth(p, k)
    BY <1>2, <1>8 DEF Ordered
  <1>12. p.st # NoFrame =>
           /\ p.st \in 1..high
           /\ \A g \in done : g < p.st
           /\ \A k \in 0..(p.n - 1) : Nth(p, k) < p.st
    BY <1>2, <1>8 DEF Ordered
  <1>13. p.wr = At(p.rd, p.n)  BY <1>2 DEF Ordered
  <1> QED  BY <1>4, <1>9, <1>10, <1>11, <1>12, <1>13 DEF Ordered, p

-----------------------------------------------------------------------------
(* The inductive invariant.                                                 *)

IInv ==
  /\ TypeOK
  /\ shown \subseteq 1..submitted
  /\ Ordered(Here, shown, submitted)
  /\ ~AutoAltRef => stash = NoFrame
  /\ ~overfull => count < Depth

\* After the stash is drained it is empty and the order is kept.
LEMMA DrainedOrdered ==
  ASSUME LookaheadAssumption, IInv
  PROVE  /\ Ordered(Drained, shown, submitted)
         /\ Drained.st = NoFrame
         /\ \A k \in 0..(Drained.n - 1) : Nth(Drained, k) < submitted + 1
         /\ \A g \in shown : g < submitted + 1
         /\ submitted \in Nat
  <1>1. Ordered(Here, shown, submitted) /\ submitted \in Nat /\ shown \subseteq 1..submitted
    BY DEF IInv, TypeOK, LookaheadAssumption
  <1> DEFINE q == [Here EXCEPT !.st = NoFrame]
  <1>2. Ordered(q, shown, submitted) /\ q.st = NoFrame
    <2>1. /\ q \in RingType /\ q.sl = Here.sl /\ q.rd = Here.rd /\ q.wr = Here.wr
          /\ q.n = Here.n /\ q.st = NoFrame
      BY <1>1 DEF Ordered, RingType, Here
    <2> HIDE DEF q
    <2>2. \A k : Nth(q, k) = Nth(Here, k)  BY <2>1 DEF Nth
    <2> QED  BY <1>1, <2>1, <2>2 DEF Ordered
  <1>3. Ordered(Drained, shown, submitted) /\ Drained.st = NoFrame
    <2>1. CASE ~AutoAltRef \/ stash = NoFrame
      <3>1. Drained = Here /\ Here.st = stash  BY <2>1 DEF Drained, Here
      <3> QED  BY <1>1, <2>1, <3>1 DEF IInv
    <2>2. CASE AutoAltRef /\ stash # NoFrame /\ Full(q)
      BY <1>2, <2>2 DEF Drained
    <2>3. CASE AutoAltRef /\ stash # NoFrame /\ ~Full(q)
      <3>1. Drained = Push(q, stash)  BY <2>3 DEF Drained
      <3>2. /\ stash \in 1..submitted /\ stash \in Frame
            /\ \A g \in shown : g < stash
            /\ \A k \in 0..(q.n - 1) : Nth(q, k) < stash
        <4>1. Here.st = stash /\ q.n = Here.n /\ q.sl = Here.sl /\ q.rd = Here.rd
          BY DEF Here
        <4>2. \A k : Nth(q, k) = Nth(Here, k)  BY <4>1 DEF Nth
        <4>3. stash \in Frame  BY <2>3 DEF IInv, TypeOK
        <4> HIDE DEF q
        <4> QED  BY <1>1, <2>3, <4>1, <4>2, <4>3 DEF Ordered
      <3> HIDE DEF q
      <3>3. Ordered(Push(q, stash), shown, submitted)
        <4>1. submitted <= submitted /\ stash <= submitted  BY <1>1, <3>2
        <4> QED  BY <1>1, <1>2, <2>3, <3>2, <4>1, PushOrdered
      <3>4. Push(q, stash).st = NoFrame
        BY <1>2, <2>3, <3>2, PushFields DEF Ordered
      <3> QED  BY <3>1, <3>3, <3>4
    <2> QED  BY <2>1, <2>2, <2>3
  <1>4. \A k \in 0..(Drained.n - 1) : Nth(Drained, k) \in 1..submitted
    BY <1>3 DEF Ordered
  <1> QED  BY <1>1, <1>3, <1>4

\* A step that stores an ordered ring re-establishes the ring's part of the
\* invariant.
LEMMA StoreRing ==
  ASSUME NEW q, NEW done, NEW high, Ordered(q, done, high), SetRing(q),
         shown' = done, submitted' = high
  PROVE  /\ Ordered(Here, shown, submitted)'
         /\ slot' \in [Index -> Entry] /\ read' \in Index /\ write' \in Index
         /\ count' \in 0..Depth /\ write' = At(read', count')
         /\ stash' \in Frame \cup {NoFrame}
         /\ pendingSet' \in SetId \cup {NoSet}
  <1>1. q \in RingType /\ q.wr = At(q.rd, q.n)  BY DEF Ordered
  <1>2. Here' = q  BY <1>1 DEF Here, SetRing, RingType
  <1>3. Ordered(Here', shown', submitted')  BY <1>2
  <1>4. Ordered(Here, shown, submitted)'  BY <1>3 DEF Ordered, RingType, Nth
  <1> QED  BY <1>1, <1>4 DEF SetRing, RingType

\* The frames shown by a step come after those shown before.
Increasing == \A f \in shown' \ shown : \A g \in shown : g < f

ArfType == [pending : BOOLEAN, active : BOOLEAN, till : 0..MaxGFInterval]
SetsOK ==
  /\ latest \in SetId \cup {NoSet} /\ buffer \in SetId \cup {NoSet}
  /\ issued \in 0..MaxSets /\ applied \subseteq SetId
CallerOK ==
  /\ submitted \in 0..MaxFrames
  /\ accepted \subseteq Frame /\ gone \subseteq Frame

\* What remains to be shown of the invariant once the ring is stored.
LEMMA Assemble ==
  ASSUME LookaheadAssumption, NEW q, NEW done, NEW high,
         Ordered(q, done, high), SetRing(q), shown' = done, submitted' = high,
         done \subseteq 1..high, ~AutoAltRef => q.st = NoFrame,
         arf' \in ArfType, SetsOK', CallerOK'
  PROVE  IInv'
  <1>1. shown' \subseteq Frame
    BY DEF CallerOK, Frame, LookaheadAssumption
  <1>2. stash' = q.st  BY DEF SetRing
  <1>3. Ordered(Here, shown, submitted)'  BY StoreRing
  <1>4. overfull' \in BOOLEAN  BY Zenon DEF SetRing
  <1>5. TypeOK'
    BY <1>1, <1>4, StoreRing DEF TypeOK, ArfType, SetsOK, CallerOK
  <1>6. ~overfull' => count' < Depth
    <2>1. q.n \in 0..Depth  BY DEF Ordered, RingType
    <2>2. ~overfull' => count' = q.n /\ q.n # Depth  BY DEF SetRing
    <2> QED  BY <2>1, <2>2 DEF LookaheadAssumption
  <1> QED  BY <1>2, <1>3, <1>5, <1>6 DEF IInv

\* Planning and committing keep the schedule's type.
LEMMA ScheduleTyped ==
  ASSUME LookaheadAssumption, TypeOK, NEW q, NEW plan \in Plans(q) \cup {0},
         NEW kind \in Kinds, Schedule(plan, kind)
  PROVE  arf' \in ArfType
  <1>1. arf \in ArfType /\ 0 \in 0..MaxGFInterval
    BY DEF TypeOK, ArfType, MaxGFInterval, LookaheadAssumption
  <1>2. plan \in 0..MaxGFInterval
    BY DEF Plans, MaxGFInterval, LookaheadAssumption
  <1>3. PICK a \in ArfType : arf' = Commit(a, kind)
    <2>1. [arf EXCEPT !.pending = TRUE, !.till = plan] \in ArfType
      BY <1>1, <1>2 DEF ArfType
    <2> QED  BY <1>1, <2>1 DEF Schedule
  <1>4. Countdown(a.till) \in 0..MaxGFInterval
    BY DEF Countdown, ArfType, MaxGFInterval, LookaheadAssumption
  <1>5. a.pending \in BOOLEAN /\ a.active \in BOOLEAN  BY DEF ArfType
  <1>6. (a.pending /\ a.active) \in BOOLEAN  BY <1>5
  <1>7. CASE kind = "key"  BY <1>3, <1>4, <1>6, <1>7 DEF Commit, ArfType
  <1>8. CASE kind = "golden"  BY <1>3, <1>6, <1>8 DEF Commit, ArfType
  <1>9. CASE kind = "altref"  BY <1>3, <1>9 DEF Commit, ArfType
  <1>10. CASE kind = "inter"  BY <1>3, <1>4, <1>10 DEF Commit, ArfType
  <1>11. CASE kind \in {"dropped", "failed"}  BY <1>3, <1>11 DEF Commit
  <1> QED  BY <1>7, <1>8, <1>9, <1>10, <1>11 DEF Kinds

\* Encoding keeps the types of the reference replacements.
LEMMA EncodeTyped ==
  ASSUME TypeOK, NEW set \in SetId \cup {NoSet}, NEW kind, NEW refreshes,
         Encode(set, kind, refreshes)
  PROVE  SetsOK'
  BY DEF Encode, TypeOK, SetsOK, NoSet

\* Showing the head of an ordered ring.
LEMMA ShowHeadStep ==
  ASSUME LookaheadAssumption, IInv, NEW q, NEW d \in BOOLEAN,
         NEW new \in SUBSET Frame,
         Ordered(q, shown, submitted'), submitted' \in 0..MaxFrames,
         submitted <= submitted', ~AutoAltRef => q.st = NoFrame,
         ShowHead(q, d, new)
  PROVE  IInv' /\ Increasing
  <1>1. CanPop(q, d) /\ submitted' \in Nat
    BY DEF ShowHead, LookaheadAssumption
  <1> DEFINE h == q.sl[q.rd].frame
             p == ClearSet(Pop(q), q.rd)
  <1>2. /\ h \in 1..submitted' /\ \A g \in shown : g < h
        /\ Ordered(p, shown \cup {h}, submitted')
    BY <1>1, PopOrdered
  <1>3. q \in RingType  BY DEF Ordered
  <1>4. p.st = q.st  BY <1>1, <1>3, PopFields
  <1>5. SetRing(p) /\ shown' = shown \cup {h}
    BY DEF ShowHead
  <1>6. q.sl[q.rd].set \in SetId \cup {NoSet}  BY <1>3 DEF RingType, Entry
  <1>7. arf' \in ArfType
    <2>1. PICK kind \in VisibleKinds, plan \in Plans(q) : Schedule(plan, kind)
      BY DEF ShowHead
    <2> QED  BY <2>1, ScheduleTyped DEF IInv, LookaheadAssumption
  <1>8. SetsOK'
    <2>1. PICK kind, refreshes : Encode(q.sl[q.rd].set, kind, refreshes)
      BY DEF ShowHead
    <2> QED  BY <1>6, <2>1, EncodeTyped DEF IInv
  <1>9. CallerOK'
    BY DEF ShowHead, CallerOK, IInv, TypeOK
  <1>10. shown \cup {h} \subseteq 1..submitted'
    <2>1. shown \subseteq 1..submitted /\ submitted \in Int
      BY DEF IInv, TypeOK
    <2>2. 1..submitted \subseteq 1..submitted'  BY <1>1, <2>1
    <2> QED  BY <1>2, <2>1, <2>2
  <1> HIDE DEF h, p
  <1>11. IInv'
    BY <1>2, <1>4, <1>5, <1>7, <1>8, <1>9, <1>10, Assemble
  <1>12. Increasing  BY <1>2, <1>5 DEF Increasing
  <1> QED  BY <1>11, <1>12

\* Storing an ordered ring without encoding anything.
LEMMA StoreStep ==
  ASSUME LookaheadAssumption, IInv, NEW q,
         Ordered(q, shown, submitted'), SetRing(q),
         ~AutoAltRef => q.st = NoFrame,
         submitted' \in 0..MaxFrames, submitted <= submitted',
         shown' = shown, arf' \in ArfType, SetsOK',
         accepted' \subseteq Frame, gone' = gone
  PROVE  IInv' /\ Increasing
  <1>1. shown \subseteq 1..submitted'
    <2>1. shown \subseteq 1..submitted /\ submitted \in Int
      BY DEF IInv, TypeOK
    <2>2. 1..submitted \subseteq 1..submitted'  BY <2>1
    <2> QED  BY <2>1, <2>2
  <1>2. CallerOK'  BY DEF CallerOK, IInv, TypeOK
  <1>3. IInv'  BY <1>1, <1>2, Assemble
  <1> QED  BY <1>3 DEF Increasing

\* Submitting a frame that is not encoded in this call.
LEMMA SubmitFacts ==
  ASSUME LookaheadAssumption, IInv, Submitting
  PROVE  /\ submitted' \in 0..MaxFrames /\ submitted <= submitted'
         /\ submitted' \in Nat /\ submitted' = NextFrame
         /\ NextFrame \in Frame /\ NextFrame <= submitted'
         /\ {NextFrame} \in SUBSET Frame
         /\ (Accept \/ UNCHANGED accepted => accepted' \subseteq Frame)
         /\ Ordered(Drained, shown, submitted')
         /\ Drained.st = NoFrame
         /\ \A g \in shown : g < NextFrame
         /\ \A k \in 0..(Drained.n - 1) : Nth(Drained, k) < NextFrame
  <1>1. /\ submitted \in Nat /\ submitted < MaxFrames /\ submitted' = submitted + 1
        /\ NextFrame = submitted + 1 /\ accepted \subseteq Frame
    BY DEF Submitting, NextFrame, IInv, TypeOK, LookaheadAssumption
  <1>2. Ordered(Drained, shown, submitted')
    BY <1>1, DrainedOrdered, RaiseOrdered
  <1>3. NextFrame \in Frame  BY <1>1 DEF Frame, LookaheadAssumption
  <1>4. /\ submitted' \in 0..MaxFrames /\ submitted <= submitted'
        /\ submitted' \in Nat /\ submitted' = NextFrame
        /\ NextFrame <= submitted'
    BY <1>1 DEF LookaheadAssumption
  <1>5. Accept \/ UNCHANGED accepted => accepted' \subseteq Frame
    BY <1>1, <1>3 DEF Accept
  <1>6. /\ Drained.st = NoFrame
        /\ \A g \in shown : g < NextFrame
        /\ \A k \in 0..(Drained.n - 1) : Nth(Drained, k) < NextFrame
    BY <1>1, DrainedOrdered
  <1> QED  BY <1>2, <1>3, <1>4, <1>5, <1>6

\* Unchanged variables keep their types.
LEMMA Unchanged ==
  ASSUME LookaheadAssumption, IInv
  PROVE  /\ UNCHANGED arf => arf' \in ArfType
         /\ UNCHANGED <<latest, buffer, issued, applied>> => SetsOK'
  BY DEF IInv, TypeOK, ArfType, SetsOK

\* A hidden ARF is encoded from an entry that stays in the queue.
LEMMA HiddenFacts ==
  ASSUME LookaheadAssumption, IInv, EmitHidden(Drained)
  PROVE  /\ AutoAltRef
         /\ At(Drained.rd, arf.till) \in Index
         /\ Drained.sl[At(Drained.rd, arf.till)].set \in SetId \cup {NoSet}
  <1>1. Drained \in RingType  BY DrainedOrdered DEF Ordered
  <1>2. arf.till \in 0..Depth
    BY DEF EmitHidden, CanPeek, IInv, TypeOK, LookaheadAssumption
  <1>3. At(Drained.rd, arf.till) \in Index
    BY <1>1, <1>2, Positions DEF RingType
  <1> QED  BY <1>1, <1>3 DEF EmitHidden, RingType, Entry

-----------------------------------------------------------------------------
(* Every action keeps the invariant and shows frames in order.              *)

\* The initial state satisfies the invariant.
LEMMA InitIInv == ASSUME LookaheadAssumption, Init PROVE IInv
  <1>1. Here \in RingType /\ Here.n = 0 /\ Here.st = NoFrame
    BY DEF Init, Here, RingType, Index, Entry, LookaheadAssumption
  <1>2. write = At(read, count)
    BY DEF Init, At, RingLen, LookaheadAssumption
  <1>3. 0 \in Index /\ 0 \in 0..MaxGFInterval
    BY DEF Index, MaxGFInterval, LookaheadAssumption
  <1>4. overfull \in BOOLEAN  BY Zenon DEF Init
  <1>5. TypeOK
    BY <1>1, <1>2, <1>3, <1>4 DEF Init, TypeOK, NoArf, Entry, LookaheadAssumption
  <1>6. Ordered(Here, shown, submitted)
    BY <1>1, <1>2 DEF Ordered, Here, Init
  <1>7. count < Depth  BY DEF Init, LookaheadAssumption
  <1> QED  BY <1>5, <1>6, <1>7 DEF IInv, Init

\* A call that only drains the stash.
LEMMA DrainOnlyStep ==
  ASSUME LookaheadAssumption, IInv,
         EncodeDrainRefused \/ EncodeBadFlags \/ EncodeRefused
  PROVE  IInv' /\ Increasing
  <1>1. /\ Submitting /\ SetRing(Drained) /\ (Accept \/ UNCHANGED accepted)
        /\ UNCHANGED <<arf, latest, buffer, issued, applied, shown, gone>>
    BY DEF EncodeDrainRefused, EncodeBadFlags, EncodeRefused
  <1> QED  BY <1>1, SubmitFacts, Unchanged, StoreStep

\* The caller's frame is stashed while an entry of the queue is encoded as a
\* hidden ARF.
LEMMA EncodeHiddenStep ==
  ASSUME LookaheadAssumption, IInv, EncodeHidden PROVE IInv' /\ Increasing
  <1> DEFINE i == At(Drained.rd, arf.till)
             p == [Drained EXCEPT !.st = NextFrame]
  <1>1. Submitting /\ EmitHidden(Drained)  BY DEF EncodeHidden
  <1>2. PICK kind \in HiddenKinds, refreshes \in BOOLEAN :
          /\ SetRing(ClearSet(p, i))
          /\ Encode(Drained.sl[i].set, kind, refreshes)
          /\ Schedule(0, kind)
          /\ Accept \/ UNCHANGED accepted
    BY DEF EncodeHidden
  <1>3. AutoAltRef /\ i \in Index /\ Drained.sl[i].set \in SetId \cup {NoSet}
    BY <1>1, HiddenFacts
  <1>4. Ordered(p, shown, submitted')
    BY <1>1, SubmitFacts, StashOrdered
  <1> HIDE DEF i, p
  <1>5. Ordered(ClearSet(p, i), shown, submitted')
    BY <1>1, <1>3, <1>4, SubmitFacts, ClearOrdered
  <1>6. arf' \in ArfType
    BY <1>2, ScheduleTyped DEF IInv, LookaheadAssumption
  <1>7. SetsOK'  BY <1>2, <1>3, EncodeTyped DEF IInv
  <1>8. shown' = shown /\ gone' = gone  BY DEF EncodeHidden
  <1> QED
    BY <1>1, <1>2, <1>3, <1>5, <1>6, <1>7, <1>8, SubmitFacts, StoreStep

\* In shifted mode the head is encoded and the caller's frame stashed.
LEMMA EncodeShiftedStep ==
  ASSUME LookaheadAssumption, IInv, EncodeShifted PROVE IInv' /\ Increasing
  <1> DEFINE p == [Drained EXCEPT !.st = NextFrame]
  <1>1. Submitting /\ HadStash /\ ShowHead(p, FALSE, {NextFrame})
    BY DEF EncodeShifted
  <1>2. Ordered(p, shown, submitted')  BY <1>1, SubmitFacts, StashOrdered
  <1> HIDE DEF p
  <1> QED  BY <1>1, <1>2, SubmitFacts, ShowHeadStep DEF HadStash

\* The caller's frame is queued; the queue stays below its depth.
LEMMA EncodeQueuedStep ==
  ASSUME LookaheadAssumption, IInv, EncodeQueued PROVE IInv' /\ Increasing
  <1>1. /\ Submitting /\ ~Full(Drained) /\ SetRing(Push(Drained, NextFrame))
        /\ Accept /\ UNCHANGED <<arf, latest, buffer, issued, applied, shown, gone>>
    BY DEF EncodeQueued
  <1>2. Ordered(Push(Drained, NextFrame), shown, submitted')
    BY <1>1, SubmitFacts, PushOrdered
  <1>3. Push(Drained, NextFrame).st = NoFrame
    BY <1>1, SubmitFacts, PushFields DEF Ordered
  <1> QED  BY <1>1, <1>2, <1>3, SubmitFacts, Unchanged, StoreStep

\* The caller's frame is queued and the head is encoded.
LEMMA EncodeHeadStep ==
  ASSUME LookaheadAssumption, IInv, EncodeHead PROVE IInv' /\ Increasing
  <1>1. /\ Submitting /\ ~Full(Drained)
        /\ ShowHead(Push(Drained, NextFrame), FALSE, {NextFrame})
    BY DEF EncodeHead
  <1>2. Ordered(Push(Drained, NextFrame), shown, submitted')
    BY <1>1, SubmitFacts, PushOrdered
  <1>3. Push(Drained, NextFrame).st = NoFrame
    BY <1>1, SubmitFacts, PushFields DEF Ordered
  <1> QED  BY <1>1, <1>2, <1>3, SubmitFacts, ShowHeadStep

\* FlushInto drains the stash, and then encodes a hidden ARF or the head.
LEMMA FlushStep ==
  ASSUME LookaheadAssumption, IInv, Flush PROVE IInv' /\ Increasing
  <1>1. /\ Ordered(Drained, shown, submitted) /\ Drained.st = NoFrame
        /\ submitted \in Nat /\ submitted \in 0..MaxFrames /\ accepted \subseteq Frame
        /\ {} \in SUBSET Frame
    BY DrainedOrdered DEF IInv, TypeOK
  <1>2. CASE FlushDrainRefused
    <2>1. /\ SetRing(Drained)
          /\ UNCHANGED <<arf, latest, buffer, issued, applied>>
          /\ UNCHANGED <<submitted, accepted, shown, gone>>
      BY <1>2 DEF FlushDrainRefused, caller
    <2> QED  BY <1>1, <2>1, Unchanged, StoreStep
  <1>3. CASE FlushHidden
    <2> DEFINE i == At(Drained.rd, arf.till)
               p == ClearSet(Drained, i)
    <2>1. PICK kind \in HiddenKinds, refreshes \in BOOLEAN :
            /\ SetRing(p)
            /\ Encode(Drained.sl[i].set, kind, refreshes)
            /\ Schedule(0, kind)
      BY <1>3 DEF FlushHidden
    <2>2. i \in Index /\ Drained.sl[i].set \in SetId \cup {NoSet} /\ AutoAltRef
      BY <1>3, HiddenFacts DEF FlushHidden
    <2>3. UNCHANGED <<submitted, accepted, shown, gone>>
      BY <1>3 DEF FlushHidden, caller
    <2>4. Ordered(p, shown, submitted)  BY <1>1, <2>2, ClearOrdered
    <2>5. arf' \in ArfType
      BY <2>1, ScheduleTyped DEF IInv, LookaheadAssumption
    <2>6. SetsOK'  BY <2>1, <2>2, EncodeTyped DEF IInv
    <2> HIDE DEF p
    <2> QED  BY <1>1, <2>1, <2>2, <2>3, <2>4, <2>5, <2>6, StoreStep
  <1>4. CASE FlushHead
    <2>1. ShowHead(Drained, TRUE, {}) /\ submitted' = submitted
      BY <1>4 DEF FlushHead
    <2>2. /\ Ordered(Drained, shown, submitted') /\ submitted' \in 0..MaxFrames
          /\ submitted <= submitted' /\ TRUE \in BOOLEAN
      BY <1>1, <2>1
    <2> QED  BY <1>1, <2>1, <2>2, ShowHeadStep
  <1> QED  BY <1>2, <1>3, <1>4 DEF Flush

\* The calls that change the waiting replacement leave the ring as it is.
LEMMA ReplacementStep ==
  ASSUME LookaheadAssumption, IInv,
         UNCHANGED <<slot, read, write, count, stash, arf, overfull>>,
         UNCHANGED <<submitted, accepted, shown, gone>>,
         pendingSet' \in SetId \cup {NoSet}, SetsOK'
  PROVE  IInv' /\ Increasing
  <1> DEFINE p == [sl |-> slot, rd |-> read, wr |-> write, n |-> count,
                   st |-> stash, ps |-> pendingSet']
  <1>1. SetRing(p)
    <2>1. count = Depth => overfull
      BY DEF IInv, TypeOK, LookaheadAssumption
    <2>2. overfull \in BOOLEAN  BY DEF IInv, TypeOK
    <2>3. overfull' = (overfull \/ count = Depth)  BY <2>1, <2>2
    <2> QED  BY <2>3 DEF SetRing
  <1>2. /\ p.sl = Here.sl /\ p.rd = Here.rd /\ p.wr = Here.wr /\ p.n = Here.n
        /\ p.st = Here.st /\ p.st = stash
    BY DEF Here
  <1>3. p \in RingType  BY DEF RingType, IInv, TypeOK
  <1>4. Ordered(Here, shown, submitted) /\ submitted \in 0..MaxFrames
        /\ accepted \subseteq Frame /\ (~AutoAltRef => stash = NoFrame)
    BY DEF IInv, TypeOK
  <1> HIDE DEF p
  <1>5. \A k : Nth(p, k) = Nth(Here, k)  BY <1>2 DEF Nth
  <1>6. Ordered(p, shown, submitted')  BY <1>2, <1>3, <1>4, <1>5 DEF Ordered
  <1>7. submitted' \in 0..MaxFrames /\ submitted <= submitted'
        /\ accepted' \subseteq Frame /\ arf' \in ArfType
    BY <1>4, Unchanged
  <1> QED  BY <1>1, <1>2, <1>4, <1>6, <1>7, StoreStep

\* A reference replacement leaves the frames alone.
LEMMA SetReferenceFrameStep ==
  ASSUME LookaheadAssumption, IInv, SetReferenceFrame PROVE IInv' /\ Increasing
  <1>1. /\ UNCHANGED <<slot, read, write, count, stash, arf, overfull>>
        /\ UNCHANGED <<submitted, accepted, shown, gone>>
    BY DEF SetReferenceFrame, ring, caller
  <1>2. issued' \in SetId /\ issued' \in 0..MaxSets
    BY DEF SetReferenceFrame, IInv, TypeOK, SetId, LookaheadAssumption
  <1>3. pendingSet' \in SetId \cup {NoSet} /\ SetsOK'
    BY <1>2 DEF SetReferenceFrame, SetsOK, IInv, TypeOK
  <1> QED  BY <1>1, <1>3, ReplacementStep

\* A change of resolution leaves the (empty) queue alone.
LEMMA ChangeResolutionStep ==
  ASSUME LookaheadAssumption, IInv, ChangeResolution PROVE IInv' /\ Increasing
  <1>1. /\ UNCHANGED <<slot, read, write, count, stash, arf, overfull>>
        /\ UNCHANGED <<submitted, accepted, shown, gone>>
    BY DEF ChangeResolution, ring, caller
  <1>2. pendingSet' \in SetId \cup {NoSet} /\ SetsOK'
    BY DEF ChangeResolution, SetsOK, IInv, TypeOK
  <1> QED  BY <1>1, <1>2, ReplacementStep

\* Reset empties the queue and the stash.
LEMMA ResetStep ==
  ASSUME LookaheadAssumption, IInv, Reset PROVE IInv' /\ Increasing
  <1> DEFINE p == [sl |-> [i \in Index |-> [slot[i] EXCEPT !.set = NoSet]],
                   rd |-> 0, wr |-> 0, n |-> 0, st |-> NoFrame, ps |-> NoSet]
  <1>1. SetRing(p)
    <2>1. overfull \in BOOLEAN /\ 0 # Depth
      BY DEF IInv, TypeOK, LookaheadAssumption
    <2>2. overfull' = (overfull \/ 0 = Depth)  BY <2>1 DEF Reset
    <2> QED  BY <2>2 DEF SetRing, Reset
  <1>2. p.n = 0 /\ p.st = NoFrame /\ p.wr = 0 /\ p.rd = 0  OBVIOUS
  <1>3. 0 \in Index /\ 0 \in 0..Depth /\ 0 \in 0..MaxGFInterval
    BY DEF Index, MaxGFInterval, LookaheadAssumption
  <1>4. [i \in Index |-> [slot[i] EXCEPT !.set = NoSet]] \in [Index -> Entry]
    BY DEF IInv, TypeOK, Entry
  <1>5. p \in RingType  BY <1>3, <1>4 DEF RingType
  <1>6. p.wr = At(p.rd, p.n)
    BY <1>2 DEF At, RingLen, LookaheadAssumption
  <1> HIDE DEF p
  <1>7. Ordered(p, shown, submitted')  BY <1>2, <1>5, <1>6 DEF Ordered
  <1>8. arf' \in ArfType  BY <1>3 DEF Reset, NoArf, ArfType
  <1>9. SetsOK'
    <2>1. issued \in 0..MaxSets /\ 1..issued \subseteq SetId
      BY DEF IInv, TypeOK, SetId, LookaheadAssumption
    <2> QED  BY <2>1 DEF Reset, SetsOK, IInv, TypeOK
  <1>10. /\ Held \subseteq Frame
         /\ submitted' = submitted /\ shown' = shown /\ accepted' = accepted
         /\ gone' = gone \cup Held
    <2>1. QueueSlots \subseteq Index
      <3>1. \A k \in 0..(count - 1) : k \in 0..Depth
        BY DEF IInv, TypeOK, LookaheadAssumption
      <3>2. \A k \in 0..Depth : At(read, k) \in Index
        BY Positions DEF IInv, TypeOK
      <3> QED  BY <3>1, <3>2 DEF QueueSlots
    <2>2. \A k \in 0..(count - 1) : Nth(Here, k) \in 1..submitted
      BY DEF IInv, Ordered, Here
    <2>3. 1..submitted \subseteq Frame /\ submitted \in Int
      BY DEF IInv, TypeOK, Frame, LookaheadAssumption
    <2>4. Queued \subseteq Frame
      BY <2>2, <2>3 DEF Queued, QueueSlots, Nth, Here
    <2> QED  BY <2>4 DEF Reset, Held, IInv, TypeOK
  <1>11. CallerOK' /\ shown \subseteq 1..submitted'
    BY <1>10 DEF CallerOK, IInv, TypeOK
  <1>12. IInv'
    BY <1>1, <1>2, <1>7, <1>8, <1>9, <1>10, <1>11, Assemble
  <1> QED  BY <1>10, <1>12 DEF Increasing

\* Every step keeps the invariant and shows frames in order.
LEMMA Step == ASSUME LookaheadAssumption, IInv, [Next]_vars PROVE IInv' /\ Increasing
  <1>1. CASE EncodeInto
    BY <1>1, DrainOnlyStep, EncodeHiddenStep, EncodeShiftedStep,
       EncodeQueuedStep, EncodeHeadStep DEF EncodeInto
  <1>2. CASE Flush  BY <1>2, FlushStep
  <1>3. CASE SetReferenceFrame  BY <1>3, SetReferenceFrameStep
  <1>4. CASE ChangeResolution  BY <1>4, ChangeResolutionStep
  <1>5. CASE Reset  BY <1>5, ResetStep
  <1>6. CASE UNCHANGED vars
    <2>1. /\ UNCHANGED <<slot, read, write, count, stash, arf, overfull>>
          /\ UNCHANGED <<submitted, accepted, shown, gone>>
          /\ UNCHANGED <<latest, buffer, issued, applied>> /\ pendingSet' = pendingSet
      BY <1>6 DEF vars
    <2>2. pendingSet' \in SetId \cup {NoSet}  BY <2>1 DEF IInv, TypeOK
    <2> QED  BY <2>1, <2>2, Unchanged, ReplacementStep
  <1> QED  BY <1>1, <1>2, <1>3, <1>4, <1>5, <1>6 DEF Next

-----------------------------------------------------------------------------
(* The theorems.                                                            *)

\* The invariant holds in every reachable state.
THEOREM Invariance == Spec => []IInv
  <1>1. Init => IInv  BY InitIInv, LookaheadAssumption
  <1>2. IInv /\ [Next]_vars => IInv'  BY Step, LookaheadAssumption
  <1> QED  BY <1>1, <1>2, PTL DEF Spec

\* Type correctness for every depth and every length of the stream.
THEOREM TypeCorrect == Spec => []TypeOK
  <1>1. IInv => TypeOK  BY DEF IInv
  <1> QED  BY <1>1, Invariance, PTL

\* The frames waiting come after the frames shown.
HeldLater == \A f \in Held : \A g \in shown : g < f

\* What waits comes after what was shown.
LEMMA HeldAfterShown == IInv => HeldLater
  <1> SUFFICES ASSUME IInv PROVE HeldLater  OBVIOUS
  <1>1. Ordered(Here, shown, submitted)  BY DEF IInv
  <1>2. \A k \in 0..(count - 1) : \A g \in shown : g < slot[At(read, k)].frame
    BY <1>1 DEF Ordered, Nth, Here
  <1>3. stash # NoFrame => \A g \in shown : g < stash
    BY <1>1 DEF Ordered, Here
  <1> QED  BY <1>2, <1>3 DEF HeldLater, Held, Queued, QueueSlots

\* Frames are encoded in the order they were submitted, none twice, whatever the
\* ARF driver, rate control and failing calls do.
THEOREM FramesShownInOrder == Spec => FramesInOrder
  <1>1. IInv /\ [Next]_vars => Increasing  BY Step, LookaheadAssumption
  <1>2. IInv => HeldLater  BY HeldAfterShown
  <1>3. Increasing /\ HeldLater' =>
          /\ \A f \in shown' \ shown : \A g \in shown : g < f
          /\ \A f \in Held' : \A g \in shown' : g < f
    BY DEF Increasing, HeldLater
  <1> QED  BY <1>1, <1>2, <1>3, Invariance, PTL DEF Spec, FramesInOrder

-----------------------------------------------------------------------------
(* What a call accepts is kept, as long as the queue stays below its depth.  *)

\* The frames of a ring record.
InRing(q) == {Nth(q, k) : k \in 0..(q.n - 1)}

\* The frames of a stored ring and its stash are held.
LEMMA StoreKeeps ==
  ASSUME NEW q, SetRing(q)
  PROVE  /\ InRing(q) \subseteq Held'
         /\ q.st # NoFrame => q.st \in Held'
         /\ count' = q.n
         /\ ~overfull' => ~overfull /\ q.n # Depth
  <1>1. slot' = q.sl /\ read' = q.rd /\ count' = q.n /\ stash' = q.st
    BY DEF SetRing
  <1>2. InRing(q) \subseteq Held'
    BY <1>1 DEF InRing, Nth, Held, Queued, QueueSlots
  <1>3. q.st # NoFrame => q.st \in Held'  BY <1>1 DEF Held
  <1>4. ~overfull' => ~overfull /\ q.n # Depth  BY DEF SetRing
  <1> QED  BY <1>1, <1>2, <1>3, <1>4

\* Clearing a replacement changes no frame.
LEMMA ClearKeeps ==
  ASSUME LookaheadAssumption, NEW q \in RingType, NEW i \in Index
  PROVE  InRing(ClearSet(q, i)) = InRing(q) /\ ClearSet(q, i).st = q.st
  <1> DEFINE p == ClearSet(q, i)
  <1>1. /\ p.sl = [q.sl EXCEPT ![i].set = NoSet] /\ p.rd = q.rd
        /\ p.n = q.n /\ p.st = q.st
    BY DEF RingType, ClearSet
  <1>2. \A j \in Index : p.sl[j].frame = q.sl[j].frame
    BY <1>1 DEF RingType, Entry
  <1>3. \A k \in 0..(q.n - 1) : At(q.rd, k) \in Index
    <2>1. \A k \in 0..Depth : At(q.rd, k) \in Index  BY Positions DEF RingType
    <2> QED  BY <2>1 DEF RingType, LookaheadAssumption
  <1> HIDE DEF p
  <1>4. \A k \in 0..(q.n - 1) : Nth(p, k) = Nth(q, k)
    BY <1>1, <1>2, <1>3 DEF Nth
  <1> QED  BY <1>1, <1>4 DEF InRing, p

\* A pushed frame joins those of the ring.
LEMMA PushKeeps ==
  ASSUME LookaheadAssumption, NEW q, NEW done, NEW high \in Nat, NEW f \in Frame,
         Ordered(q, done, high), q.st = NoFrame, ~Full(q),
         \A g \in done : g < f,
         \A k \in 0..(q.n - 1) : Nth(q, k) < f
  PROVE  InRing(q) \cup {f} \subseteq InRing(Push(q, f))
  <1> DEFINE p == Push(q, f)
  <1>1. PICK new \in Nat : high <= new /\ f <= new
    <2>1. f \in Nat  BY DEF Frame, LookaheadAssumption
    <2> QED  BY <2>1
  <1>2. Nth(p, q.n) = f /\ \A k \in 0..(q.n - 1) : Nth(p, k) = Nth(q, k)
    BY <1>1, PushOrdered
  <1>3. p.n = q.n + 1 /\ q.n \in Nat
    <2>1. q \in RingType  BY DEF Ordered
    <2>2. p.n = q.n + 1  BY <2>1, PushFields
    <2> QED  BY <2>1, <2>2 DEF RingType, LookaheadAssumption
  <1> HIDE DEF p
  <1>4. q.n \in 0..(p.n - 1) /\ \A k \in 0..(q.n - 1) : k \in 0..(p.n - 1)
    BY <1>3
  <1>5. f \in InRing(p)  BY <1>2, <1>4 DEF InRing
  <1>6. InRing(q) \subseteq InRing(p)  BY <1>2, <1>4 DEF InRing
  <1> QED  BY <1>5, <1>6 DEF p

\* While the queue is below its depth the stash can be drained, and draining it
\* loses nothing.
LEMMA DrainedKeeps ==
  ASSUME LookaheadAssumption, IInv, ~overfull
  PROVE  ~DrainFails /\ Held \subseteq InRing(Drained)
  <1>1. /\ Ordered(Here, shown, submitted) /\ submitted \in Nat
        /\ count \in Nat /\ count < Depth
    BY DEF IInv, TypeOK, LookaheadAssumption
  <1> DEFINE q == [Here EXCEPT !.st = NoFrame]
  <1>2. /\ q.sl = Here.sl /\ q.rd = Here.rd /\ q.wr = Here.wr /\ q.n = Here.n
        /\ q.st = NoFrame /\ Here.n = count /\ Here.st = stash
    BY DEF Here
  <1>3. ~Full(Here) /\ ~Full(q)
    BY <1>1, <1>2 DEF Full, RingLen, LookaheadAssumption
  <1>4. ~DrainFails  BY <1>3 DEF DrainFails
  <1>5. Queued = InRing(Here)
    BY DEF Queued, QueueSlots, InRing, Nth, Here
  <1>6. CASE stash = NoFrame
    <2>1. Drained = Here  BY <1>6 DEF Drained
    <2> QED  BY <1>4, <1>5, <1>6, <2>1 DEF Held
  <1>7. CASE stash # NoFrame
    <2>1. AutoAltRef /\ stash \in Frame  BY <1>7 DEF IInv, TypeOK
    <2>2. Drained = Push(q, stash)  BY <1>3, <1>7, <2>1 DEF Drained
    <2>3. q \in RingType  BY <1>1 DEF Ordered, RingType, Here
    <2> HIDE DEF q
    <2>4. (\A k : Nth(q, k) = Nth(Here, k)) /\ InRing(q) = InRing(Here)
      BY <1>2 DEF Nth, InRing
    <2>5. Ordered(q, shown, submitted)
      BY <1>1, <1>2, <2>3, <2>4 DEF Ordered
    <2>6. /\ \A g \in shown : g < stash
          /\ \A k \in 0..(q.n - 1) : Nth(q, k) < stash
      BY <1>1, <1>2, <1>7, <2>4 DEF Ordered
    <2>7. InRing(q) \cup {stash} \subseteq InRing(Push(q, stash))
      BY <1>1, <1>2, <1>3, <2>1, <2>5, <2>6, PushKeeps
    <2> QED  BY <1>4, <1>5, <1>7, <2>2, <2>4, <2>7 DEF Held
  <1> QED  BY <1>6, <1>7

\* Showing the head moves it from the queue to the frames shown.
LEMMA ShowHeadKeeps ==
  ASSUME LookaheadAssumption, NEW q, NEW d \in BOOLEAN, NEW new,
         submitted' \in Nat, Ordered(q, shown, submitted'),
         ShowHead(q, d, new)
  PROVE  /\ InRing(q) \cup shown \subseteq Held' \cup shown'
         /\ q.st # NoFrame => q.st \in Held'
         /\ count' = q.n - 1
  <1>1. CanPop(q, d) /\ q \in RingType  BY DEF ShowHead, Ordered
  <1> DEFINE h == q.sl[q.rd].frame
             p == ClearSet(Pop(q), q.rd)
  <1>2. /\ Nth(q, 0) = h
        /\ \A k \in 0..(q.n - 2) : Nth(p, k) = Nth(q, k + 1)
    BY <1>1, PopOrdered
  <1>3. SetRing(p) /\ shown' = shown \cup {h}  BY DEF ShowHead
  <1>4. p.n = q.n - 1 /\ p.st = q.st /\ q.n \in 0..Depth
    BY <1>1, PopFields DEF RingType
  <1> HIDE DEF h, p
  <1>5. /\ InRing(p) \subseteq Held' /\ count' = p.n
        /\ p.st # NoFrame => p.st \in Held'
    BY <1>3, StoreKeeps
  <1>6. ASSUME NEW k \in 0..(q.n - 1) PROVE Nth(q, k) \in Held' \cup shown'
    <2>1. CASE k = 0  BY <1>2, <1>3, <2>1
    <2>2. CASE k # 0
      <3>1. k - 1 \in 0..(q.n - 2) /\ (k - 1) + 1 = k /\ k - 1 \in 0..(p.n - 1)
        BY <1>4, <2>2 DEF LookaheadAssumption
      <3>2. Nth(p, k - 1) = Nth(q, k)  BY <1>2, <3>1
      <3>3. Nth(p, k - 1) \in InRing(p)  BY <3>1 DEF InRing
      <3> QED  BY <1>5, <3>2, <3>3
    <2> QED  BY <2>1, <2>2
  <1> QED  BY <1>3, <1>4, <1>5, <1>6 DEF InRing

\* Once the queue was left at its depth, that is remembered.
LEMMA OverfullStays == ASSUME [Next]_vars, overfull PROVE overfull'
  <1>1. ASSUME NEW q, SetRing(q) PROVE overfull'  BY <1>1 DEF SetRing
  <1>2. CASE EncodeInto
    BY <1>1, <1>2 DEF EncodeInto, EncodeDrainRefused, EncodeBadFlags, EncodeHidden,
       EncodeShifted, EncodeRefused, EncodeQueued, EncodeHead, ShowHead
  <1>3. CASE Flush
    BY <1>1, <1>3 DEF Flush, FlushDrainRefused, FlushHidden, FlushHead, ShowHead
  <1>4. CASE SetReferenceFrame \/ ChangeResolution \/ Reset \/ UNCHANGED vars
    BY <1>4 DEF SetReferenceFrame, ChangeResolution, Reset, vars
  <1> QED  BY <1>2, <1>3, <1>4 DEF Next

\* Every step that leaves the queue below its depth keeps what was accepted.
LEMMA KeepStep ==
  ASSUME LookaheadAssumption, IInv, ~overfull, NothingLost, ~overfull', [Next]_vars
  PROVE  NothingLost'
  <1>1. /\ ~DrainFails /\ Held \subseteq InRing(Drained)
        /\ Ordered(Drained, shown, submitted) /\ Drained \in RingType
        /\ Drained.st = NoFrame /\ submitted \in Nat
        /\ accepted \subseteq Held \cup shown \cup gone
    BY DrainedKeeps, DrainedOrdered DEF NothingLost, Ordered
  <1>2. CASE EncodeBadFlags
    <2>1. SetRing(Drained) /\ UNCHANGED <<accepted, shown, gone>>
      BY <1>2 DEF EncodeBadFlags
    <2> QED  BY <1>1, <2>1, StoreKeeps DEF NothingLost
  <1>3. CASE EncodeRefused
    <2>1. Full(Drained) /\ SetRing(Drained)  BY <1>3 DEF EncodeRefused
    <2>2. Drained.n # Depth  BY <2>1, StoreKeeps
    <2> QED
      BY <1>1, <2>1, <2>2 DEF Full, RingLen, RingType, LookaheadAssumption
  <1>4. CASE EncodeHidden
    <2> DEFINE i == At(Drained.rd, arf.till)
               p == [Drained EXCEPT !.st = NextFrame]
    <2>1. /\ Submitting /\ EmitHidden(Drained) /\ SetRing(ClearSet(p, i))
          /\ Accept \/ UNCHANGED accepted
          /\ UNCHANGED <<shown, gone>>
      BY <1>4 DEF EncodeHidden
    <2>2. NextFrame \in Frame /\ NextFrame # NoFrame
      BY <2>1, SubmitFacts DEF Frame, NoFrame
    <2>3. i \in Index  BY <2>1, HiddenFacts
    <2>4. p \in RingType /\ p.st = NextFrame /\ InRing(p) = InRing(Drained)
      BY <1>1, <2>2 DEF RingType, InRing, Nth
    <2> HIDE DEF i, p
    <2>5. InRing(Drained) \cup {NextFrame} \subseteq Held'
      BY <2>1, <2>2, <2>3, <2>4, ClearKeeps, StoreKeeps
    <2> QED  BY <1>1, <2>1, <2>5 DEF NothingLost, Accept
  <1>5. CASE EncodeShifted
    <2> DEFINE p == [Drained EXCEPT !.st = NextFrame]
    <2>1. Submitting /\ ShowHead(p, FALSE, {NextFrame})  BY <1>5 DEF EncodeShifted
    <2>2. /\ NextFrame # NoFrame /\ submitted' \in Nat
          /\ Ordered(p, shown, submitted') /\ FALSE \in BOOLEAN
      BY <2>1, SubmitFacts, StashOrdered DEF Frame, NoFrame
    <2>3. p.st = NextFrame /\ InRing(p) = InRing(Drained)
      BY <1>1 DEF RingType, InRing, Nth
    <2> HIDE DEF p
    <2>4. InRing(Drained) \cup {NextFrame} \cup shown \subseteq Held' \cup shown'
      BY <2>1, <2>2, <2>3, ShowHeadKeeps
    <2>5. accepted' \subseteq accepted \cup {NextFrame} /\ gone' = gone
      BY <2>1 DEF ShowHead
    <2> QED  BY <1>1, <2>4, <2>5 DEF NothingLost
  <1>6. CASE EncodeQueued
    <2>1. /\ Submitting /\ ~Full(Drained) /\ SetRing(Push(Drained, NextFrame))
          /\ Accept /\ UNCHANGED <<shown, gone>>
      BY <1>6 DEF EncodeQueued
    <2>2. InRing(Drained) \cup {NextFrame} \subseteq InRing(Push(Drained, NextFrame))
      BY <1>1, <2>1, SubmitFacts, PushKeeps
    <2> QED  BY <1>1, <2>1, <2>2, StoreKeeps DEF NothingLost, Accept
  <1>7. CASE EncodeHead
    <2> DEFINE p == Push(Drained, NextFrame)
    <2>1. Submitting /\ ~Full(Drained) /\ ShowHead(p, FALSE, {NextFrame})
      BY <1>7 DEF EncodeHead
    <2>2. InRing(Drained) \cup {NextFrame} \subseteq InRing(p)
      BY <1>1, <2>1, SubmitFacts, PushKeeps
    <2>3. Ordered(p, shown, submitted') /\ submitted' \in Nat /\ FALSE \in BOOLEAN
      BY <1>1, <2>1, SubmitFacts, PushOrdered
    <2> HIDE DEF p
    <2>4. InRing(p) \cup shown \subseteq Held' \cup shown'
      BY <2>1, <2>3, ShowHeadKeeps
    <2>5. accepted' \subseteq accepted \cup {NextFrame} /\ gone' = gone
      BY <2>1 DEF ShowHead
    <2> QED  BY <1>1, <2>2, <2>4, <2>5 DEF NothingLost
  <1>8. CASE FlushHidden
    <2> DEFINE i == At(Drained.rd, arf.till)
    <2>1. /\ EmitHidden(Drained) /\ SetRing(ClearSet(Drained, i))
          /\ UNCHANGED <<accepted, shown, gone>>
      BY <1>8 DEF FlushHidden, caller
    <2>2. i \in Index  BY <2>1, HiddenFacts
    <2> HIDE DEF i
    <2>3. InRing(Drained) \subseteq Held'  BY <1>1, <2>1, <2>2, ClearKeeps, StoreKeeps
    <2> QED  BY <1>1, <2>1, <2>3 DEF NothingLost
  <1>9. CASE FlushHead
    <2>1. ShowHead(Drained, TRUE, {}) /\ submitted' = submitted
      BY <1>9 DEF FlushHead
    <2>2. Ordered(Drained, shown, submitted') /\ submitted' \in Nat /\ TRUE \in BOOLEAN
      BY <1>1, <2>1
    <2>3. InRing(Drained) \cup shown \subseteq Held' \cup shown'
      BY <2>1, <2>2, ShowHeadKeeps
    <2>4. accepted' \subseteq accepted /\ gone' = gone  BY <2>1 DEF ShowHead
    <2> QED  BY <1>1, <2>3, <2>4 DEF NothingLost
  <1>10. CASE SetReferenceFrame \/ ChangeResolution \/ UNCHANGED vars
    <2>1. UNCHANGED <<slot, read, count, stash, accepted, shown, gone>>
      BY <1>10 DEF SetReferenceFrame, ChangeResolution, vars, ring, caller
    <2>2. Held' = Held  BY <2>1 DEF Held, Queued, QueueSlots
    <2> QED  BY <1>1, <2>1, <2>2 DEF NothingLost
  <1>11. CASE Reset
    <2>1. gone' = gone \cup Held /\ UNCHANGED <<accepted, shown>>
      BY <1>11 DEF Reset
    <2> QED  BY <1>1, <2>1 DEF NothingLost
  <1>12. ~EncodeDrainRefused /\ ~FlushDrainRefused
    BY <1>1 DEF EncodeDrainRefused, FlushDrainRefused
  <1> QED
    BY <1>2, <1>3, <1>4, <1>5, <1>6, <1>7, <1>8, <1>9, <1>10, <1>11, <1>12
    DEF Next, EncodeInto, Flush

\* With or without the ARF driver, a frame answered with a packet or with "frame
\* not ready" is never lost until a call has left the queue at its depth.
THEOREM NothingLostUntilOverfull == Spec => []NothingLostBelowDepth
  <1>1. Init => NothingLostBelowDepth
    BY DEF Init, NothingLostBelowDepth, NothingLost
  <1>2. IInv /\ NothingLostBelowDepth /\ [Next]_vars => NothingLostBelowDepth'
    BY KeepStep, OverfullStays, LookaheadAssumption DEF NothingLostBelowDepth
  <1> QED  BY <1>1, <1>2, Invariance, PTL DEF Spec

\* Without the ARF driver no call leaves the queue at its depth.
LEMMA StaysBelowDepth ==
  ASSUME LookaheadAssumption, ~AutoAltRef, IInv, ~overfull, [Next]_vars
  PROVE  ~overfull'
  <1>1. /\ Drained = Here /\ Here.n = count /\ count \in Nat /\ count < Depth
        /\ Ordered(Here, shown, submitted) /\ submitted \in Nat
    BY DEF IInv, TypeOK, Here, Drained, LookaheadAssumption
  <1>2. ASSUME NEW q, SetRing(q), q.n # Depth PROVE ~overfull'
    BY <1>2 DEF SetRing
  <1>3. ASSUME NEW q, NEW d \in BOOLEAN, NEW new, q \in RingType, ShowHead(q, d, new)
        PROVE  ~overfull'
    <2>1. CanPop(q, d) /\ SetRing(ClearSet(Pop(q), q.rd))  BY <1>3 DEF ShowHead
    <2>2. ClearSet(Pop(q), q.rd).n = q.n - 1 /\ q.n \in 0..Depth
      BY <1>3, <2>1, PopFields DEF RingType
    <2>3. q.n - 1 # Depth  BY <2>2 DEF LookaheadAssumption
    <2> QED  BY <1>2, <2>1, <2>2, <2>3
  <1>4. CASE EncodeBadFlags \/ EncodeRefused \/ EncodeDrainRefused \/ FlushDrainRefused
    BY <1>1, <1>2, <1>4
    DEF EncodeBadFlags, EncodeRefused, EncodeDrainRefused, FlushDrainRefused
  <1>5. CASE EncodeQueued
    <2>1. /\ Submitting /\ ~Full(Here) /\ count + 1 < Depth
          /\ SetRing(Push(Here, NextFrame))
      BY <1>1, <1>5 DEF EncodeQueued
    <2>2. Push(Here, NextFrame).n = count + 1
      BY <1>1, <2>1, SubmitFacts, PushFields DEF Ordered
    <2> QED  BY <1>1, <1>2, <2>1, <2>2
  <1>6. CASE EncodeHead
    <2>1. /\ Submitting /\ ~Full(Here)
          /\ ShowHead(Push(Here, NextFrame), FALSE, {NextFrame})
      BY <1>1, <1>6 DEF EncodeHead
    <2>2. Push(Here, NextFrame) \in RingType
      BY <1>1, <2>1, SubmitFacts, PushFields DEF Ordered
    <2> QED  BY <1>3, <2>1, <2>2
  <1>7. CASE FlushHead
    <2>1. ShowHead(Here, TRUE, {}) /\ Here \in RingType
      BY <1>1, <1>7 DEF FlushHead, Ordered
    <2> QED  BY <1>3, <2>1
  <1>8. ~EncodeHidden /\ ~EncodeShifted /\ ~FlushHidden
    BY DEF EncodeHidden, EncodeShifted, FlushHidden, EmitHidden, HadStash
  <1>9. CASE SetReferenceFrame \/ ChangeResolution \/ Reset \/ UNCHANGED vars
    BY <1>9 DEF SetReferenceFrame, ChangeResolution, Reset, vars
  <1> QED
    BY <1>4, <1>5, <1>6, <1>7, <1>8, <1>9 DEF Next, EncodeInto, Flush

\* Without the ARF driver, a frame answered with a packet or with "frame not
\* ready" is never lost.
THEOREM NothingLostWithoutArf ==
  ASSUME ~AutoAltRef PROVE Spec => []NothingLost
  <1>1. Init => ~overfull  BY DEF Init
  <1>2. IInv /\ ~overfull /\ [Next]_vars => ~overfull'
    BY StaysBelowDepth, LookaheadAssumption
  <1>3. ~overfull /\ NothingLostBelowDepth => NothingLost
    BY DEF NothingLostBelowDepth
  <1> QED
    BY <1>1, <1>2, <1>3, Invariance, NothingLostUntilOverfull, PTL DEF Spec

-----------------------------------------------------------------------------
(* Reference replacements: none is lost on the way, none outlives its use.   *)

\* The replacements a ring record holds, waiting or queued.
SetsOf(q) == {q.ps} \cup {q.sl[At(q.rd, k)].set : k \in 0..(q.n - 1)}

\* A step uses up the replacement set, if any: it counts as applied and its
\* overlay goes; every other one stays where it is.
UsesUp(set) ==
  /\ SetsOf(Here) \subseteq SetsOf(Here)' \cup {set, NoSet}
  /\ issued' = issued
  /\ applied' = IF set = NoSet THEN applied ELSE applied \cup {set}
  /\ latest' # NoSet => latest' = latest /\ latest # set

\* The replacements of the stored ring are those of the record.
LEMMA StoreSets ==
  ASSUME NEW q, SetRing(q)
  PROVE  SetsOf(Here)' = SetsOf(q)
  BY DEF SetRing, SetsOf, Here, At, RingLen

\* A push moves the waiting replacement into the queue.
LEMMA PushSets ==
  ASSUME LookaheadAssumption, NEW q \in RingType, NEW f \in Frame, ~Full(q),
         q.wr = At(q.rd, q.n)
  PROVE  SetsOf(q) \subseteq SetsOf(Push(q, f))
  <1> DEFINE p == Push(q, f)
  <1>1. /\ p.sl = [q.sl EXCEPT ![q.wr] = [frame |-> f, set |-> q.ps]]
        /\ p.rd = q.rd /\ p.n = q.n + 1
    BY PushFields
  <1>2. /\ q.rd \in Index /\ q.n \in 0..(Depth - 1) /\ q.sl \in [Index -> Entry]
        /\ q.wr \in Index
    BY DEF RingType, Full, RingLen, LookaheadAssumption
  <1> HIDE DEF p
  <1>3. q.ps \in SetsOf(p)
    <2>1. p.sl[At(p.rd, q.n)].set = q.ps  BY <1>1, <1>2
    <2>2. q.n \in 0..(p.n - 1)  BY <1>1, <1>2 DEF LookaheadAssumption
    <2> QED  BY <2>1, <2>2 DEF SetsOf
  <1>4. ASSUME NEW k \in 0..(q.n - 1)
        PROVE  q.sl[At(q.rd, k)].set \in SetsOf(p)
    <2>1. k \in 0..Depth /\ q.n \in 0..Depth /\ k # q.n /\ k \in 0..(p.n - 1)
      BY <1>1, <1>2 DEF LookaheadAssumption
    <2>2. At(q.rd, k) \in Index  BY <1>2, <2>1, Positions
    <2>3. \A i, j \in 0..Depth : At(q.rd, i) = At(q.rd, j) => i = j
      BY <1>2, Positions
    <2>4. At(q.rd, k) # q.wr  BY <2>1, <2>3
    <2>5. p.sl[At(p.rd, k)] = q.sl[At(q.rd, k)]  BY <1>1, <1>2, <2>2, <2>4
    <2> QED  BY <2>1, <2>5 DEF SetsOf
  <1> QED  BY <1>3, <1>4 DEF SetsOf, p

\* Popping the head takes only the head's replacement away.
LEMMA PopSets ==
  ASSUME LookaheadAssumption, NEW q \in RingType, NEW d \in BOOLEAN, CanPop(q, d)
  PROVE  SetsOf(q) \subseteq SetsOf(ClearSet(Pop(q), q.rd)) \cup {q.sl[q.rd].set}
  <1> DEFINE p == ClearSet(Pop(q), q.rd)
  <1>1. /\ p.sl = [q.sl EXCEPT ![q.rd].set = NoSet]
        /\ p.rd = Next1(q.rd) /\ p.n = q.n - 1
    BY PopFields
  <1>2. p.ps = q.ps  BY DEF RingType, Pop, ClearSet
  <1>3. q.rd \in Index /\ q.n \in 1..Depth /\ q.sl \in [Index -> Entry]
    BY DEF RingType, CanPop, LookaheadAssumption
  <1> HIDE DEF p
  <1>4. ASSUME NEW k \in 0..(q.n - 1)
        PROVE  q.sl[At(q.rd, k)].set \in SetsOf(p) \cup {q.sl[q.rd].set}
    <2>1. CASE k = 0  BY <1>3, <2>1, Positions
    <2>2. CASE k # 0
      <3>1. /\ k - 1 \in 0..(Depth - 1) /\ (k - 1) + 1 = k
            /\ k - 1 \in 0..(p.n - 1) /\ k \in 0..Depth /\ 0 \in 0..Depth
        BY <1>1, <1>3, <2>2 DEF LookaheadAssumption
      <3>2. At(p.rd, k - 1) = At(q.rd, k)  BY <1>1, <1>3, <3>1, Positions
      <3>3. At(q.rd, 0) = q.rd /\ At(q.rd, k) \in Index  BY <1>3, <3>1, Positions
      <3>4. \A i, j \in 0..Depth : At(q.rd, i) = At(q.rd, j) => i = j
        BY <1>3, Positions
      <3>5. At(q.rd, k) # q.rd  BY <2>2, <3>1, <3>3, <3>4
      <3>6. p.sl[At(p.rd, k - 1)] = q.sl[At(q.rd, k)]
        BY <1>1, <1>3, <3>2, <3>3, <3>5
      <3> QED  BY <3>1, <3>6 DEF SetsOf
    <2> QED  BY <2>1, <2>2
  <1>5. q.ps \in SetsOf(p)  BY <1>2 DEF SetsOf
  <1> QED  BY <1>4, <1>5 DEF SetsOf, p

\* A hidden ARF takes only the replacement of the entry it is made from.
LEMMA ClearSets ==
  ASSUME LookaheadAssumption, NEW q \in RingType, NEW i \in Index
  PROVE  SetsOf(q) \subseteq SetsOf(ClearSet(q, i)) \cup {q.sl[i].set}
  <1> DEFINE p == ClearSet(q, i)
  <1>1. /\ p.sl = [q.sl EXCEPT ![i].set = NoSet] /\ p.rd = q.rd
        /\ p.n = q.n /\ p.ps = q.ps /\ q.sl \in [Index -> Entry]
    BY DEF RingType, ClearSet
  <1>2. \A k \in 0..(q.n - 1) : At(q.rd, k) \in Index
    <2>1. \A k \in 0..Depth : At(q.rd, k) \in Index  BY Positions DEF RingType
    <2> QED  BY <2>1 DEF RingType, LookaheadAssumption
  <1> HIDE DEF p
  <1>3. ASSUME NEW k \in 0..(q.n - 1)
        PROVE  q.sl[At(q.rd, k)].set \in SetsOf(p) \cup {q.sl[i].set}
    <2>1. CASE At(q.rd, k) = i  BY <2>1
    <2>2. CASE At(q.rd, k) # i
      <3>1. p.sl[At(p.rd, k)] = q.sl[At(q.rd, k)]  BY <1>1, <1>2, <2>2
      <3> QED  BY <1>1, <3>1 DEF SetsOf
    <2> QED  BY <2>1, <2>2
  <1>4. q.ps \in SetsOf(p)  BY <1>1 DEF SetsOf
  <1> QED  BY <1>3, <1>4 DEF SetsOf, p

\* Draining the stash keeps every replacement.
LEMMA DrainedSets ==
  ASSUME LookaheadAssumption, IInv
  PROVE  SetsOf(Here) \subseteq SetsOf(Drained)
  <1> DEFINE q == [Here EXCEPT !.st = NoFrame]
  <1>1. Ordered(Here, shown, submitted)  BY DEF IInv
  <1>2. /\ q.sl = Here.sl /\ q.rd = Here.rd /\ q.wr = Here.wr /\ q.n = Here.n
        /\ q.ps = Here.ps /\ q \in RingType /\ q.wr = At(q.rd, q.n)
    BY <1>1 DEF Here, Ordered, RingType
  <1>3. SetsOf(q) = SetsOf(Here)  BY <1>2 DEF SetsOf
  <1>4. CASE ~AutoAltRef \/ stash = NoFrame  BY <1>4 DEF Drained
  <1>5. CASE AutoAltRef /\ stash # NoFrame /\ Full(q)
    BY <1>3, <1>5 DEF Drained
  <1>6. CASE AutoAltRef /\ stash # NoFrame /\ ~Full(q)
    <2>1. Drained = Push(q, stash)  BY <1>6 DEF Drained
    <2>2. stash \in Frame  BY <1>6 DEF IInv, TypeOK
    <2> HIDE DEF q
    <2> QED  BY <1>2, <1>3, <1>6, <2>1, <2>2, PushSets
  <1> QED  BY <1>4, <1>5, <1>6
\* Encoding uses up the replacement it is given.
LEMMA EncodeUses ==
  ASSUME NEW set, NEW kind, NEW refreshes, Encode(set, kind, refreshes),
         SetsOf(Here) \subseteq SetsOf(Here)' \cup {set, NoSet}
  PROVE  UsesUp(set)
  BY DEF Encode, UsesUp

\* Showing the head of a ring that holds every replacement.
LEMMA ShowHeadSets ==
  ASSUME LookaheadAssumption, NEW q \in RingType, NEW d \in BOOLEAN, NEW new,
         ShowHead(q, d, new), SetsOf(Here) \subseteq SetsOf(q)
  PROVE  \E set : UsesUp(set)
  <1> DEFINE set == q.sl[q.rd].set
             p == ClearSet(Pop(q), q.rd)
  <1>1. CanPop(q, d) /\ SetRing(p)  BY DEF ShowHead
  <1>2. PICK kind, refreshes : Encode(set, kind, refreshes)  BY DEF ShowHead
  <1>3. SetsOf(q) \subseteq SetsOf(p) \cup {set}  BY <1>1, PopSets
  <1> HIDE DEF p, set
  <1>4. SetsOf(Here)' = SetsOf(p)  BY <1>1, StoreSets
  <1>5. SetsOf(Here) \subseteq SetsOf(Here)' \cup {set, NoSet}
    BY <1>3, <1>4
  <1> QED  BY <1>2, <1>5, EncodeUses

\* Encoding a hidden ARF from an entry of the drained queue; q differs from it
\* at most in its stash.
LEMMA HiddenSets ==
  ASSUME LookaheadAssumption, IInv, NEW q \in RingType, NEW i \in Index,
         q.sl = Drained.sl, q.rd = Drained.rd, q.n = Drained.n, q.ps = Drained.ps,
         SetRing(ClearSet(q, i)), NEW kind, NEW refreshes,
         Encode(Drained.sl[i].set, kind, refreshes)
  PROVE  \E set : UsesUp(set)
  <1> DEFINE set == q.sl[i].set
             p == ClearSet(q, i)
  <1>1. SetsOf(Here) \subseteq SetsOf(q)  BY DrainedSets DEF SetsOf
  <1>2. SetsOf(q) \subseteq SetsOf(p) \cup {set}  BY ClearSets
  <1> HIDE DEF p
  <1>3. SetsOf(Here)' = SetsOf(p)  BY StoreSets DEF p
  <1>4. Encode(set, kind, refreshes)  OBVIOUS
  <1> HIDE DEF set
  <1>5. SetsOf(Here) \subseteq SetsOf(Here)' \cup {set, NoSet}
    BY <1>1, <1>2, <1>3
  <1> QED  BY <1>4, <1>5, EncodeUses

\* A step that only stores a ring holding every replacement uses up none.
LEMMA StoreOnlySets ==
  ASSUME NEW q, SetRing(q), SetsOf(Here) \subseteq SetsOf(q),
         UNCHANGED <<latest, issued, applied>>
  PROVE  \E set : UsesUp(set)
  <1>1. SetsOf(Here)' = SetsOf(q)  BY StoreSets
  <1>2. UsesUp(NoSet)  BY <1>1 DEF UsesUp
  <1> QED  BY <1>2

\* A call that encodes or queues frames uses up one replacement at most.
LEMMA SetsStep ==
  ASSUME LookaheadAssumption, IInv, EncodeInto \/ Flush
  PROVE  \E set : UsesUp(set)
  <1>1. /\ Ordered(Drained, shown, submitted) /\ Drained \in RingType
        /\ Drained.wr = At(Drained.rd, Drained.n)
        /\ SetsOf(Here) \subseteq SetsOf(Drained)
    BY DrainedOrdered, DrainedSets DEF Ordered
  <1>2. CASE EncodeDrainRefused \/ EncodeBadFlags \/ EncodeRefused \/ FlushDrainRefused
    BY <1>1, <1>2, StoreOnlySets
    DEF EncodeDrainRefused, EncodeBadFlags, EncodeRefused, FlushDrainRefused
  <1>3. CASE EncodeHidden
    <2> DEFINE i == At(Drained.rd, arf.till)
               q == [Drained EXCEPT !.st = NextFrame]
    <2>1. Submitting /\ EmitHidden(Drained)  BY <1>3 DEF EncodeHidden
    <2>2. PICK kind, refreshes : /\ SetRing(ClearSet(q, i))
                                 /\ Encode(Drained.sl[i].set, kind, refreshes)
      BY <1>3 DEF EncodeHidden
    <2>3. i \in Index /\ NextFrame \in Frame  BY <2>1, HiddenFacts, SubmitFacts
    <2>4. /\ q \in RingType /\ q.sl = Drained.sl /\ q.rd = Drained.rd
          /\ q.n = Drained.n /\ q.ps = Drained.ps
      BY <1>1, <2>3 DEF RingType
    <2> HIDE DEF i, q
    <2> QED  BY <2>2, <2>3, <2>4, HiddenSets
  <1>4. CASE EncodeShifted
    <2> DEFINE q == [Drained EXCEPT !.st = NextFrame]
    <2>1. Submitting /\ ShowHead(q, FALSE, {NextFrame})  BY <1>4 DEF EncodeShifted
    <2>2. NextFrame \in Frame /\ FALSE \in BOOLEAN  BY <2>1, SubmitFacts
    <2>3. /\ q \in RingType /\ q.sl = Drained.sl /\ q.rd = Drained.rd
          /\ q.n = Drained.n /\ q.ps = Drained.ps
      BY <1>1, <2>2 DEF RingType
    <2> HIDE DEF q
    <2>4. SetsOf(q) = SetsOf(Drained)  BY <2>3 DEF SetsOf
    <2> QED  BY <1>1, <2>1, <2>2, <2>3, <2>4, ShowHeadSets
  <1>5. CASE EncodeQueued \/ EncodeHead
    <2>1. Submitting /\ ~Full(Drained)  BY <1>5 DEF EncodeQueued, EncodeHead
    <2>2. NextFrame \in Frame /\ FALSE \in BOOLEAN  BY <2>1, SubmitFacts
    <2>3. /\ Push(Drained, NextFrame) \in RingType
          /\ SetsOf(Drained) \subseteq SetsOf(Push(Drained, NextFrame))
      BY <1>1, <2>1, <2>2, PushFields, PushSets
    <2>4. CASE EncodeQueued
      BY <1>1, <2>3, <2>4, StoreOnlySets DEF EncodeQueued
    <2>5. CASE EncodeHead
      BY <1>1, <2>2, <2>3, <2>5, ShowHeadSets DEF EncodeHead
    <2> QED  BY <1>5, <2>4, <2>5
  <1>6. CASE FlushHidden
    <2> DEFINE i == At(Drained.rd, arf.till)
    <2>1. EmitHidden(Drained)  BY <1>6 DEF FlushHidden
    <2>2. PICK kind, refreshes : /\ SetRing(ClearSet(Drained, i))
                                 /\ Encode(Drained.sl[i].set, kind, refreshes)
      BY <1>6 DEF FlushHidden
    <2>3. i \in Index  BY <2>1, HiddenFacts
    <2> HIDE DEF i
    <2> QED  BY <1>1, <2>2, <2>3, HiddenSets
  <1>7. CASE FlushHead
    BY <1>1, <1>7, ShowHeadSets DEF FlushHead
  <1> QED
    BY <1>2, <1>3, <1>4, <1>5, <1>6, <1>7 DEF EncodeInto, Flush

\* The two properties in the terms of these lemmas.
NewestKept == issued # 0 => issued \in applied \cup SetsOf(Here)
OverlayHeld == latest # NoSet => latest \in SetsOf(Here)

\* SetsOf(Here) is what the properties write out.
LEMMA SetsOfHere ==
  SetsOf(Here) = {pendingSet} \cup {slot[i].set : i \in QueueSlots}
  BY DEF SetsOf, Here, QueueSlots

\* Every step keeps both properties.
LEMMA SetsKept ==
  ASSUME LookaheadAssumption, IInv, NewestKept, OverlayHeld, [Next]_vars
  PROVE  NewestKept' /\ OverlayHeld'
  <1>1. CASE EncodeInto \/ Flush
    <2>1. PICK set : UsesUp(set)  BY <1>1, SetsStep
    <2>2. NewestKept'  BY <2>1 DEF UsesUp, NewestKept, NoSet
    <2>3. OverlayHeld'  BY <2>1 DEF UsesUp, OverlayHeld
    <2> QED  BY <2>2, <2>3
  <1>2. CASE SetReferenceFrame
    <2>1. pendingSet' \in SetsOf(Here)'  BY DEF SetsOf, Here
    <2>2. CASE count > 0 \/ stash # NoFrame
      <3>1. pendingSet' = issued' /\ latest' = issued'
        BY <1>2, <2>2 DEF SetReferenceFrame
      <3> QED  BY <2>1, <3>1 DEF NewestKept, OverlayHeld
    <2>3. CASE ~(count > 0 \/ stash # NoFrame)
      <3>1. /\ issued' \in applied' /\ latest' = latest
            /\ UNCHANGED <<slot, read, write, count, stash, pendingSet>>
        BY <1>2, <2>3 DEF SetReferenceFrame, ring
      <3>2. SetsOf(Here)' = SetsOf(Here)  BY <3>1 DEF SetsOf, Here, At, RingLen
      <3> QED  BY <3>1, <3>2 DEF NewestKept, OverlayHeld
    <2> QED  BY <2>2, <2>3
  <1>3. CASE ChangeResolution
    <2>1. /\ count = 0 /\ latest' = NoSet /\ issued' = issued
          /\ applied' = applied \cup ({pendingSet} \ {NoSet})
      BY <1>3 DEF ChangeResolution
    <2>2. SetsOf(Here) = {pendingSet}
      BY <2>1, SetsOfHere DEF QueueSlots
    <2> QED  BY <2>1, <2>2 DEF NewestKept, OverlayHeld, NoSet
  <1>4. CASE Reset
    <2>1. issued \in Nat /\ issued' = issued /\ applied' = 1..issued /\ latest' = NoSet
      BY <1>4 DEF Reset, IInv, TypeOK, LookaheadAssumption
    <2> QED  BY <2>1 DEF NewestKept, OverlayHeld
  <1>5. CASE UNCHANGED vars
    <2>1. SetsOf(Here)' = SetsOf(Here)
      BY <1>5 DEF vars, SetsOf, Here, At, RingLen
    <2> QED  BY <1>5, <2>1 DEF vars, NewestKept, OverlayHeld
  <1> QED  BY <1>1, <1>2, <1>3, <1>4, <1>5 DEF Next

\* Whatever happens to the frames it travels with, to the stash and to the call
\* that was to use it, the newest reference replacement is waiting, queued or
\* applied; and CopyReferenceFrame's overlay is one that is waiting or queued.
LEMMA ReplacementsKept == Spec => [](NewestKept /\ OverlayHeld)
  <1>1. Init => NewestKept /\ OverlayHeld
    BY DEF Init, NewestKept, OverlayHeld
  <1>2. IInv /\ (NewestKept /\ OverlayHeld) /\ [Next]_vars
          => (NewestKept /\ OverlayHeld)'
    BY SetsKept, LookaheadAssumption
  <1> QED  BY <1>1, <1>2, Invariance, PTL DEF Spec

\* A deferred SetReferenceFrame takes effect whatever happens to the frame it was
\* queued with.
THEOREM NewestReplacementKept == Spec => []NewestSetKept
  <1>1. NewestKept => NewestSetKept
    BY SetsOfHere DEF NewestKept, NewestSetKept
  <1> QED  BY <1>1, ReplacementsKept, PTL

\* CopyReferenceFrame shows no replacement that was applied or dropped before.
THEOREM OverlayNeverStale == Spec => []OverlayIsLive
  <1>1. OverlayHeld => OverlayIsLive
    BY SetsOfHere DEF OverlayHeld, OverlayIsLive
  <1> QED  BY <1>1, ReplacementsKept, PTL

-----------------------------------------------------------------------------
(* The encoder implements the frame queue as long as no call leaves it at   *)
(* its depth.                                                               *)

\* The frames a ring record holds, queued or stashed.
HeldIn(q) == InRing(q) \cup (IF q.st = NoFrame THEN {} ELSE {q.st})

\* The stored ring holds the frames of the record.
LEMMA StoreHeld == ASSUME NEW q, SetRing(q) PROVE Held' = HeldIn(q)
  BY DEF SetRing, HeldIn, InRing, Nth, Held, Queued, QueueSlots, At, RingLen

\* A ring of n entries holds at most n frames, and one more in the stash.
LEMMA HeldCounted ==
  ASSUME NEW q \in RingType, Depth \in Nat
  PROVE  /\ IsFiniteSet(HeldIn(q))
         /\ Cardinality(HeldIn(q)) <= q.n + 1
         /\ q.st = NoFrame => Cardinality(HeldIn(q)) <= q.n
  <1> DEFINE f == [k \in 1..q.n |-> Nth(q, k - 1)]
  <1>1. q.n \in Nat  BY DEF RingType
  <1>2. f \in Surjection(1..q.n, InRing(q))
    <2>1. \A k \in 1..q.n : f[k] \in InRing(q)  BY <1>1 DEF InRing
    <2>2. ASSUME NEW g \in InRing(q) PROVE \E k \in 1..q.n : f[k] = g
      <3>1. PICK k \in 0..(q.n - 1) : g = Nth(q, k)  BY DEF InRing
      <3>2. k + 1 \in 1..q.n /\ (k + 1) - 1 = k  BY <1>1
      <3> QED  BY <3>1, <3>2
    <2> QED  BY <2>1, <2>2 DEF Surjection
  <1> HIDE DEF f
  <1>3. IsFiniteSet(1..q.n) /\ Cardinality(1..q.n) = q.n
    <2> DEFINE n == q.n
    <2>1. n \in Int /\ 1 \in Int /\ n - 1 + 1 = n /\ (1 > n => n = 0)  BY <1>1
    <2> HIDE DEF n
    <2>2. IsFiniteSet(1..n) /\ Cardinality(1..n) = IF 1 > n THEN 0 ELSE n - 1 + 1
      BY ONLY <2>1, FS_Interval
    <2>3. Cardinality(1..n) = n  BY ONLY <2>1, <2>2
    <2> QED  BY <2>2, <2>3 DEF n
  <1>4. IsFiniteSet(InRing(q)) /\ Cardinality(InRing(q)) <= q.n
    BY <1>2, <1>3, FS_Surjection
  <1>5. Cardinality(InRing(q)) \in Nat  BY <1>4, FS_CardinalityType
  <1>6. CASE q.st = NoFrame
    <2>1. HeldIn(q) = InRing(q)  BY <1>6 DEF HeldIn
    <2> QED  BY <1>1, <1>4, <1>5, <2>1
  <1>7. CASE q.st # NoFrame
    <2>1. HeldIn(q) = InRing(q) \cup {q.st}  BY <1>7 DEF HeldIn
    <2>2. /\ IsFiniteSet(InRing(q) \cup {q.st})
          /\ Cardinality(InRing(q) \cup {q.st}) <= Cardinality(InRing(q)) + 1
      BY <1>4, <1>5, FS_AddElement
    <2>3. Cardinality(HeldIn(q)) \in Nat  BY <2>1, <2>2, FS_CardinalityType
    <2> QED  BY <1>1, <1>4, <1>5, <1>7, <2>1, <2>2, <2>3
  <1> QED  BY <1>6, <1>7

\* A frame that is shown adds at most the caller's frame to those accepted.
LEMMA ShownAccepted ==
  ASSUME NEW q, NEW d, NEW new, ShowHead(q, d, new)
  PROVE  accepted' \in {accepted, accepted \cup new} /\ gone' = gone
  <1>1. PICK kind \in VisibleKinds, refreshes \in BOOLEAN :
          \E plan \in Plans(q) :
            accepted' = IF kind = "failed" THEN accepted ELSE accepted \cup new
    BY DEF ShowHead
  <1>2. gone' = gone  BY DEF ShowHead
  <1> QED  BY ONLY <1>1, <1>2

\* A pushed frame is the only one that joins those of the ring.
LEMMA PushHeld ==
  ASSUME LookaheadAssumption, IInv, ~Full(Drained), Submitting
  PROVE  LET p == Push(Drained, NextFrame)
         IN  /\ InRing(p) = InRing(Drained) \cup {NextFrame}
             /\ p.st = NoFrame /\ p.n = Drained.n + 1 /\ p \in RingType
  <1> DEFINE p == Push(Drained, NextFrame)
  <1>1. /\ Ordered(Drained, shown, submitted) /\ submitted \in Nat
        /\ Drained.st = NoFrame /\ Drained \in RingType
    BY DrainedOrdered DEF Ordered
  <1>2. InRing(Drained) \cup {NextFrame} \subseteq InRing(p)
    BY <1>1, SubmitFacts, PushKeeps
  <1>3. p.st = NoFrame /\ p.n = Drained.n + 1 /\ p \in RingType /\ Drained.n \in Nat
    <2>1. NextFrame \in Frame  BY SubmitFacts
    <2>2. p \in RingType /\ p.n = Drained.n + 1 /\ p.st = Drained.st
      BY <1>1, <2>1, PushFields
    <2> QED  BY <1>1, <2>2 DEF RingType
  <1>4. /\ Nth(p, Drained.n) = NextFrame
        /\ \A k \in 0..(Drained.n - 1) : Nth(p, k) = Nth(Drained, k)
    BY <1>1, SubmitFacts, PushOrdered
  <1> HIDE DEF p
  <1>5. \A k \in 0..(p.n - 1) : k \in 0..(Drained.n - 1) \/ k = Drained.n
    BY <1>3
  <1>6. InRing(p) \subseteq InRing(Drained) \cup {NextFrame}
    BY <1>4, <1>5 DEF InRing
  <1> QED  BY <1>2, <1>3, <1>6 DEF p

\* Showing the head takes the oldest of the frames held.
LEMMA ShowHeadHeld ==
  ASSUME LookaheadAssumption, NEW q, NEW d \in BOOLEAN, NEW new,
         submitted' \in Nat, Ordered(q, shown, submitted'), ShowHead(q, d, new)
  PROVE  /\ Frames!ShowOldest(HeldIn(q))
         /\ Cardinality(Held') <= q.n
         /\ q.st = NoFrame => Cardinality(Held') <= q.n - 1
  <1> DEFINE h == q.sl[q.rd].frame
             p == ClearSet(Pop(q), q.rd)
  <1>1. CanPop(q, d) /\ q \in RingType /\ SetRing(p) /\ shown' = shown \cup {h}
    BY DEF ShowHead, Ordered
  <1>2. /\ p \in RingType /\ p.n = q.n - 1 /\ p.st = q.st
        /\ q.n \in 0..Depth /\ q.n # 0
    BY <1>1, PopFields DEF RingType, CanPop
  <1>3. /\ Nth(q, 0) = h
        /\ \A k \in 0..(q.n - 2) : Nth(p, k) = Nth(q, k + 1)
        /\ h \in 1..submitted'
    BY <1>1, PopOrdered
  <1> HIDE DEF p, h
  <1>4. \A k \in 1..(q.n - 1) : h < Nth(q, k)
    <2>1. 0 \in 0..(q.n - 1) /\ \A k \in 1..(q.n - 1) : k \in 0..(q.n - 1) /\ 0 < k
      BY <1>2 DEF LookaheadAssumption
    <2> QED  BY <1>3, <2>1 DEF Ordered
  <1>5. q.st # NoFrame => h < q.st
    <2>1. 0 \in 0..(q.n - 1)  BY <1>2 DEF LookaheadAssumption
    <2> QED  BY <1>3, <2>1 DEF Ordered
  <1>6. \A k \in 0..(q.n - 1) : k = 0 \/ (k \in 1..(q.n - 1) /\ k - 1 \in 0..(q.n - 2))
    BY <1>2 DEF LookaheadAssumption
  <1>7. h \in InRing(q) /\ \A g \in InRing(q) : g = h \/ h < g
    <2>1. 0 \in 0..(q.n - 1)  BY <1>2 DEF LookaheadAssumption
    <2> QED  BY <1>3, <1>4, <1>6, <2>1 DEF InRing
  <1>8. InRing(p) = InRing(q) \ {h}
    <2>1. ASSUME NEW g \in InRing(p) PROVE g \in InRing(q) /\ g # h
      <3>1. PICK k \in 0..(p.n - 1) : g = Nth(p, k)  BY DEF InRing
      <3>2. k \in 0..(q.n - 2) /\ k + 1 \in 0..(q.n - 1) /\ k + 1 \in 1..(q.n - 1)
        BY <1>2, <3>1
      <3>3. g = Nth(q, k + 1) /\ h < g  BY <1>3, <1>4, <3>1, <3>2
      <3>4. g \in InRing(q)  BY <3>2, <3>3 DEF InRing
      <3> QED  BY <1>3, <3>3, <3>4
    <2>2. ASSUME NEW g \in InRing(q), g # h PROVE g \in InRing(p)
      <3>1. PICK k \in 0..(q.n - 1) : g = Nth(q, k)  BY DEF InRing
      <3>2. k # 0  BY <1>3, <2>2, <3>1
      <3>3. k - 1 \in 0..(q.n - 2) /\ k - 1 \in 0..(p.n - 1) /\ (k - 1) + 1 = k
        BY <1>2, <3>2 DEF LookaheadAssumption
      <3>4. Nth(p, k - 1) = g  BY <1>3, <3>1, <3>3
      <3> QED  BY <3>3, <3>4 DEF InRing
    <2> QED  BY <2>1, <2>2
  <1>9. h \in Int  BY <1>3
  <1>10. HeldIn(p) = HeldIn(q) \ {h}
    BY <1>2, <1>5, <1>8, <1>9 DEF HeldIn
  <1>11. h \in HeldIn(q) /\ \A g \in HeldIn(q) : h = g \/ h < g
    BY <1>5, <1>7 DEF HeldIn
  <1>12. HeldIn(q) \subseteq Int
    <2>1. InRing(q) \subseteq Int  BY DEF Ordered, InRing
    <2> QED  BY <2>1 DEF Ordered, HeldIn
  <1>13. \A g \in HeldIn(q) : h <= g  BY <1>9, <1>11, <1>12
  <1>14. Held' = HeldIn(p)  BY <1>1, StoreHeld
  <1>15. Frames!ShowOldest(HeldIn(q))
    BY <1>1, <1>10, <1>11, <1>13, <1>14 DEF Frames!ShowOldest
  <1>16. /\ Cardinality(HeldIn(p)) <= p.n + 1
         /\ p.st = NoFrame => Cardinality(HeldIn(p)) <= p.n
    BY <1>2, HeldCounted DEF LookaheadAssumption
  <1>17. p.n + 1 = q.n  BY <1>2 DEF LookaheadAssumption
  <1> QED  BY <1>2, <1>14, <1>15, <1>16, <1>17
\* While the queue is below its depth, draining the stash changes no frame held.
LEMMA DrainedHeld ==
  ASSUME LookaheadAssumption, IInv, ~overfull
  PROVE  ~DrainFails /\ Held = InRing(Drained)
  <1>1. ~DrainFails /\ Held \subseteq InRing(Drained)  BY DrainedKeeps
  <1>2. /\ Ordered(Here, shown, submitted) /\ submitted \in Nat
        /\ count \in Nat /\ count < Depth /\ Here.n = count
    BY DEF IInv, TypeOK, Here, LookaheadAssumption
  <1> DEFINE q == [Here EXCEPT !.st = NoFrame]
  <1>3. InRing(Here) \subseteq Held
    BY DEF Held, Queued, QueueSlots, InRing, Nth, Here
  <1>4. CASE ~AutoAltRef \/ stash = NoFrame
    BY <1>1, <1>3, <1>4 DEF Drained
  <1>5. CASE AutoAltRef /\ stash # NoFrame
    <2>1. /\ q.sl = Here.sl /\ q.rd = Here.rd /\ q.wr = Here.wr /\ q.n = Here.n
          /\ q.st = NoFrame /\ Here.st = stash /\ q \in RingType
      BY <1>2 DEF Here, Ordered, RingType
    <2>2. ~Full(q)  BY <1>2, <2>1 DEF Full, RingLen, LookaheadAssumption
    <2>3. Drained = Push(q, stash)  BY <1>5, <2>2 DEF Drained
    <2>4. stash \in Frame /\ stash \in Held  BY <1>5 DEF IInv, TypeOK, Held
    <2> HIDE DEF q
    <2>5. (\A k : Nth(q, k) = Nth(Here, k)) /\ InRing(q) = InRing(Here)
      BY <2>1 DEF Nth, InRing
    <2>6. /\ Ordered(q, shown, submitted)
          /\ \A g \in shown : g < stash
          /\ \A k \in 0..(q.n - 1) : Nth(q, k) < stash
          /\ stash \in 1..submitted
      BY <1>2, <1>5, <2>1, <2>5 DEF Ordered
    <2>7. /\ Nth(Push(q, stash), q.n) = stash
          /\ \A k \in 0..(q.n - 1) : Nth(Push(q, stash), k) = Nth(q, k)
      <3>1. submitted <= submitted /\ stash <= submitted  BY <1>2, <2>6
      <3> QED  BY <1>2, <2>1, <2>2, <2>4, <2>6, <3>1, PushOrdered
    <2>8. Push(q, stash).n = q.n + 1  BY <2>1, <2>2, <2>4, PushFields
    <2>9. \A k \in 0..(Push(q, stash).n - 1) : k \in 0..(q.n - 1) \/ k = q.n
      BY <1>2, <2>1, <2>8
    <2>10. InRing(Push(q, stash)) \subseteq InRing(q) \cup {stash}
      BY <2>7, <2>9 DEF InRing
    <2> QED  BY <1>1, <1>3, <2>3, <2>4, <2>5, <2>10
  <1> QED  BY <1>4, <1>5

\* Clearing a replacement leaves a ring record of the same length.
LEMMA ClearTyped ==
  ASSUME NEW q \in RingType, NEW i \in Index
  PROVE  ClearSet(q, i) \in RingType /\ ClearSet(q, i).n = q.n
  <1>1. [q.sl EXCEPT ![i].set = NoSet] \in [Index -> Entry]
    BY DEF RingType, Entry
  <1> QED  BY <1>1 DEF RingType, ClearSet

\* The frame queue counts its frames as this module does.
LEMMA SameCount == ASSUME NEW S PROVE Frames!Cardinality(S) = Cardinality(S)
  BY DEF Frames!Cardinality, Cardinality

\* A step of the encoder that leaves the queue below its depth is a step of the
\* frame queue, or none.
LEMMA QueueStep ==
  ASSUME LookaheadAssumption, IInv, [Next]_vars, ~overfull'
  PROVE  [Frames!QueueNext]_(Frames!queueVars)
  <1>1. ~overfull  BY OverfullStays
  <1>2. /\ ~DrainFails /\ Held = HeldIn(Drained)
        /\ Ordered(Drained, shown, submitted) /\ Drained \in RingType
        /\ Drained.st = NoFrame /\ submitted \in Nat
        /\ InRing(Drained) = HeldIn(Drained)
    <2>1. /\ Ordered(Drained, shown, submitted) /\ Drained \in RingType
          /\ Drained.st = NoFrame /\ submitted \in Nat
      BY DrainedOrdered DEF Ordered
    <2>2. HeldIn(Drained) = InRing(Drained)  BY <2>1 DEF HeldIn
    <2>3. ~DrainFails /\ Held = InRing(Drained)  BY <1>1, DrainedHeld
    <2> QED  BY <2>1, <2>2, <2>3
  <1>3. ASSUME NEW q, SetRing(q), q \in RingType
        PROVE  Held' = HeldIn(q) /\ q.n < Depth
    <2>1. q.n # Depth /\ q.n \in 0..Depth
      BY <1>3, StoreKeeps DEF RingType
    <2> QED  BY <1>3, <2>1, StoreHeld DEF LookaheadAssumption
  <1>4. CASE EncodeBadFlags
    <2>1. /\ Submitting /\ SetRing(Drained) /\ UNCHANGED <<accepted, shown, gone>>
      BY <1>4 DEF EncodeBadFlags
    <2>2. Held' = Held  BY <1>2, <1>3, <2>1
    <2> QED
      BY <2>1, <2>2 DEF Submitting, NextFrame, Frames!QueueNext, Frames!TurnAway
  <1>5. CASE EncodeRefused
    <2>1. Full(Drained) /\ SetRing(Drained)  BY <1>5 DEF EncodeRefused
    <2>2. Drained.n < Depth /\ Drained.n \in Nat  BY <1>2, <1>3, <2>1 DEF RingType
    <2> QED  BY <2>1, <2>2 DEF Full, RingLen, LookaheadAssumption
  <1>6. CASE EncodeHidden
    <2> DEFINE i == At(Drained.rd, arf.till)
               p == [Drained EXCEPT !.st = NextFrame]
    <2>1. /\ Submitting /\ EmitHidden(Drained) /\ SetRing(ClearSet(p, i))
          /\ Accept \/ UNCHANGED accepted
          /\ UNCHANGED <<shown, gone>>
      BY <1>6 DEF EncodeHidden
    <2>2. NextFrame \in Frame /\ NextFrame # NoFrame
      BY <2>1, SubmitFacts DEF Frame, NoFrame
    <2>3. i \in Index  BY <2>1, HiddenFacts
    <2>4. /\ p \in RingType /\ p.st = NextFrame /\ InRing(p) = InRing(Drained)
          /\ p.n = Drained.n
      BY <1>2, <2>2 DEF RingType, InRing, Nth
    <2> HIDE DEF i, p
    <2>5. /\ ClearSet(p, i) \in RingType /\ ClearSet(p, i).n = p.n
          /\ InRing(ClearSet(p, i)) = InRing(p) /\ ClearSet(p, i).st = NextFrame
      BY <2>3, <2>4, ClearKeeps, ClearTyped
    <2>6. Held' = HeldIn(ClearSet(p, i)) /\ p.n < Depth  BY <1>3, <2>1, <2>5
    <2>7. Held' = Held \cup {NextFrame}
      BY <1>2, <2>2, <2>4, <2>5, <2>6 DEF HeldIn
    <2>8. Cardinality(Held') <= Depth
      <3>1. /\ Cardinality(Held') <= p.n + 1 /\ p.n \in Nat
            /\ Cardinality(Held') \in Nat
        BY <2>4, <2>5, <2>6, HeldCounted, FS_CardinalityType
        DEF RingType, LookaheadAssumption
      <3> QED  BY <2>6, <3>1 DEF LookaheadAssumption
    <2> QED
      BY <2>1, <2>7, <2>8, SameCount
      DEF Submitting, NextFrame, Accept, Frames!QueueNext, Frames!Submit
  <1>7. ASSUME NEW q \in RingType, NEW new \in SUBSET {NextFrame}, Submitting,
               Ordered(q, shown, submitted'), ShowHead(q, FALSE, new),
               HeldIn(q) = Held \cup {NextFrame},
               q.n <= Depth
        PROVE  [Frames!QueueNext]_(Frames!queueVars)
    <2>1. submitted' \in Nat /\ submitted' = NextFrame /\ FALSE \in BOOLEAN
      BY <1>7, SubmitFacts
    <2>2. Frames!ShowOldest(Held \cup {submitted'}) /\ Cardinality(Held') <= q.n
      BY <1>7, <2>1, ShowHeadHeld
    <2>3. Cardinality(Held') <= Depth
      <3>1. IsFiniteSet(Held')
        <4>1. CanPop(q, FALSE) /\ SetRing(ClearSet(Pop(q), q.rd))
          BY <1>7 DEF ShowHead
        <4>2. ClearSet(Pop(q), q.rd) \in RingType  BY <2>1, <4>1, PopFields
        <4> QED  BY <1>3, <4>1, <4>2, HeldCounted DEF LookaheadAssumption
      <3>2. Cardinality(Held') \in Nat  BY <3>1, FS_CardinalityType
      <3>3. q.n \in Int /\ Depth \in Int  BY <1>7 DEF RingType, LookaheadAssumption
      <3>4. q.n <= Depth  BY <1>7
      <3> QED  BY ONLY <2>2, <3>2, <3>3, <3>4
    <2>4. accepted' \in {accepted, accepted \cup {submitted'}} /\ gone' = gone
      <3>1. /\ accepted' \in {accepted, accepted \cup new}
            /\ gone' = gone
        BY <1>7, ShownAccepted
      <3>2. new \subseteq {submitted'}  BY <1>7, <2>1
      <3>3. accepted \cup new = accepted \/ accepted \cup new = accepted \cup {submitted'}
        BY ONLY <3>2
      <3> QED  BY ONLY <3>1, <3>3
    <2> QED
      BY <1>7, <2>2, <2>3, <2>4, SameCount
      DEF Submitting, NextFrame, Frames!QueueNext, Frames!Submit
  <1>8. CASE EncodeShifted
    <2> DEFINE p == [Drained EXCEPT !.st = NextFrame]
    <2>1. Submitting /\ ShowHead(p, FALSE, {NextFrame}) /\ Drained.n = Depth
      BY <1>8 DEF EncodeShifted
    <2>2. /\ NextFrame # NoFrame /\ NextFrame \in Frame
          /\ Ordered(p, shown, submitted')
      BY <2>1, SubmitFacts, StashOrdered DEF Frame, NoFrame
    <2>3. /\ p.st = NextFrame /\ InRing(p) = InRing(Drained) /\ p.n = Depth
          /\ p \in RingType
      BY <1>2, <2>1, <2>2 DEF RingType, InRing, Nth
    <2> HIDE DEF p
    <2>4. HeldIn(p) = Held \cup {NextFrame}  BY <1>2, <2>2, <2>3 DEF HeldIn
    <2>5. p.n <= Depth  BY <2>3 DEF LookaheadAssumption
    <2> QED  BY <1>7, <2>1, <2>2, <2>3, <2>4, <2>5
  <1>9. CASE EncodeQueued
    <2> DEFINE p == Push(Drained, NextFrame)
    <2>1. /\ Submitting /\ ~Full(Drained) /\ SetRing(p) /\ Drained.n + 1 < Depth
          /\ Accept /\ UNCHANGED <<shown, gone>>
      BY <1>9 DEF EncodeQueued
    <2>2. /\ InRing(p) = InRing(Drained) \cup {NextFrame}
          /\ p.st = NoFrame /\ p.n = Drained.n + 1 /\ p \in RingType
      BY <2>1, PushHeld
    <2> HIDE DEF p
    <2>3. Held' = HeldIn(p) /\ p.n < Depth /\ p.n \in Nat
      BY <1>3, <2>1, <2>2 DEF RingType
    <2>4. Held' = Held \cup {NextFrame}  BY <1>2, <2>2, <2>3 DEF HeldIn
    <2>5. Cardinality(Held') <= Depth
      <3>1. Cardinality(HeldIn(p)) <= p.n /\ IsFiniteSet(HeldIn(p))
        BY <2>2, HeldCounted DEF LookaheadAssumption
      <3>2. Cardinality(HeldIn(p)) \in Nat  BY <3>1, FS_CardinalityType
      <3> QED  BY <2>3, <3>1, <3>2 DEF LookaheadAssumption
    <2> QED
      BY <2>1, <2>4, <2>5, SameCount
      DEF Submitting, NextFrame, Accept, Frames!QueueNext, Frames!Submit
  <1>10. CASE EncodeHead
    <2> DEFINE p == Push(Drained, NextFrame)
    <2>1. Submitting /\ ~Full(Drained) /\ ShowHead(p, FALSE, {NextFrame})
      BY <1>10 DEF EncodeHead
    <2>2. /\ InRing(p) = InRing(Drained) \cup {NextFrame}
          /\ p.st = NoFrame /\ p \in RingType
      BY <2>1, PushHeld
    <2>3. Ordered(p, shown, submitted')
      BY <1>2, <2>1, SubmitFacts, PushOrdered
    <2> HIDE DEF p
    <2>4. HeldIn(p) = Held \cup {NextFrame}  BY <1>2, <2>2 DEF HeldIn
    <2>5. p.n <= Depth  BY <2>2 DEF RingType, LookaheadAssumption
    <2> QED  BY <1>7, <2>1, <2>2, <2>3, <2>4, <2>5
  <1>11. CASE FlushHidden
    <2> DEFINE i == At(Drained.rd, arf.till)
               p == ClearSet(Drained, i)
    <2>1. /\ EmitHidden(Drained) /\ SetRing(p)
          /\ UNCHANGED <<submitted, accepted, shown, gone>>
      BY <1>11 DEF FlushHidden, caller
    <2>2. i \in Index  BY <2>1, HiddenFacts
    <2>3. p \in RingType /\ InRing(p) = InRing(Drained) /\ p.st = NoFrame
      BY <1>2, <2>2, ClearKeeps, ClearTyped
    <2> HIDE DEF i, p
    <2>4. Held' = Held  BY <1>2, <1>3, <2>1, <2>3 DEF HeldIn
    <2> QED  BY <2>1, <2>4 DEF Frames!queueVars
  <1>12. CASE FlushHead
    <2>1. ShowHead(Drained, TRUE, {}) /\ submitted' = submitted
      BY <1>12 DEF FlushHead
    <2>2. Ordered(Drained, shown, submitted') /\ submitted' \in Nat /\ TRUE \in BOOLEAN
      BY <1>2, <2>1
    <2>3. Frames!ShowOldest(Held)  BY <1>2, <2>1, <2>2, ShowHeadHeld
    <2>4. accepted' = accepted /\ gone' = gone  BY <2>1 DEF ShowHead
    <2> QED  BY <2>1, <2>3, <2>4 DEF Frames!QueueNext, Frames!Flush
  <1>13. CASE SetReferenceFrame \/ ChangeResolution \/ UNCHANGED vars
    <2>1. UNCHANGED <<slot, read, count, stash, submitted, accepted, shown, gone>>
      BY <1>13 DEF SetReferenceFrame, ChangeResolution, vars, ring, caller
    <2>2. Held' = Held  BY <2>1 DEF Held, Queued, QueueSlots, At, RingLen
    <2> QED  BY <2>1, <2>2 DEF Frames!queueVars
  <1>14. CASE Reset
    <2>1. /\ gone' = gone \cup Held /\ UNCHANGED <<submitted, accepted, shown>>
          /\ count' = 0 /\ stash' = NoFrame
      BY <1>14 DEF Reset
    <2>2. Held' = {}  BY <2>1 DEF Held, Queued, QueueSlots
    <2> QED  BY <2>1, <2>2 DEF Frames!QueueNext, Frames!Discard
  <1>15. ~EncodeDrainRefused /\ ~FlushDrainRefused
    BY <1>2 DEF EncodeDrainRefused, FlushDrainRefused
  <1> QED
    BY <1>4, <1>5, <1>6, <1>8, <1>9, <1>10, <1>11, <1>12, <1>13, <1>14, <1>15
    DEF Next, EncodeInto, Flush

\* Until a call leaves the queue at its depth, the encoder is a bounded queue of
\* frames to its callers: a frame it accepts is held, the oldest frame is encoded
\* first and once, and at most Depth frames wait between calls.
THEOREM RefinesFrameQueue == Spec => ImplementsFrameQueue
  <1>1. Init => Frames!QueueInit
    BY DEF Init, Frames!QueueInit, Held, Queued, QueueSlots
  <1>2. IInv /\ [Next]_vars => (~overfull' => [Frames!QueueNext]_(Frames!queueVars))
    BY QueueStep, LookaheadAssumption
  <1> QED  BY <1>1, <1>2, Invariance, PTL DEF Spec, ImplementsFrameQueue
=============================================================================
