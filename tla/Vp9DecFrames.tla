---------------------------- MODULE Vp9DecFrames ----------------------------
(***************************************************************************)
(* The frame storage of the VP9 decoder between and within its calls       *)
(* (vp9_decoder.go). Pictures are decoded straight into a buffer of the    *)
(* decoder's own pool, or into one that the application lends through      *)
(* GetFrameBuffer; reference slots and the picture on show alias it, and   *)
(* leases counted by hand say when it may be used again or is given back.  *)
(*                                                                         *)
(* One action is one call. Within a call the storage, a record, goes from  *)
(* one function of the source to the next. Pixels are abstracted to the    *)
(* picture they show; a lent buffer is the application's once given back.  *)
(***************************************************************************)
EXTENDS Vp9Slots, FiniteSetsExt

CONSTANTS
  PoolSize,    \* len(internalFramePool): 12 in the code
  AppBuffers,  \* bound of the model: buffers the application can lend
  OptionSets   \* VP9DecoderOptions: sets of "external", "post", "align", "conceal"

\* Both pools hold more buffers than there are slots: 12 for 8 in the code, and
\* an application that lends fewer is told so by a Decode that fails.
ASSUME DecFramesAssumption ==
  /\ PoolSize \in Nat /\ PoolSize > Cardinality(Slot)
  /\ AppBuffers \in Nat /\ AppBuffers > Cardinality(Slot)
  /\ OptionSets \subseteq SUBSET {"external", "post", "align", "conceal"}

Pool == {<<"pool", i>> : i \in 0..(PoolSize - 1)}
App == {<<"app", i>> : i \in 0..(AppBuffers - 1)}
Leased == Pool \cup App
OwnOf(s) == <<"own", s>>        \* ref.y, ref.u and ref.v of slot s
Post == <<"post", 0>>           \* d.post
None == <<"none", 0>>
Storage == Leased \cup {OwnOf(s) : s \in Slot} \cup {Post}

Junk == 0                       \* no picture, or part of one

VARIABLES
  opts,   \* d.opts
  dec,    \* leases: refs of each lease; active, lastLease: frameInternal or
          \*   frameExternal, lastFrameInternal or lastFrameExternal; img: the
          \*   storage of refFrames[s].img; last: that of lastFrame; pix: what
          \*   each storage shows; ready: frameReady
  due     \* history: the picture that lastFrame has to show, if any

decVars == <<opts, dec, due>>

Nothing == -1

Cold(pix) ==
  [leases |-> [b \in Leased |-> 0], active |-> None, lastLease |-> None,
   img |-> [s \in Slot |-> None], last |-> None, pix |-> pix, ready |-> FALSE]

DecInit ==
  /\ opts \in OptionSets
  /\ dec = Cold([b \in Storage |-> Junk])
  /\ due = Nothing

ValidRefs == {s \in Slot : dec.img[s] # None}

-----------------------------------------------------------------------------
(* Leases. Definitions named after another one with a suffix are faulty    *)
(* variants of it, which the specification does not use.                   *)

\* releaseVP9InternalFrame, releaseVP9ExternalFrame: with its last lease a lent
\* buffer goes back to the application.
Release(d, b) ==
  IF b \notin Leased \/ d.leases[b] = 0 THEN d
  ELSE [d EXCEPT !.leases[b] = @ - 1,
                 !.pix[b] = IF b \in App /\ d.leases[b] = 1 THEN Junk ELSE @]

\* Faulty variant of Retain: the picture is shown but not held.
RetainNot(d, b) == d

\* retainVP9InternalFrame, retainVP9ExternalFrame
Retain(d, b) == IF b \in Leased THEN [d EXCEPT !.leases[b] = @ + 1] ELSE d

\* releaseVP9ActiveInternalFrame, releaseVP9ActiveExternalFrame
ReleaseActive(d) == [Release(d, d.active) EXCEPT !.active = None]

\* replaceVP9LastFrameInternal, replaceVP9LastFrameExternal
ReplaceLast(d, b) ==
  IF d.lastLease = b THEN d ELSE [Release(d, d.lastLease) EXCEPT !.lastLease = b]

\* retainVP9LastFrameInternal, retainVP9LastFrameExternal
RetainLast(d, b) ==
  IF b \notin Leased THEN ReplaceLast(d, None)
  ELSE IF d.lastLease = b THEN d
  ELSE ReplaceLast(Retain(d, b), b)

\* acquireVP9InternalFrame; the application lends any buffer it has.
FreeBuffers(d, from) == {b \in from : d.leases[b] = 0}
Lowest(free) == CHOOSE b \in free : \A c \in free : b[2] <= c[2]

-----------------------------------------------------------------------------
(* Pictures in and out.                                                    *)

\* prepareVP9OutputFrameWithExternal: what was on show is let go first.
Vacate(d) == ReleaseActive(ReplaceLast(d, None))

Allocate(d, from) ==
  LET v == Vacate(d)
      b == Lowest(FreeBuffers(v, from))
  IN [v EXCEPT !.leases[b] = 1, !.active = b, !.last = b, !.pix[b] = Junk]

\* prepareVP9InternalOutputFrame and the copy into it.
CopyOut(d, pic) ==
  LET p == Allocate(d, Pool) IN [p EXCEPT !.pix[p.last] = pic]

\* transferVP9ActiveFrameToLastIfAliased, and what is let go if it is not.
Keep(d) ==
  IF d.active # None /\ d.active = d.last
    THEN [ReplaceLast(d, d.active) EXCEPT !.active = None]
    ELSE ReplaceLast(ReleaseActive(d), None)

\* outputVP9FrameImage, the picture on show being lastFrame.
Output(d) ==
  LET pic == d.pix[d.last]
      post == [d EXCEPT !.pix[Post] = pic]
  IN IF "post" \notin opts THEN d
     ELSE IF "align" \in opts THEN CopyOut(post, pic)
     ELSE [post EXCEPT !.last = Post]

\* Faulty variant of RefreshSlot: the old picture's lease is not returned.
RefreshSlotLeaks(s, d) == [Retain(d, d.active) EXCEPT !.img[s] = d.last]

\* refreshVP9ReferenceFrames, one slot.
RefreshSlot(s, d) ==
  [Retain(Release(d, d.img[s]), d.active) EXCEPT !.img[s] = d.last]

\* decodeVP9FrameWithPTSStrict of a frame that decodes to pic.
Decoded(d, refresh, pic, shown) ==
  LET p == Allocate(d, IF "external" \in opts THEN App ELSE Pool)
      painted == [p EXCEPT !.pix[p.last] = pic]
      refreshed == FoldSet(RefreshSlot, painted, refresh)
  IN IF shown THEN [Keep(Output(refreshed)) EXCEPT !.ready = TRUE]
              ELSE [ReleaseActive(refreshed) EXCEPT !.ready = FALSE]

\* publishVP9ReferenceFrame. Only a copy that SetReferenceFrame made can be
\* unaligned.
Published(d, s, aligned) ==
  IF "align" \notin opts \/ aligned \/ d.img[s] # OwnOf(s)
    THEN RetainLast([d EXCEPT !.last = d.img[s]], d.img[s])
    ELSE Keep(CopyOut(d, d.pix[d.img[s]]))

\* decodeVP9ShowExistingFrame or concealVP9Frame, and what becomes of it.
Shown(d, s, aligned) ==
  LET o == Output(Published(d, s, aligned))
  IN [(IF "post" \in opts THEN Keep(o) ELSE o) EXCEPT !.ready = TRUE]

-----------------------------------------------------------------------------
(* The calls.                                                              *)

\* A packet that decodes to pic.
DecodeFrame(refresh, pic, shown) ==
  /\ dec' = Decoded(dec, refresh, pic, shown)
  /\ due' = IF shown THEN pic ELSE Nothing
  /\ UNCHANGED opts

\* What a failing call leaves behind: nothing is changed by a header that is
\* refused; a frame without a buffer has let go of what was on show; and one
\* that turns out bad has been painted in part. A reconstruction that is given
\* up as unsupported also takes frameReady back.
FailedStates ==
  LET lost == Allocate(dec, IF "external" \in opts THEN App ELSE Pool)
  IN {dec, [dec EXCEPT !.ready = FALSE], ReleaseActive(lost),
      [ReleaseActive(lost) EXCEPT !.ready = FALSE]}
     \cup (IF "external" \in opts THEN {Vacate(dec)} ELSE {})

\* An error, with nothing concealed.
DecodeFails ==
  /\ dec' \in FailedStates
  /\ due' = IF dec' = dec THEN due ELSE Nothing
  /\ UNCHANGED opts

\* concealVP9Frame, after a failure or for a packet that never came: some valid
\* reference is shown again.
Conceal(s) ==
  /\ "conceal" \in opts /\ s \in ValidRefs
  /\ \E d \in FailedStates, aligned \in BOOLEAN :
       dec' = Shown(d, s, aligned)
  /\ due' = dec.pix[dec.img[s]]
  /\ UNCHANGED opts

\* A show_existing_frame packet.
ShowExisting(s) ==
  /\ s \in ValidRefs
  /\ \E aligned \in BOOLEAN : dec' = Shown(dec, s, aligned)
  /\ due' = dec.pix[dec.img[s]]
  /\ UNCHANGED opts

NextFrame ==
  /\ dec.ready
  /\ dec' = [dec EXCEPT !.ready = FALSE]
  /\ UNCHANGED <<opts, due>>

\* SetReferenceFrame writes a copy of the slot's own, which may be on show.
DecSetReference(s, pic) ==
  /\ ValidRefs # {}
  /\ dec' = [Release(dec, dec.img[s]) EXCEPT !.img[s] = OwnOf(s), !.pix[OwnOf(s)] = pic]
  /\ due' = IF dec.last = OwnOf(s) THEN Nothing ELSE due
  /\ UNCHANGED opts

\* Reset, after which SetFrameBufferFunctions may install other callbacks.
DecReset ==
  LET freed == FoldSet(LAMBDA s, d : Release(d, d.img[s]), Vacate(dec), Slot)
  IN
  /\ dec' = [freed EXCEPT !.img = [s \in Slot |-> None], !.last = None, !.ready = FALSE]
  /\ due' = Nothing
  /\ opts' \in OptionSets

-----------------------------------------------------------------------------
(* Properties.                                                             *)

\* Between calls a lease counts exactly the slots that show its buffer and the
\* picture on show; no frame is left half decoded with a lease of its own, and
\* nothing lent is kept across a change of the callbacks.
LeasesExact ==
  /\ dec.active = None
  /\ \A b \in Leased :
       dec.leases[b] = Cardinality({s \in Slot : dec.img[s] = b})
                       + (IF dec.lastLease = b THEN 1 ELSE 0)
  /\ "external" \notin opts => \A b \in App : dec.leases[b] = 0

\* What NextFrame returns, or has returned, shows what the last call decoded,
\* concealed or found, in storage that nothing else may use, until the next call
\* that decodes ("That storage stays valid until the next Decode or Close
\* call"), whichever references are replaced in the meantime. It says nothing
\* after a call that failed, and nothing of a reference replaced in place.
ShownIsIntact ==
  due # Nothing =>
    /\ dec.pix[dec.last] = due
    /\ dec.last \in Leased => dec.leases[dec.last] > 0
=============================================================================
