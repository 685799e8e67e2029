----------------------------- MODULE FrameQueue -----------------------------
(***************************************************************************)
(* What an encoder with lookahead promises its caller. Source frames are   *)
(* numbered in the order they are submitted. A call that answers with a    *)
(* packet or with "frame not ready" has accepted its frame; an accepted    *)
(* frame is held until it is encoded; frames are encoded oldest first,     *)
(* each once, and at most one in a call; a caller is turned away only for  *)
(* an invalid argument. A call may instead yield a hidden alternate        *)
(* reference packet, which encodes no frame of the caller for display.     *)
(***************************************************************************)
EXTENDS Integers, FiniteSets

CONSTANTS
  Capacity,     \* frames the encoder may hold between calls
  MaxFrames     \* bound of the model: frames a caller submits

VARIABLES
  submitted,    \* frames submitted so far; frame n is the n-th one
  accepted,     \* frames whose call answered with a packet or "not ready"
  held,         \* frames waiting to be encoded
  shown,        \* frames encoded
  gone          \* frames the caller asked to discard with a reset

queueVars == <<submitted, accepted, held, shown, gone>>

QueueInit ==
  /\ submitted = 0
  /\ accepted = {} /\ held = {} /\ shown = {} /\ gone = {}

\* The oldest of a set of frames is encoded; an encoding that fails uses its
\* frame up all the same.
ShowOldest(frames) ==
  \E f \in frames :
    /\ \A g \in frames : f <= g
    /\ shown' = shown \cup {f}
    /\ held' = frames \ {f}

Submit ==
  /\ submitted < MaxFrames
  /\ submitted' = submitted + 1
  /\ accepted' \in {accepted, accepted \cup {submitted'}}
  /\ \/ held' = held \cup {submitted'} /\ shown' = shown
     \/ ShowOldest(held \cup {submitted'})
  /\ Cardinality(held') <= Capacity
  /\ UNCHANGED gone

TurnAway ==
  /\ submitted < MaxFrames
  /\ submitted' = submitted + 1
  /\ UNCHANGED <<accepted, held, shown, gone>>

Flush == ShowOldest(held) /\ UNCHANGED <<submitted, accepted, gone>>

Discard ==
  /\ gone' = gone \cup held
  /\ held' = {}
  /\ UNCHANGED <<submitted, accepted, shown>>

QueueNext == Submit \/ TurnAway \/ Flush \/ Discard

QueueSpec == QueueInit /\ [][QueueNext]_queueVars
=============================================================================
