---------------------------- MODULE TrackContract ----------------------------
(***************************************************************************)
(* What a tracking backend promises those who follow its numbers, whatever *)
(* its association does (backends/__init__.py: update).                    *)
(***************************************************************************)
EXTENDS Integers

VARIABLES
  frame,      \* frames tracked since the backend was created
  patience,   \* the frames after which a number can come back
  warmUp,     \* the first frames, in which a new track is shown at once
  known,      \* the frame in which each number was last observed
  top,        \* the last number given
  shown       \* the numbers of the last message

vars == <<frame, patience, warmUp, known, top, shown>>

NoTracks == [id \in {} |-> 0]

Started ==
  /\ frame = 0 /\ known = NoTracks /\ top = 0 /\ shown = {}
  /\ patience \in Nat /\ warmUp \in Nat

Observed(id) ==
  /\ known'[id] = frame'
  /\ IF id \in DOMAIN known THEN frame' - known[id] <= patience
                            ELSE id > top /\ id <= top'

Frame ==
  /\ frame' = frame + 1 /\ top' >= top
  /\ \A id \in DOMAIN known' :
       Observed(id) \/ (id \in DOMAIN known /\ known'[id] = known[id])
  /\ \A id \in shown' :
       /\ id \in DOMAIN known' /\ known'[id] = frame'
       /\ id \in DOMAIN known \/ frame' <= warmUp
  /\ UNCHANGED <<patience, warmUp>>

\* A new backend counts from 1 again.
Switch == Started'

Init == Started

Next == Frame \/ Switch

Spec == Init /\ [][Next]_vars
=============================================================================
