------------------------------ MODULE TrackTable ------------------------------
(***************************************************************************)
(* The state of a tracking backend, of whatever kind, and what the kinds   *)
(* share.                                                                  *)
(*                                                                         *)
(* CountedFromZero is a coding error, not the code.                        *)
(*                                                                         *)
(* Boxes and the Kalman filter are left out: an association matches any    *)
(* tracks with as many detections, each at most once, for the assignment   *)
(* is one to one and its threshold may refuse any pair.  Of the detections *)
(* only their number matters then.                                         *)
(***************************************************************************)
EXTENDS Integers, FiniteSets

CONSTANTS
  MinHits,   \* min_hits and n_init; hits are counted so far
  MaxDets,   \* bound of the detections in a frame of Crowded
  Crowded    \* bound: other frames have one detection or none

\* A track that was just made has one hit, and is not confirmed by it.
ASSUME TableAssumption == {MinHits, MaxDets} \subseteq Nat /\ MinHits > 1

VARIABLES
  kind,      \* the backend: sort, ocsort, bytetrack or deepsort
  maxAge,    \* the parameter max_age, 0 while undeclared
  frame,     \* frames given to the backend
  tracks,    \* number -> what the backend keeps of the track
  nextId,    \* the next number
  shown      \* the numbers in the last output

tableVars == <<kind, maxAge, frame, tracks, nextId, shown>>

Ids == DOMAIN tracks

Lesser(a, b) == IF a < b THEN a ELSE b

Detections == 0 .. IF frame + 1 \in Crowded THEN MaxDets ELSE 1

\* Any tracks that n detections can be matched with.
Matchable(ids, n) == {matched \in SUBSET ids : Cardinality(matched) <= n}

CountedFromZero(n) == nextId - 1 .. nextId + n - 2

\* The numbers of n new tracks.
NewIds(n) == nextId .. nextId + n - 1

\* The frame ends with these tracks and this output.
EndFrame(n, table, output) ==
  /\ frame' = frame + 1
  /\ tracks' = table
  /\ nextId' = nextId + n
  /\ shown' = output
  /\ UNCHANGED <<kind, maxAge>>
=============================================================================
