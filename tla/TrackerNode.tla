----------------------------- MODULE TrackerNode -----------------------------
(***************************************************************************)
(* tracker_node.py: one backend at a time, exchanged by the parameter      *)
(* tracker_type, and the stamps of the frames.  A thread runs every        *)
(* callback; detections, timing and images come on topics of their own, of *)
(* which each keeps the last message only.                                 *)
(*                                                                         *)
(* The perception node (external) numbers its frames from 1 whenever it    *)
(* starts, and is away longer than a message is under way.  A frame is     *)
(* known here by its time.                                                 *)
(*                                                                         *)
(* LatestStamp and EvictNothing are coding errors, not the code.           *)
(***************************************************************************)
EXTENDS SortBackend, OcSortBackend, ByteTrackBackend, DeepSortBackend

CONSTANTS
  DefaultAge,    \* kind -> the max_age its creation declares, of those that do
  MaxContext,    \* max_context
  MaxTime,       \* bound of the frames of the camera
  Timings,       \* the frames whose timing may come, and whose image
  Imaged,
  MaxSwitches,   \* bound of the switches asked for
  MaxRestarts    \* bound of the restarts of perception

ASSUME NodeAssumption ==
  /\ DefaultAge \in [{"sort", "ocsort", "deepsort"} -> Nat \ {0}]
  /\ MaxContext \in Nat \ {0} /\ MaxTime \in Nat

Kinds == {"sort", "ocsort", "bytetrack", "deepsort"}

VARIABLES
  detected,   \* the time of the last detections, timing and image taken
  timed,
  imaged,
  base,       \* the time perception started at
  context,    \* frame_context: number of a frame -> its source stamp
  order,      \* _frame_context_order
  message,    \* the last tracks published: time of their frame, stamp
  switches,
  restarts

streamVars == <<detected, timed, imaged, base>>
contextVars == <<context, order>>
boundVars == <<switches, restarts>>
backendVars == <<tableVars, removed, deepVars>>
vars == <<backendVars, streamVars, contextVars, message, boundVars>>

NoEntries == [id \in {} |-> 0]

-----------------------------------------------------------------------------

\* on_timing: the context kept longest makes room for a new one.
LatestStamp(number, time) == IF timed > base THEN timed ELSE time

EvictNothing(stamps, queue) == stamps

Evicted(stamps, queue) ==
  IF Len(queue) > MaxContext
  THEN [n \in DOMAIN stamps \ {Head(queue)} |-> stamps[n]] ELSE stamps

OnTiming(time) ==
  /\ time \in Timings /\ time > timed /\ time > base
  /\ LET number == time - base
         queue  == IF number \in DOMAIN context THEN order ELSE Append(order, number)
     IN  /\ order' = IF Len(queue) > MaxContext THEN Tail(queue) ELSE queue
         /\ context' = [n \in DOMAIN Evicted(context, queue) \cup {number} |->
                          IF n = number THEN time ELSE context[n]]
  /\ timed' = time
  /\ UNCHANGED <<backendVars, detected, imaged, base, message, boundVars>>

\* Without a context the header tells the stamp.
Stamp(number, time) == IF number \in DOMAIN context THEN context[number] ELSE time

\* The backend's update.
Update(time) ==
  \E n, low \in Detections :
    /\ n + low \in Detections
    /\ \/ kind = "sort" /\ low = 0 /\ SortUpdate(n) /\ UNCHANGED <<removed, deepVars>>
       \/ kind = "ocsort" /\ OcUpdate(n, low) /\ UNCHANGED <<removed, deepVars>>
       \/ kind = "bytetrack" /\ ByteUpdate(n, low) /\ UNCHANGED deepVars
       \/ kind = "deepsort" /\ low = 0 /\ DeepUpdate(n, time) /\ UNCHANGED removed

OnDetections(time) ==
  /\ time > detected /\ time > base
  /\ Update(time)
  /\ LET number == time - base
     IN  /\ message' = [time |-> time, stamp |-> Stamp(number, time)]
         /\ context' = [n \in DOMAIN context \ {number} |-> context[n]]
  /\ detected' = time
  /\ UNCHANGED <<timed, imaged, base, order, boundVars>>

OnImage(time) ==
  /\ kind = "deepsort" /\ time \in Imaged /\ time > imaged
  /\ DeepImage(time)
  /\ imaged' = time
  /\ UNCHANGED <<tableVars, removed, detected, timed, base, contextVars, message, boundVars>>

-----------------------------------------------------------------------------
(* _on_set_parameters.  Creating a backend declares its parameters, and    *)
(* takes the value of one an earlier backend has declared.                 *)

DeclaredAge(to) == IF maxAge = 0 /\ to \in DOMAIN DefaultAge THEN DefaultAge[to] ELSE maxAge

Switch(to) ==
  /\ switches < MaxSwitches /\ to # kind
  /\ kind' = to /\ maxAge' = DeclaredAge(to)
  /\ frame' = 0 /\ tracks' = NoEntries /\ nextId' = 1 /\ shown' = {} /\ removed' = {}
  /\ gallery' = NoEntries /\ images' = {}
  /\ context' = NoEntries /\ order' = <<>>
  /\ switches' = switches + 1
  /\ UNCHANGED <<streamVars, message, restarts>>

\* The model of DeepSORT may be missing; its parameters are declared by then.
SwitchFails ==
  /\ switches < MaxSwitches /\ kind # "deepsort"
  /\ maxAge' = DeclaredAge("deepsort")
  /\ switches' = switches + 1
  /\ UNCHANGED <<kind, frame, tracks, nextId, shown, removed, deepVars, streamVars,
                 contextVars, message, restarts>>

PerceptionRestarts ==
  /\ restarts < MaxRestarts
  /\ restarts' = restarts + 1
  /\ base' = IF detected > timed THEN detected ELSE timed
  /\ UNCHANGED <<backendVars, detected, timed, imaged, contextVars, message, switches>>

Init ==
  /\ kind \in Kinds
  /\ maxAge = IF kind \in DOMAIN DefaultAge THEN DefaultAge[kind] ELSE 0
  /\ frame = 0 /\ tracks = NoEntries /\ nextId = 1 /\ shown = {} /\ removed = {}
  /\ gallery = NoEntries /\ images = {}
  /\ detected = 0 /\ timed = 0 /\ imaged = 0 /\ base = 0
  /\ context = NoEntries /\ order = <<>>
  /\ message = [time |-> 0, stamp |-> 0]
  /\ switches = 0 /\ restarts = 0

Next ==
  \/ \E time \in 1 .. MaxTime : OnTiming(time) \/ OnDetections(time) \/ OnImage(time)
  \/ \E to \in Kinds : Switch(to)
  \/ SwitchFails \/ PerceptionRestarts

Spec == Init /\ [][Next]_vars

-----------------------------------------------------------------------------
(* Properties.                                                             *)

TypeOK ==
  /\ kind \in Kinds /\ maxAge \in Nat
  /\ Ids \subseteq 1 .. nextId - 1 /\ shown \subseteq Ids
  /\ DOMAIN gallery \subseteq Ids /\ Cardinality(images) <= MaxImages
  /\ removed \subseteq 1 .. nextId - 1
  /\ \A i \in 1 .. Len(order) : order[i] \in 1 .. MaxTime

LastSeen ==
  [id \in Ids |-> IF kind = "bytetrack" THEN tracks[id].last ELSE frame - tracks[id].missed]

Patience ==
  CASE kind \in {"sort", "ocsort"} -> maxAge + 1
    [] kind = "bytetrack" -> MaxLost + 2
    [] kind = "deepsort" -> maxAge

WarmUp ==
  CASE kind = "ocsort" -> MinHits [] kind = "bytetrack" -> 1 [] OTHER -> 0

Contract ==
  INSTANCE TrackContract WITH patience <- Patience, warmUp <- WarmUp, known <- LastSeen,
                              top <- nextId - 1

\* Whatever the backend: a number shown was observed in this frame, belongs
\* to no track that was just made (but in the first frames), and does not
\* come back after the patience of the backend.
KeepsContract == Contract!Spec

\* ByteTrack: a number removed is in the lost list for one frame at most,
\* also if it was found and lost again there.
RemovedIsLeaving ==
  kind = "bytetrack" =>
    \A id \in InList("lost") \cap removed : frame - tracks[id].last = MaxLost + 1

\* OC-SORT: giving the filter its missed frames again leaves it with as many
\* entries as frames, so a gap is never replayed twice nor cut short.
HistoryOfEveryFrame ==
  kind = "ocsort" => \A id \in Ids : Len(tracks[id].history) = tracks[id].age

\* DeepSORT: the gallery has the looks of exactly the confirmed tracks, each
\* of their observations once, from the first one on.
GalleryIsComplete ==
  kind = "deepsort" =>
    /\ DOMAIN gallery = {id \in Ids : tracks[id].state = "confirmed"}
    /\ \A id \in DOMAIN gallery : gallery[id] = Lesser(tracks[id].hits, Budget)

\* The source stamp of a message is not later than its frame, although
\* perception repeats its numbers and timing overtakes detections: an age
\* computed from it is never too small.
StampNotNewer == message.stamp <= message.time

\* What waits for its detections is bounded: each context is in the queue.
ContextIsQueued ==
  /\ DOMAIN context \subseteq {order[i] : i \in 1 .. Len(order)}
  /\ Len(order) <= MaxContext

\* What the node and its backend keep fits together after every frame.
TablesConsistent ==
  TypeOK /\ RemovedIsLeaving /\ HistoryOfEveryFrame /\ GalleryIsComplete /\ ContextIsQueued
=============================================================================
