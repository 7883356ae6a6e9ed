----------------------------- MODULE AuthorityLink -----------------------------
(***************************************************************************)
(* TIM-MARS and the controller, joined by the two topics of                *)
(* authority_qos.py.  The status topic is reliable: first in, first out,   *)
(* the oldest message lost when ten wait.  The target topic is best        *)
(* effort: any message may be lost, the rest keep their order.  The topics *)
(* are not ordered with respect to each other.                             *)
(*                                                                         *)
(* TIM-MARS may die and be started again at any moment under the running   *)
(* controller; what it had sent arrives before what its successor sends,   *)
(* or not at all.                                                          *)
(***************************************************************************)
EXTENDS Integers, Sequences, FiniteSets

CONSTANTS
  Sessions, TrackIds, MaxGeneration, MaxOutputAge, QueueDepth, AsyncReid, Mirror,
  StaleTimeout, FutureTolerance, RecoveryEnabled, RecoveryRate,
  RecoveryMaxDuration, RecoveryBudget, TrustedMaxAge, MaxVx, MaxYaw,
  MaxDeltaVx, MaxDeltaYaw, InvertYaw, AmbiguityHold, TickMin, TickMax, MaxTime,
  Views,         \* the sets of track ids one tracker message may show
  LastFrame,     \* bound of the frames: the camera takes none after it
  MaxLeft        \* bound of the epochs TIM-MARS leaves, by a command or by dying

ASSUME LinkAssumption ==
  /\ Sessions \subseteq Nat \ {0} /\ 1 \in Sessions
  /\ TrackIds \subseteq Nat \ {0} /\ Views \subseteq SUBSET TrackIds
  /\ {MaxGeneration, MaxOutputAge, MaxLeft, LastFrame, StaleTimeout, TickMin, TickMax} \subseteq Nat
  /\ QueueDepth \in Nat \ {0}
  /\ {AsyncReid, Mirror} \subseteq BOOLEAN

VARIABLES
  now,
  timSession, selection, pending, mirrored, memory, lastSource, lastStatus,
  statusQ, targetQ,
  lastTimer, target, targetRx, misordered, latestStamp, status, statusRx,
  session, generation, retired, trusted, consumed, recovery, cmd, running, hist,
  tracked,       \* the last frame whose tracks reached TIM-MARS
  heldEpoch,     \* history: the epoch the target held was made in
  left,          \* history: when TIM-MARS left each epoch, if it did
  chosen         \* history: whether a select began each epoch

Tim == INSTANCE TimAuthority
Ctl == INSTANCE ControlRef WITH Statuses <- {}, Targets <- {}

timVars == <<timSession, selection, pending, mirrored, memory, lastSource, lastStatus,
             statusQ, targetQ>>
ctlVars == <<lastTimer, target, targetRx, misordered, latestStamp, status, statusRx,
             session, generation, retired, trusted, consumed, recovery, cmd,
             running, hist>>
vars == <<now, timVars, ctlVars, tracked, heldEpoch, left, chosen>>

Epochs == Sessions \X (0 .. MaxGeneration)
Issued == <<timSession, selection>>    \* the epoch TIM-MARS is in
Known  == <<session, generation>>      \* the epoch the controller is in

-----------------------------------------------------------------------------
(* TIM-MARS moves.                                                         *)

TimMoves ==
  /\ Issued' # Issued => Cardinality({e \in Epochs : left[e] # Tim!Null}) < MaxLeft
  /\ UNCHANGED <<ctlVars, heldEpoch>>
  /\ left' = IF Issued' # Issued THEN [left EXCEPT ![Issued] = now] ELSE left

Select ==
  /\ \E id \in TrackIds : Tim!OnSelect(id)
  /\ chosen' = [chosen EXCEPT ![Issued'] = TRUE]
  /\ TimMoves /\ UNCHANGED tracked

\* The dashboard publishes the track in focus on its raw topic at any time.
MirrorTarget ==
  /\ \E id \in TrackIds : Tim!OnRawTarget(id)
  /\ chosen' = [chosen EXCEPT ![Issued'] = TRUE]
  /\ TimMoves /\ UNCHANGED tracked

Clear   == Tim!OnClear /\ TimMoves /\ UNCHANGED <<tracked, chosen>>

\* Only when nothing waits: what waits last is the status to be repeated, and
\* the controller can get it twice by a repeat after the delivery.
Repeat ==
  /\ statusQ[timSession] = <<>>
  /\ Tim!Reconcile /\ TimMoves /\ UNCHANGED <<tracked, chosen>>

Restart == Tim!Restart /\ TimMoves /\ UNCHANGED <<tracked, chosen>>

\* The tracker gives each frame once, in order, to the process that is alive.
Tracks ==
  \E f \in tracked + 1 .. Ctl!Lesser(now, LastFrame), ids \in Views :
    /\ Tim!OnTracks(f, ids)
    /\ tracked' = f
    /\ TimMoves /\ UNCHANGED chosen

-----------------------------------------------------------------------------
(* The topics deliver.                                                     *)

Held == IF target' = Ctl!NoTarget THEN <<>> ELSE heldEpoch

DeliverStatus ==
  \E s \in Sessions :
    /\ statusQ[s] # <<>>
    /\ \A r \in Sessions : r < s => statusQ[r] = <<>>
    /\ \/ Ctl!OnStatusAccepted(Head(statusQ[s]))
       \/ Ctl!OnStatusRejected(Head(statusQ[s]))
    /\ statusQ' = [statusQ EXCEPT ![s] = Tail(@)]
    /\ heldEpoch' = Held
    /\ UNCHANGED <<timSession, selection, pending, mirrored, memory, lastSource,
                   lastStatus, targetQ, tracked, left, chosen>>

\* The messages before the one delivered are lost.
DeliverTarget ==
  \E s \in Sessions : \E i \in 1 .. Len(targetQ[s]) :
    /\ Ctl!OnTarget(targetQ[s][i].msg)
    /\ targetQ' = [targetQ EXCEPT ![s] = SubSeq(@, i + 1, Len(@))]
    /\ heldEpoch' = targetQ[s][i].epoch
    /\ UNCHANGED <<timSession, selection, pending, mirrored, memory, lastSource,
                   lastStatus, statusQ, tracked, left, chosen>>

-----------------------------------------------------------------------------
(* The controller and the clock.                                           *)

\* The controller is not stopped here: it ends with a zero command (ControlRef)
\* and takes no message afterwards.
ControllerMoves ==
  /\ Ctl!OnTimer \/ Ctl!Advance
  /\ UNCHANGED <<timVars, tracked, heldEpoch, left, chosen>>

Init ==
  /\ Ctl!Init
  /\ Tim!TimInit
  /\ tracked = 0
  /\ heldEpoch = <<>>
  /\ left = [e \in Epochs |-> Tim!Null]
  /\ chosen = [e \in Epochs |-> FALSE]

Next ==
  \/ Select \/ Clear \/ MirrorTarget \/ Tracks \/ Repeat \/ Restart
  \/ DeliverStatus \/ DeliverTarget
  \/ ControllerMoves

Spec == Init /\ [][Next]_vars

-----------------------------------------------------------------------------
(* Properties.                                                             *)

\* The queues stay within the depth both ends ask for, and hold what their
\* session published.
TypeOK ==
  /\ timSession \in Sessions /\ selection \in 0 .. MaxGeneration
  /\ pending \in TrackIds \cup {Tim!Null} /\ mirrored \in TrackIds \cup {Tim!Null}
  /\ memory.state \in {"NO_TARGET", "LOCKED", "UNCERTAIN", "LOST"}
  /\ \A s \in Sessions :
       /\ Len(statusQ[s]) <= QueueDepth /\ Len(targetQ[s]) <= QueueDepth
       /\ \A i \in 1 .. Len(statusQ[s]) : statusQ[s][i].session = s
       /\ \A i \in 1 .. Len(targetQ[s]) : targetQ[s][i].epoch[1] = s

\* The aircraft follows a target only if TIM-MARS made that target in the very
\* selection whose status authorises it: targets carry no epoch, and a late one
\* of the old selection may name the same track and be perfectly fresh.
FollowsCurrentSelection ==
  target # Ctl!NoTarget /\ Ctl!MayFollow => heldEpoch = Known

\* Once TIM-MARS has left the epoch the controller follows in, by a command or
\* by dying, following ends within the stale timeout and one timer gap, though
\* every message that says so be lost or late.
RevokedFollowingEnds ==
  cmd.mode = "NORMAL_FOLLOW" /\ Known # Issued =>
    now - left[Known] <= StaleTimeout + TickMax

\* Nothing is followed in an epoch that no select began: a clear, or a restart
\* of TIM-MARS, ends following until the operator selects again.
FollowsOnlyASelection ==
  cmd.mode = "NORMAL_FOLLOW" => chosen[Known]

\* Every selection or clear reaches the controller, however many statuses the
\* queue had to drop and whatever came late: once nothing waits for it, it is
\* in the epoch of the last one.
EpochIsLearned ==
  selection > 0 /\ statusQ[timSession] = <<>> => Known = Issued

=============================================================================
