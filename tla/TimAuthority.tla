----------------------------- MODULE TimAuthority -----------------------------
(***************************************************************************)
(* The TIM-MARS node (target_memory_mars_node.py) and its runtime          *)
(* (runtime.py): operator commands, the mirror of the dashboard's raw      *)
(* target, tracker messages, the two topics it publishes to the controller *)
(* and the timer that publishes the last status again.  rclpy.spin runs    *)
(* one callback at a time, so a callback is one action.                    *)
(*                                                                         *)
(* What TargetIdentityMemory decides from a tracker message is an input    *)
(* here, within its contract (Outcomes).  A frame is named by the time     *)
(* its image was taken.  The operators Silent... and Careless... are       *)
(* coding mistakes that one of the properties notices, not the code.       *)
(***************************************************************************)
EXTENDS Integers, Sequences, MemoryContract

CONSTANTS
  Sessions,        \* 1 .. n: the starts of the node, each with a uuid of its own
  TrackIds,        \* tracker ids
  MaxGeneration,   \* bound of the selections and clears of one session
  MaxOutputAge,    \* freshness_max_output_age_s
  QueueDepth,      \* AUTHORITY_QOS_DEPTH
  AsyncReid,       \* appearance_async_reid_enabled
  Mirror           \* mirror_raw_target_selection

Null == -1

VARIABLES
  now,         \* the ROS clock
  timSession,  \* selection_session_id
  selection,   \* selection_generation
  pending,     \* pending_select_id
  mirrored,    \* last_mirrored_target_id
  memory,      \* state and track_id of the target memory
  lastSource,  \* last_tracks_source_stamp_ns
  lastStatus,  \* appearance_async_last_status_json
  statusQ,     \* statuses on their way to the controller, by session
  targetQ      \* targets on their way, each with the epoch it was made in

timVars == <<timSession, selection, pending, mirrored, memory, lastSource,
             lastStatus, statusQ, targetQ>>

-----------------------------------------------------------------------------
(* What the node publishes.                                                *)

NoStatus == [generation |-> Null]   \* before the first status
NoMemory == [state |-> "NO_TARGET", track |-> Null]

ControlMode(state) == IF state = "LOCKED" THEN "NORMAL" ELSE "HOLD"

\* The reader keeps the newest QueueDepth messages.
KeepLast(q) == IF Len(q) > QueueDepth THEN Tail(q) ELSE q

Status(g, f, out, fresh) ==
  [session |-> timSession, generation |-> g, frame |-> f, stamp |-> f,
   track |-> out.track, state |-> out.state, control |-> ControlMode(out.state),
   fresh |-> fresh]

\* An id of zero carries no geometry (zero_id_when_not_visible).
Target(f, id) ==
  [id |-> id, frame |-> f, stamp |-> f, usable |-> id # 0, ambiguous |-> FALSE,
   ex |-> id, rangeErr |-> id]

SendTarget(t, g) ==
  targetQ' = [targetQ EXCEPT ![timSession] =
                KeepLast(Append(@, [msg |-> t, epoch |-> <<timSession, g>>]))]

SendStatus(s) ==
  /\ lastStatus' = s
  /\ statusQ' = [statusQ EXCEPT ![timSession] = KeepLast(Append(@, s))]

-----------------------------------------------------------------------------
(* Commands.  A select, a clear and a mirrored selection all begin a new   *)
(* generation, forget the old target and publish both facts at once.       *)

SilentNewGeneration(p) ==
  /\ selection' = selection + 1
  /\ pending' = p
  /\ memory' = NoMemory
  /\ SendTarget(Target(0, 0), selection')
  /\ UNCHANGED <<timSession, lastSource, lastStatus, statusQ>>

CarelessNewGeneration(p) ==
  /\ selection' = selection + 1
  /\ pending' = p
  /\ SendTarget(Target(0, 0), selection')
  /\ SendStatus(Status(selection', Null, NoMemory, FALSE))
  /\ UNCHANGED <<timSession, lastSource, memory>>

NewGeneration(p) ==
  /\ selection' = selection + 1
  /\ pending' = p
  /\ memory' = NoMemory
  /\ SendTarget(Target(0, 0), selection')
  /\ SendStatus(Status(selection', Null, NoMemory, FALSE))
  /\ UNCHANGED <<timSession, lastSource>>

\* on_select with a positive id.
OnSelect(id) ==
  /\ selection < MaxGeneration
  /\ NewGeneration(id)
  /\ UNCHANGED <<now, mirrored>>

\* on_clear, and on_select with id zero.
OnClear ==
  /\ selection < MaxGeneration
  /\ NewGeneration(Null)
  /\ UNCHANGED <<now, mirrored>>

\* on_raw_target: a positive id, other than the one mirrored last unless a
\* selection is still waiting.  Id zero may mean anything, so it is ignored.
Mirrors(id) == Mirror /\ (mirrored # id \/ pending # Null)

OnRawTarget(id) ==
  /\ Mirrors(id)
  /\ selection < MaxGeneration
  /\ NewGeneration(id)
  /\ mirrored' = id
  /\ UNCHANGED now

-----------------------------------------------------------------------------
(* on_tracks: TimMarsRuntime.process_tracks, then the target, then the     *)
(* status, in one callback.                                                *)

\* A waiting selection is taken when its track is visible; until then the
\* memory is not shown the others.
Process(ids) ==
  CASE pending \in ids -> LET m == [state |-> "LOCKED", track |-> pending] IN {<<m, m>>}
    [] pending \notin ids /\ pending # Null -> {<<memory, memory>>}
    [] OTHER -> Outcomes(memory, ids)

\* classify_freshness against the source stamp of the previous message.
FreshSource(f) == now - f <= MaxOutputAge /\ f > lastSource

OnTracks(f, ids) ==
  \E result \in Process(ids) :
    LET out == result[2] IN
    /\ memory' = result[1]
    /\ pending' = IF pending \in ids THEN Null ELSE pending
    /\ lastSource' = IF f > lastSource THEN f ELSE lastSource
    /\ SendTarget(Target(f, IF out.state = "LOCKED" THEN out.track ELSE 0), selection)
    /\ SendStatus(Status(selection, f, out, FreshSource(f)))
    /\ UNCHANGED <<now, timSession, selection, mirrored>>

\* reconcile_async_reid: the last status goes out again, as it was.
Reconcile ==
  /\ AsyncReid
  /\ lastStatus # NoStatus
  /\ SendStatus(lastStatus)
  /\ UNCHANGED <<now, timSession, selection, pending, mirrored, memory, lastSource, targetQ>>

\* The node dies and is started again; what it had sent is still on its way.
Restart ==
  /\ timSession + 1 \in Sessions
  /\ timSession' = timSession + 1
  /\ selection' = 0 /\ pending' = Null /\ mirrored' = Null
  /\ memory' = NoMemory /\ lastSource' = Null /\ lastStatus' = NoStatus
  /\ UNCHANGED <<now, statusQ, targetQ>>

TimInit ==
  /\ timSession = 1
  /\ selection = 0 /\ pending = Null /\ mirrored = Null
  /\ memory = NoMemory /\ lastSource = Null /\ lastStatus = NoStatus
  /\ statusQ = [s \in Sessions |-> <<>>]
  /\ targetQ = [s \in Sessions |-> <<>>]

=============================================================================
