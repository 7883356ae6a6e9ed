------------------------------ MODULE ControlRef ------------------------------
(***************************************************************************)
(* The selected-target controller, control_ref_node.py, with the pure      *)
(* policy it calls (state_aware_policy.py), the authority-epoch gate       *)
(* (tim_authority_status.py) and the freshness rule (freshness.py).        *)
(*                                                                         *)
(* One action per callback: a status message, a status message that does   *)
(* not parse, a target message, the 30 Hz timer (one action per outcome),  *)
(* and the shutdown path.  rclpy.spin_once runs one callback at a time, so *)
(* a callback is atomic.  The environment may deliver any message of       *)
(* Statuses and Targets at any moment: late, repeated, out of order.       *)
(*                                                                         *)
(* Time is an integer.  Velocities are integers: vx stands for both        *)
(* translation axes (vy is computed, slewed and zeroed beside it), and the *)
(* gains are folded into the unit of the image errors ex and rangeErr.     *)
(*                                                                         *)
(* An operator such as SlewOmitted, just before the one it stands in for,   *)
(* is not the code but a coding mistake that one of the properties notices.*)
(***************************************************************************)
EXTENDS Integers, FiniteSets

CONSTANTS
  Sessions,            \* selection_session_id values (one per TIM-MARS start)
  Statuses,            \* the parsed status messages the link may deliver
  Targets,             \* the target messages the link may deliver
  StaleTimeout,        \* stale_timeout_s
  FutureTolerance,     \* future_tolerance_s
  RecoveryEnabled,     \* enable_yaw_recovery
  RecoveryRate,        \* recovery_yaw_rate
  RecoveryMaxDuration, \* recovery_max_duration_s
  RecoveryBudget,      \* recovery_max_integrated_yaw_rad
  TrustedMaxAge,       \* recovery_last_trusted_max_age_s
  MaxVx, MaxYaw,       \* saturation
  MaxDeltaVx, MaxDeltaYaw, \* slew per published command
  InvertYaw,           \* invert_yaw
  AmbiguityHold,       \* enable_ambiguity_hold
  TickMin, TickMax,    \* shortest and longest time between two timer callbacks
  MaxTime              \* bound of the clock

Null == -1             \* Python's None, for a stamp or a generation

Status == [session : Sessions, generation : Nat,
           frame : Nat \cup {Null}, stamp : Nat \cup {Null},
           track : Nat \cup {Null},
           state : {"NO_TARGET", "LOCKED", "UNCERTAIN", "LOST", "REACQUIRED"},
           control : {"NORMAL", "HOLD"},   \* NORMAL, or any other mode
           fresh : BOOLEAN]                \* freshness_is_fresh

Target == [id : Nat, frame : Nat, stamp : Nat,
           usable : BOOLEAN,      \* bounds, size, score and quality checks
           ambiguous : BOOLEAN,   \* quality under the ambiguity threshold
           ex : Int, rangeErr : Int]  \* errors after the deadband

ASSUME MessageAssumption == Statuses \subseteq Status /\ Targets \subseteq Target

ASSUME SessionAssumption == Null \notin Sessions

ASSUME BoundAssumption ==
  /\ {StaleTimeout, RecoveryRate, RecoveryMaxDuration, RecoveryBudget,
      TrustedMaxAge, TickMax, MaxTime} \subseteq Nat \ {0}
  /\ {TickMin, FutureTolerance, MaxVx, MaxYaw, MaxDeltaVx, MaxDeltaYaw} \subseteq Nat
  /\ {RecoveryEnabled, AmbiguityHold, InvertYaw} \subseteq BOOLEAN

NoTarget  == [id |-> Null]        \* last_target = None
NoStatus  == [generation |-> Null] \* last_status = None
NoSession == Null
NoHistory == [ex |-> 0, stamp |-> Null, generation |-> Null]
Idle      == [active |-> FALSE, start |-> Null, update |-> Null, integrated |-> 0]

VARIABLES
  now,          \* the ROS clock
  lastTimer,    \* last_timer_time
  target,       \* last_target
  targetRx,     \* last_target_rx_time
  misordered,   \* last_target_source_order_status is not None
  latestStamp,  \* latest_source_stamp_ns
  status,       \* last_status
  statusRx,     \* last_status_rx_time
  session,      \* selection_session_id
  generation,   \* selection_generation
  retired,      \* retired_selection_session_ids
  trusted,      \* last_trusted_{horizontal_error, stamp_ns, generation}
  consumed,     \* recovery_consumed_trusted_stamp_ns
  recovery,     \* recovery_{active, start, last_update, integrated_yaw}
  cmd,          \* the command last published (prev_vx, prev_yaw_z) and its mode
  running,      \* the spin loop has not been left
  hist          \* history variables, read by no action

timeVars    == <<now, lastTimer>>
targetVars  == <<target, targetRx, misordered, latestStamp>>
statusVars  == <<status, statusRx>>
epochVars   == <<session, generation, retired>>
historyVars == <<trusted, consumed, recovery>>
vars == <<timeVars, targetVars, statusVars, epochVars, historyVars, cmd, running, hist>>

-----------------------------------------------------------------------------
(* Helpers of the node.                                                    *)

Abs(x) == IF x < 0 THEN -x ELSE x
Lesser(x, y) == IF x < y THEN x ELSE y
Greater(x, y) == IF x > y THEN x ELSE y
Clamp(x, lo, hi) == Greater(lo, Lesser(hi, x))
Sign(x) == IF x > 0 THEN 1 ELSE -1
SlewOmitted(x, previous, delta) == x
Slew(x, previous, delta) == Clamp(x, previous - delta, previous + delta)

YawSign == IF InvertYaw THEN -1 ELSE 1

Zero(mode) == [mode |-> mode, vx |-> 0, yaw |-> 0]

FreshByReceipt(stamp, rx) == stamp > 0 /\ now - rx <= StaleTimeout

\* classify_freshness without the ordering rules, for a positive clock.
Fresh(stamp, rx) ==
  /\ stamp > 0
  /\ now - stamp >= -FutureTolerance
  /\ now - stamp <= StaleTimeout
  /\ now - rx <= StaleTimeout

\* The ordering verdict on_target keeps.  classify_freshness reports an
\* invalid or future stamp before it compares it with the previous one.
Misordered(stamp) ==
  /\ stamp > 0
  /\ now - stamp >= -FutureTolerance
  /\ latestStamp # Null
  /\ stamp <= latestStamp

\* status_is_fresh: the flag TIM computed, and the age since reception.
StatusFreshForever == status # NoStatus /\ status.frame > 0 /\ status.fresh
StatusFresh ==
  /\ status # NoStatus
  /\ status.frame > 0
  /\ status.fresh
  /\ now - statusRx \in 0 .. StaleTimeout

\* target_valid together with the id the status names.
TargetValid ==
  /\ target.id # 0
  /\ Fresh(target.stamp, targetRx)
  /\ ~misordered
  /\ target.usable
  /\ status.track = target.id

CausalPairAny == target.frame > 0 /\ status.frame > 0

\* The status and the target come from the same source frame.
CausalPair ==
  /\ target.frame > 0 /\ target.frame = status.frame
  /\ target.stamp > 0 /\ target.stamp = status.stamp

TrustedAge == now - trusted.stamp
HistoryConsumedWhileActive ==
  recovery.active /\ trusted # NoHistory /\ consumed = trusted.stamp
HistoryConsumed ==
  /\ ~recovery.active
  /\ trusted # NoHistory
  /\ consumed = trusted.stamp
ElapsedSinceUpdate == IF recovery.active THEN Greater(0, now - recovery.update) ELSE 0
Elapsed == IF recovery.active THEN Greater(0, now - recovery.start) ELSE 0
Dt == IF recovery.active THEN Greater(0, now - recovery.update) ELSE 0
Remaining == Greater(0, RecoveryBudget - recovery.integrated)

-----------------------------------------------------------------------------
(* resolve_state_aware_policy: what the pair of last messages permits.     *)

\* LOCKED under NORMAL control decides between following and hovering; it
\* never falls through to recovery.
LockedNormal == status.state = "LOCKED" /\ status.control = "NORMAL"

MayFollow == StatusFresh /\ LockedNormal /\ CausalPair /\ TargetValid

\* The yaw rate recovery asks for; the quotient is cut to the model's unit.
RecoveryMagnitude ==
  IF Dt > 0 THEN Lesser(RecoveryRate, Remaining \div Dt) ELSE RecoveryRate

MayRecover ==
  /\ StatusFresh
  /\ status.state = "LOST"
  /\ RecoveryEnabled
  /\ ~HistoryConsumed
  /\ trusted.generation = status.generation
  /\ trusted.stamp # Null
  /\ TrustedAge \in 0 .. TrustedMaxAge
  /\ trusted.ex # 0
  /\ Elapsed < RecoveryMaxDuration
  /\ recovery.integrated < RecoveryBudget   \* so the magnitude is positive

\* resolve_bounded_recovery_yaw: direction, saturation, slew, no reversal.
RecoveryYaw ==
  LET desired   == Clamp(YawSign * Sign(trusted.ex) * RecoveryMagnitude, -MaxYaw, MaxYaw)
      candidate == Slew(desired, cmd.yaw, MaxDeltaYaw)
  IN  IF candidate * desired < 0 THEN 0 ELSE candidate

BudgetExhausted == Remaining = 0 \/ Abs(RecoveryYaw) * Dt > Remaining

-----------------------------------------------------------------------------
(* State changes several callbacks share.                                  *)

\* The history variables: yaw commanded since recovery began, integrated
\* over the time each command was in force; the attempts made since the last
\* trusted observation; the epoch of that observation.
NoHist == [turned |-> 0, attempts |-> 0, session |-> NoSession]

ClearTrustedHistory ==
  /\ trusted' = NoHistory
  /\ consumed' = Null
  /\ recovery' = Idle
  /\ hist' = NoHist

ConsumeNothing == consumed
ConsumeHistory == IF trusted = NoHistory THEN consumed ELSE trusted.stamp

RevokeTargetOnly ==
  /\ target' = NoTarget
  /\ cmd' = Zero("HOVER")
  /\ UNCHANGED <<targetRx, misordered, latestStamp, historyVars, hist>>

\* Revocation: forget the target and the trusted history, command zero.
Revoke ==
  /\ ClearTrustedHistory
  /\ target' = NoTarget
  /\ cmd' = Zero("HOVER")
  /\ UNCHANGED <<targetRx, misordered, latestStamp>>

-----------------------------------------------------------------------------
(* on_status                                                               *)

\* parse_tim_authority_status raised ValueError.
OnStatusUnparsed ==
  /\ running
  /\ status' = NoStatus
  /\ statusRx' = now
  /\ Revoke
  /\ UNCHANGED <<timeVars, epochVars, running>>

EpochAcceptedAgain(s) ==
  session = NoSession \/ s.session # session \/ s.generation >= generation

\* evaluate_authority_epoch
EpochAccepted(s) ==
  \/ session = NoSession
  \/ s.session = session /\ s.generation >= generation
  \/ s.session # session /\ s.session \notin retired

EpochResetByGeneration(s) == s.generation # generation
EpochReset(s) == s.session # session \/ s.generation # generation

OnStatusRejected(s) ==
  /\ running
  /\ ~EpochAccepted(s)
  /\ status' = NoStatus
  /\ statusRx' = now
  /\ Revoke
  /\ UNCHANGED <<timeVars, epochVars, running>>

\* A new epoch, and a select or clear transaction (no frame), revoke.
OnStatusAccepted(s) ==
  /\ running
  /\ EpochAccepted(s)
  /\ status' = s
  /\ statusRx' = now
  /\ session' = s.session
  /\ generation' = s.generation
  /\ retired' = IF session # NoSession /\ s.session # session
                THEN retired \cup {session} ELSE retired
  /\ IF EpochReset(s) \/ s.frame = Null
     THEN Revoke
     ELSE UNCHANGED <<targetVars, historyVars, cmd, hist>>
  /\ UNCHANGED <<timeVars, running>>

(* on_target: the message is kept whatever its order; the policy sees the  *)
(* verdict.                                                                *)
OnTarget(t) ==
  /\ running
  /\ target' = t
  /\ targetRx' = now
  /\ misordered' = Misordered(t.stamp)
  /\ latestStamp' = IF t.stamp > 0 /\ t.stamp > latestStamp
                    THEN t.stamp ELSE latestStamp
  /\ UNCHANGED <<timeVars, statusVars, epochVars, historyVars, cmd, running, hist>>

-----------------------------------------------------------------------------
(* on_timer, one action per outcome.                                       *)

Timer ==
  /\ running
  /\ now - lastTimer >= TickMin
  /\ lastTimer' = now
  /\ UNCHANGED <<now, targetVars, statusVars, epochVars, running>>

TimerNoTarget ==
  /\ Timer
  /\ target = NoTarget
  /\ cmd' = Zero("NO_TARGET")
  /\ UNCHANGED <<historyVars, hist>>

TimerHolds == MayFollow /\ AmbiguityHold /\ target.ambiguous

TimerFollow ==
  /\ Timer
  /\ target # NoTarget
  /\ MayFollow /\ ~TimerHolds
  /\ recovery' = Idle
  /\ trusted' = [ex |-> target.ex, stamp |-> now, generation |-> status.generation]
  /\ consumed' = Null
  /\ cmd' = [mode |-> "NORMAL_FOLLOW",
             vx   |-> Slew(Clamp(target.rangeErr, -MaxVx, MaxVx), cmd.vx, MaxDeltaVx),
             yaw  |-> Slew(Clamp(YawSign * target.ex, -MaxYaw, MaxYaw), cmd.yaw, MaxDeltaYaw)]
  /\ hist' = [NoHist EXCEPT !.session = status.session]

TimerAmbiguityHold ==
  /\ Timer
  /\ target # NoTarget
  /\ TimerHolds
  /\ recovery' = Idle
  /\ cmd' = Zero("AMBIGUITY_HOLD")
  /\ UNCHANGED <<trusted, consumed, hist>>

TimerBeginRecoveryMoving ==
  /\ Timer
  /\ target # NoTarget
  /\ ~MayFollow /\ MayRecover
  /\ ~recovery.active
  /\ recovery' = [active |-> TRUE, start |-> now, update |-> now, integrated |-> 0]
  /\ consumed' = ConsumeHistory
  /\ cmd' = [cmd EXCEPT !.mode = "RECOVERY_YAW_ONLY"]
  /\ hist' = [hist EXCEPT !.turned = 0, !.attempts = @ + 1]
  /\ UNCHANGED trusted

\* begin_recovery: the attempt is spent before anything moves.
TimerBeginRecovery ==
  /\ Timer
  /\ target # NoTarget
  /\ ~MayFollow /\ MayRecover
  /\ ~recovery.active
  /\ recovery' = [active |-> TRUE, start |-> now, update |-> now, integrated |-> 0]
  /\ consumed' = ConsumeHistory
  /\ cmd' = Zero("RECOVERY_YAW_ONLY")
  /\ hist' = [hist EXCEPT !.turned = 0, !.attempts = @ + 1]
  /\ UNCHANGED trusted

TimerTurn ==
  /\ Timer
  /\ target # NoTarget
  /\ ~MayFollow /\ MayRecover
  /\ recovery.active
  /\ ~BudgetExhausted
  /\ recovery' = [recovery EXCEPT !.update = now,
                                  !.integrated = @ + Abs(RecoveryYaw) * Dt]
  /\ cmd' = [mode |-> "RECOVERY_YAW_ONLY", vx |-> 0, yaw |-> RecoveryYaw]
  /\ UNCHANGED <<trusted, consumed, hist>>

TimerExhausted ==
  /\ Timer
  /\ target # NoTarget
  /\ ~MayFollow /\ MayRecover
  /\ recovery.active
  /\ BudgetExhausted
  /\ recovery' = Idle
  /\ cmd' = Zero("HOVER")
  /\ UNCHANGED <<trusted, consumed, hist>>

TimerHover ==
  /\ Timer
  /\ target # NoTarget
  /\ ~MayFollow /\ ~MayRecover
  /\ recovery' = Idle
  /\ consumed' = IF status # NoStatus /\ status.state \in {"REACQUIRED", "NO_TARGET"}
                 THEN ConsumeHistory ELSE consumed
  /\ cmd' = Zero("HOVER")
  /\ UNCHANGED <<trusted, hist>>

OnTimer ==
  \/ TimerNoTarget \/ TimerFollow \/ TimerAmbiguityHold \/ TimerHover
  \/ TimerBeginRecovery \/ TimerTurn \/ TimerExhausted

-----------------------------------------------------------------------------
(* The rest of the process and of the world.                               *)

\* main: a signal ends the loop between two callbacks, then one last zero.
Shutdown ==
  /\ running
  /\ running' = FALSE
  /\ cmd' = Zero("HOVER")
  /\ UNCHANGED <<timeVars, targetVars, statusVars, epochVars, historyVars, hist>>

\* Time passes, never more than TickMax between two timer callbacks.  The
\* command in force keeps turning the aircraft.
Advance ==
  /\ now < MaxTime
  /\ running /\ now - lastTimer < TickMax
  /\ now' = now + 1
  /\ hist' = IF recovery.active
             THEN [hist EXCEPT !.turned = @ + Abs(cmd.yaw)] ELSE hist
  /\ UNCHANGED <<lastTimer, targetVars, statusVars, epochVars, historyVars, cmd, running>>

Init ==
  /\ now = 1 /\ lastTimer = 1
  /\ target = NoTarget /\ targetRx = Null /\ misordered = FALSE /\ latestStamp = Null
  /\ status = NoStatus /\ statusRx = Null
  /\ session = NoSession /\ generation = Null /\ retired = {}
  /\ trusted = NoHistory /\ consumed = Null /\ recovery = Idle
  /\ cmd = Zero("INIT")
  /\ running = TRUE
  /\ hist = NoHist

OnStatus == \E s \in Statuses : OnStatusAccepted(s) \/ OnStatusRejected(s)

Next ==
  \/ OnStatus \/ OnStatusUnparsed
  \/ \E t \in Targets : OnTarget(t)
  \/ OnTimer
  \/ Shutdown
  \/ Advance

Spec == Init /\ [][Next]_vars

-----------------------------------------------------------------------------
(* Properties.                                                             *)

TypeOK ==
  /\ now \in 1 .. MaxTime /\ lastTimer \in 1 .. now
  /\ target \in Target \cup {NoTarget} /\ targetRx \in (1 .. now) \cup {Null}
  /\ misordered \in BOOLEAN /\ latestStamp \in Nat \cup {Null}
  /\ status \in Status \cup {NoStatus} /\ statusRx \in (1 .. now) \cup {Null}
  /\ session \in Sessions \cup {NoSession} /\ generation \in Nat \cup {Null}
  /\ retired \subseteq Sessions
  /\ trusted \in [ex : Int, stamp : (1 .. now) \cup {Null}, generation : Nat \cup {Null}]
  /\ consumed \in (1 .. now) \cup {Null}
  /\ recovery \in [active : BOOLEAN, start : (1 .. now) \cup {Null},
                   update : (1 .. now) \cup {Null}, integrated : Nat]
  /\ cmd \in [mode : {"INIT", "NO_TARGET", "NORMAL_FOLLOW", "AMBIGUITY_HOLD",
                      "RECOVERY_YAW_ONLY", "HOVER"}, vx : Int, yaw : Int]
  /\ running \in BOOLEAN
  /\ hist \in [turned : Nat, attempts : Nat, session : Sessions \cup {NoSession}]

\* Whenever the controller holds no target it also holds no trusted history,
\* no recovery attempt, and its last command is zero: the early return of
\* on_timer for last_target = None, which stops no recovery, is sound only
\* because every callback that drops the target drops the rest too.
NoTargetNoMotion ==
  target = NoTarget =>
    /\ trusted = NoHistory /\ recovery = Idle
    /\ cmd.vx = 0 /\ cmd.yaw = 0

\* A trusted observation never outlives the selection it was made under: it
\* belongs to the current session and generation, although the code compares
\* only the generation, a number every session counts from zero.
TrustedHistoryOfCurrentEpoch ==
  trusted # NoHistory => hist.session = session /\ trusted.generation = generation

\* One trusted observation authorises at most one recovery attempt, however
\* the attempt ended and whatever messages came since.
OneAttemptPerObservation == hist.attempts <= 1

\* While recovery is active nothing translates, the aircraft turns only
\* towards the side the trusted target was last seen on, and the charged yaw
\* stays within the budget; a turn outlives its attempt in no state.
RecoveryIsYawOnly ==
  running =>
    /\ recovery.active <=> cmd.mode = "RECOVERY_YAW_ONLY"
    /\ recovery.active => /\ cmd.vx = 0
                          /\ cmd.yaw * YawSign * trusted.ex >= 0
                          /\ recovery.integrated <= RecoveryBudget

\* With timer callbacks at most TickMax apart, a recovery attempt is over by
\* its duration limit and by the age limit of the observation, plus one gap.
RecoveryEndsInTime ==
  running /\ recovery.active =>
    /\ now - recovery.start < RecoveryMaxDuration + TickMax
    /\ now - trusted.stamp <= TrustedMaxAge + TickMax

\* The watchdog: with timer callbacks at most TickMax apart, the aircraft
\* follows no longer than StaleTimeout + TickMax after the last status was
\* received, and after the newest source image any target carried.
FollowEndsWhenInputsStop ==
  running /\ cmd.mode = "NORMAL_FOLLOW" =>
    /\ now - statusRx <= StaleTimeout + TickMax
    /\ now - latestStamp <= StaleTimeout + TickMax

\* Authority epochs move one way: no callback brings back a generation of the
\* session or a session that was left, and the step that enters a new epoch
\* drops the target and commands zero.
EpochsNeverReturn ==
  [][ (session' # session \/ generation' # generation) =>
        /\ session' = session => generation' > generation
        /\ session' \notin retired
        /\ session' # session /\ session # NoSession => session \in retired'
        /\ target' = NoTarget /\ cmd' = Zero("HOVER") ]_vars

\* What one callback may do to the command: stop the axis, or change it by at
\* most the slew; so no axis ever jumps, or reverses beyond one slew, whatever
\* the alternation of following, searching, revocation and shutdown.
CommandIsSlewed ==
  [][ /\ cmd'.vx = 0 \/ Abs(cmd'.vx - cmd.vx) <= MaxDeltaVx
      /\ cmd'.yaw = 0 \/ Abs(cmd'.yaw - cmd.yaw) <= MaxDeltaYaw
      /\ Abs(cmd'.vx) <= MaxVx /\ Abs(cmd'.yaw) <= MaxYaw ]_vars

\* The yaw the commands of one attempt add up to, each held until the next,
\* stays within the budget of the contract.
TurnWithinBudget == hist.turned <= RecoveryBudget

-----------------------------------------------------------------------------
(* What every callback relies on and keeps: the inductive invariant.       *)

\* The current session was never left, and the status kept is of this epoch.
EpochConsistent ==
  /\ session \notin retired
  /\ session = NoSession => retired = {}
  /\ status # NoStatus => status.session = session /\ status.generation = generation

\* An attempt, active or over, has spent the observation that authorised it.
AttemptSpent ==
  /\ recovery.active \/ recovery = Idle
  /\ hist.attempts \in {0, 1}
  /\ recovery.active => hist.attempts = 1
  /\ hist.attempts = 1 => trusted # NoHistory /\ consumed = trusted.stamp

\* The limits that the last timer callback established still held then; the
\* time since is at most TickMax.
TimedByLastTick ==
  /\ now - lastTimer <= TickMax
  /\ target # NoTarget /\ target.stamp > 0 => target.stamp <= latestStamp
  /\ running /\ recovery.active =>
       /\ lastTimer - recovery.start < RecoveryMaxDuration
       /\ lastTimer - trusted.stamp <= TrustedMaxAge
  /\ running /\ cmd.mode = "NORMAL_FOLLOW" =>
       /\ lastTimer - statusRx <= StaleTimeout
       /\ lastTimer - latestStamp <= StaleTimeout

CommandWithinLimits == Abs(cmd.vx) <= MaxVx /\ Abs(cmd.yaw) <= MaxYaw

\* The conjunction the proofs carry from step to step: the safety properties
\* of the controller and the four facts about its epochs, its recovery
\* attempt, its clock and its command that they need.
IInv ==
  /\ TypeOK
  /\ NoTargetNoMotion
  /\ TrustedHistoryOfCurrentEpoch
  /\ RecoveryIsYawOnly
  /\ EpochConsistent
  /\ AttemptSpent
  /\ TimedByLastTick
  /\ CommandWithinLimits

\* With timer callbacks exactly TickMax apart, the yaw charged is the yaw the
\* commands will have added up to at the next callback.
TurnMetered ==
  /\ hist.turned <= RecoveryBudget
  /\ running /\ recovery.active =>
       /\ recovery.update = lastTimer
       /\ recovery.integrated =
            hist.turned + Abs(cmd.yaw) * (TickMax - (now - lastTimer))

-----------------------------------------------------------------------------
\* Without clocks and velocities the controller is the contract of
\* FollowContract: it searches at most once per trusted observation, and a
\* new epoch leaves it hovering with nothing to search for.
Contract == INSTANCE FollowContract WITH
  epoch  <- <<session, generation>>,
  motion <- CASE cmd.mode = "NORMAL_FOLLOW" -> "follow"
              [] cmd.mode = "RECOVERY_YAW_ONLY" -> "search"
              [] OTHER -> "hover",
  armed  <- trusted # NoHistory /\ consumed # trusted.stamp

ContractSpec == Contract!Spec

=============================================================================
