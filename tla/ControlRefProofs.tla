--------------------------- MODULE ControlRefProofs ---------------------------
(***************************************************************************)
(* Theorems about ControlRef, for every set of messages and every value of *)
(* the parameters its assumptions allow.                                   *)
(***************************************************************************)
EXTENDS ControlRef, TLAPS

-----------------------------------------------------------------------------
(* The arithmetic helpers.                                                 *)

\* abs() of a command is a natural number.
LEMMA AbsType == \A x \in Int : Abs(x) \in Nat
BY DEF Abs

\* clamp() between integer limits is an integer.
LEMMA ClampType == \A x, lo, hi \in Int : Clamp(x, lo, hi) \in Int
BY DEF Clamp, Greater, Lesser

\* slew() of integers is an integer.
LEMMA SlewType == \A x, p, d \in Int : Slew(x, p, d) \in Int
BY ClampType DEF Slew

\* What recovery computes from a well-typed state is well typed.
LEMMA RecoveryTypes ==
  ASSUME TypeOK
  PROVE  /\ Dt \in Nat /\ Elapsed \in Nat /\ Remaining \in Nat
         /\ RecoveryMagnitude \in Int /\ RecoveryYaw \in Int
<1>1. Dt \in Nat /\ Elapsed \in Nat
  BY DEF TypeOK, Dt, Elapsed, Greater, Null
<1>2. Remaining \in Nat
  BY BoundAssumption DEF TypeOK, Remaining, Greater
<1>3. RecoveryMagnitude \in Int
  <2>1. CASE Dt > 0
    <3>1. Remaining \div Dt \in Int
      BY <1>1, <1>2, <2>1
    <3> QED BY <2>1, <3>1, BoundAssumption DEF RecoveryMagnitude, Lesser
  <2>2. CASE ~(Dt > 0)
    BY <2>2, BoundAssumption DEF RecoveryMagnitude
  <2> QED BY <2>1, <2>2
<1>4. RecoveryYaw \in Int
  <2> DEFINE asked == YawSign * Sign(trusted.ex) * RecoveryMagnitude
             desired == Clamp(asked, -MaxYaw, MaxYaw)
  <2>1. YawSign \in {1, -1} /\ Sign(trusted.ex) \in {1, -1}
    BY DEF YawSign, Sign
  <2>2. asked \in Int
    BY <1>3, <2>1
  <2>3. MaxYaw \in Int /\ -MaxYaw \in Int /\ MaxDeltaYaw \in Int /\ cmd.yaw \in Int
    BY BoundAssumption DEF TypeOK
  <2>4. Slew(desired, cmd.yaw, MaxDeltaYaw) \in Int
    BY <2>2, <2>3, ClampType, SlewType
  <2> QED BY <2>4 DEF RecoveryYaw
<1> QED BY <1>1, <1>2, <1>3, <1>4

-----------------------------------------------------------------------------
(* Type correctness.                                                       *)

\* The initial state is well typed.
LEMMA TypeInit == Init => TypeOK
<1> SUFFICES ASSUME Init PROVE TypeOK
  OBVIOUS
<1> USE DEF Init, Null
<1>1. now \in 1 .. MaxTime /\ lastTimer \in 1 .. now
  BY BoundAssumption
<1>2. target \in Target \cup {NoTarget} /\ targetRx \in (1 .. now) \cup {Null}
  OBVIOUS
<1>3. misordered \in BOOLEAN /\ latestStamp \in Nat \cup {Null}
  OBVIOUS
<1>4. status \in Status \cup {NoStatus} /\ statusRx \in (1 .. now) \cup {Null}
  OBVIOUS
<1>5. session \in Sessions \cup {NoSession} /\ generation \in Nat \cup {Null} /\ retired \subseteq Sessions
  OBVIOUS
<1>6. trusted \in [ex : Int, stamp : (1 .. now) \cup {Null}, generation : Nat \cup {Null}]
  BY DEF NoHistory
<1>7. recovery \in [active : BOOLEAN, start : (1 .. now) \cup {Null},
                   update : (1 .. now) \cup {Null}, integrated : Nat]
  BY DEF Idle
<1>8. cmd \in [mode : {"INIT", "NO_TARGET", "NORMAL_FOLLOW", "AMBIGUITY_HOLD",
                      "RECOVERY_YAW_ONLY", "HOVER"}, vx : Int, yaw : Int]
  BY DEF Zero
<1>9. hist \in [turned : Nat, attempts : Nat, session : Sessions \cup {NoSession}]
  BY DEF NoHist
<1> QED BY <1>1, <1>2, <1>3, <1>4, <1>5, <1>6, <1>7, <1>8, <1>9 DEF TypeOK

\* Every step keeps the types.
LEMMA TypeStep == TypeOK /\ [Next]_vars => TypeOK'
<1> SUFFICES ASSUME TypeOK, [Next]_vars PROVE TypeOK'
  OBVIOUS
<1> USE DEF TypeOK, NoTarget, NoStatus, NoSession
<1>1. ASSUME Revoke, now' = now
      PROVE  /\ target' \in Target \cup {NoTarget} /\ targetRx' \in (1 .. now') \cup {Null}
             /\ misordered' \in BOOLEAN /\ latestStamp' \in Nat \cup {Null}
             /\ trusted' \in [ex : Int, stamp : (1 .. now') \cup {Null}, generation : Nat \cup {Null}]
             /\ consumed' \in (1 .. now') \cup {Null}
             /\ recovery' \in [active : BOOLEAN, start : (1 .. now') \cup {Null},
                                update : (1 .. now') \cup {Null}, integrated : Nat]
             /\ cmd' \in [mode : {"INIT", "NO_TARGET", "NORMAL_FOLLOW", "AMBIGUITY_HOLD",
                                   "RECOVERY_YAW_ONLY", "HOVER"}, vx : Int, yaw : Int]
             /\ hist' \in [turned : Nat, attempts : Nat, session : Sessions \cup {NoSession}]
  BY <1>1 DEF Revoke, ClearTrustedHistory, NoHistory, Idle, NoHist, Zero
<1>2. ASSUME NEW s \in Statuses, OnStatusAccepted(s) PROVE TypeOK'
  <2>1. s \in Status /\ s.session \in Sessions /\ s.generation \in Nat
    BY MessageAssumption DEF Status
  <2>2. retired' \subseteq Sessions
    BY <1>2 DEF OnStatusAccepted
  <2>3. CASE Revoke
    BY <1>1, <1>2, <2>1, <2>2, <2>3 DEF OnStatusAccepted, timeVars
  <2>4. CASE UNCHANGED <<targetVars, historyVars, cmd, hist>>
    BY <1>2, <2>1, <2>2, <2>4 DEF OnStatusAccepted, timeVars, targetVars, historyVars
  <2> QED BY <1>2, <2>3, <2>4 DEF OnStatusAccepted
<1>3. ASSUME NEW s \in Statuses, OnStatusRejected(s) PROVE TypeOK'
  BY <1>1, <1>3 DEF OnStatusRejected, timeVars, epochVars
<1>4. CASE OnStatusUnparsed
  BY <1>1, <1>4 DEF OnStatusUnparsed, timeVars, epochVars
<1>5. ASSUME NEW t \in Targets, OnTarget(t) PROVE TypeOK'
  <2>1. t \in Target /\ t.stamp \in Nat
    BY MessageAssumption DEF Target
  <2>2. misordered' \in BOOLEAN /\ latestStamp' \in Nat \cup {Null}
    BY <1>5, <2>1 DEF OnTarget, Misordered
  <2> QED BY <1>5, <2>1, <2>2 DEF OnTarget, timeVars, statusVars, epochVars, historyVars
<1>6. ASSUME Timer,
             /\ trusted' \in [ex : Int, stamp : (1 .. now') \cup {Null}, generation : Nat \cup {Null}]
             /\ consumed' \in (1 .. now') \cup {Null}
             /\ recovery' \in [active : BOOLEAN, start : (1 .. now') \cup {Null},
                                update : (1 .. now') \cup {Null}, integrated : Nat]
             /\ cmd' \in [mode : {"INIT", "NO_TARGET", "NORMAL_FOLLOW", "AMBIGUITY_HOLD",
                                   "RECOVERY_YAW_ONLY", "HOVER"}, vx : Int, yaw : Int]
             /\ hist' \in [turned : Nat, attempts : Nat, session : Sessions \cup {NoSession}]
      PROVE  TypeOK'
  BY <1>6 DEF Timer, targetVars, statusVars, epochVars
<1>7. CASE TimerNoTarget
  BY <1>6, <1>7 DEF TimerNoTarget, Timer, historyVars, Zero
<1>8. CASE TimerFollow
  <2>1. status \in Status /\ target \in Target
    BY <1>8 DEF TimerFollow, MayFollow, StatusFresh
  <2>2. YawSign * target.ex \in Int
    BY <2>1 DEF Target, YawSign
  <2>3. cmd'.vx \in Int /\ cmd'.yaw \in Int
    <3>1. /\ target.rangeErr \in Int
          /\ MaxVx \in Int /\ MaxYaw \in Int /\ -MaxVx \in Int /\ -MaxYaw \in Int
          /\ MaxDeltaVx \in Int /\ MaxDeltaYaw \in Int
      BY <2>1, BoundAssumption DEF Target
    <3>2. /\ Clamp(target.rangeErr, -MaxVx, MaxVx) \in Int
          /\ Clamp(YawSign * target.ex, -MaxYaw, MaxYaw) \in Int
      BY <2>2, <3>1, ClampType
    <3>3. cmd.vx \in Int /\ cmd.yaw \in Int
      OBVIOUS
    <3> QED BY <1>8, <3>1, <3>2, <3>3, SlewType DEF TimerFollow
  <2>4. cmd' \in [mode : {"INIT", "NO_TARGET", "NORMAL_FOLLOW", "AMBIGUITY_HOLD",
                          "RECOVERY_YAW_ONLY", "HOVER"}, vx : Int, yaw : Int]
    BY <1>8, <2>3 DEF TimerFollow
  <2>5. trusted' \in [ex : Int, stamp : (1 .. now') \cup {Null}, generation : Nat \cup {Null}]
    BY <1>8, <2>1 DEF TimerFollow, Timer, Target, Status
  <2>6. hist' \in [turned : Nat, attempts : Nat, session : Sessions \cup {NoSession}]
    BY <1>8, <2>1 DEF TimerFollow, NoHist, Status
  <2>7. recovery' = Idle /\ consumed' = Null /\ Timer
    BY <1>8 DEF TimerFollow
  <2> QED BY <1>6, <2>4, <2>5, <2>6, <2>7 DEF Idle
<1>9. CASE TimerAmbiguityHold
  BY <1>6, <1>9 DEF TimerAmbiguityHold, Timer, Idle, Zero
<1>10. CASE TimerBeginRecovery
  <2>1. consumed' \in (1 .. now') \cup {Null}
    BY <1>10 DEF TimerBeginRecovery, Timer, ConsumeHistory
  <2>2. hist' \in [turned : Nat, attempts : Nat, session : Sessions \cup {NoSession}]
    <3>1. hist' = [turned |-> 0, attempts |-> hist.attempts + 1, session |-> hist.session]
      BY <1>10 DEF TimerBeginRecovery
    <3>2. hist.attempts + 1 \in Nat /\ hist.session \in Sessions \cup {NoSession}
      OBVIOUS
    <3> QED BY <3>1, <3>2
  <2> QED BY <1>6, <1>10, <2>1, <2>2 DEF TimerBeginRecovery, Timer, Zero
<1>11. CASE TimerTurn
  <2>1. Dt \in Nat /\ RecoveryYaw \in Int /\ Abs(RecoveryYaw) \in Nat
    BY RecoveryTypes, AbsType
  <2>2. Abs(RecoveryYaw) * Dt \in Nat
    BY <2>1
  <2>3. recovery' \in [active : BOOLEAN, start : (1 .. now') \cup {Null},
                      update : (1 .. now') \cup {Null}, integrated : Nat]
    <3>1. recovery.integrated + Abs(RecoveryYaw) * Dt \in Nat
      BY <2>2
    <3>2. /\ recovery' = [recovery EXCEPT !.update = now,
                                          !.integrated = @ + Abs(RecoveryYaw) * Dt]
          /\ recovery \in [active : BOOLEAN, start : (1 .. now) \cup {Null},
                           update : (1 .. now) \cup {Null}, integrated : Nat]
          /\ now' = now /\ now \in 1 .. now
      BY <1>11, BoundAssumption DEF TimerTurn, Timer
    <3> HIDE DEF TypeOK
    <3> QED BY <3>1, <3>2
  <2>4. cmd' \in [mode : {"INIT", "NO_TARGET", "NORMAL_FOLLOW", "AMBIGUITY_HOLD",
                          "RECOVERY_YAW_ONLY", "HOVER"}, vx : Int, yaw : Int]
    BY <1>11, <2>1 DEF TimerTurn
  <2> QED BY <1>6, <1>11, <2>3, <2>4 DEF TimerTurn, Timer
<1>12. CASE TimerExhausted
  BY <1>6, <1>12 DEF TimerExhausted, Timer, Idle, Zero
<1>13. CASE TimerHover
  BY <1>6, <1>13 DEF TimerHover, Timer, ConsumeHistory, Idle, Zero
<1>14. CASE Shutdown
  <2>1. cmd' \in [mode : {"INIT", "NO_TARGET", "NORMAL_FOLLOW", "AMBIGUITY_HOLD",
                          "RECOVERY_YAW_ONLY", "HOVER"}, vx : Int, yaw : Int]
    BY <1>14 DEF Shutdown, Zero
  <2>2. running' \in BOOLEAN /\ hist' = hist
    BY <1>14 DEF Shutdown
  <2> QED BY <1>14, <2>1, <2>2 DEF Shutdown, timeVars, targetVars, statusVars, epochVars, historyVars
<1>15. CASE Advance
  <2>1. now' \in 1 .. MaxTime /\ now' = now + 1
    BY <1>15, BoundAssumption DEF Advance
  <2>2. hist' \in [turned : Nat, attempts : Nat, session : Sessions \cup {NoSession}]
    BY <1>15, AbsType DEF Advance
  <2> QED BY <1>15, <2>1, <2>2 DEF Advance, targetVars, statusVars, epochVars, historyVars, Null
<1>16. CASE UNCHANGED vars
  BY <1>16 DEF vars, timeVars, targetVars, statusVars, epochVars, historyVars
<1> QED
  BY <1>2, <1>3, <1>4, <1>5, <1>7, <1>8, <1>9, <1>10, <1>11, <1>12, <1>13, <1>14, <1>15, <1>16
  DEF Next, OnStatus, OnTimer

\* Every variable of the controller stays in its type: no stamp of the future
\* is ever stored as the node's own, and the yaw charged is never negative.
THEOREM TypeCorrect == Spec => []TypeOK
<1> QED BY TypeInit, TypeStep, PTL DEF Spec

-----------------------------------------------------------------------------
(* The inductive invariant, part by part.                                  *)

\* Revocation in one line, for the three callbacks that revoke.
LEMMA RevokeEffect ==
  ASSUME Revoke
  PROVE  /\ trusted' = NoHistory /\ consumed' = Null /\ recovery' = Idle /\ hist' = NoHist
         /\ target' = NoTarget /\ cmd' = Zero("HOVER") /\ latestStamp' = latestStamp
BY DEF Revoke, ClearTrustedHistory

\* An accepted status moves to its epoch; the session it replaces is retired.
LEMMA EpochStep == IInv /\ [Next]_vars => EpochConsistent'
<1> SUFFICES ASSUME IInv, [Next]_vars PROVE EpochConsistent'
  OBVIOUS
<1> USE DEF EpochConsistent
<1>1. EpochConsistent /\ TypeOK
  BY DEF IInv
<1>2. ASSUME NEW s \in Statuses, OnStatusAccepted(s) PROVE EpochConsistent'
  <2>1. s.session \in Sessions /\ s.session # NoSession
    BY MessageAssumption, SessionAssumption DEF Status, NoSession
  <2>2. /\ status' = s /\ session' = s.session /\ generation' = s.generation
        /\ retired' = IF session # NoSession /\ s.session # session
                      THEN retired \cup {session} ELSE retired
    BY <1>2 DEF OnStatusAccepted
  <2>3. session = NoSession \/ s.session = session \/ s.session \notin retired
    BY <1>2 DEF OnStatusAccepted, EpochAccepted
  <2>4. session' \notin retired'
    BY <1>1, <2>1, <2>2, <2>3
  <2> QED BY <2>1, <2>2, <2>4
<1>3. ASSUME NEW s \in Statuses, OnStatusRejected(s) PROVE EpochConsistent'
  BY <1>1, <1>3 DEF OnStatusRejected, epochVars
<1>4. CASE OnStatusUnparsed
  BY <1>1, <1>4 DEF OnStatusUnparsed, epochVars
<1>5. ASSUME NEW t \in Targets, OnTarget(t) PROVE EpochConsistent'
  BY <1>1, <1>5 DEF OnTarget, epochVars, statusVars
<1>6. CASE OnTimer
  BY <1>1, <1>6 DEF OnTimer, TimerNoTarget, TimerFollow, TimerAmbiguityHold, TimerHover,
     TimerBeginRecovery, TimerTurn, TimerExhausted, Timer, epochVars, statusVars
<1>7. CASE Shutdown \/ Advance \/ UNCHANGED vars
  BY <1>1, <1>7 DEF Shutdown, Advance, vars, epochVars, statusVars
<1> QED BY <1>2, <1>3, <1>4, <1>5, <1>6, <1>7 DEF Next, OnStatus

\* Whatever drops the target drops the trusted history and stops.
LEMMA NoTargetStep == IInv /\ [Next]_vars => NoTargetNoMotion'
<1> SUFFICES ASSUME IInv, [Next]_vars PROVE NoTargetNoMotion'
  OBVIOUS
<1> USE DEF NoTargetNoMotion
<1>1. NoTargetNoMotion
  BY DEF IInv
<1>2. CASE Revoke
  BY <1>2, RevokeEffect DEF Zero
<1>3. CASE OnStatus \/ OnStatusUnparsed
  BY <1>1, <1>2, <1>3 DEF OnStatus, OnStatusAccepted, OnStatusRejected, OnStatusUnparsed,
     targetVars, historyVars
<1>4. ASSUME NEW t \in Targets, OnTarget(t) PROVE NoTargetNoMotion'
  <2>1. t.id \in Nat
    BY MessageAssumption DEF Target
  <2>2. t # NoTarget
    BY <2>1 DEF NoTarget, Null
  <2> QED BY <1>4, <2>2 DEF OnTarget, NoTarget
<1>5. CASE TimerNoTarget
  BY <1>1, <1>5 DEF TimerNoTarget, Timer, targetVars, historyVars, Zero
<1>6. CASE OnTimer /\ target # NoTarget
  BY <1>6 DEF OnTimer, TimerNoTarget, TimerFollow, TimerAmbiguityHold, TimerHover,
     TimerBeginRecovery, TimerTurn, TimerExhausted, Timer, targetVars
<1>7. CASE Shutdown
  BY <1>1, <1>7 DEF Shutdown, targetVars, historyVars, Zero
<1>8. CASE Advance \/ UNCHANGED vars
  BY <1>1, <1>8 DEF Advance, vars, targetVars, historyVars
<1> QED
  BY <1>3, <1>4, <1>5, <1>6, <1>7, <1>8 DEF Next, OnTimer, TimerNoTarget, TimerFollow,
     TimerAmbiguityHold, TimerHover, TimerBeginRecovery, TimerTurn, TimerExhausted

\* Following takes the epoch of the status it follows by; every change of
\* epoch forgets the observation.
LEMMA TrustedStep == IInv /\ [Next]_vars => TrustedHistoryOfCurrentEpoch'
<1> SUFFICES ASSUME IInv, [Next]_vars PROVE TrustedHistoryOfCurrentEpoch'
  OBVIOUS
<1> USE DEF TrustedHistoryOfCurrentEpoch
<1>1. TrustedHistoryOfCurrentEpoch /\ EpochConsistent
  BY DEF IInv
<1>2. CASE Revoke
  BY <1>2, RevokeEffect
<1>3. ASSUME NEW s \in Statuses, OnStatusAccepted(s) PROVE TrustedHistoryOfCurrentEpoch'
  <2>1. CASE EpochReset(s)
    BY <1>2, <1>3, <2>1 DEF OnStatusAccepted
  <2>2. CASE ~EpochReset(s)
    BY <1>1, <1>2, <1>3, <2>2 DEF OnStatusAccepted, EpochReset, historyVars
  <2> QED BY <2>1, <2>2
<1>4. ASSUME NEW s \in Statuses, OnStatusRejected(s) PROVE TrustedHistoryOfCurrentEpoch'
  BY <1>2, <1>4 DEF OnStatusRejected
<1>5. CASE OnStatusUnparsed
  BY <1>2, <1>5 DEF OnStatusUnparsed
<1>6. CASE TimerFollow
  <2>1. status # NoStatus
    BY <1>6 DEF TimerFollow, MayFollow, StatusFresh
  <2>2. trusted'.generation = status.generation /\ hist'.session = status.session
    BY <1>6 DEF TimerFollow, NoHist
  <2> QED BY <1>1, <1>6, <2>1, <2>2 DEF TimerFollow, Timer, EpochConsistent, epochVars
<1>7. CASE OnTimer /\ ~TimerFollow
  <2>1. UNCHANGED <<trusted, epochVars>>
    BY <1>7 DEF OnTimer, TimerNoTarget, TimerAmbiguityHold, TimerHover, TimerBeginRecovery,
       TimerTurn, TimerExhausted, Timer, historyVars
  <2>2. hist'.session = hist.session
    BY <1>7 DEF OnTimer, TimerNoTarget, TimerAmbiguityHold, TimerHover, TimerBeginRecovery,
       TimerTurn, TimerExhausted, IInv, TypeOK
  <2> QED BY <1>1, <2>1, <2>2 DEF epochVars
<1>8. CASE Advance
  <2>1. hist'.session = hist.session
    BY <1>8 DEF Advance, IInv, TypeOK
  <2> QED BY <1>1, <1>8, <2>1 DEF Advance, historyVars, epochVars
<1>9. CASE Shutdown \/ UNCHANGED vars \/ \E t \in Targets : OnTarget(t)
  BY <1>1, <1>9 DEF Shutdown, OnTarget, vars, historyVars, epochVars
<1> QED BY <1>3, <1>4, <1>5, <1>6, <1>7, <1>8, <1>9 DEF Next, OnStatus

\* A second attempt would need an observation that is not spent, and only
\* following makes one.
LEMMA AttemptStep == IInv /\ [Next]_vars => AttemptSpent'
<1> SUFFICES ASSUME IInv, [Next]_vars PROVE AttemptSpent'
  OBVIOUS
<1> USE DEF AttemptSpent
<1>1. AttemptSpent /\ TypeOK
  BY DEF IInv
<1>2. CASE Revoke
  BY <1>2, RevokeEffect DEF NoHist, Idle
<1>3. CASE OnStatus \/ OnStatusUnparsed
  BY <1>1, <1>2, <1>3 DEF OnStatus, OnStatusAccepted, OnStatusRejected, OnStatusUnparsed,
     historyVars
<1>4. CASE TimerFollow
  BY <1>4 DEF TimerFollow, NoHist, Idle
<1>5. CASE TimerBeginRecovery
  <2>1. trusted # NoHistory
    BY <1>5 DEF TimerBeginRecovery, MayRecover, NoHistory
  <2>2. hist.attempts = 0
    BY <1>1, <1>5, <2>1 DEF TimerBeginRecovery, MayRecover, HistoryConsumed
  <2>3. hist'.attempts = 1
    BY <1>5, <2>2 DEF TimerBeginRecovery, TypeOK
  <2>4. consumed' = trusted.stamp /\ trusted' = trusted
    BY <1>5, <2>1 DEF TimerBeginRecovery, ConsumeHistory
  <2> QED BY <1>5, <2>1, <2>3, <2>4 DEF TimerBeginRecovery
<1>6. CASE TimerTurn
  <2>1. recovery.active /\ recovery'.active
    BY <1>1, <1>6 DEF TimerTurn, TypeOK
  <2>2. UNCHANGED <<trusted, consumed, hist>>
    BY <1>6 DEF TimerTurn
  <2> QED BY <1>1, <2>1, <2>2
<1>7. CASE TimerNoTarget \/ TimerAmbiguityHold \/ TimerHover \/ TimerExhausted
  <2>1. /\ trusted' = trusted /\ hist' = hist
        /\ consumed' \in {consumed, ConsumeHistory}
    BY <1>7 DEF TimerNoTarget, TimerAmbiguityHold, TimerHover, TimerExhausted, historyVars
  <2>2. recovery' \in {recovery, Idle}
    BY <1>7 DEF TimerNoTarget, TimerAmbiguityHold, TimerHover, TimerExhausted, historyVars
  <2> QED BY <1>1, <2>1, <2>2 DEF ConsumeHistory, Idle
<1>8. CASE Advance
  <2>1. hist'.attempts = hist.attempts
    BY <1>1, <1>8 DEF Advance, TypeOK
  <2> QED BY <1>1, <1>8, <2>1 DEF Advance, historyVars
<1>9. CASE Shutdown \/ UNCHANGED vars \/ \E t \in Targets : OnTarget(t)
  BY <1>1, <1>9 DEF Shutdown, OnTarget, vars, historyVars
<1> QED BY <1>3, <1>4, <1>5, <1>6, <1>7, <1>8, <1>9 DEF Next, OnTimer

\* Products and signs, the only nonlinear facts the recovery turn needs.
LEMMA SameSign ==
  /\ \A a, b \in Int : a >= 0 /\ b >= 0 => a * b >= 0
  /\ \A a, b \in Int : a <= 0 /\ b <= 0 => a * b >= 0
  /\ \A a, b \in Int : a > 0 /\ b < 0 => a * b < 0
  /\ \A a, b \in Int : a < 0 /\ b > 0 => a * b < 0
OBVIOUS

\* resolve_bounded_recovery_yaw never turns away from the side asked for.
LEMMA TurnTowards ==
  ASSUME TypeOK, trusted.ex # 0, cmd.yaw * YawSign * trusted.ex >= 0,
         RecoveryMagnitude >= 0
  PROVE  RecoveryYaw * YawSign * trusted.ex >= 0
<1> DEFINE asked == YawSign * Sign(trusted.ex) * RecoveryMagnitude
           desired == Clamp(asked, -MaxYaw, MaxYaw)
           candidate == Slew(desired, cmd.yaw, MaxDeltaYaw)
<1>1. /\ trusted.ex \in Int /\ cmd.yaw \in Int /\ RecoveryMagnitude \in Int
      /\ MaxYaw \in Nat /\ MaxDeltaYaw \in Nat
  BY RecoveryTypes, BoundAssumption DEF TypeOK
<1>2. RecoveryYaw = IF candidate * desired < 0 THEN 0 ELSE candidate
  BY DEF RecoveryYaw
<1>3. CASE YawSign * Sign(trusted.ex) = 1
  <2>1. cmd.yaw >= 0
    BY <1>1, <1>3, SameSign DEF YawSign, Sign
  <2>2. asked = RecoveryMagnitude
    BY <1>1, <1>3
  <2>3. desired \in Int /\ desired >= 0
    BY <1>1, <2>2 DEF Clamp, Greater, Lesser
  <2>4. candidate \in Int /\ candidate >= 0
    BY <1>1, <2>1, <2>3 DEF Slew, Clamp, Greater, Lesser
  <2>5. RecoveryYaw \in Int /\ RecoveryYaw >= 0
    BY <1>2, <2>4
  <2>6. \/ YawSign = 1 /\ trusted.ex > 0
        \/ YawSign = -1 /\ trusted.ex < 0
    BY <1>1, <1>3 DEF YawSign, Sign
  <2>7. CASE YawSign = 1 /\ trusted.ex > 0
    BY <1>1, <2>5, <2>7, SameSign
  <2>8. CASE YawSign = -1 /\ trusted.ex < 0
    <3>1. RecoveryYaw * YawSign <= 0 /\ RecoveryYaw * YawSign \in Int
      BY <2>5, <2>8
    <3> QED BY <1>1, <2>8, <3>1, SameSign
  <2> QED BY <2>6, <2>7, <2>8
<1>4. CASE YawSign * Sign(trusted.ex) = -1
  <2>1. cmd.yaw <= 0
    BY <1>1, <1>4, SameSign DEF YawSign, Sign
  <2>2. asked = -RecoveryMagnitude
    BY <1>1, <1>4
  <2>3. desired \in Int /\ desired <= 0
    BY <1>1, <2>2 DEF Clamp, Greater, Lesser
  <2>4. candidate \in Int /\ candidate <= 0
    BY <1>1, <2>1, <2>3 DEF Slew, Clamp, Greater, Lesser
  <2>5. RecoveryYaw \in Int /\ RecoveryYaw <= 0
    BY <1>2, <2>4
  <2>6. \/ YawSign = 1 /\ trusted.ex < 0
        \/ YawSign = -1 /\ trusted.ex > 0
    BY <1>1, <1>4 DEF YawSign, Sign
  <2>7. CASE YawSign = 1 /\ trusted.ex < 0
    BY <1>1, <2>5, <2>7, SameSign
  <2>8. CASE YawSign = -1 /\ trusted.ex > 0
    <3>1. RecoveryYaw * YawSign >= 0 /\ RecoveryYaw * YawSign \in Int
      BY <2>5, <2>8
    <3> QED BY <1>1, <2>8, <3>1, SameSign
  <2> QED BY <2>6, <2>7, <2>8
<1> QED BY <1>3, <1>4 DEF YawSign, Sign

\* Recovery never translates, never turns away, never overdraws its budget.
LEMMA RecoveryStep == IInv /\ [Next]_vars => RecoveryIsYawOnly'
<1> SUFFICES ASSUME IInv, [Next]_vars PROVE RecoveryIsYawOnly'
  OBVIOUS
<1> USE DEF RecoveryIsYawOnly
<1>1. RecoveryIsYawOnly /\ TypeOK /\ NoTargetNoMotion /\ AttemptSpent
  BY DEF IInv
<1>2. CASE Revoke
  BY <1>2, RevokeEffect DEF Idle, Zero
<1>3. CASE OnStatus \/ OnStatusUnparsed
  BY <1>1, <1>2, <1>3 DEF OnStatus, OnStatusAccepted, OnStatusRejected, OnStatusUnparsed,
     historyVars
<1>4. CASE TimerNoTarget
  BY <1>1, <1>4 DEF TimerNoTarget, Timer, NoTargetNoMotion, historyVars, Idle, Zero
<1>5. CASE TimerFollow \/ TimerAmbiguityHold \/ TimerHover \/ TimerExhausted
  BY <1>5 DEF TimerFollow, TimerAmbiguityHold, TimerHover, TimerExhausted, Idle, Zero
<1>6. CASE TimerBeginRecovery
  <2>1. trusted.ex \in Int /\ RecoveryBudget \in Nat
    BY <1>1, BoundAssumption DEF TypeOK
  <2>2. /\ recovery'.active /\ cmd'.mode = "RECOVERY_YAW_ONLY"
        /\ cmd'.vx = 0 /\ cmd'.yaw = 0 /\ recovery'.integrated = 0 /\ trusted' = trusted
    BY <1>6 DEF TimerBeginRecovery, Zero
  <2>3. cmd'.yaw * YawSign' * trusted'.ex = 0
    BY <2>1, <2>2 DEF YawSign
  <2> QED BY <2>1, <2>2, <2>3
<1>7. CASE TimerTurn
  <2>1. /\ running /\ recovery.active /\ MayRecover /\ ~BudgetExhausted
        /\ recovery' = [recovery EXCEPT !.update = now,
                                       !.integrated = @ + Abs(RecoveryYaw) * Dt]
        /\ cmd' = [mode |-> "RECOVERY_YAW_ONLY", vx |-> 0, yaw |-> RecoveryYaw]
        /\ trusted' = trusted
    BY <1>7 DEF TimerTurn, Timer
  <2>2. /\ Dt \in Nat /\ Remaining \in Nat /\ RecoveryMagnitude \in Int /\ RecoveryYaw \in Int
        /\ Abs(RecoveryYaw) * Dt \in Nat
    BY <1>1, RecoveryTypes, AbsType
  <2>3. recovery'.active /\ recovery'.integrated = recovery.integrated + Abs(RecoveryYaw) * Dt
    BY <1>1, <2>1 DEF TypeOK
  <2>4. recovery'.integrated <= RecoveryBudget
    <3>1. Abs(RecoveryYaw) * Dt <= Remaining
      BY <2>1, <2>2 DEF BudgetExhausted
    <3>2. Remaining = RecoveryBudget - recovery.integrated
      BY <1>1, <2>1, BoundAssumption DEF Remaining, Greater, TypeOK
    <3> QED BY <1>1, <2>2, <2>3, <3>1, <3>2, BoundAssumption DEF TypeOK
  <2>5. RecoveryMagnitude >= 0
    <3>1. CASE Dt > 0
      <4>1. Remaining \div Dt >= 0 /\ Remaining \div Dt \in Int
        BY <2>2, <3>1
      <4> QED BY <3>1, <4>1, BoundAssumption DEF RecoveryMagnitude, Lesser
    <3>2. CASE ~(Dt > 0)
      BY <3>2, BoundAssumption DEF RecoveryMagnitude
    <3> QED BY <3>1, <3>2
  <2>6. RecoveryYaw * YawSign * trusted.ex >= 0
    BY <1>1, <2>1, <2>5, TurnTowards DEF MayRecover
  <2> QED BY <2>1, <2>3, <2>4, <2>6 DEF YawSign
<1>8. CASE Shutdown
  BY <1>8 DEF Shutdown
<1>9. CASE Advance \/ UNCHANGED vars \/ \E t \in Targets : OnTarget(t)
  BY <1>1, <1>9 DEF Advance, OnTarget, vars, historyVars, YawSign
<1> QED BY <1>3, <1>4, <1>5, <1>6, <1>7, <1>8, <1>9 DEF Next, OnTimer

\* A timer callback re-establishes every limit at its own time; the others
\* leave lastTimer alone.
LEMMA TimedStep == IInv /\ [Next]_vars => TimedByLastTick'
<1> SUFFICES ASSUME IInv, [Next]_vars PROVE TimedByLastTick'
  OBVIOUS
<1> USE DEF TimedByLastTick
<1>1. TimedByLastTick /\ TypeOK
  BY DEF IInv
<1>2. CASE Revoke /\ UNCHANGED timeVars
  BY <1>1, <1>2, RevokeEffect DEF timeVars, Idle, Zero
<1>3. ASSUME NEW s \in Statuses, OnStatusAccepted(s), ~Revoke PROVE TimedByLastTick'
  <2>1. UNCHANGED <<timeVars, targetVars, historyVars, cmd, running>> /\ statusRx' = now
    BY <1>3 DEF OnStatusAccepted
  <2>2. lastTimer - now <= StaleTimeout
    BY <1>1, BoundAssumption DEF TypeOK
  <2> QED BY <1>1, <2>1, <2>2 DEF timeVars, targetVars, historyVars
<1>4. CASE OnStatus \/ OnStatusUnparsed
  BY <1>2, <1>3, <1>4 DEF OnStatus, OnStatusAccepted, OnStatusRejected, OnStatusUnparsed
<1>5. ASSUME NEW t \in Targets, OnTarget(t) PROVE TimedByLastTick'
  <2>1. t.stamp \in Nat /\ latestStamp \in Int /\ lastTimer \in Int /\ StaleTimeout \in Int
    BY <1>1, MessageAssumption, BoundAssumption DEF Target, TypeOK, Null
  <2>2. /\ latestStamp' = IF t.stamp > 0 /\ t.stamp > latestStamp
                          THEN t.stamp ELSE latestStamp
        /\ target' = t
        /\ UNCHANGED <<timeVars, statusVars, historyVars, cmd, running>>
    BY <1>5 DEF OnTarget
  <2>3. latestStamp' \in Int /\ latestStamp' >= latestStamp
        /\ (t.stamp > 0 => t.stamp <= latestStamp')
    BY <2>1, <2>2
  <2>4. lastTimer - latestStamp <= StaleTimeout => lastTimer - latestStamp' <= StaleTimeout
    <3>1. \A a, b, c, d \in Int : b <= c /\ a - b <= d => a - c <= d
      OBVIOUS
    <3> QED BY <2>1, <2>3, <3>1
  <2> QED BY <1>1, <2>2, <2>3, <2>4 DEF timeVars, statusVars, historyVars
<1>6. ASSUME Timer,
             running /\ recovery'.active =>
               /\ now - recovery'.start < RecoveryMaxDuration
               /\ now - trusted'.stamp <= TrustedMaxAge,
             running /\ cmd'.mode = "NORMAL_FOLLOW" =>
               /\ now - statusRx <= StaleTimeout
               /\ now - latestStamp <= StaleTimeout
      PROVE  TimedByLastTick'
  <2>1. now' = now /\ lastTimer' = now /\ running' = running
        /\ UNCHANGED <<targetVars, statusVars>>
    BY <1>6 DEF Timer
  <2>2. now - now <= TickMax
    BY <1>1, BoundAssumption DEF TypeOK
  <2> QED BY <1>1, <1>6, <2>1, <2>2 DEF targetVars, statusVars
<1>7. CASE TimerNoTarget
  <2>1. recovery = Idle
    BY <1>7 DEF TimerNoTarget, IInv, NoTargetNoMotion
  <2> QED BY <1>6, <1>7, <2>1 DEF TimerNoTarget, historyVars, Idle, Zero
<1>8. CASE TimerFollow
  <2>1. /\ now - statusRx <= StaleTimeout /\ now - target.stamp <= StaleTimeout
        /\ target.stamp > 0 /\ target # NoTarget
    BY <1>8 DEF TimerFollow, MayFollow, StatusFresh, TargetValid, Fresh
  <2>2. target.stamp <= latestStamp
    BY <1>1, <2>1
  <2>3. /\ now \in Int /\ target.stamp \in Int /\ latestStamp \in Int /\ StaleTimeout \in Int
    BY <1>1, <2>1, BoundAssumption DEF TypeOK, Target, Null
  <2>4. now - latestStamp <= StaleTimeout
    BY <2>1, <2>2, <2>3
  <2> QED BY <1>6, <1>8, <2>1, <2>4 DEF TimerFollow, Idle
<1>9. CASE TimerBeginRecovery
  <2>1. now - now < RecoveryMaxDuration
    BY <1>1, BoundAssumption DEF TypeOK
  <2> QED BY <1>6, <1>9, <2>1 DEF TimerBeginRecovery, MayRecover, TrustedAge, Zero
<1>10. CASE TimerTurn
  <2>1. recovery'.start = recovery.start /\ recovery.start \in Int /\ now \in Int
    BY <1>1, <1>10, BoundAssumption DEF TimerTurn, TypeOK, Null
  <2>2. now - recovery.start < RecoveryMaxDuration
    BY <1>10, <2>1, BoundAssumption DEF TimerTurn, MayRecover, Elapsed, Greater
  <2> QED BY <1>6, <1>10, <2>1, <2>2 DEF TimerTurn, MayRecover, TrustedAge
<1>11. CASE TimerAmbiguityHold \/ TimerHover \/ TimerExhausted
  BY <1>6, <1>11 DEF TimerAmbiguityHold, TimerHover, TimerExhausted, Idle, Zero
<1>12. CASE Shutdown
  BY <1>1, <1>12 DEF Shutdown, timeVars, targetVars
<1>13. CASE Advance
  <2>1. now' - lastTimer <= TickMax
    BY <1>1, <1>13, BoundAssumption DEF Advance, TypeOK
  <2> QED BY <1>1, <1>13, <2>1 DEF Advance, targetVars, statusVars, historyVars
<1>14. CASE UNCHANGED vars
  BY <1>1, <1>14 DEF vars, timeVars, targetVars, statusVars, historyVars
<1> QED
  BY <1>4, <1>5, <1>7, <1>8, <1>9, <1>10, <1>11, <1>12, <1>13, <1>14 DEF Next, OnTimer

\* Slew keeps a command between the previous one and the one asked for.
LEMMA SlewWithin ==
  ASSUME NEW x \in Int, NEW previous \in Int, NEW delta \in Nat, NEW limit \in Nat,
         Abs(previous) <= limit
  PROVE  LET asked == Clamp(x, -limit, limit)
             next  == Slew(asked, previous, delta)
         IN  Abs(next) <= limit /\ Abs(next - previous) <= delta
BY DEF Slew, Clamp, Greater, Lesser, Abs

\* A recovery turn is slewed from the command before it and saturated.
LEMMA TurnWithin ==
  ASSUME TypeOK, CommandWithinLimits
  PROVE  /\ Abs(RecoveryYaw) <= MaxYaw
         /\ RecoveryYaw = 0 \/ Abs(RecoveryYaw - cmd.yaw) <= MaxDeltaYaw
<1> DEFINE asked == YawSign * Sign(trusted.ex) * RecoveryMagnitude
           candidate == Slew(Clamp(asked, -MaxYaw, MaxYaw), cmd.yaw, MaxDeltaYaw)
<1>1. YawSign \in {1, -1} /\ Sign(trusted.ex) \in {1, -1} /\ RecoveryMagnitude \in Int
  BY RecoveryTypes DEF YawSign, Sign
<1>2. asked \in Int
  BY <1>1
<1>3. cmd.yaw \in Int /\ MaxYaw \in Nat /\ MaxDeltaYaw \in Nat /\ Abs(cmd.yaw) <= MaxYaw
  BY BoundAssumption DEF TypeOK, CommandWithinLimits
<1>4. Abs(candidate) <= MaxYaw /\ Abs(candidate - cmd.yaw) <= MaxDeltaYaw
  BY <1>2, <1>3, SlewWithin
<1>5. RecoveryYaw \in {0, candidate}
  BY DEF RecoveryYaw
<1> QED BY <1>3, <1>4, <1>5 DEF Abs

\* What one step does to the command.
LEMMA CommandStep ==
  ASSUME TypeOK, CommandWithinLimits, [Next]_vars
  PROVE  /\ CommandWithinLimits'
         /\ cmd'.vx = 0 \/ Abs(cmd'.vx - cmd.vx) <= MaxDeltaVx
         /\ cmd'.yaw = 0 \/ Abs(cmd'.yaw - cmd.yaw) <= MaxDeltaYaw
<1> USE DEF CommandWithinLimits
<1>1. /\ cmd.vx \in Int /\ cmd.yaw \in Int
      /\ MaxVx \in Nat /\ MaxYaw \in Nat /\ MaxDeltaVx \in Nat /\ MaxDeltaYaw \in Nat
  BY BoundAssumption DEF TypeOK
<1>2. CASE cmd'.vx = 0 /\ cmd'.yaw = 0
  BY <1>1, <1>2 DEF Abs
<1>3. CASE cmd' = cmd
  BY <1>1, <1>3 DEF Abs
<1>4. CASE TimerFollow
  <2>1. target.ex \in Int /\ target.rangeErr \in Int
    BY <1>4 DEF TimerFollow, TypeOK, Target
  <2>2. YawSign * target.ex \in Int
    BY <2>1 DEF YawSign
  <2>3. /\ cmd'.vx = Slew(Clamp(target.rangeErr, -MaxVx, MaxVx), cmd.vx, MaxDeltaVx)
        /\ cmd'.yaw = Slew(Clamp(YawSign * target.ex, -MaxYaw, MaxYaw), cmd.yaw, MaxDeltaYaw)
    BY <1>4 DEF TimerFollow
  <2> QED BY <1>1, <2>1, <2>2, <2>3, SlewWithin
<1>5. CASE TimerTurn
  <2>1. cmd'.vx = 0 /\ cmd'.yaw = RecoveryYaw
    BY <1>5 DEF TimerTurn
  <2> QED BY <1>1, <2>1, TurnWithin DEF Abs
<1>6. CASE Revoke
  BY <1>2, <1>6, RevokeEffect DEF Zero
<1>7. CASE OnStatus \/ OnStatusUnparsed
  BY <1>3, <1>6, <1>7 DEF OnStatus, OnStatusAccepted, OnStatusRejected, OnStatusUnparsed
<1>8. CASE OnTimer /\ ~TimerFollow /\ ~TimerTurn
  BY <1>2, <1>8 DEF OnTimer, TimerNoTarget, TimerAmbiguityHold, TimerHover,
     TimerBeginRecovery, TimerExhausted, Zero
<1>9. CASE Shutdown
  BY <1>2, <1>9 DEF Shutdown, Zero
<1>10. CASE Advance \/ UNCHANGED vars \/ \E t \in Targets : OnTarget(t)
  BY <1>3, <1>10 DEF Advance, OnTarget, vars
<1> QED BY <1>4, <1>5, <1>7, <1>8, <1>9, <1>10 DEF Next

-----------------------------------------------------------------------------
(* The safety properties, from the invariant.                              *)

\* The inductive invariant holds in every reachable state.
THEOREM Inductive == Spec => []IInv
<1>1. Init => IInv
  <2> SUFFICES ASSUME Init PROVE IInv
    OBVIOUS
  <2>1. TypeOK
    BY TypeInit
  <2>2. Abs(0) = 0 /\ 0 <= MaxVx /\ 0 <= MaxYaw
    BY BoundAssumption DEF Abs
  <2>3. now - lastTimer <= TickMax
    BY BoundAssumption DEF Init
  <2>4. session \notin retired /\ session = NoSession /\ retired = {}
    BY DEF Init
  <2> QED BY <2>1, <2>2, <2>3, <2>4
          DEF Init, IInv, NoTargetNoMotion, TrustedHistoryOfCurrentEpoch, RecoveryIsYawOnly,
              EpochConsistent, AttemptSpent, TimedByLastTick, CommandWithinLimits,
              Idle, NoHist, Zero
<1>2. IInv /\ [Next]_vars => IInv'
  BY TypeStep, NoTargetStep, TrustedStep, RecoveryStep, EpochStep, AttemptStep, TimedStep,
     CommandStep DEF IInv
<1> QED BY <1>1, <1>2, PTL DEF Spec

\* Without a target the controller neither moves nor remembers anything that
\* could make it move.
THEOREM NoTarget_NoMotion == Spec => []NoTargetNoMotion
<1>1. IInv => NoTargetNoMotion
  BY DEF IInv
<1> QED BY <1>1, Inductive, PTL

\* No trusted observation survives a change of session or generation.
THEOREM Trusted_Current == Spec => []TrustedHistoryOfCurrentEpoch
<1>1. IInv => TrustedHistoryOfCurrentEpoch
  BY DEF IInv
<1> QED BY <1>1, Inductive, PTL

\* One trusted observation authorises at most one recovery attempt.
THEOREM One_Attempt == Spec => []OneAttemptPerObservation
<1>1. IInv => OneAttemptPerObservation
  BY DEF IInv, AttemptSpent, OneAttemptPerObservation
<1> QED BY <1>1, Inductive, PTL

\* Recovery only yaws, towards the side last seen, within its budget.
THEOREM Recovery_Yaw_Only == Spec => []RecoveryIsYawOnly
<1>1. IInv => RecoveryIsYawOnly
  BY DEF IInv
<1> QED BY <1>1, Inductive, PTL

\* A recovery attempt ends by its duration and age limits, plus one tick.
THEOREM Recovery_Ends == Spec => []RecoveryEndsInTime
<1>1. IInv => RecoveryEndsInTime
  <2> SUFFICES ASSUME IInv, running, recovery.active PROVE RecoveryEndsInTime
    BY DEF RecoveryEndsInTime
  <2>1. /\ now \in Int /\ lastTimer \in Int /\ recovery.start \in Int /\ trusted.stamp \in Int
        /\ RecoveryMaxDuration \in Int /\ TrustedMaxAge \in Int /\ TickMax \in Int
    BY BoundAssumption DEF IInv, TypeOK, Null
  <2>2. /\ now - lastTimer <= TickMax
        /\ lastTimer - recovery.start < RecoveryMaxDuration
        /\ lastTimer - trusted.stamp <= TrustedMaxAge
    BY DEF IInv, TimedByLastTick
  <2> QED BY <2>1, <2>2 DEF RecoveryEndsInTime
<1> QED BY <1>1, Inductive, PTL

\* Following stops within StaleTimeout and one tick of the last status, and of
\* the newest image.
THEOREM Follow_Ends == Spec => []FollowEndsWhenInputsStop
<1>1. IInv => FollowEndsWhenInputsStop
  <2> SUFFICES ASSUME IInv, running, cmd.mode = "NORMAL_FOLLOW"
               PROVE  FollowEndsWhenInputsStop
    BY DEF FollowEndsWhenInputsStop
  <2>1. /\ now \in Int /\ lastTimer \in Int /\ statusRx \in Int /\ latestStamp \in Int
        /\ StaleTimeout \in Int /\ TickMax \in Int
    BY BoundAssumption DEF IInv, TypeOK, Null
  <2>2. /\ now - lastTimer <= TickMax
        /\ lastTimer - statusRx <= StaleTimeout
        /\ lastTimer - latestStamp <= StaleTimeout
    BY DEF IInv, TimedByLastTick
  <2> QED BY <2>1, <2>2 DEF FollowEndsWhenInputsStop
<1> QED BY <1>1, Inductive, PTL

\* Epochs only move forward, and every move drops the target and stops.
THEOREM Epochs_Forward == Spec => EpochsNeverReturn
<1> DEFINE Forward ==
      (session' # session \/ generation' # generation) =>
        /\ session' = session => generation' > generation
        /\ session' \notin retired
        /\ session' # session /\ session # NoSession => session \in retired'
        /\ target' = NoTarget /\ cmd' = Zero("HOVER")
<1>1. IInv /\ [Next]_vars => [Forward]_vars
  <2> SUFFICES ASSUME IInv, [Next]_vars, session' # session \/ generation' # generation
               PROVE  Forward
    OBVIOUS
  <2>1. PICK s \in Statuses : OnStatusAccepted(s)
    BY DEF Next, OnStatus, OnStatusRejected, OnStatusUnparsed, OnTarget, OnTimer,
       TimerNoTarget, TimerFollow, TimerAmbiguityHold, TimerHover, TimerBeginRecovery,
       TimerTurn, TimerExhausted, Timer, Shutdown, Advance, vars, epochVars
  <2>2. /\ s.session \in Sessions /\ s.session # NoSession /\ s.generation \in Nat
        /\ session' = s.session /\ generation' = s.generation
    BY <2>1, MessageAssumption, SessionAssumption DEF OnStatusAccepted, Status, NoSession
  <2>3. EpochReset(s) /\ Revoke
    BY <2>1, <2>2 DEF OnStatusAccepted, EpochReset
  <2>4. target' = NoTarget /\ cmd' = Zero("HOVER")
    BY <2>3, RevokeEffect
  <2>5. session' \notin retired
    BY <2>1, <2>2 DEF OnStatusAccepted, EpochAccepted, IInv, EpochConsistent
  <2>6. session' = session => generation' > generation
    BY <2>1, <2>2 DEF OnStatusAccepted, EpochAccepted, IInv, TypeOK, Null
  <2>7. session' # session /\ session # NoSession => session \in retired'
    BY <2>1, <2>2 DEF OnStatusAccepted
  <2> QED BY <2>4, <2>5, <2>6, <2>7
<1> QED BY <1>1, Inductive, PTL DEF Spec, EpochsNeverReturn

\* No step makes an axis jump, or exceed its saturation.
THEOREM Command_Slewed == Spec => CommandIsSlewed
<1>1. IInv /\ [Next]_vars =>
        [ /\ cmd'.vx = 0 \/ Abs(cmd'.vx - cmd.vx) <= MaxDeltaVx
          /\ cmd'.yaw = 0 \/ Abs(cmd'.yaw - cmd.yaw) <= MaxDeltaYaw
          /\ Abs(cmd'.vx) <= MaxVx /\ Abs(cmd'.yaw) <= MaxYaw ]_vars
  BY CommandStep DEF IInv, CommandWithinLimits
<1> QED BY <1>1, Inductive, PTL DEF Spec, CommandIsSlewed

-----------------------------------------------------------------------------
(* The yaw budget, when the timer is strictly periodic.                    *)

\* A strictly periodic timer charges each turn for exactly the time it lasts.
LEMMA MeteredStep ==
  ASSUME TickMin = TickMax, IInv, TurnMetered, [Next]_vars
  PROVE  TurnMetered'
<1> USE DEF TurnMetered
<1>1. TypeOK /\ RecoveryIsYawOnly /\ NoTargetNoMotion /\ AttemptSpent
  BY DEF IInv
<1>2. /\ now \in Int /\ lastTimer \in Int /\ TickMax \in Nat /\ RecoveryBudget \in Nat
      /\ hist.turned \in Nat /\ cmd.yaw \in Int /\ now - lastTimer <= TickMax
      /\ recovery.integrated \in Nat
  BY BoundAssumption DEF IInv, TypeOK, TimedByLastTick
<1>3. CASE Revoke
  BY <1>2, <1>3, RevokeEffect DEF NoHist, Idle
<1>4. CASE OnStatus \/ OnStatusUnparsed
  BY <1>3, <1>4 DEF OnStatus, OnStatusAccepted, OnStatusRejected, OnStatusUnparsed,
     timeVars, historyVars, Abs
<1>5. CASE TimerBeginRecovery
  <2>1. /\ recovery'.update = now /\ lastTimer' = now /\ now' = now
        /\ recovery'.integrated = 0 /\ cmd'.yaw = 0 /\ hist'.turned = 0
    BY <1>1, <1>5 DEF TimerBeginRecovery, Timer, Zero, TypeOK
  <2> QED BY <1>2, <2>1 DEF Abs
<1>6. CASE TimerTurn
  <2>1. /\ running /\ recovery.active /\ lastTimer' = now /\ now' = now
        /\ now - lastTimer = TickMax /\ hist' = hist /\ cmd'.yaw = RecoveryYaw
    BY <1>2, <1>6 DEF TimerTurn, Timer
  <2>2. recovery'.update = now /\ recovery'.integrated = recovery.integrated + Abs(RecoveryYaw) * Dt
    BY <1>1, <1>6 DEF TimerTurn, TypeOK
  <2>3. Dt = TickMax
    BY <1>2, <2>1 DEF Dt, Greater
  <2>4. RecoveryYaw \in Int /\ Abs(RecoveryYaw) \in Nat /\ Abs(cmd.yaw) \in Nat
    BY <1>1, <1>2, RecoveryTypes, AbsType
  <2>5. recovery.integrated = hist.turned
    BY <1>2, <2>1, <2>4
  <2>6. recovery'.integrated = hist.turned + Abs(RecoveryYaw) * TickMax
    BY <2>2, <2>3, <2>5
  <2>7. Abs(cmd'.yaw) * (TickMax - (now' - lastTimer')) = Abs(RecoveryYaw) * TickMax
    BY <1>2, <2>1, <2>4
  <2> QED BY <2>1, <2>2, <2>6, <2>7
<1>7. CASE OnTimer /\ ~TimerTurn /\ ~TimerBeginRecovery
  <2>1. hist'.turned \in {0, hist.turned}
    BY <1>7 DEF OnTimer, TimerNoTarget, TimerFollow, TimerAmbiguityHold, TimerHover,
       TimerExhausted, NoHist
  <2>2. ~recovery'.active
    BY <1>1, <1>7 DEF OnTimer, TimerNoTarget, TimerFollow, TimerAmbiguityHold, TimerHover,
       TimerExhausted, NoTargetNoMotion, historyVars, Idle
  <2> QED BY <1>2, <2>1, <2>2
<1>8. CASE Advance /\ recovery.active
  <2>1. /\ running /\ now' = now + 1 /\ lastTimer' = lastTimer /\ now - lastTimer < TickMax
        /\ recovery' = recovery /\ cmd' = cmd /\ running' = running
    BY <1>8 DEF Advance, historyVars
  <2>2. hist'.turned = hist.turned + Abs(cmd.yaw) /\ Abs(cmd.yaw) \in Nat
    BY <1>1, <1>2, <1>8, AbsType DEF Advance, TypeOK
  <2> DEFINE left == TickMax - (now - lastTimer)
             rest == TickMax - (now' - lastTimer')
  <2>3. left \in Nat /\ rest \in Nat /\ left = rest + 1
    BY <1>2, <2>1
  <2>4. Abs(cmd.yaw) * left = Abs(cmd.yaw) + Abs(cmd.yaw) * rest /\ Abs(cmd.yaw) * rest \in Nat
    <3> HIDE DEF left, rest
    <3> QED BY <2>2, <2>3
  <2>5. recovery.integrated = hist.turned + Abs(cmd.yaw) * left
    BY <1>8, <2>1
  <2>6. recovery.integrated = hist'.turned + Abs(cmd.yaw) * rest
    <3> HIDE DEF left, rest
    <3> QED BY <1>2, <2>2, <2>4, <2>5
  <2>7. recovery.integrated <= RecoveryBudget
    BY <1>1, <1>8, <2>1 DEF RecoveryIsYawOnly
  <2>8. hist'.turned <= RecoveryBudget
    <3> HIDE DEF left, rest
    <3> QED BY <1>2, <2>2, <2>4, <2>6, <2>7
  <2> QED BY <1>8, <2>1, <2>6, <2>8
<1>9. CASE Advance /\ ~recovery.active
  BY <1>9 DEF Advance, historyVars
<1>10. CASE Shutdown \/ UNCHANGED vars \/ \E t \in Targets : OnTarget(t)
  BY <1>10 DEF Shutdown, OnTarget, vars, timeVars, historyVars, Abs
<1> QED BY <1>4, <1>5, <1>6, <1>7, <1>8, <1>9, <1>10 DEF Next

\* If the timer is strictly periodic, one recovery attempt turns the aircraft
\* by no more than its budget.
THEOREM Turn_Within_Budget ==
  ASSUME TickMin = TickMax
  PROVE  Spec => []TurnWithinBudget
<1>1. Init => TurnMetered
  BY BoundAssumption DEF Init, TurnMetered, NoHist, Idle
<1>2. IInv /\ TurnMetered /\ [Next]_vars => TurnMetered'
  BY MeteredStep
<1>3. TurnMetered => TurnWithinBudget
  BY DEF TurnMetered, TurnWithinBudget
<1> QED BY <1>1, <1>2, <1>3, Inductive, PTL DEF Spec

-----------------------------------------------------------------------------
(* The controller implements the contract.                                 *)

Motion == CASE cmd.mode = "NORMAL_FOLLOW" -> "follow"
            [] cmd.mode = "RECOVERY_YAW_ONLY" -> "search"
            [] OTHER -> "hover"

Armed == trusted # NoHistory /\ consumed # trusted.stamp

\* Every step of the controller is a step of the contract or a stutter.
LEMMA ContractStep == IInv /\ [Next]_vars => [Contract!Next]_(Contract!vars)
<1> SUFFICES ASSUME IInv, [Next]_vars PROVE [Contract!Next]_(Contract!vars)
  OBVIOUS
<1> USE DEF Contract!vars
<1>1. CASE UNCHANGED <<session, generation, cmd, trusted, consumed>>
  BY <1>1
<1>2. ASSUME UNCHANGED <<session, generation>>, Motion' = "hover", Armed' \in {Armed, FALSE}
      PROVE  Contract!Hover
  BY <1>2 DEF Contract!Hover, Motion, Armed
<1>3. ASSUME Revoke PROVE Motion' = "hover" /\ Armed' = FALSE
  BY <1>3, RevokeEffect DEF Motion, Armed, Zero
<1>4. ASSUME NEW s \in Statuses, OnStatusAccepted(s), Revoke PROVE [Contract!Next]_(Contract!vars)
  <2>1. CASE UNCHANGED <<session, generation>>
    BY <1>2, <1>3, <1>4, <2>1 DEF Contract!Next
  <2>2. CASE ~UNCHANGED <<session, generation>>
    BY <1>3, <1>4, <2>2 DEF Contract!Next, Contract!NewEpoch, Motion, Armed
  <2> QED BY <2>1, <2>2
<1>5. ASSUME NEW s \in Statuses, OnStatusAccepted(s), ~Revoke
      PROVE  UNCHANGED <<session, generation, cmd, trusted, consumed>>
  BY <1>5 DEF OnStatusAccepted, EpochReset, historyVars
<1>6. ASSUME NEW s \in Statuses, OnStatusRejected(s) PROVE Contract!Hover
  BY <1>2, <1>3, <1>6 DEF OnStatusRejected, epochVars
<1>7. CASE OnStatusUnparsed
  BY <1>2, <1>3, <1>7 DEF OnStatusUnparsed, epochVars, Contract!Next
<1>8. CASE TimerFollow
  <2>1. UNCHANGED <<session, generation>> /\ cmd'.mode = "NORMAL_FOLLOW"
    BY <1>8 DEF TimerFollow, Timer, epochVars
  <2>2. trusted'.stamp = now /\ now # Null /\ consumed' = Null
    BY <1>8, BoundAssumption DEF TimerFollow, IInv, TypeOK, Null
  <2>3. trusted' # NoHistory /\ consumed' # trusted'.stamp
    BY <2>2 DEF NoHistory
  <2> QED BY <2>1, <2>3 DEF Contract!Next, Contract!Follow
<1>9. CASE TimerBeginRecovery
  <2>1. UNCHANGED <<session, generation>> /\ cmd'.mode = "RECOVERY_YAW_ONLY" /\ trusted' = trusted
    BY <1>9 DEF TimerBeginRecovery, Timer, epochVars, Zero
  <2>2. trusted # NoHistory /\ consumed # trusted.stamp /\ consumed' = trusted.stamp
    BY <1>9 DEF TimerBeginRecovery, MayRecover, HistoryConsumed, ConsumeHistory, NoHistory
  <2> QED BY <2>1, <2>2 DEF Contract!Next, Contract!Search
<1>10. CASE TimerTurn
  <2>1. cmd.mode = "RECOVERY_YAW_ONLY" /\ cmd'.mode = "RECOVERY_YAW_ONLY"
    BY <1>10 DEF TimerTurn, Timer, IInv, RecoveryIsYawOnly
  <2> QED BY <1>10, <2>1 DEF TimerTurn, Timer, epochVars
<1>11. CASE TimerNoTarget \/ TimerAmbiguityHold \/ TimerHover \/ TimerExhausted
  <2>1. UNCHANGED <<session, generation, trusted>> /\ Motion' = "hover"
    BY <1>11 DEF TimerNoTarget, TimerAmbiguityHold, TimerHover, TimerExhausted, Timer,
       epochVars, historyVars, Motion, Zero
  <2>2. consumed' \in {consumed, ConsumeHistory}
    BY <1>11 DEF TimerNoTarget, TimerAmbiguityHold, TimerHover, TimerExhausted, historyVars
  <2>3. Armed' \in {Armed, FALSE}
    BY <2>1, <2>2 DEF Armed, ConsumeHistory
  <2> QED BY <1>2, <2>1, <2>3 DEF Contract!Next
<1>12. CASE Shutdown
  BY <1>2, <1>12 DEF Shutdown, epochVars, historyVars, Motion, Armed, Zero, Contract!Next
<1>13. CASE Advance \/ UNCHANGED vars \/ \E t \in Targets : OnTarget(t)
  BY <1>1, <1>13 DEF Advance, OnTarget, vars, epochVars, historyVars
<1> QED
  BY <1>1, <1>4, <1>5, <1>6, <1>7, <1>8, <1>9, <1>10, <1>11, <1>12, <1>13
  DEF Next, OnStatus, OnTimer, Contract!Next

\* Whatever the messages and their order, the controller hovers, follows, or
\* searches once per trusted observation, and a new epoch disarms it.
THEOREM Implements == Spec => ContractSpec
<1>1. Init => Contract!Init
  BY DEF Init, Contract!Init, Zero
<1> QED BY <1>1, ContractStep, Inductive, PTL DEF Spec, ContractSpec, Contract!Spec
=============================================================================
