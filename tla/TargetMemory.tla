---------------------------- MODULE TargetMemory ----------------------------
(***************************************************************************)
(* TargetIdentityMemory (target_memory.py): the operator's selection, and  *)
(* one update per tracker message that accepts, puts on probation, rejects *)
(* or misses the selected person and then teaches, or does not teach, the  *)
(* appearance memories.                                                    *)
(*                                                                         *)
(* The node calls it from one thread, so a call is an action.  missed      *)
(* stops at the last value any decision distinguishes.  The variables of   *)
(* history are read by properties only.                                    *)
(***************************************************************************)
EXTENDS CandidateGates, MemoryContract

CONSTANT Scenes   \* what a tracker message may show, see CandidateGates

\* A message shows a track once.
ASSUME SceneAssumption ==
  \A scene \in Scenes :
    /\ IsFiniteSet(scene.seen)
    /\ \A c \in scene.seen :
         c.id \in TrackIds /\ c.look \in Looks \cup {None} /\ c.geo \in Geometries
    /\ \A c, d \in scene.seen : c.id = d.id => c = d

\* globalAfter is the last count of misses that a decision distinguishes.  There
\* is room for a negative, and it takes an observation (max(1, ...) in the code).
ASSUME ConfigAssumption ==
  /\ {Cfg.confirmFrames, Cfg.maxUncertain, Cfg.graceFrames, Cfg.globalAfter,
      Cfg.rankConfirm, Cfg.appearanceWeight, Cfg.galleryMax} \subseteq Nat
  /\ {Cfg.negativeMax, Cfg.negativeConfirm} \subseteq Nat \ {0}
  /\ Cfg.confirmFrames > 0
  /\ Cfg.globalAfter > Cfg.maxUncertain /\ Cfg.globalAfter > Cfg.graceFrames

VARIABLES
  out,      \* the last output: [state, visible, reacquired, candidate]
  history   \* [present, run, proven, lock], see Observe

vars == <<target, positive, negative, persistence, out, history>>

NoTarget      == [state |-> "NO_TARGET", id |-> NoId, missed |-> 0]
NoPersistence == [id |-> NoId, count |-> 0, evidence |-> FALSE]

Output(state, visible, reacquired, candidate) ==
  [state |-> state, visible |-> visible, reacquired |-> reacquired, candidate |-> candidate]

Init ==
  /\ target = NoTarget
  /\ positive = EmptyPositive /\ negative = EmptyNegative
  /\ persistence = NoPersistence
  /\ out = Output("NO_TARGET", FALSE, FALSE, NoId)
  /\ history = [present |-> FALSE, run |-> 0, proven |-> FALSE, lock |-> 0]

-----------------------------------------------------------------------------
(* History: whether the operator's track was in every message since its    *)
(* selection; for how many messages the last candidate has been on         *)
(* probation without a break, and whether the protected memory recognised  *)
(* it in one of them; for how many the lock was trusted without a break.   *)

UpTo(n, bound) == IF n > bound THEN bound ELSE n

Observe(scene, probation, proof, lock) ==
  LET continues == history.run > 0 /\ out'.candidate = out.candidate IN
  history' =
    [present |-> history.present /\ \E c \in scene.seen : c.id = positive.operator,
     run     |-> IF ~probation THEN 0 ELSE IF continues THEN UpTo(history.run + 1, Cfg.confirmFrames) ELSE 1,
     proven  |-> proof \/ (continues /\ history.proven),
     lock    |-> IF lock THEN UpTo(history.lock + 1, Cfg.negativeConfirm) ELSE 0]

-----------------------------------------------------------------------------
(* select and clear.                                                       *)

CarelessSelect(c) ==
  LET look == IF c.crop = "good" THEN c.look ELSE None IN
  /\ target' = [state |-> "LOCKED", id |-> c.id, missed |-> 0]
  /\ positive' = SelectOperator(c.id, look)
  /\ out' = Output("LOCKED", TRUE, FALSE, NoId)
  /\ history' = [present |-> TRUE, run |-> 0, proven |-> FALSE, lock |-> 0]
  /\ UNCHANGED <<negative, persistence>>

Select(c) ==
  LET look == IF c.crop = "good" THEN c.look ELSE None IN
  /\ target' = [state |-> "LOCKED", id |-> c.id, missed |-> 0]
  /\ positive' = SelectOperator(c.id, look)
  /\ negative' = EmptyNegative
  /\ persistence' = NoPersistence
  /\ out' = Output("LOCKED", TRUE, FALSE, NoId)
  /\ history' = [present |-> TRUE, run |-> 0, proven |-> FALSE, lock |-> 0]

Clear ==
  /\ target' = NoTarget
  /\ positive' = EmptyPositive /\ negative' = EmptyNegative
  /\ persistence' = NoPersistence
  /\ out' = Output("NO_TARGET", FALSE, FALSE, NoId)
  /\ history' = [present |-> FALSE, run |-> 0, proven |-> FALSE, lock |-> 0]

-----------------------------------------------------------------------------
(* update.                                                                 *)

\* What every update does to the memories before it decides.
Present(scene) ==
  ObservePresence(positive, \E c \in scene.seen : c.id = target.id)

CarelessMissed == IF target.missed >= Cfg.globalAfter THEN 1 ELSE target.missed + 1

Missed == IF target.missed >= Cfg.globalAfter THEN target.missed ELSE target.missed + 1

MissState == IF Missed <= Cfg.maxUncertain THEN "UNCERTAIN" ELSE "LOST"

Idle ==
  /\ target.state = "NO_TARGET"
  /\ out' = Output("NO_TARGET", FALSE, FALSE, NoId)
  /\ UNCHANGED <<target, positive, negative, persistence, history>>

\* No candidate, a candidate kept back, or one the gates reject.
Miss(scene, candidate) ==
  /\ target' = [target EXCEPT !.missed = Missed, !.state = MissState]
  /\ positive' = Present(scene)
  /\ negative' = GrowOlder(negative)
  /\ persistence' = NoPersistence
  /\ out' = Output(MissState, FALSE, FALSE, candidate)
  /\ Observe(scene, FALSE, FALSE, FALSE)

\* The candidate's own evidence for the history: the protected memory knows it.
Proof(p, c) == c.look # None /\ p.score.protected >= Cfg.switchSimilarity

\* A candidate on probation: the memory of the target stays as it was.
Probation(scene, p, c) ==
  /\ positive' = Present(scene)
  /\ negative' = DiscardPending(GrowOlder(negative))
  /\ persistence' =
       [id |-> p.id, count |-> Observed(p),
        evidence |-> \/ c.look # None /\ p.score.evaluated /\ p.score.app >= Cfg.minSimilarity
                     \/ persistence.id = p.id /\ persistence.evidence]
  /\ out' = Output("REACQUIRED", FALSE, TRUE, p.id)
  /\ Observe(scene, TRUE, Proof(p, c), FALSE)
  /\ UNCHANGED target

\* What an accepted track teaches the positive memory.
Taught(p, c, scene, blend) ==
  LET before     == Present(scene)
      reacquired == ~IsTarget(p) \/ LostIsh
      unbroken   == /\ before.anchor = None /\ before.operator = p.id
                    /\ before.lineage = p.id /\ before.supported
      supported  == p.score.source \in {"anchor", "gallery"} /\ p.score.app >= Cfg.switchSimilarity
      lineage    == IF reacquired /\ ~unbroken THEN BeginLineage(before, p.id, supported) ELSE before
  IN IF c.crop = "good" /\ c.look # None /\ ~p.score.ambiguous /\ ~p.score.hostile
     THEN Learn(lineage, p.id, c.look, blend)
     ELSE lineage

\* People beside a trusted lock who look like the target, but not too much.
Distractors(p, scene) ==
  LET Likeness(s) == IF s.protected > 0 THEN s.protected ELSE s.app
      kept == {s \in p.all :
                 LET c == CHOOSE x \in scene.seen : x.id = s.id IN
                 /\ s.id # p.id /\ s.allows /\ Max({s.distance, s.iou}) >= Cfg.negativeMinGeometry
                 /\ c.look # None /\ c.crop = "good"
                 /\ Likeness(s) >= Cfg.negativeCandidate
                 /\ Likeness(s) <= Cfg.negativeMaxPositive}
      ranked == InOrder(kept)
  IN [i \in DOMAIN ranked |-> (CHOOSE x \in scene.seen : x.id = ranked[i].id).look]

TrustedContinuity(p, c) ==
  /\ IsTarget(p) /\ target.state = "LOCKED"
  /\ positive'.trusted /\ c.crop = "good"

TaughtNegative(p, c, scene) ==
  LET older == GrowOlder(negative)
      clean == IF positive'.trusted /\ c.crop = "good" THEN Reconcile(older, c.look, p.id) ELSE older
  IN IF ~TrustedContinuity(p, c) THEN DiscardPending(clean)
     ELSE IF positive.anchor = None /\ positive.gallery = <<>> THEN ExpireCommitted(clean)
     ELSE LearnNegatives(ExpireCommitted(clean), Distractors(p, scene), p.id)

Accept(scene, p, c) ==
  /\ \E blend \in BOOLEAN : positive' = Taught(p, c, scene, blend)
  /\ negative' = TaughtNegative(p, c, scene)
  /\ persistence' = NoPersistence
  /\ target' = [state |-> "LOCKED", id |-> p.id, missed |-> 0]
  /\ out' = Output("LOCKED", TRUE, ~IsTarget(p) \/ LostIsh, p.id)
  /\ Observe(scene, FALSE, Proof(p, c), TrustedContinuity(p, c))

Decide(scene, p) ==
  LET c == CHOOSE x \in scene.seen : x.id = p.id IN
  IF Rejected(p, c, scene) THEN Miss(scene, p.id)
  ELSE IF Observed(p) < Required(p) THEN Probation(scene, p, c)
  ELSE Accept(scene, p, c)

Update(scene) ==
  /\ target.state # "NO_TARGET"
  /\ LET proposals == Proposed(scene) IN
     IF proposals = {} THEN Miss(scene, NoId)
     ELSE \E p \in proposals : Decide(scene, p)

Next ==
  \/ \E c \in UNION {scene.seen : scene \in Scenes} : Select(c)
  \/ Clear
  \/ Idle
  \/ \E scene \in Scenes : Update(scene)

Spec == Init /\ [][Next]_vars

-----------------------------------------------------------------------------
(* Properties.                                                             *)

TypeOK ==
  /\ target \in [state : {"NO_TARGET", "LOCKED", "UNCERTAIN", "LOST"},
                 id : TrackIds \cup {NoId}, missed : 0 .. Cfg.globalAfter]
  /\ positive.anchor \in Looks \cup {None} /\ Entries(positive.gallery) \subseteq Looks
  /\ Len(positive.gallery) <= Cfg.galleryMax
  /\ Len(negative.committed) <= Cfg.negativeMax /\ Len(negative.pending) <= Cfg.negativeMax
  /\ persistence \in [id : TrackIds \cup {NoId}, count : Nat, evidence : BOOLEAN]
  /\ out.state \in {"NO_TARGET", "LOCKED", "UNCERTAIN", "LOST", "REACQUIRED"}

\* The node's model of this memory is true: every update stays within the
\* contract that TimAuthority, and through it the controller, relies on.
Selects == out'.visible /\ out'.candidate = NoId
Abstract == [state |-> target.state, track |-> target.id]

KeepsContract ==
  [][\/ Selects \/ target'.state = "NO_TARGET"
     \/ <<Abstract', [state |-> out'.state, track |-> target'.id]>> \in Outcomes(Abstract, TrackIds)]_vars

\* A recovered or switched lock was preceded, message after message without a
\* break, by as many messages on probation of the very same track.
RecoveryIsConfirmed ==
  [][(out'.visible /\ out'.reacquired) =>
       /\ history.run >= Cfg.confirmFrames
       /\ out.candidate = target'.id]_vars

\* The lock moves to another track only if the operator's anchor or the
\* gallery recognised that track, now or while it was on this probation.
\* The adaptive prototype never moves the lock.
SwitchIsProven ==
  [][(out'.visible /\ out'.reacquired /\ target'.id # target.id) => history'.proven]_vars

\* After the selection the anchor is set at most once, from the operator's own
\* track, and only if no message since the selection came without that track.
AnchorIsOperators ==
  [][positive'.anchor \notin {positive.anchor, None} =>
       Selects \/ /\ positive.anchor = None /\ history'.present
                  /\ target'.id = positive.operator]_vars

\* Whatever may teach the gallery is the followed track, in a lineage the
\* operator or the protected memory vouched for.
TrustFollowsTarget ==
  positive.trusted =>
    positive.lineage = target.id /\ positive.supported /\ positive.anchor # None

\* A new negative was seen in consecutive messages, all of them under an
\* unbroken trusted lock on one track.
NegativesFromUnbrokenLock ==
  [][(\E e \in Entries(negative'.committed) :
        \A d \in Entries(negative.committed) : d.look # e.look) =>
       history'.lock >= Cfg.negativeConfirm]_vars

\* Negative evidence stands only beside the anchor it was measured against:
\* none outlives the selection it was learned in.
NegativesHaveAnAnchor ==
  negative # EmptyNegative => positive.anchor # None

\* What the memories hold fits together between two messages.
MemoryConsistent == TypeOK /\ TrustFollowsTarget /\ NegativesHaveAnAnchor
=============================================================================
