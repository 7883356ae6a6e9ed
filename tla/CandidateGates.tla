--------------------------- MODULE CandidateGates ---------------------------
(***************************************************************************)
(* How TIM-MARS judges the tracks of one tracker message against what it   *)
(* remembers (geometry_scoring.py, appearance_policy.py,                   *)
(* reacquisition_policy.py, candidate_safety_policy.py and the proposals   *)
(* of target_memory.py).  Nothing here changes state.                      *)
(*                                                                         *)
(* A scene is [seen, close]: the observed tracks above min_candidate_score *)
(* and whether they stand close together.  An observation is               *)
(* [id, look, crop, geo, failed]: the embedding attached to the track      *)
(* (None without one), whether its crop may teach the memories ("good"),   *)
(* may only be compared ("wide") or neither ("bad"), its geometry against  *)
(* the remembered box, and whether a demanded fresh challenge went         *)
(* unanswered.  The policies that the canonical configuration turns off    *)
(* (candidate belief, absence recovery, spatial gate, gallery consensus,   *)
(* development ablations) are left out.                                    *)
(***************************************************************************)
EXTENDS NegativeMemory

CONSTANTS
  TrackIds,    \* tracker ids
  Geometries,  \* names of geometries
  Geo          \* geometry -> [score, iou, distance, scale], in percent

VARIABLES
  target,      \* _m: [state, id, missed]
  positive,    \* _positive_appearance
  negative,    \* _hard_negative_memory
  persistence  \* _candidate_persistence: [id, count, evidence]

ASSUME GateAssumption ==
  /\ TrackIds \subseteq Nat \ {NoId}
  /\ Geo \in [Geometries -> [score : 0 .. 100, iou : 0 .. 100, distance : 0 .. 100, scale : 0 .. 100]]

LostIsh == target.state \in {"UNCERTAIN", "LOST"}
IsTarget(x) == x.id = target.id

\* The element every other one is no better than.
Top(S, Better(_, _)) == CHOOSE x \in S : \A y \in S \ {x} : Better(x, y)

-----------------------------------------------------------------------------
(* Scores.                                                                 *)

GeometryAllows(g) == g.iou > 0 \/ (g.distance >= 25 /\ g.scale >= 35)

Scored(c, g, useAppearance, allows, evaluated, support, hostile) ==
  LET used == useAppearance /\ evaluated /\ support.sim >= Cfg.minSimilarity
  IN [id |-> c.id, geo |-> g.score, iou |-> g.iou, distance |-> g.distance, scale |-> g.scale,
      ranking |-> 100 * g.score + (IF used THEN Cfg.appearanceWeight * support.sim ELSE 0),
      plausible |-> g.iou >= 5 \/ (g.distance >= 35 /\ g.scale >= 35),
      allows |-> allows, evaluated |-> evaluated, used |-> used, app |-> support.sim,
      source |-> support.source, anchor |-> support.anchor, protected |-> support.protected,
      ambiguous |-> FALSE,
      hostile |-> hostile >= Cfg.negativeReject /\ support.sim - hostile < Cfg.negativeMargin]

\* A look is compared with both memories.
Compared(c, g, useAppearance, allows, look) ==
  Scored(c, g, useAppearance, allows, look # None /\ HasAny(positive),
         Support(positive, look, ~IsTarget(c) \/ LostIsh), NegativeSim(negative, look))

ScoreOf(c, useAppearance, bypass) ==
  LET allows == bypass \/ GeometryAllows(Geo[c.geo])
  IN Compared(c, Geo[c.geo], useAppearance, allows, IF allows THEN c.look ELSE None)

\* Of equal scores the first one stands; here the one with the smaller id.
Ranks(a, b) == a.ranking > b.ranking \/ (a.ranking = b.ranking /\ a.id < b.id)

\* The scores of S, the best one first.
InOrder(S) ==
  [k \in 1 .. Cardinality(S) |->
     CHOOSE s \in S : Cardinality({t \in S : Ranks(t, s)}) = k - 1]

Ambiguous(scores, best) ==
  /\ ~IsTarget(best)
  /\ \E s \in scores \ {best} : best.ranking - s.ranking < 100 * Cfg.ambiguityMargin

\* Appearance is consulted after a loss, or when geometry alone cannot tell.
UseAppearance(scene) ==
  LET plain == {ScoreOf(c, FALSE, FALSE) : c \in scene.seen}
  IN HasAny(positive) /\ (LostIsh \/ Ambiguous(plain, Top(plain, Ranks)))

ScoresOf(scene) ==
  LET use == UseAppearance(scene) IN {ScoreOf(c, use, FALSE) : c \in scene.seen}

BestOf(scores) ==
  LET best == Top(scores, Ranks) IN [best EXCEPT !.ambiguous = Ambiguous(scores, best)]

HighestApp(scores) == Max({0} \cup {s.app : s \in scores})

\* Appearance alone authorizes another track.
Validates(s) == s.evaluated /\ s.app >= Cfg.switchSimilarity

-----------------------------------------------------------------------------
(* Proposals: [id, score, all, source, minimum].                           *)

Proposal(score, all, source, minimum) ==
  [id |-> score.id, score |-> score, all |-> all, source |-> source, minimum |-> minimum]

\* The target's own track, back within the grace, goes before any other.
ShortGap == target.missed <= Cfg.graceFrames /\ target.state \in {"LOCKED", "UNCERTAIN"}

SameIdFirst(scores) ==
  {Proposal(s, scores, "short_gap", Cfg.shortGapMinimum) :
     s \in {t \in scores : /\ IsTarget(t) /\ ShortGap /\ target.state = "UNCERTAIN"
                           /\ t.geo >= Cfg.shortGapMinimum}}

\* ... and while it is away for a moment, a newcomer is not even proposed.
SuppressNewId(scene, scores, best) ==
  /\ ShortGap
  /\ ~\E s \in scores : IsTarget(s)
  /\ ~best.ambiguous
  /\ best.geo >= Cfg.acceptLocked
  /\ \/ target.state = "UNCERTAIN"
     \/ /\ ~Validates(best)
        /\ \/ best.geo < Cfg.newIdAllow
           \/ scene.close /\ Cardinality(scene.seen) > 1 /\ best.geo < Cfg.groupRiskAllow

\* Long lost: any person in the image, by protected identity alone.
GlobalActive ==
  HasAny(positive) /\ target.state = "LOST" /\ target.missed >= Cfg.globalAfter

GlobalScores(scene) == {ScoreOf(c, TRUE, TRUE) : c \in scene.seen}

MoreAlike(a, b) ==
  \/ a.app > b.app
  \/ a.app = b.app /\ a.geo > b.geo
  \/ a.app = b.app /\ a.geo = b.geo /\ a.id < b.id

GlobalProposal(scene) ==
  LET scores == GlobalScores(scene)
      best   == Top(scores, MoreAlike)
      others == {s \in scores : s.id # best.id /\ s.evaluated}
  IN IF Validates(best) /\ best.app - HighestApp(others) >= Cfg.conservativeMargin /\ ~best.hostile
     THEN {Proposal(best, scores, "global", 0)}
     ELSE {}

\* After a loss, the plausible candidate that looks most like the target.
Enriched(scene, scores) ==
  {s \in scores :
     /\ s.geo >= Cfg.rankMinimum /\ s.distance >= Cfg.rankMinDistance /\ s.app >= Cfg.rankMinApp
     /\ ~ /\ target.state = "UNCERTAIN" /\ target.missed <= Cfg.graceFrames
          /\ ~IsTarget(s) /\ scene.close /\ Cardinality(scene.seen) > 1}

RecoversFirst(a, b) ==
  \/ a.app > b.app
  \/ a.app = b.app /\ a.distance > b.distance
  \/ a.app = b.app /\ a.distance = b.distance /\ a.scale > b.scale
  \/ a.app = b.app /\ a.distance = b.distance /\ a.scale = b.scale /\ Ranks(a, b)

RankProposal(scene, scores) ==
  LET enriched == Enriched(scene, scores)
      best == Top(enriched, RecoversFirst)
  IN IF /\ LostIsh /\ enriched # {}
        /\ best.app - HighestApp({s \in enriched : s.id # best.id}) >= Cfg.rankMargin
     THEN {Proposal([best EXCEPT !.evaluated = TRUE, !.used = TRUE], scores, "rank", Cfg.rankMinimum)}
     ELSE {}

NormalProposal(scores, best) ==
  LET base == IF target.state = "LOST" THEN Cfg.acceptLost ELSE Cfg.acceptLocked
  IN Proposal(best, scores, "normal", IF IsTarget(best) THEN base - Cfg.sameIdRelief ELSE base)

\* The order in which the proposals are tried.
Chosen(scene, scores, best) ==
  LET sameId == SameIdFirst(scores)
      rank   == RankProposal(scene, scores)
  IN IF sameId # {} THEN sameId
     ELSE IF SuppressNewId(scene, scores, best) THEN {}
     ELSE IF GlobalActive THEN GlobalProposal(scene)
     ELSE IF rank # {} THEN rank
     ELSE {NormalProposal(scores, best)}

WithBest(scores, best) == {IF s.id = best.id THEN best ELSE s : s \in scores}

\* The one proposal of an update; none when the update is a miss outright.
Proposed(scene) ==
  IF scene.seen = {} THEN {}
  ELSE LET scores == ScoresOf(scene)
           best   == BestOf(scores)
       IN Chosen(scene, WithBest(scores, best), best)

-----------------------------------------------------------------------------
(* The safety gates every proposal passes, whatever proposed it.           *)

\* Another plausible person stands next to the track.
Challenged(scene, id, scores) ==
  /\ scene.close
  /\ \E s \in scores : s.id # id /\ s.geo >= 10 /\ s.plausible

UnsupportedReturn(p, look) == IsTarget(p) /\ LostIsh /\ look = None

Hijack(p, scene) ==
  /\ IsTarget(p) /\ target.state = "LOCKED" /\ Challenged(scene, p.id, p.all)
  /\ ~(Validates(p.score) /\ ~p.score.hostile)

CarelessUnprovenSwitch(p, look) == ~IsTarget(p) /\ look # None /\ ~Validates(p.score)

\* A missing embedding is excused by evidence seen while the track was pending.
UnprovenSwitch(p, look) ==
  /\ ~IsTarget(p)
  /\ IF look = None THEN ~(persistence.id = p.id /\ persistence.evidence)
     ELSE ~Validates(p.score)

WeakGallery(p, crop) ==
  /\ (~IsTarget(p) \/ LostIsh) /\ p.score.source = "gallery"
  /\ \/ crop = "bad"
     \/ p.score.ambiguous
     \/ p.score.anchor < Cfg.galleryMinAnchor

\* Appearance that was used has to be high, and well above the next one.
Inconclusive(p) ==
  LET used == {s \in p.all : s.used /\ s.allows}
      next == IF Cardinality(used) > 1 THEN HighestApp(used \ {Top(used, LAMBDA a, b : a.app >= b.app)})
              ELSE 0
  IN p.score.used /\ (p.score.app < Cfg.conservativeMinimum \/ p.score.app - next < Cfg.conservativeMargin)

Hostile(p) == p.score.allows /\ p.score.hostile

Rejected(p, c, scene) ==
  \/ c.failed
  \/ p.score.geo < p.minimum
  \/ UnsupportedReturn(p, c.look)
  \/ Hijack(p, scene)
  \/ UnprovenSwitch(p, c.look)
  \/ p.score.ambiguous
  \/ Hostile(p)
  \/ WeakGallery(p, c.crop)
  \/ Inconclusive(p)

-----------------------------------------------------------------------------
(* Confirmation.                                                           *)

\* Observations a proposal needs before it is accepted; 0 when none.
Required(p) ==
  Max({0} \cup {Cfg.rankConfirm : s \in {p.source} \cap {"rank"}}
          \cup (IF ~IsTarget(p) \/ LostIsh THEN {1 + Cfg.confirmFrames} ELSE {}))

CarelessObserved(p) == persistence.count + 1

\* preview, then observe.
Observed(p) == IF persistence.id = p.id THEN persistence.count + 1 ELSE 1

=============================================================================
