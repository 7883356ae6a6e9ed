--------------------------- MODULE MCTargetMemory ---------------------------
(* An instance of TargetMemory for TLC: the selected person from the front  *)
(* and from the back, somebody else who looks like the front, two tracks.   *)
EXTENDS TargetMemory

MCSim ==
  LET alike == [p \in {{"front", "back"}, {"front", "other"}, {"back", "other"}} |->
                  IF p = {"front", "back"} THEN 90 ELSE IF p = {"front", "other"} THEN 80 ELSE 60]
  IN [p \in Looks \X Looks |-> IF p[1] = p[2] THEN 100 ELSE alike[{p[1], p[2]}]]

\* tim_mars_canonical.yaml, its counts of frames and entries made small.
MCCfg ==
  [acceptLocked |-> 52, acceptLost |-> 60, ambiguityMargin |-> 7, sameIdRelief |-> 8,
   maxUncertain |-> 1, confirmFrames |-> 2, graceFrames |-> 2, globalAfter |-> 3,
   shortGapMinimum |-> 30, newIdAllow |-> 70, groupRiskAllow |-> 85,
   minSimilarity |-> 35, switchSimilarity |-> 78, appearanceWeight |-> 12,
   conservativeMinimum |-> 65, conservativeMargin |-> 5,
   rankMinimum |-> 40, rankMinDistance |-> 10, rankMinApp |-> 5, rankMargin |-> 3, rankConfirm |-> 1,
   galleryMax |-> 1, galleryMinAnchor |-> 75, lockFrames |-> 2,
   negativeMax |-> 2, negativeConfirm |-> 2, negativeCandidate |-> 70, negativeMaxPositive |-> 95,
   negativeReject |-> 80, negativeMargin |-> 3, negativeMinGeometry |-> 20, negativeMaxAge |-> 1]

MCGeo ==
  [g \in {"far", "fair", "close"} |->
     CASE g = "far"   -> [score |-> 30, iou |-> 0, distance |-> 15, scale |-> 60]
       [] g = "fair"  -> [score |-> 62, iou |-> 10, distance |-> 50, scale |-> 60]
       [] g = "close" -> [score |-> 90, iou |-> 70, distance |-> 90, scale |-> 90]]

Obs(id, look, crop, geos) ==
  {[id |-> id, look |-> look, crop |-> crop, geo |-> g, failed |-> FALSE] : g \in geos}

\* The operator's usual track may also be taken over by somebody else; the
\* other track shows the same person, somebody else, or nothing usable.
First ==
  Obs(1, None, "bad", {"fair", "close"}) \cup Obs(1, "front", "good", Geometries)
  \cup Obs(1, "back", "good", {"fair"}) \cup Obs(1, "other", "good", {"close"})
Second ==
  Obs(2, None, "bad", {"close"}) \cup Obs(2, "front", "good", Geometries)
  \cup Obs(2, "other", "good", {"fair", "close"}) \cup Obs(2, "back", "wide", {"close"})

Challenge ==
  [id |-> 1, look |-> None, crop |-> "bad", geo |-> "close", failed |-> TRUE]

Near(S) == {o \in S : o.geo = "close"}
Apart(S) == {o \in S : (o.look = "front") # (o.geo = "fair")}

MCScenes ==
  {[seen |-> {}, close |-> FALSE]}
  \cup {[seen |-> {a}, close |-> FALSE] : a \in First \cup Second}
  \cup {[seen |-> {a, b}, close |-> FALSE] : a \in Apart(First), b \in Apart(Second)}
  \cup {[seen |-> {a, b}, close |-> TRUE] : a \in Near(First), b \in Near(Second)}
  \cup {[seen |-> {Challenge, b}, close |-> TRUE] : b \in Near(Second)}
=============================================================================
