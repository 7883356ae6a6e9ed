---------------------------- MODULE MCTrackerNode ----------------------------
(* An instance of TrackerNode for TLC.                                      *)
EXTENDS TrackerNode

MCDefaultAge == [k \in {"sort", "ocsort", "deepsort"} |-> IF k = "sort" THEN 1 ELSE 2]
=============================================================================
