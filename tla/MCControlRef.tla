----------------------------- MODULE MCControlRef -----------------------------
(* Instances of ControlRef for TLC: two sessions, two generations, two      *)
(* tracks on opposite sides, and every kind of status the policy tells apart. *)
EXTENDS ControlRef

CONSTANTS s1, s2

MCSessions == {s1, s2}

Report(s, g, f, t, st) ==
  [session |-> s, generation |-> g, frame |-> f, stamp |-> f, track |-> t,
   state |-> st, control |-> IF st = "LOCKED" THEN "NORMAL" ELSE "HOLD", fresh |-> TRUE]

\* A select or clear transaction: no frame, no stamp.
Transaction(s, g) == Report(s, g, Null, Null, "NO_TARGET")

MCStatuses ==
  {Transaction(s1, 1),
   Report(s1, 0, 1, 1, "LOCKED"), Report(s1, 1, 3, 2, "LOCKED"), Report(s2, 0, 3, 2, "LOCKED"),
   Report(s1, 0, 2, Null, "LOST"), Report(s2, 0, 2, Null, "LOST")}

\* One selection that is locked, lost, and proposed for reacquisition.
MCRecoveryStatuses ==
  {Report(s1, 0, 1, 1, "LOCKED"), Report(s1, 0, 2, Null, "LOST"),
   Report(s1, 0, 2, 1, "REACQUIRED")}

See(i, f, x, r) ==
  [id |-> i, frame |-> f, stamp |-> f, usable |-> TRUE, ambiguous |-> FALSE,
   ex |-> x, rangeErr |-> r]

MCTargets ==
  {See(0, 0, 0, 0), See(1, 1, 3, 2), See(2, 3, -3, -1),
   [See(2, 3, -3, -1) EXCEPT !.ambiguous = TRUE]}

MCRecoveryTargets == {See(0, 0, 0, 0), See(1, 1, 3, 2)}
=============================================================================
