---------------------------- MODULE FollowContract ----------------------------
(***************************************************************************)
(* What the controller promises, without clocks, messages or velocities    *)
(* (docs/control/p074_state_aware_control_contract.md): it hovers, follows *)
(* or searches; only following arms a search; a search spends what armed   *)
(* it; a change of authority epoch disarms and hovers.                     *)
(***************************************************************************)
VARIABLES
  epoch,    \* the authority session and selection generation
  motion,   \* "hover", "follow" or "search"
  armed     \* a trusted observation has not been spent on a search

vars == <<epoch, motion, armed>>

Follow ==
  /\ motion' = "follow"
  /\ armed' = TRUE
  /\ UNCHANGED epoch

Search ==
  /\ armed
  /\ motion' = "search"
  /\ armed' = FALSE
  /\ UNCHANGED epoch

Hover ==
  /\ motion' = "hover"
  /\ armed' \in {armed, FALSE}
  /\ UNCHANGED epoch

NewEpoch ==
  /\ epoch' # epoch
  /\ motion' = "hover"
  /\ armed' = FALSE

Init == motion = "hover" /\ armed = FALSE
Next == Follow \/ Search \/ Hover \/ NewEpoch
Spec == Init /\ [][Next]_vars
=============================================================================
