----------------------------- MODULE MCReidService -----------------------------
(* Instances of ReidService for TLC.                                        *)
EXTENDS ReidService

Request(process, id, track, submit, deadline) ==
  [id |-> id, process |-> process, track |-> track, frameGen |-> 1, trackGen |-> 1,
   submitted |-> submit, deadline |-> deadline]

\* Three requests of one TIM-MARS, two of them of one track and the one of the
\* other track soon expired; and the first request of the next TIM-MARS.
MCRequests ==
  {Request(1, 1, 1, 1, 2), Request(1, 2, 2, 1, 1), Request(1, 3, 1, 2, 2),
   Request(2, 1, 2, 2, 2)}

\* Those of the first TIM-MARS.
MCFewRequests == {r \in MCRequests : r.process = 1}
=============================================================================
