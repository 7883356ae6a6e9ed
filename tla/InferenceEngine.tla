--------------------------- MODULE InferenceEngine ---------------------------
(***************************************************************************)
(* The engines of inference_engines.py and the device they own             *)
(* (hailo_shared_runtime.py).                                              *)
(*                                                                         *)
(* The direct engine runs one network at a time under its lock, on a       *)
(* device that a reload releases and opens again; opening may fail and     *)
(* then leaves nothing configured.  The GStreamer engine pushes the frame  *)
(* into a pipeline, keyed by its presentation time, and waits for its      *)
(* result; a probe in the pipeline takes the frame's entry first and files *)
(* the result later.  A frame number stands for its presentation time.     *)
(***************************************************************************)
EXTENDS Integers, FiniteSets

CONSTANTS
  Hefs,      \* model files
  Backends   \* kinds of engine that inference_backend may ask for

\* The first frame has number 1.
None == 0

VARIABLES
  engine,     \* kind, whether it is open, unconfigured or closed, and its model
  pending,    \* _pending_meta_by_pts
  inPipeline, \* frames pushed that have not reached the last probe
  probed,     \* the frame whose result the last probe extracts
  results     \* _results_by_pts

gstVars == <<pending, inPipeline, probed, results>>
engineVars == <<engine, gstVars>>

Opened(kind, hef) == [kind |-> kind, state |-> "open", model |-> hef]

IsOpen == engine.state = "open"

-----------------------------------------------------------------------------
(* reload_hef and close.                                                   *)

\* The old network and the device go first; a failure while the new one is
\* configured closes what was opened.
Reload(hef, succeeds) ==
  /\ probed = None
  /\ engine' = [engine EXCEPT !.model = hef,
                              !.state = IF succeeds THEN "open" ELSE "unconfigured"]
  /\ pending' = {} /\ inPipeline' = {} /\ results' = {}
  /\ UNCHANGED probed

\* The GStreamer engine wakes the call that waits; its pipeline stops.
CloseEngine ==
  /\ probed = None
  /\ engine' = [engine EXCEPT !.state = "closed"]
  /\ pending' = {} /\ inPipeline' = {} /\ results' = {}
  /\ UNCHANGED probed

-----------------------------------------------------------------------------
(* The GStreamer engine: infer, and the probe.                             *)

\* Pushing fails when the pipeline does not play.
Push(f) ==
  /\ pending' = pending \cup {f}
  /\ inPipeline' = inPipeline \cup {f}
  /\ UNCHANGED <<engine, probed, results>>

\* The queues of the pipeline leak: a frame may be gone for good.
Leak ==
  \E f \in inPipeline :
    /\ inPipeline' = inPipeline \ {f}
    /\ UNCHANGED <<engine, pending, probed, results>>

\* The entry of a frame that timed out is no longer there.
ProbeTakes ==
  \E f \in inPipeline :
    /\ probed = None
    /\ inPipeline' = inPipeline \ {f}
    /\ probed' = IF f \in pending THEN f ELSE None
    /\ pending' = pending \ {f}
    /\ UNCHANGED <<engine, results>>

ProbeFiles ==
  /\ probed # None
  /\ results' = results \cup {probed}
  /\ probed' = None
  /\ UNCHANGED <<engine, pending, inPipeline>>

AnyResult(f) == results

ResultFor(f) == results \cap {f}

TakeResult(f) ==
  /\ results' = results \ {f}
  /\ UNCHANGED <<engine, pending, inPipeline, probed>>

\* The call gives up: the deadline passed.
GiveUp(f) ==
  /\ pending' = pending \ {f}
  /\ UNCHANGED <<engine, inPipeline, probed, results>>

EngineInit(hef) ==
  /\ engine \in {Opened(k, hef) : k \in Backends}
  /\ pending = {} /\ inPipeline = {} /\ probed = None /\ results = {}
=============================================================================
