--------------------------- MODULE PerceptionCamera ---------------------------
(***************************************************************************)
(* perception_camera_node.py: the perception node with the camera in the   *)
(* same process.  The constructor configures the sensor and opens the      *)
(* camera; a capture thread then hands its frames to the pipeline.  A read *)
(* that fails after the startup time ends the process, an earlier one      *)
(* opens the camera again, and if that fails the thread is gone while the  *)
(* node lives on.                                                          *)
(*                                                                         *)
(* TimeoutIsFine and GoOnAnyway are coding errors, not the code.           *)
(***************************************************************************)
EXTENDS PerceptionPipeline

VARIABLES
  camera,   \* where the constructor and then the capture thread are
  rate      \* how the sensor rate controls ended, "done" when not asked for

cameraVars == <<camera, rate>>
vars == <<pipeAll, cameraVars>>

Outcomes == {"done", "failed", "timeout"}

TimeoutIsFine(outcome) == IF outcome = "failed" THEN 1 ELSE 0

\* _run_shell with allow_failure.
ReturnCode(outcome) == CASE outcome = "done" -> 0 [] outcome = "failed" -> 1 [] OTHER -> 124

\* The other commands may fail, and the sensor may be missing; a missing
\* tool or device, or rate controls that were not applied, raise.
Configure ==
  /\ camera = "configuring"
  /\ \/ camera' = "exited" /\ UNCHANGED rate
     \/ camera' = "opening" /\ UNCHANGED rate
     \/ \E outcome \in Outcomes :
          /\ rate' = outcome
          /\ camera' = IF ReturnCode(outcome) # 0 THEN "exited" ELSE "opening"
  /\ UNCHANGED pipeAll

CameraTo(from, to) ==
  camera = from /\ camera' = to /\ UNCHANGED rate

\* Without a camera the constructor raises and the process ends.
OpenFirst ==
  \E to \in {"loop", "exited"} : CameraTo("opening", to) /\ UNCHANGED pipeAll

CameraStop == node.at \notin {"serving", "waiting", "reloading", "rollback"}

\* The stop event is looked at before a read and after it.
Capture ==
  /\ UNCHANGED pipeAll
  /\ \/ CameraStop /\ \E at \in {"loop", "got"} : CameraTo(at, "ended")
     \/ ~CameraStop /\ CameraTo("loop", "reading")
     \/ received < MaxFrames /\ CameraTo("reading", "got")
     \* A failed read, after the startup time and before.
     \/ \E to \in {"exited", "reopening"} : CameraTo("reading", to)
     \/ \E to \in {"loop", "dead"} : CameraTo("reopening", to)

Deliver == CameraTo("got", "loop") /\ OnImage

-----------------------------------------------------------------------------
(* destroy_node of the camera node, then that of the pipeline.             *)

Up == camera \notin {"configuring", "opening", "exited"}

Interrupt ==
  /\ node.at = "serving"
  /\ NodeTo("stop_camera") /\ UNCHANGED <<engineVars, hefPath, cameraVars>>

GoOnAnyway == Destroy("stop_camera") /\ UNCHANGED cameraVars

JoinCamera ==
  camera \in {"ended", "dead"} /\ Destroy("stop_camera") /\ UNCHANGED cameraVars

\* A thread that does not stop in time makes destroy_node raise.
JoinFails ==
  /\ node.at = "stop_camera" /\ camera \notin {"ended", "dead"}
  /\ NodeTo("raised") /\ UNCHANGED <<engineVars, hefPath, cameraVars>>

NodeThread ==
  \/ JoinCamera \/ JoinFails
  \/ NodeStep /\ UNCHANGED cameraVars

Process ==
  \/ WorkerStep /\ UNCHANGED cameraVars
  \/ ReidStep /\ UNCHANGED cameraVars
  \/ EngineStep /\ UNCHANGED cameraVars
  \/ AskModel /\ UNCHANGED cameraVars
  \/ NodeThread \/ Interrupt \/ Capture \/ Deliver

Init == PipelineInit /\ camera = "configuring" /\ rate = "done"

Next == Configure \/ OpenFirst \/ (Up /\ Process)

Spec == Init /\ [][Next]_vars

\* The threads of the node run and the device returns from every call, which
\* has a timeout of its own.  The worker that waits for the device gets it in
\* the end: the ReID worker lets go of it after each request and waits for
\* the next, which only the frames bring.  Nothing is assumed of the camera.
FairSpec ==
  /\ Spec
  /\ WF_vars(Up /\ WorkerStep /\ UNCHANGED cameraVars)
  /\ SF_vars(Up /\ Call /\ UNCHANGED cameraVars)
  /\ WF_vars(Up /\ ReidStep /\ UNCHANGED cameraVars)
  /\ WF_vars(Up /\ EngineStep /\ UNCHANGED cameraVars)
  /\ WF_vars(Up /\ NodeThread)

-----------------------------------------------------------------------------
(* Properties.                                                             *)

WorkerAt == {"idle", "prepare", "prepared", "call", "infer", "back", "publish", "ended"}

TypeOK ==
  /\ engine.kind \in Backends \cup {"stub"} /\ engine.model \in Hefs
  /\ engine.state \in {"open", "unconfigured", "closed"}
  /\ Len(queue) <= QueueSize /\ nextId \in 1 .. received + 1
  /\ worker.at \in WorkerAt /\ worker.frame \in 0 .. received
  /\ active = Cardinality({t \in {<<"worker", worker.at>>, <<"reid", reid>>} :
                             t[2] \in {"call", "infer", "back"}})
  /\ rate \in Outcomes

\* "aborting before capture stream-on to avoid a wedged camera path": the
\* camera never streams after rate controls that were asked for and failed.
NoStreamWithoutRate == Up \/ camera = "opening" => rate = "done"

\* Between two requests the parameter names the model that is loaded, if any:
\* after a failed change, after a failed rollback, after a busy engine.
ParameterIsTheModel ==
  node.at \notin {"reloading", "rollback"} => engine.model = hefPath

InEngine == {"call", "infer"}

\* No model change takes the device or the pipeline from a call, the direct
\* engine is not even closed under one, and destroy_node closes none before the
\* capture thread has ended.
EngineStaysUnderACall ==
  [][engine' # engine =>
       /\ engine'.state # "closed" => worker.at \notin InEngine /\ reid \notin InEngine
       /\ engine.kind = "direct" => worker.at # "infer" /\ reid # "infer"
       /\ engine'.state = "closed" /\ engine.state # "closed" => camera \in {"ended", "dead"}]_vars

\* Detections leave in the order in which the images came, one message for
\* each, numbered upwards.
DetectionsInOrder ==
  [][published' # published =>
       published'.frame > published.frame /\ published'.id > published.id]_vars

\* What is published for a frame was computed from that frame, also when the
\* result of an earlier frame came too late.
OwnDetections == published.of \in {None, published.id}

\* What the node holds fits together: what is loaded, what was asked of the
\* camera, and what was published last.
PipelineConsistent ==
  TypeOK /\ NoStreamWithoutRate /\ ParameterIsTheModel /\ OwnDetections

Gone == camera = "exited" \/ node.at \notin {"serving", "waiting", "reloading", "rollback"}

\* The newest image is never the one that is lost: unless a newer one comes,
\* or the node goes, the worker takes it.
NewestIsTaken ==
  \A n \in 1 .. MaxFrames :
    received = n ~> received > n \/ worker.frame >= n \/ Gone

\* Whatever the workers do, a model change is answered and a shutdown ends.
NodeReturns ==
  node.at # "serving" ~> node.at \in {"serving", "destroyed", "raised"} \/ camera = "exited"
=============================================================================
