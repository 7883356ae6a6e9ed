-------------------------- MODULE PerceptionPipeline --------------------------
(***************************************************************************)
(* perception_pipeline_node.py: the queue of raw frames, the worker that   *)
(* owns the detector, the ReID worker that shares the device, and the      *)
(* node's own thread, which changes the model when the parameter           *)
(* hailo_hef_path is set and shuts everything down.                        *)
(*                                                                         *)
(* The engine lock protects the engine and the count of calls in it; a     *)
(* model change and the shutdown wait for the count to be zero and then    *)
(* keep the lock.  The direct engine has a lock of its own around the      *)
(* device.  What waits with a timeout may give up at any time.             *)
(*                                                                         *)
(* A frame is the number of its arrival.  Operators named after a mistake  *)
(* (HeldTooLong, KeepOldest, NewestFirst, LeaveCounted, SwitchAtOnce,      *)
(* PathFirst) are coding errors that a property notices, not the code.     *)
(***************************************************************************)
EXTENDS InferenceEngine, Sequences

CONSTANTS
  QueueSize,    \* frame_queue_size
  MaxFrames,    \* bound of the frames that arrive
  MaxRequests,  \* bound of the model changes asked for
  FirstHef      \* hailo_hef_path at start

ASSUME PipelineAssumption ==
  /\ QueueSize \in Nat \ {0} /\ {MaxFrames, MaxRequests} \subseteq Nat
  /\ FirstHef \in Hefs /\ Backends \subseteq {"direct", "gst", "stub"}

VARIABLES
  received,   \* frames that arrived
  queue,      \* _queued_frames
  nextId,     \* frame_counter (and seq_counter, one less)
  worker,     \* _infer_worker_loop: where it is, its frame, and what it got
  reid,       \* where _run_reid_inference is
  active,     \* _engine_active_calls
  hefPath,    \* hailo_hef_path
  node,       \* the node's thread: where it is, the model asked for and
              \* the one before
  requests,   \* model changes asked for
  published   \* the last detections published

pipelineVars ==
  <<received, queue, nextId, worker, reid, active, hefPath, node, requests, published>>
pipeAll == <<engineVars, pipelineVars>>

\* Where the node's thread holds the engine lock.
EngineLocked == node.at \in {"reloading", "rollback", "closing"}

InDirectCall == engine.kind = "direct" /\ worker.at = "infer"

HeldTooLong ==
  /\ ~InDirectCall /\ reid # "infer" /\ worker.at # "back"
  /\ node.at \notin {"reloading", "rollback"}

\* The lock of the direct engine.
DeviceFree ==
  /\ ~InDirectCall /\ reid # "infer"
  /\ node.at \notin {"reloading", "rollback"}

Stopping == node.at \in {"joining", "draining", "closing", "destroyed"}

-----------------------------------------------------------------------------
(* on_image.                                                               *)

KeepOldest(q, f) == IF Len(q) < QueueSize THEN Append(q, f) ELSE q

NewestFirst(q, f) == <<f>> \o (IF Len(q) < QueueSize THEN q ELSE Tail(q))

\* A full queue loses its oldest frame.
Enqueue(q, f) == Append(IF Len(q) < QueueSize THEN q ELSE Tail(q), f)

OnImage ==
  /\ received' = received + 1
  /\ queue' = Enqueue(queue, received + 1)
  /\ UNCHANGED <<engineVars, nextId, worker, reid, active, hefPath, node, requests, published>>

-----------------------------------------------------------------------------
(* The worker.                                                             *)

WorkerIdle == [worker EXCEPT !.at = "idle", !.got = None]

\* The stop flag comes before the queue.
Dequeue ==
  /\ worker.at = "idle" /\ ~Stopping /\ queue # <<>>
  /\ worker' = [at |-> "prepare", frame |-> Head(queue), id |-> nextId, got |-> None]
  /\ queue' = Tail(queue)
  /\ nextId' = nextId + 1
  /\ UNCHANGED <<engineVars, received, reid, active, hefPath, node, requests, published>>

WorkerEnds ==
  /\ worker.at = "idle" /\ Stopping
  /\ worker' = [worker EXCEPT !.at = "ended"]
  /\ UNCHANGED <<engineVars, received, queue, nextId, reid, active, hefPath, node, requests, published>>

\* A frame that cannot be converted is dropped, its number used up.
Prepare ==
  /\ worker.at = "prepare"
  /\ worker' \in {[worker EXCEPT !.at = "prepared"], WorkerIdle}
  /\ UNCHANGED <<engineVars, received, queue, nextId, reid, active, hefPath, node, requests, published>>

EnterEngine ==
  /\ worker.at = "prepared" /\ ~EngineLocked
  /\ worker' = [worker EXCEPT !.at = "call"]
  /\ active' = active + 1
  /\ UNCHANGED <<engineVars, received, queue, nextId, reid, hefPath, node, requests, published>>

WorkerTo(at, got) ==
  /\ worker' = [worker EXCEPT !.at = at, !.got = got]
  /\ UNCHANGED <<received, queue, nextId, reid, active, hefPath, node, requests, published>>

\* A closed engine returns nothing; one without a model raises.
Call ==
  /\ worker.at = "call"
  /\ \/ ~IsOpen /\ WorkerTo("back", None) /\ UNCHANGED engineVars
     \/ IsOpen /\ engine.kind = "stub" /\ WorkerTo("back", None) /\ UNCHANGED engineVars
     \/ IsOpen /\ engine.kind = "direct" /\ DeviceFree
        /\ WorkerTo("infer", None) /\ UNCHANGED engineVars
     \/ IsOpen /\ engine.kind = "gst"
        /\ WorkerTo("infer", None) /\ Push(worker.id)

DirectReturns ==
  /\ InDirectCall
  /\ \E got \in {None, worker.id} : WorkerTo("back", got)
  /\ UNCHANGED engineVars

GstReturns ==
  /\ worker.at = "infer" /\ engine.kind = "gst"
  /\ \/ engine.state = "closed" /\ WorkerTo("back", None) /\ UNCHANGED engineVars
     \/ \E r \in ResultFor(worker.id) :
          IsOpen /\ WorkerTo("back", r) /\ TakeResult(r)
     \/ /\ IsOpen /\ ResultFor(worker.id) = {}
        /\ WorkerTo("back", None) /\ GiveUp(worker.id)

LeaveCounted ==
  /\ worker.at = "back" /\ ~EngineLocked
  /\ worker' = [worker EXCEPT !.at = "publish"]
  /\ active' = IF worker.got = None THEN active ELSE active - 1
  /\ UNCHANGED <<engineVars, received, queue, nextId, reid, hefPath, node, requests, published>>

LeaveEngine ==
  /\ worker.at = "back" /\ ~EngineLocked
  /\ worker' = [worker EXCEPT !.at = "publish"]
  /\ active' = active - 1
  /\ UNCHANGED <<engineVars, received, queue, nextId, reid, hefPath, node, requests, published>>

\* A frame without a result is published without detections.  Publishing
\* may fail once the node is going down.
PublishDetections ==
  /\ worker.at = "publish"
  /\ \/ /\ node.at # "destroyed"
        /\ published' = [frame |-> worker.frame, id |-> worker.id, of |-> worker.got]
     \/ /\ node.at \notin {"serving", "waiting", "reloading", "rollback"}
        /\ UNCHANGED published
  /\ worker' = WorkerIdle
  /\ UNCHANGED <<engineVars, received, queue, nextId, reid, active, hefPath, node, requests>>

WorkerStep ==
  \/ Dequeue \/ WorkerEnds \/ Prepare \/ EnterEngine \/ Call \/ DirectReturns \/ GstReturns
  \/ LeaveEngine \/ PublishDetections

-----------------------------------------------------------------------------
(* The ReID worker (ReidExecutor has its queue): only the direct engine    *)
(* can do it.                                                              *)

ReidTo(from, to, calls) ==
  /\ reid = from /\ reid' = to
  /\ active' = active + calls
  /\ UNCHANGED <<engineVars, received, queue, nextId, worker, hefPath, node, requests, published>>

ReidClosing == node.at \notin {"serving", "waiting", "reloading", "rollback", "stop_camera", "raised"}

ReidStep ==
  \/ ~EngineLocked /\ ~ReidClosing /\ engine.kind = "direct" /\ ReidTo("idle", "call", 1)
  \/ ~IsOpen /\ ReidTo("call", "back", 0)
  \/ IsOpen /\ DeviceFree /\ ReidTo("call", "infer", 0)
  \/ ReidTo("infer", "back", 0)
  \/ ~EngineLocked /\ ReidTo("back", "idle", -1)
  \/ ReidClosing /\ ReidTo("idle", "ended", 0)

-----------------------------------------------------------------------------
(* _on_set_parameters and _switch_hailo_hef.                               *)

NodeTo(at) ==
  /\ node' = [node EXCEPT !.at = at]
  /\ UNCHANGED <<received, queue, nextId, worker, reid, active, requests, published>>

\* A request for the model of the parameter is answered at once.
AskModel ==
  /\ node.at = "serving" /\ requests < MaxRequests
  /\ \E hef \in Hefs \ {hefPath} : node' = [at |-> "waiting", wanted |-> hef, old |-> hefPath]
  /\ requests' = requests + 1
  /\ UNCHANGED <<engineVars, received, queue, nextId, worker, reid, active, hefPath, published>>

SwitchAtOnce ==
  node.at = "waiting" /\ NodeTo("reloading") /\ UNCHANGED <<engineVars, hefPath>>

SwitchBegins ==
  /\ node.at = "waiting" /\ active = 0
  /\ NodeTo("reloading") /\ UNCHANGED <<engineVars, hefPath>>

\* The engine stayed busy: refused.
SwitchBusy ==
  /\ node.at = "waiting" /\ active > 0
  /\ NodeTo("serving") /\ UNCHANGED <<engineVars, hefPath>>

\* In place of a stub a new engine is made; any other engine is reloaded.
Load(hef, succeeds) ==
  IF engine.kind = "stub"
  THEN /\ UNCHANGED gstVars
       /\ IF succeeds THEN \E k \in Backends \ {"stub"} : engine' = Opened(k, hef)
          ELSE UNCHANGED engine
  ELSE Reload(hef, succeeds)

PathFirst ==
  /\ node.at = "reloading"
  /\ hefPath' = node.wanted
  /\ \/ Load(node.wanted, TRUE) /\ NodeTo("serving")
     \/ Load(node.wanted, FALSE) /\ NodeTo(IF engine.kind = "stub" THEN "serving" ELSE "rollback")

Switch ==
  /\ node.at = "reloading"
  /\ \/ Load(node.wanted, TRUE) /\ hefPath' = node.wanted /\ NodeTo("serving")
     \/ /\ Load(node.wanted, FALSE) /\ UNCHANGED hefPath
        /\ NodeTo(IF engine.kind = "stub" THEN "serving" ELSE "rollback")

\* The old model again, if it will open; the request is refused either way.
Rollback ==
  /\ node.at = "rollback"
  /\ \E succeeds \in BOOLEAN : Reload(node.old, succeeds)
  /\ NodeTo("serving") /\ UNCHANGED hefPath

-----------------------------------------------------------------------------
(* destroy_node, each of its waits over when what it waits for has come    *)
(* or its time is up.                                                      *)

Destroy(from) ==
  node.at = from /\ NodeTo("stopping") /\ UNCHANGED <<engineVars, hefPath>>

StopWorker == node.at = "stopping" /\ NodeTo("joining") /\ UNCHANGED <<engineVars, hefPath>>

JoinWorker == node.at = "joining" /\ NodeTo("draining") /\ UNCHANGED <<engineVars, hefPath>>

Drain == node.at = "draining" /\ NodeTo("closing") /\ UNCHANGED <<engineVars, hefPath>>

\* The direct engine is closed under its own lock.
Close ==
  /\ node.at = "closing"
  /\ engine.kind = "direct" => DeviceFree
  /\ CloseEngine
  /\ NodeTo("destroyed") /\ UNCHANGED hefPath

NodeStep ==
  SwitchBegins \/ SwitchBusy \/ Switch \/ Rollback \/ StopWorker \/ JoinWorker \/ Drain \/ Close

EngineStep == (Leak \/ ProbeTakes \/ ProbeFiles) /\ UNCHANGED pipelineVars

PipelineInit ==
  /\ EngineInit(FirstHef)
  /\ received = 0 /\ queue = <<>> /\ nextId = 1
  /\ worker = [at |-> "idle", frame |-> 0, id |-> 0, got |-> None]
  /\ reid = "idle" /\ active = 0
  /\ hefPath = FirstHef
  /\ node = [at |-> "serving", wanted |-> FirstHef, old |-> FirstHef]
  /\ requests = 0
  /\ published = [frame |-> 0, id |-> 0, of |-> None]
=============================================================================
