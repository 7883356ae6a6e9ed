------------------------ MODULE PerceptionCameraProofs ------------------------
(***************************************************************************)
(* Theorems about PerceptionCamera, for every length of the queue, every   *)
(* set of models and every number of frames and model changes.             *)
(***************************************************************************)
EXTENDS PerceptionCamera, FiniteSetTheorems, TLAPS

-----------------------------------------------------------------------------
(* The inductive invariant.                                                *)

Counted == {"call", "infer", "back"}
Calls(at) == IF at \in Counted THEN 1 ELSE 0

NodeAt == {"serving", "waiting", "reloading", "rollback", "stop_camera", "stopping", "joining",
           "draining", "closing", "destroyed", "raised"}

Engine == [kind : {"direct", "gst", "stub"}, state : {"open", "unconfigured", "closed"},
           model : Hefs]

RecordsOK ==
  /\ engine \in Engine /\ engine.kind \in Backends \cup {"stub"}
  /\ worker \in [at : WorkerAt, frame : Nat, id : Nat, got : Nat]
  /\ node \in [at : NodeAt, wanted : Hefs, old : Hefs]
  /\ published \in [frame : Nat, id : Nat, of : Nat]
  /\ queue \in Seq(Nat) /\ {received, nextId} \subseteq Nat
  /\ pending \cup inPipeline \cup results \cup {probed} \subseteq Nat
  /\ hefPath \in Hefs

\* The count is that of the threads between entering and leaving the engine,
\* and a model change goes on only while it is zero.
CallsAreCounted ==
  /\ active = Calls(worker.at) + Calls(reid)
  /\ node.at \in {"reloading", "rollback"} => active = 0

\* The node goes on to close only after the capture thread has ended.
CameraEndedFirst ==
  node.at \in {"stopping", "joining", "draining", "closing"} => camera \in {"ended", "dead"}

\* The parameter is moved only with the model; the model to return to is the
\* one the parameter names.
PathFollowsModel ==
  /\ node.at \in {"waiting", "reloading", "rollback"} => node.old = hefPath
  /\ node.at # "rollback" => engine.model = hefPath

\* Frames wait in the order of their arrival, after the frame in work, which
\* came after the one published; numbers are given in that order.
FramesInOrder ==
  /\ \A i, j \in 1 .. Len(queue) : i < j => queue[i] < queue[j]
  /\ \A i \in 1 .. Len(queue) : worker.frame < queue[i] /\ queue[i] <= received
  /\ worker.frame <= received /\ worker.id < nextId /\ nextId <= worker.frame + 1
  /\ published.frame <= worker.frame /\ published.id <= worker.id
  /\ worker.at \notin {"idle", "ended"} =>
       published.frame < worker.frame /\ published.id < worker.id

\* What the worker got is the result of its frame or nothing.
OwnResult == worker.got \in {None, worker.id} /\ published.of \in {None, published.id}

\* Rate controls that were asked for and failed end the process.
RateFirst == camera # "exited" => rate = "done"

PInv ==
  RecordsOK /\ CallsAreCounted /\ CameraEndedFirst /\ PathFollowsModel /\ OwnResult
  /\ FramesInOrder /\ Len(queue) <= QueueSize /\ RateFirst /\ rate \in Outcomes

-----------------------------------------------------------------------------
(* Each conjunct holds at first and is kept.                               *)

\* The initial state satisfies the invariant.
LEMMA PInit == Init => PInv
<1> SUFFICES ASSUME Init PROVE PInv
  OBVIOUS
<1> USE DEF Init, PipelineInit, EngineInit, None
<1>1. RecordsOK
  <2>1. PICK k \in Backends : engine = Opened(k, FirstHef)
    OBVIOUS
  <2>2. engine \in Engine /\ engine.kind \in Backends \cup {"stub"}
    BY <2>1, PipelineAssumption DEF Opened, Engine
  <2>3. worker \in [at : WorkerAt, frame : Nat, id : Nat, got : Nat]
    BY DEF WorkerAt
  <2>4. node \in [at : NodeAt, wanted : Hefs, old : Hefs] /\ hefPath \in Hefs
    BY PipelineAssumption DEF NodeAt
  <2>5. published \in [frame : Nat, id : Nat, of : Nat] /\ pending \cup inPipeline \cup results \cup {probed} \subseteq Nat
    OBVIOUS
  <2>6. queue \in Seq(Nat) /\ {received, nextId} \subseteq Nat
    OBVIOUS
  <2> QED BY <2>2, <2>3, <2>4, <2>5, <2>6 DEF RecordsOK
<1>2. CallsAreCounted
  BY DEF CallsAreCounted, Calls, Counted
<1>3. PathFollowsModel
  BY DEF PathFollowsModel, Opened
<1>4. CameraEndedFirst /\ OwnResult /\ RateFirst /\ rate \in Outcomes
  BY DEF CameraEndedFirst, OwnResult, RateFirst, Outcomes
<1>5. FramesInOrder /\ Len(queue) <= QueueSize
  BY PipelineAssumption DEF FramesInOrder
<1> QED BY <1>1, <1>2, <1>3, <1>4, <1>5 DEF PInv

\* The engine after a reload.
LEMMA ReloadTypes ==
  ASSUME NEW hef \in Hefs, NEW succeeds \in BOOLEAN, RecordsOK, Reload(hef, succeeds)
  PROVE  /\ engine' \in Engine /\ engine'.kind = engine.kind /\ engine'.model = hef
         /\ engine'.state # "closed"
         /\ pending' \cup inPipeline' \cup results' \cup {probed'} \subseteq Nat
<1>1. engine' = [kind |-> engine.kind, model |-> hef,
                 state |-> IF succeeds THEN "open" ELSE "unconfigured"]
  BY DEF Reload, RecordsOK, Engine
<1>2. pending' = {} /\ inPipeline' = {} /\ results' = {} /\ probed' = probed
  BY DEF Reload
<1> QED BY <1>1, <1>2 DEF RecordsOK, Engine

\* The engine after a load, which replaces a stub or reloads.
LEMMA LoadTypes ==
  ASSUME NEW hef \in Hefs, NEW succeeds \in BOOLEAN, RecordsOK, Load(hef, succeeds)
  PROVE  /\ engine' \in Engine /\ engine'.kind \in Backends \cup {"stub"}
         /\ engine' = engine \/ engine'.state # "closed"
         /\ engine'.model = hef \/ (~succeeds /\ engine.kind = "stub" /\ engine' = engine)
         /\ pending' \cup inPipeline' \cup results' \cup {probed'} \subseteq Nat
<1>1. CASE engine.kind = "stub" /\ succeeds
  <2>1. PICK k \in Backends \ {"stub"} : engine' = [kind |-> k, state |-> "open", model |-> hef]
    BY <1>1 DEF Load, Opened
  <2>2. UNCHANGED <<pending, inPipeline, results, probed>>
    BY <1>1 DEF Load, gstVars
  <2> QED BY <2>1, <2>2, PipelineAssumption DEF RecordsOK, Engine
<1>2. CASE engine.kind = "stub" /\ ~succeeds
  BY <1>2 DEF Load, gstVars, RecordsOK
<1>3. CASE engine.kind # "stub"
  BY <1>3, ReloadTypes DEF Load, RecordsOK
<1> QED BY <1>1, <1>2, <1>3

\* What enqueueing does to a queue of numbers.
LEMMA EnqueueTypes ==
  ASSUME queue \in Seq(Nat), received \in Nat, Len(queue) <= QueueSize
  PROVE  /\ Enqueue(queue, received + 1) \in Seq(Nat)
         /\ Len(Enqueue(queue, received + 1)) <= QueueSize
<1>1. CASE Len(queue) < QueueSize
  BY <1>1, PipelineAssumption DEF Enqueue
<1>2. CASE Len(queue) >= QueueSize
  <2>1. queue # <<>> /\ Len(queue) = QueueSize
    BY <1>2, PipelineAssumption
  <2>2. Tail(queue) \in Seq(Nat) /\ Len(Tail(queue)) = QueueSize - 1
    BY <2>1
  <2>3. Enqueue(queue, received + 1) = Append(Tail(queue), received + 1)
    BY <1>2, PipelineAssumption DEF Enqueue
  <2> QED BY <2>2, <2>3, PipelineAssumption, SMTT(30)
<1> QED BY <1>1, <1>2, PipelineAssumption

\* What the threads may leave in the records.
LEMMA RecordsStep == PInv /\ [Next]_vars => RecordsOK'
<1> SUFFICES ASSUME PInv, [Next]_vars PROVE RecordsOK'
  OBVIOUS
<1>1. RecordsOK /\ Len(queue) <= QueueSize
  BY DEF PInv
<1> DEFINE Typed == UNCHANGED <<worker, published, queue, received, nextId>>
<1>2. CASE Typed /\ UNCHANGED <<engineVars, node, hefPath>>
  BY <1>1, <1>2 DEF RecordsOK, engineVars, gstVars
<1>3. CASE WorkerStep
  <2>1. UNCHANGED <<engine, node, hefPath, received>>
    BY <1>3 DEF WorkerStep, Dequeue, WorkerEnds, Prepare, EnterEngine, Call, DirectReturns,
       GstReturns, LeaveEngine, PublishDetections, WorkerTo, Push, TakeResult, GiveUp, engineVars,
       gstVars
  <2>2. pending' \cup inPipeline' \cup results' \cup {probed'} \subseteq Nat
    BY <1>1, <1>3 DEF WorkerStep, Dequeue, WorkerEnds, Prepare, EnterEngine, Call, DirectReturns,
       GstReturns, LeaveEngine, PublishDetections, WorkerTo, Push, TakeResult, GiveUp, engineVars,
       gstVars, RecordsOK
  <2>3. CASE Dequeue
    <3>1. Head(queue) \in Nat /\ Tail(queue) \in Seq(Nat)
      BY <1>1, <2>3, SMTT(30) DEF Dequeue, RecordsOK
    <3> QED BY <1>1, <2>1, <2>2, <2>3, <3>1, SMTT(30) DEF Dequeue, RecordsOK, WorkerAt, None
  <2>4. CASE ~Dequeue
    <3>1. UNCHANGED <<queue, nextId>>
      BY <1>3, <2>4 DEF WorkerStep, WorkerEnds, Prepare, EnterEngine, Call, DirectReturns,
         GstReturns, LeaveEngine, PublishDetections, WorkerTo
    <3>2. worker' \in [at : WorkerAt, frame : Nat, id : Nat, got : Nat]
      <4>1. worker \in [at : WorkerAt, frame : Nat, id : Nat, got : Nat]
        BY <1>1 DEF RecordsOK
      <4>2. ResultFor(worker.id) \subseteq Nat
        BY <1>1 DEF RecordsOK, ResultFor
      <4>3. CASE WorkerEnds \/ Prepare \/ EnterEngine \/ LeaveEngine \/ PublishDetections
        <5>1. \A at \in {"ended", "prepared", "call", "publish"} :
                [worker EXCEPT !.at = at] \in [at : WorkerAt, frame : Nat, id : Nat, got : Nat]
          BY <4>1 DEF WorkerAt
        <5>2. WorkerIdle \in [at : WorkerAt, frame : Nat, id : Nat, got : Nat]
          BY <4>1 DEF WorkerIdle, WorkerAt, None
        <5>3. WorkerEnds => worker' = [worker EXCEPT !.at = "ended"]
          BY DEF WorkerEnds
        <5>4. Prepare => worker' \in {[worker EXCEPT !.at = "prepared"], WorkerIdle}
          BY DEF Prepare
        <5>5. EnterEngine => worker' = [worker EXCEPT !.at = "call"]
          BY DEF EnterEngine
        <5>6. LeaveEngine => worker' = [worker EXCEPT !.at = "publish"]
          BY DEF LeaveEngine
        <5>7. PublishDetections => worker' = WorkerIdle
          BY DEF PublishDetections
        <5> QED BY <4>3, <5>1, <5>2, <5>3, <5>4, <5>5, <5>6, <5>7
      <4>4. ASSUME NEW at \in {"back", "infer"}, NEW got \in Nat, WorkerTo(at, got)
            PROVE  worker' \in [at : WorkerAt, frame : Nat, id : Nat, got : Nat]
        BY <4>1, <4>4 DEF WorkerTo, WorkerAt
      <4>5. CASE Call
        <5>1. None \in Nat
          BY DEF None
        <5> QED BY <4>4, <4>5, <5>1 DEF Call
      <4>6. CASE DirectReturns \/ GstReturns
        <5>1. None \in Nat /\ worker.id \in Nat
          BY <4>1 DEF None
        <5> QED BY <4>2, <4>4, <4>6, <5>1 DEF DirectReturns, GstReturns
      <4> QED BY <1>3, <2>4, <4>3, <4>5, <4>6 DEF WorkerStep
    <3>3. published' \in [frame : Nat, id : Nat, of : Nat]
      <4>1. CASE PublishDetections
        BY <1>1, <4>1 DEF PublishDetections, RecordsOK
      <4>2. CASE ~PublishDetections
        BY <1>1, <1>3, <2>4, <4>2 DEF WorkerStep, WorkerEnds, Prepare, EnterEngine, Call,
           DirectReturns, GstReturns, LeaveEngine, WorkerTo, RecordsOK
      <4> QED BY <4>1, <4>2
    <3> QED BY <1>1, <2>1, <2>2, <3>1, <3>2, <3>3 DEF RecordsOK
  <2> QED BY <2>3, <2>4
<1>4. CASE EngineStep
  <2>1. engine' = engine /\ pending' \cup inPipeline' \cup results' \cup {probed'} \subseteq Nat
    BY <1>1, <1>4 DEF EngineStep, Leak, ProbeTakes, ProbeFiles, RecordsOK, None
  <2> QED BY <1>1, <1>4, <2>1 DEF EngineStep, pipelineVars, RecordsOK
<1>5. CASE AskModel
  <2>1. node' \in [at : NodeAt, wanted : Hefs, old : Hefs]
    BY <1>1, <1>5 DEF AskModel, RecordsOK, NodeAt
  <2> QED BY <1>1, <1>5, <2>1 DEF AskModel, RecordsOK, engineVars, gstVars
<1>6. CASE SwitchBegins \/ SwitchBusy \/ StopWorker \/ JoinWorker \/ Drain \/ JoinCamera \/ JoinFails \/ Interrupt
  BY <1>1, <1>6 DEF SwitchBegins, SwitchBusy, StopWorker, JoinWorker, Drain, JoinCamera, JoinFails,
     Interrupt, Destroy, NodeTo, RecordsOK, NodeAt, engineVars, gstVars
<1>7. CASE Switch
  <2>1. node.wanted \in Hefs /\ hefPath' \in Hefs /\ Typed
    BY <1>1, <1>7 DEF Switch, NodeTo, RecordsOK
  <2>2. PICK succeeds \in BOOLEAN : Load(node.wanted, succeeds)
    BY <1>7 DEF Switch
  <2>3. node' \in [at : NodeAt, wanted : Hefs, old : Hefs]
    BY <1>1, <1>7 DEF Switch, NodeTo, RecordsOK, NodeAt
  <2> QED BY <1>1, <2>1, <2>2, <2>3, LoadTypes DEF RecordsOK
<1>8. CASE Rollback
  <2>1. node.old \in Hefs /\ hefPath' = hefPath /\ Typed
    BY <1>1, <1>8 DEF Rollback, NodeTo, RecordsOK
  <2>2. PICK succeeds \in BOOLEAN : Reload(node.old, succeeds)
    BY <1>8 DEF Rollback
  <2>3. node' \in [at : NodeAt, wanted : Hefs, old : Hefs]
    BY <1>1, <1>8 DEF Rollback, NodeTo, RecordsOK, NodeAt
  <2> QED BY <1>1, <2>1, <2>2, <2>3, ReloadTypes DEF RecordsOK
<1>9. CASE Close
  <2>1. engine' \in Engine /\ engine'.kind = engine.kind
    BY <1>1, <1>9 DEF Close, CloseEngine, RecordsOK, Engine
  <2>2. node' \in [at : NodeAt, wanted : Hefs, old : Hefs]
    BY <1>1, <1>9 DEF Close, NodeTo, RecordsOK, NodeAt
  <2> QED BY <1>1, <1>9, <2>1, <2>2 DEF Close, CloseEngine, NodeTo, RecordsOK
<1>10. CASE Deliver
  <2>1. queue' \in Seq(Nat) /\ received' \in Nat
    BY <1>1, <1>10, EnqueueTypes DEF Deliver, OnImage, RecordsOK
  <2> QED BY <1>1, <1>10, <2>1 DEF Deliver, OnImage, RecordsOK, engineVars, gstVars
<1> QED BY <1>2, <1>3, <1>4, <1>5, <1>6, <1>7, <1>8, <1>9, <1>10
  DEF Next, Configure, OpenFirst, Process, NodeThread, NodeStep, ReidStep, ReidTo, Capture, CameraTo,
      vars, pipeAll, pipelineVars

\* What the actions of the worker outside the engine make of its record.
LEMMA WorkerQuiet ==
  ASSUME RecordsOK
  PROVE  /\ Dequeue => worker'.at = "prepare" /\ worker'.got = None
         /\ WorkerEnds => worker'.at = "ended" /\ worker'.got = worker.got /\ worker'.id = worker.id
         /\ Prepare \/ PublishDetections =>
              /\ worker'.at \in {"prepared", "idle"} /\ worker'.id = worker.id
              /\ worker'.got \in {worker.got, None}
         /\ PublishDetections => worker'.at = "idle" /\ worker'.got = None
         /\ EnterEngine => worker'.at = "call" /\ worker'.got = worker.got /\ worker'.id = worker.id
         /\ LeaveEngine => worker'.at = "publish" /\ worker'.got = worker.got /\ worker'.id = worker.id
         /\ ~Dequeue /\ WorkerStep => worker'.frame = worker.frame /\ worker'.id = worker.id
<1>1. worker \in [at : WorkerAt, frame : Nat, id : Nat, got : Nat]
  BY DEF RecordsOK
<1>2. Dequeue => worker'.at = "prepare" /\ worker'.got = None
  BY DEF Dequeue
<1>3. WorkerEnds => /\ worker'.at = "ended" /\ worker'.got = worker.got /\ worker'.id = worker.id
                    /\ worker'.frame = worker.frame
  BY <1>1 DEF WorkerEnds
<1>4. /\ WorkerIdle.at = "idle" /\ WorkerIdle.got = None
      /\ WorkerIdle.id = worker.id /\ WorkerIdle.frame = worker.frame
  BY <1>1 DEF WorkerIdle
<1>5. Prepare \/ PublishDetections =>
        /\ worker'.at \in {"prepared", "idle"} /\ worker'.id = worker.id
        /\ worker'.got \in {worker.got, None} /\ worker'.frame = worker.frame
  <2>1. LET w == [worker EXCEPT !.at = "prepared"]
        IN  w.at = "prepared" /\ w.id = worker.id /\ w.got = worker.got /\ w.frame = worker.frame
    BY <1>1
  <2>2. Prepare \/ PublishDetections => worker' \in {[worker EXCEPT !.at = "prepared"], WorkerIdle}
    BY DEF Prepare, PublishDetections
  <2> QED BY <1>4, <2>1, <2>2
<1>6. PublishDetections => worker'.at = "idle" /\ worker'.got = None
  BY <1>4 DEF PublishDetections
<1>7. EnterEngine => /\ worker'.at = "call" /\ worker'.got = worker.got /\ worker'.id = worker.id
                     /\ worker'.frame = worker.frame
  BY <1>1 DEF EnterEngine
<1>8. LeaveEngine => /\ worker'.at = "publish" /\ worker'.got = worker.got /\ worker'.id = worker.id
                     /\ worker'.frame = worker.frame
  BY <1>1 DEF LeaveEngine
<1>9. Call \/ DirectReturns \/ GstReturns => worker'.frame = worker.frame /\ worker'.id = worker.id
  <2>1. \A at, got : WorkerTo(at, got) => worker'.frame = worker.frame /\ worker'.id = worker.id
    BY <1>1 DEF WorkerTo
  <2>2. Call \/ DirectReturns \/ GstReturns => \E at, got : WorkerTo(at, got)
    BY DEF Call, DirectReturns, GstReturns
  <2> QED BY <2>1, <2>2
<1> QED BY <1>2, <1>3, <1>5, <1>6, <1>7, <1>8, <1>9 DEF WorkerStep

\* A model change begins with no call in the engine, and none enters while the
\* node's thread keeps the lock.
LEMMA CallsStep == PInv /\ [Next]_vars => CallsAreCounted'
<1> SUFFICES ASSUME PInv, [Next]_vars PROVE CallsAreCounted'
  OBVIOUS
<1>1. CallsAreCounted /\ RecordsOK
  BY DEF PInv
<1> USE DEF CallsAreCounted, Calls, Counted
<1>2. CASE WorkerStep
  <2>1. UNCHANGED <<node, reid>>
    BY <1>2 DEF WorkerStep, Dequeue, WorkerEnds, Prepare, EnterEngine, Call, DirectReturns,
       GstReturns, LeaveEngine, PublishDetections, WorkerTo
  <2>2. CASE EnterEngine
    BY <1>1, <2>1, <2>2 DEF EnterEngine, EngineLocked, RecordsOK
  <2>3. CASE LeaveEngine
    BY <1>1, <2>1, <2>3 DEF LeaveEngine, EngineLocked, RecordsOK
  <2>4. CASE ~EnterEngine /\ ~LeaveEngine
    <3>1. active' = active
      BY <1>2, <2>4 DEF WorkerStep, Dequeue, WorkerEnds, Prepare, Call, DirectReturns, GstReturns,
         PublishDetections, WorkerTo
    <3>2. worker'.at \in Counted <=> worker.at \in Counted
      <4>1. CASE Dequeue \/ WorkerEnds \/ Prepare \/ PublishDetections
        <5>1. worker.at \notin Counted
          BY <4>1 DEF Dequeue, WorkerEnds, Prepare, PublishDetections
        <5>2. worker'.at \in {"prepare", "ended", "prepared", "idle"}
          BY <1>1, <4>1, WorkerQuiet
        <5> QED BY <5>1, <5>2
      <4>2. CASE Call \/ DirectReturns \/ GstReturns
        BY <1>1, <4>2 DEF Call, DirectReturns, GstReturns, WorkerTo, InDirectCall, RecordsOK
      <4> QED BY <1>2, <2>4, <4>1, <4>2 DEF WorkerStep
    <3> QED BY <1>1, <2>1, <3>1, <3>2
  <2> QED BY <2>2, <2>3, <2>4
<1>3. CASE ReidStep
  BY <1>1, <1>3 DEF ReidStep, ReidTo, EngineLocked
<1>4. CASE SwitchBegins
  BY <1>1, <1>4 DEF SwitchBegins, NodeTo
<1>5. CASE Switch
  <2>1. active = 0 /\ UNCHANGED <<active, worker, reid>>
    BY <1>1, <1>5 DEF Switch, NodeTo
  <2> QED BY <1>1, <2>1
<1>6. CASE UNCHANGED <<active, worker, reid>> /\ node'.at \notin {"reloading", "rollback"}
  BY <1>1, <1>6
<1>7. CASE UNCHANGED <<active, worker, reid, node>>
  BY <1>1, <1>7
<1>8. CASE AskModel \/ JoinCamera \/ JoinFails \/ Interrupt \/ SwitchBusy \/ Rollback \/ StopWorker
           \/ JoinWorker \/ Drain \/ Close
  BY <1>1, <1>6, <1>8 DEF AskModel, JoinCamera, JoinFails, Interrupt, SwitchBusy, Rollback,
     StopWorker, JoinWorker, Drain, Close, Destroy, NodeTo, RecordsOK
<1> QED BY <1>2, <1>3, <1>4, <1>5, <1>7, <1>8
  DEF Next, Configure, OpenFirst, Process, NodeThread, NodeStep, EngineStep, Capture, CameraTo, Deliver,
      OnImage, vars, pipeAll, pipelineVars

\* destroy_node of the camera node raises rather than go on without the
\* capture thread, and an ended thread does not begin again.
LEMMA CameraStep == PInv /\ [Next]_vars => CameraEndedFirst'
<1> SUFFICES ASSUME PInv, [Next]_vars PROVE CameraEndedFirst'
  OBVIOUS
<1>1. CameraEndedFirst /\ RecordsOK
  BY DEF PInv
<1> USE DEF CameraEndedFirst
<1>2. CASE Configure \/ OpenFirst
  BY <1>1, <1>2 DEF Configure, OpenFirst, CameraTo, pipeAll, pipelineVars
<1>3. CASE Capture
  BY <1>1, <1>3 DEF Capture, CameraTo, CameraStop, pipeAll, pipelineVars
<1>4. CASE Deliver
  BY <1>1, <1>4 DEF Deliver, OnImage, CameraTo
<1>5. CASE JoinCamera
  BY <1>5 DEF JoinCamera, cameraVars
<1>7. CASE node'.at \notin {"stopping", "joining", "draining", "closing"}
  BY <1>7
<1>8. CASE UNCHANGED <<node, camera>>
  BY <1>1, <1>8
<1>9. CASE AskModel \/ SwitchBegins \/ SwitchBusy \/ Switch \/ Rollback \/ Close \/ JoinFails \/ Interrupt
  <2>1. node'.at \in {"waiting", "reloading", "rollback", "serving", "destroyed", "raised", "stop_camera"}
    <3>1. \A at : NodeTo(at) => node'.at = at
      BY <1>1 DEF NodeTo, RecordsOK
    <3>2. AskModel => node'.at = "waiting"
      BY DEF AskModel
    <3>3. Switch => NodeTo("serving") \/ NodeTo("rollback")
      BY DEF Switch
    <3>4. CASE SwitchBegins \/ SwitchBusy \/ Rollback \/ Close \/ JoinFails \/ Interrupt
      BY <3>1, <3>4 DEF SwitchBegins, SwitchBusy, Rollback, Close, JoinFails, Interrupt
    <3> QED BY <1>9, <3>1, <3>2, <3>3, <3>4
  <2> QED BY <1>7, <2>1
<1>10. CASE (StopWorker \/ JoinWorker \/ Drain) /\ UNCHANGED cameraVars
  BY <1>1, <1>10 DEF StopWorker, JoinWorker, Drain, NodeTo, RecordsOK, cameraVars
<1>11. CASE WorkerStep /\ UNCHANGED cameraVars
  BY <1>8, <1>11 DEF WorkerStep, Dequeue, WorkerEnds, Prepare, EnterEngine, Call, DirectReturns,
     GstReturns, LeaveEngine, PublishDetections, WorkerTo, cameraVars
<1>12. CASE ((ReidStep \/ EngineStep) /\ UNCHANGED cameraVars) \/ UNCHANGED vars
  BY <1>8, <1>12 DEF ReidStep, ReidTo, EngineStep, pipelineVars, vars, pipeAll, cameraVars
<1> QED BY <1>2, <1>3, <1>4, <1>5, <1>9, <1>10, <1>11, <1>12
  DEF Next, Process, NodeThread, NodeStep

\* The parameter takes the new path in the step in which the model is loaded;
\* a failed change and its rollback, failed or not, end with the old path.
LEMMA PathStep == PInv /\ [Next]_vars => PathFollowsModel'
<1> SUFFICES ASSUME PInv, [Next]_vars PROVE PathFollowsModel'
  OBVIOUS
<1>1. PathFollowsModel /\ RecordsOK
  BY DEF PInv
<1> USE DEF PathFollowsModel
<1>2. \A at \in NodeAt : NodeTo(at) => node' = [node EXCEPT !.at = at] /\ node'.at = at /\ node'.old = node.old
  BY <1>1 DEF NodeTo, RecordsOK
<1>3. CASE AskModel
  <2>1. node' = [at |-> "waiting", wanted |-> node'.wanted, old |-> hefPath]
    BY <1>3 DEF AskModel
  <2> QED BY <1>1, <1>3, <2>1 DEF AskModel, engineVars
<1>4. CASE SwitchBegins \/ SwitchBusy \/ StopWorker \/ JoinWorker \/ Drain \/ JoinCamera \/ JoinFails \/ Interrupt
  <2>1. node'.at \in NodeAt \ {"rollback"} /\ node.at # "rollback" /\ UNCHANGED <<engine, hefPath>>
    BY <1>2, <1>4 DEF SwitchBegins, SwitchBusy, StopWorker, JoinWorker, Drain, JoinCamera, JoinFails,
       Interrupt, Destroy, NodeAt, engineVars
  <2>2. node'.at = "reloading" => node.at = "waiting"
    BY <1>2, <1>4 DEF SwitchBegins, SwitchBusy, StopWorker, JoinWorker, Drain, JoinCamera, JoinFails,
       Interrupt, Destroy, NodeAt
  <2>3. node'.old = node.old /\ node'.at # "waiting"
    BY <1>2, <1>4 DEF SwitchBegins, SwitchBusy, StopWorker, JoinWorker, Drain, JoinCamera, JoinFails,
       Interrupt, Destroy, NodeAt
  <2> QED BY <1>1, <2>1, <2>2, <2>3
<1>5. CASE Switch
  <2>1. node.at = "reloading" /\ node.wanted \in Hefs
    BY <1>1, <1>5 DEF Switch, RecordsOK
  <2>2. CASE Load(node.wanted, TRUE) /\ hefPath' = node.wanted /\ NodeTo("serving")
    <3>1. engine'.model = node.wanted
      BY <1>1, <2>1, <2>2, LoadTypes
    <3>2. node'.at = "serving"
      BY <1>2, <2>2 DEF NodeAt
    <3> QED BY <2>2, <3>1, <3>2
  <2>3. CASE /\ Load(node.wanted, FALSE) /\ UNCHANGED hefPath
             /\ NodeTo(IF engine.kind = "stub" THEN "serving" ELSE "rollback")
    <3>1. CASE engine.kind = "stub"
      <4>1. engine' = engine
        BY <2>3, <3>1 DEF Load
      <4>2. node'.at = "serving"
        BY <1>2, <2>3, <3>1 DEF NodeAt
      <4> QED BY <1>1, <2>1, <2>3, <4>1, <4>2
    <3>2. CASE engine.kind # "stub"
      <4>1. node'.at = "rollback" /\ node'.old = node.old
        BY <1>2, <2>3, <3>2 DEF NodeAt
      <4> QED BY <1>1, <2>1, <2>3, <4>1
    <3> QED BY <3>1, <3>2
  <2> QED BY <1>5, <2>2, <2>3 DEF Switch
<1>6. CASE Rollback
  <2>1. node.at = "rollback" /\ node.old = hefPath /\ hefPath' = hefPath /\ hefPath \in Hefs
    BY <1>1, <1>6 DEF Rollback, RecordsOK
  <2>2. PICK succeeds \in BOOLEAN : Reload(node.old, succeeds)
    BY <1>6 DEF Rollback
  <2>3. engine'.model = node.old
    BY <1>1, <2>1, <2>2, ReloadTypes
  <2>4. node'.at = "serving"
    BY <1>2, <1>6 DEF Rollback, NodeAt
  <2> QED BY <2>1, <2>3, <2>4
<1>7. CASE Close
  <2>1. node.at = "closing" /\ node'.at = "destroyed" /\ hefPath' = hefPath
    BY <1>2, <1>7 DEF Close, NodeAt
  <2>2. engine'.model = engine.model
    BY <1>1, <1>7 DEF Close, CloseEngine, RecordsOK, Engine
  <2> QED BY <1>1, <2>1, <2>2
<1>8. CASE UNCHANGED <<engine, node, hefPath>>
  BY <1>1, <1>8
<1>9. CASE WorkerStep
  BY <1>8, <1>9 DEF WorkerStep, Dequeue, WorkerEnds, Prepare, EnterEngine, Call, DirectReturns,
     GstReturns, LeaveEngine, PublishDetections, WorkerTo, Push, TakeResult, GiveUp, engineVars
<1>10. CASE ReidStep \/ EngineStep \/ Configure \/ OpenFirst \/ Capture \/ Deliver \/ UNCHANGED vars
  BY <1>8, <1>10 DEF ReidStep, ReidTo, EngineStep, Leak, ProbeTakes, ProbeFiles, Configure, OpenFirst,
     Capture, CameraTo, Deliver, OnImage, vars, pipeAll, pipelineVars, engineVars
<1> QED BY <1>3, <1>4, <1>5, <1>6, <1>7, <1>9, <1>10 DEF Next, Process, NodeThread, NodeStep

\* A call takes the result filed under its own number, or none.
LEMMA OwnStep == PInv /\ [Next]_vars => OwnResult'
<1> SUFFICES ASSUME PInv, [Next]_vars PROVE OwnResult'
  OBVIOUS
<1>1. OwnResult /\ RecordsOK
  BY DEF PInv
<1>2. worker \in [at : WorkerAt, frame : Nat, id : Nat, got : Nat]
  BY <1>1 DEF RecordsOK
<1> USE DEF OwnResult
<1>3. CASE PublishDetections
  <2>1. worker'.got = None
    BY <1>1, <1>3, WorkerQuiet
  <2>2. published' = published \/ published' = [frame |-> worker.frame, id |-> worker.id, of |-> worker.got]
    BY <1>3 DEF PublishDetections
  <2> QED BY <1>1, <2>1, <2>2
<1>4. CASE Dequeue \/ WorkerEnds \/ Prepare \/ EnterEngine \/ LeaveEngine
  <2>1. worker'.got = None \/ (worker'.got = worker.got /\ worker'.id = worker.id)
    BY <1>1, <1>4, WorkerQuiet DEF None
  <2>2. published' = published
    BY <1>4 DEF Dequeue, WorkerEnds, Prepare, EnterEngine, LeaveEngine
  <2> QED BY <1>1, <2>1, <2>2
<1>5. CASE Call \/ DirectReturns \/ GstReturns
  <2>1. \A at \in WorkerAt, got \in Nat :
          WorkerTo(at, got) => worker'.got = got /\ worker'.id = worker.id /\ published' = published
    BY <1>2 DEF WorkerTo
  <2>2. \E at \in {"back", "infer"}, got \in {None, worker.id} : WorkerTo(at, got)
    BY <1>5 DEF Call, DirectReturns, GstReturns, ResultFor
  <2> QED BY <1>1, <1>2, <2>1, <2>2 DEF None, WorkerAt
<1>6. CASE UNCHANGED <<worker, published>>
  BY <1>1, <1>6
<1>7. CASE ~WorkerStep
  BY <1>6, <1>7 DEF Next, Process, NodeThread, NodeStep, AskModel, SwitchBegins, SwitchBusy, Switch,
     Rollback, StopWorker, JoinWorker, Drain, Close, JoinCamera, JoinFails, Interrupt, Destroy, NodeTo,
     ReidStep, ReidTo, EngineStep, Configure, OpenFirst, Capture, CameraTo, Deliver, OnImage, vars,
     pipeAll, pipelineVars
<1> QED BY <1>3, <1>4, <1>5, <1>7 DEF WorkerStep

\* The worker takes the head of the queue and publishes each frame at most
\* once before it takes the next.
LEMMA OrderStep == PInv /\ [Next]_vars => FramesInOrder'
<1> SUFFICES ASSUME PInv, [Next]_vars PROVE FramesInOrder'
  OBVIOUS
<1>1. FramesInOrder /\ RecordsOK /\ Len(queue) <= QueueSize
  BY DEF PInv
<1>2. /\ queue \in Seq(Nat) /\ received \in Nat /\ nextId \in Nat
      /\ worker \in [at : WorkerAt, frame : Nat, id : Nat, got : Nat]
      /\ published \in [frame : Nat, id : Nat, of : Nat]
  BY <1>1 DEF RecordsOK
<1> USE DEF FramesInOrder
<1>3. CASE Deliver
  <2>1. UNCHANGED <<worker, nextId, published>> /\ received' = received + 1
        /\ queue' = Enqueue(queue, received + 1)
    BY <1>3 DEF Deliver, OnImage
  <2>2. CASE Len(queue) < QueueSize
    <3>1. queue' = Append(queue, received + 1)
      BY <2>1, <2>2 DEF Enqueue
    <3>2. /\ Len(queue') = Len(queue) + 1 /\ queue'[Len(queue) + 1] = received + 1
          /\ \A i \in 1 .. Len(queue) : queue'[i] = queue[i] /\ queue[i] \in Nat
      BY <1>2, <3>1
    <3>3. ASSUME NEW i \in 1 .. Len(queue'), NEW j \in 1 .. Len(queue'), i < j
          PROVE  queue'[i] < queue'[j]
      <4>1. i \in 1 .. Len(queue) /\ queue'[i] = queue[i] /\ queue[i] \in Nat /\ queue[i] <= received
        BY <1>1, <1>2, <3>2, <3>3, SMTT(30)
      <4>2. CASE j = Len(queue) + 1
        BY <1>2, <3>2, <4>1, <4>2
      <4>3. CASE j \in 1 .. Len(queue)
        BY <1>1, <3>2, <3>3, <4>1, <4>3
      <4> QED BY <1>2, <3>2, <4>2, <4>3
    <3>4. ASSUME NEW i \in 1 .. Len(queue')
          PROVE  worker'.frame < queue'[i] /\ queue'[i] <= received'
      <4>1. CASE i = Len(queue) + 1
        BY <1>1, <1>2, <2>1, <3>2, <4>1
      <4>2. CASE i \in 1 .. Len(queue)
        <5>1. worker.frame < queue[i] /\ queue[i] <= received /\ queue'[i] = queue[i] /\ queue[i] \in Nat
          BY <1>1, <3>2, <4>2
        <5> QED BY <1>2, <2>1, <5>1
      <4> QED BY <1>2, <3>2, <4>1, <4>2
    <3> QED BY <1>1, <1>2, <2>1, <3>3, <3>4
  <2>3. CASE ~(Len(queue) < QueueSize)
    <3>1. queue' = Append(Tail(queue), received + 1)
      BY <2>1, <2>3 DEF Enqueue
    <3>2. queue # <<>>
      BY <1>2, <2>3, PipelineAssumption
    <3>3. /\ Tail(queue) \in Seq(Nat) /\ Len(Tail(queue)) = Len(queue) - 1
          /\ \A i \in 1 .. Len(queue) - 1 : Tail(queue)[i] = queue[i + 1] /\ queue[i + 1] \in Nat
      BY <1>2, <3>2
    <3>4. /\ Len(queue') = Len(queue) /\ queue'[Len(queue)] = received + 1
          /\ \A i \in 1 .. Len(queue) - 1 : queue'[i] = queue[i + 1] /\ queue[i + 1] \in Nat
      BY <1>2, <3>1, <3>3
    <3>5. ASSUME NEW i \in 1 .. Len(queue'), NEW j \in 1 .. Len(queue'), i < j
          PROVE  queue'[i] < queue'[j]
      <4>1. /\ i \in 1 .. Len(queue) - 1 /\ i + 1 \in 1 .. Len(queue)
            /\ queue'[i] = queue[i + 1] /\ queue[i + 1] \in Nat /\ queue[i + 1] <= received
        BY <1>1, <1>2, <3>4, <3>5, SMTT(30)
      <4>2. CASE j = Len(queue)
        BY <1>2, <3>4, <4>1, <4>2
      <4>3. CASE j \in 1 .. Len(queue) - 1
        <5>1. j + 1 \in 1 .. Len(queue) /\ i + 1 < j + 1
          BY <1>2, <3>5, <4>1, <4>3
        <5>2. queue[i + 1] < queue[j + 1]
          BY <1>1, <4>1, <5>1
        <5> QED BY <3>4, <4>1, <4>3, <5>2
      <4> QED BY <1>2, <3>4, <4>2, <4>3
    <3>6. ASSUME NEW i \in 1 .. Len(queue')
          PROVE  worker'.frame < queue'[i] /\ queue'[i] <= received'
      <4>1. CASE i = Len(queue)
        BY <1>1, <1>2, <2>1, <3>4, <4>1
      <4>2. CASE i \in 1 .. Len(queue) - 1
        <5>1. i + 1 \in 1 .. Len(queue)
          BY <1>2, <4>2
        <5>2. worker.frame < queue[i + 1] /\ queue[i + 1] <= received
          BY <1>1, <5>1
        <5> QED BY <1>2, <2>1, <3>4, <4>2, <5>2, SMTT(30)
      <4> QED BY <1>2, <3>4, <4>1, <4>2
    <3> QED BY <1>1, <1>2, <2>1, <3>5, <3>6
  <2> QED BY <2>2, <2>3
<1>4. CASE Dequeue
  <2>1. queue # <<>> /\ queue' = Tail(queue) /\ nextId' = nextId + 1
        /\ UNCHANGED <<received, published>>
        /\ worker' = [at |-> "prepare", frame |-> Head(queue), id |-> nextId, got |-> None]
    BY <1>4 DEF Dequeue
  <2>2. /\ Len(queue') = Len(queue) - 1 /\ Len(queue) >= 1 /\ queue[1] \in Nat
        /\ \A i \in 1 .. Len(queue) - 1 : queue'[i] = queue[i + 1] /\ queue[i + 1] \in Nat
    BY <1>2, <2>1, SMTT(30)
  <2>3. worker'.frame = queue[1] /\ worker'.id = nextId /\ worker'.at = "prepare"
    BY <1>2, <2>1
  <2> QED BY <1>1, <1>2, <2>1, <2>2, <2>3, SMTT(30)
<1>5. CASE WorkerStep /\ ~Dequeue
  <2>1. UNCHANGED <<queue, received, nextId>>
    BY <1>5 DEF WorkerStep, WorkerEnds, Prepare, EnterEngine, Call, DirectReturns, GstReturns,
       LeaveEngine, PublishDetections, WorkerTo
  <2>2. worker'.frame = worker.frame /\ worker'.id = worker.id
    BY <1>1, <1>5, WorkerQuiet
  <2>3. CASE PublishDetections
    <3>1. worker'.at = "idle" /\ worker.at = "publish"
      BY <1>1, <2>3, WorkerQuiet DEF PublishDetections
    <3>2. \/ published' = published
          \/ published'.frame = worker.frame /\ published'.id = worker.id
      BY <2>3 DEF PublishDetections
    <3>3. published.frame < worker.frame /\ published.id < worker.id
      BY <1>1, <3>1
    <3>4. published'.frame <= worker'.frame /\ published'.id <= worker'.id
      BY <1>2, <2>2, <3>2, <3>3
    <3> QED BY <1>1, <2>1, <2>2, <3>1, <3>4
  <2>4. CASE ~PublishDetections
    <3>1. published' = published
      BY <1>5, <2>4 DEF WorkerStep, WorkerEnds, Prepare, EnterEngine, Call, DirectReturns, GstReturns,
         LeaveEngine, WorkerTo
    <3>2. worker.at \in {"idle", "ended"} => worker'.at \in {"idle", "ended"}
      BY <1>1, <1>5, <2>4, WorkerQuiet DEF WorkerStep, WorkerEnds, Prepare, EnterEngine, Call,
         DirectReturns, GstReturns, LeaveEngine, InDirectCall
    <3> QED BY <1>1, <2>1, <2>2, <3>1, <3>2
  <2> QED BY <2>3, <2>4
<1>6. CASE UNCHANGED <<queue, received, nextId, worker, published>>
  BY <1>1, <1>6
<1>7. CASE ~WorkerStep /\ ~Deliver
  BY <1>6, <1>7 DEF Next, Process, NodeThread, NodeStep, AskModel, SwitchBegins, SwitchBusy, Switch,
     Rollback, StopWorker, JoinWorker, Drain, Close, JoinCamera, JoinFails, Interrupt, Destroy, NodeTo,
     ReidStep, ReidTo, EngineStep, Configure, OpenFirst, Capture, CameraTo, vars, pipeAll, pipelineVars
<1> QED BY <1>3, <1>4, <1>5, <1>7

\* The queue has its bound; the camera streams only after rate controls that
\* were not asked for or were applied.
LEMMA RestStep ==
  PInv /\ [Next]_vars => Len(queue') <= QueueSize /\ RateFirst' /\ rate' \in Outcomes
<1> SUFFICES ASSUME PInv, [Next]_vars
             PROVE  Len(queue') <= QueueSize /\ RateFirst' /\ rate' \in Outcomes
  OBVIOUS
<1>1. RecordsOK /\ Len(queue) <= QueueSize /\ RateFirst /\ rate \in Outcomes
  BY DEF PInv
<1>2. Len(queue') <= QueueSize
  <2>1. CASE Deliver
    BY <1>1, <2>1, EnqueueTypes DEF Deliver, OnImage, RecordsOK
  <2>2. CASE Dequeue
    <3>1. queue \in Seq(Nat) /\ queue # <<>> /\ queue' = Tail(queue)
      BY <1>1, <2>2 DEF Dequeue, RecordsOK
    <3>2. Len(queue') = Len(queue) - 1 /\ Len(queue) \in Nat
      BY <3>1
    <3> QED BY <1>1, <3>2, PipelineAssumption
  <2>3. CASE ~Deliver /\ ~Dequeue
    <3>1. queue' = queue
      BY <2>3 DEF Next, Process, NodeThread, NodeStep, AskModel, SwitchBegins, SwitchBusy, Switch,
         Rollback, StopWorker, JoinWorker, Drain, Close, JoinCamera, JoinFails, Interrupt, Destroy,
         NodeTo, WorkerStep, WorkerEnds, Prepare, EnterEngine, Call, DirectReturns, GstReturns,
         LeaveEngine, PublishDetections, WorkerTo, ReidStep, ReidTo, EngineStep, Configure, OpenFirst,
         Capture, CameraTo, vars, pipeAll, pipelineVars
    <3> QED BY <1>1, <3>1
  <2> QED BY <2>1, <2>2, <2>3
<1>3. RateFirst' /\ rate' \in Outcomes
  <2> USE DEF RateFirst, Outcomes
  <2>1. CASE Configure
    BY <1>1, <2>1 DEF Configure, ReturnCode
  <2>2. CASE UNCHANGED rate /\ camera # "exited"
    BY <1>1, <2>2
  <2>3. CASE UNCHANGED cameraVars
    BY <1>1, <2>3 DEF cameraVars
  <2>4. CASE OpenFirst \/ Capture \/ Deliver
    BY <2>2, <2>4 DEF OpenFirst, Capture, Deliver, CameraTo
  <2> QED BY <2>1, <2>3, <2>4
      DEF Next, Process, NodeThread, JoinCamera, JoinFails, Interrupt, cameraVars, vars
<1> QED BY <1>2, <1>3

\* Every step keeps the invariant.
LEMMA PStep == PInv /\ [Next]_vars => PInv'
BY RecordsStep, CallsStep, CameraStep, PathStep, OrderStep, OwnStep, RestStep DEF PInv

\* The invariant holds for ever.
LEMMA PerceptionInv == Spec => []PInv
BY PInit, PStep, PTL DEF Spec

-----------------------------------------------------------------------------
(* The properties.                                                         *)

\* The number of the two threads that are in the engine.
LEMMA CountOfThreads ==
  ASSUME NEW a, NEW b
  PROVE  Cardinality({t \in {<<"worker", a>>, <<"reid", b>>} : t[2] \in Counted}) = Calls(a) + Calls(b)
<1> DEFINE S == {t \in {<<"worker", a>>, <<"reid", b>>} : t[2] \in Counted}
<1>1. <<"worker", a>> # <<"reid", b>>
  OBVIOUS
<1>2. CASE a \in Counted /\ b \in Counted
  <2>1. S = {<<"reid", b>>} \cup {<<"worker", a>>}
    BY <1>2
  <2>2. IsFiniteSet({<<"reid", b>>}) /\ Cardinality({<<"reid", b>>}) = 1
    BY FS_Singleton
  <2>3. <<"worker", a>> \notin {<<"reid", b>>}
    BY <1>1
  <2>4. Cardinality({<<"reid", b>>} \cup {<<"worker", a>>}) = 1 + 1
    BY <2>2, <2>3, FS_AddElement
  <2>5. Cardinality(S) = 2
    BY <2>1, <2>4
  <2> QED BY <1>2, <2>5 DEF Calls
<1>3. CASE a \in Counted /\ b \notin Counted
  <2>1. S = {<<"worker", a>>}
    BY <1>3
  <2>2. Cardinality(S) = 1
    BY <2>1, FS_Singleton
  <2> QED BY <1>3, <2>2 DEF Calls
<1>4. CASE a \notin Counted /\ b \in Counted
  <2>1. S = {<<"reid", b>>}
    BY <1>4
  <2>2. Cardinality(S) = 1
    BY <2>1, FS_Singleton
  <2> QED BY <1>4, <2>2 DEF Calls
<1>5. CASE a \notin Counted /\ b \notin Counted
  <2>1. S = {}
    BY <1>5
  <2> QED BY <1>5, <2>1, FS_EmptySet DEF Calls
<1> QED BY <1>2, <1>3, <1>4, <1>5

\* What the node holds fits together: the count of calls is that of the
\* threads in the engine, the parameter names the model loaded, the camera
\* streams only at the rate asked for, and detections are those of their image.
THEOREM Pipeline_Consistent == Spec => []PipelineConsistent
<1>1. PInv => TypeOK
  <2> SUFFICES ASSUME PInv PROVE TypeOK
    OBVIOUS
  <2>1. RecordsOK /\ CallsAreCounted /\ FramesInOrder /\ Len(queue) <= QueueSize /\ rate \in Outcomes
    BY DEF PInv
  <2>2. nextId \in 1 .. received + 1 /\ worker.frame \in 0 .. received /\ worker.at \in WorkerAt
    BY <2>1 DEF RecordsOK, FramesInOrder
  <2>3. active = Cardinality({t \in {<<"worker", worker.at>>, <<"reid", reid>>} :
                                t[2] \in {"call", "infer", "back"}})
    BY <2>1, CountOfThreads DEF CallsAreCounted, Counted
  <2>4. /\ engine.kind \in Backends \cup {"stub"} /\ engine.model \in Hefs
        /\ engine.state \in {"open", "unconfigured", "closed"}
    BY <2>1 DEF RecordsOK, Engine
  <2> QED BY <2>1, <2>2, <2>3, <2>4 DEF TypeOK
<1>2. PInv => NoStreamWithoutRate /\ ParameterIsTheModel /\ OwnDetections
  BY DEF PInv, RateFirst, NoStreamWithoutRate, Up, PathFollowsModel, ParameterIsTheModel, OwnResult, OwnDetections
<1>3. PInv => PipelineConsistent
  BY <1>1, <1>2 DEF PipelineConsistent
<1> QED BY <1>3, PerceptionInv, PTL

\* No step takes the device or the pipeline from a call: models change only
\* while no thread is in the engine, and destroy_node closes it only after the
\* camera and, if it is the direct one, between two calls.
THEOREM Engine_Stays_Under_A_Call == Spec => EngineStaysUnderACall
<1>1. ASSUME PInv, [Next]_vars, engine' # engine
      PROVE  /\ engine'.state # "closed" => worker.at \notin InEngine /\ reid \notin InEngine
             /\ engine.kind = "direct" => worker.at # "infer" /\ reid # "infer"
             /\ engine'.state = "closed" /\ engine.state # "closed" => camera \in {"ended", "dead"}
  <2>1. RecordsOK /\ CallsAreCounted /\ CameraEndedFirst
    BY <1>1 DEF PInv
  <2>2. Switch \/ Rollback \/ Close
    BY <1>1 DEF Next, Process, NodeThread, NodeStep, AskModel, SwitchBegins, SwitchBusy, StopWorker,
       JoinWorker, Drain, JoinCamera, JoinFails, Interrupt, Destroy, WorkerStep, Dequeue, WorkerEnds,
       Prepare, EnterEngine, Call, DirectReturns, GstReturns, LeaveEngine, PublishDetections, Push,
       TakeResult, GiveUp, ReidStep, ReidTo, EngineStep, Leak, ProbeTakes, ProbeFiles, Configure,
       OpenFirst, Capture, Deliver, OnImage, vars, pipeAll, engineVars
  <2>3. CASE Switch \/ Rollback
    <3>1. worker.at \notin Counted /\ reid \notin Counted
      <4>1. active = 0
        BY <2>1, <2>3 DEF Switch, Rollback, CallsAreCounted
      <4>2. Calls(worker.at) \in {0, 1} /\ Calls(reid) \in {0, 1}
        BY DEF Calls
      <4>3. Calls(worker.at) = 0 /\ Calls(reid) = 0
        BY <2>1, <4>1, <4>2 DEF CallsAreCounted
      <4> QED BY <4>3 DEF Calls
    <3>2. engine'.state # "closed"
      <4>1. node.wanted \in Hefs /\ node.old \in Hefs
        BY <2>1 DEF RecordsOK
      <4>2. PICK succeeds \in BOOLEAN : Load(node.wanted, succeeds) \/ Reload(node.old, succeeds)
        BY <2>3 DEF Switch, Rollback
      <4> QED BY <1>1, <2>1, <4>1, <4>2, LoadTypes, ReloadTypes
    <3> QED BY <3>1, <3>2 DEF Counted, InEngine
  <2>4. CASE Close
    <3>1. engine'.state = "closed"
      BY <2>1, <2>4 DEF Close, CloseEngine, RecordsOK, Engine
    <3>2. engine.kind = "direct" => worker.at # "infer" /\ reid # "infer"
      BY <2>4 DEF Close, DeviceFree, InDirectCall
    <3>3. camera \in {"ended", "dead"}
      BY <2>1, <2>4 DEF Close, CameraEndedFirst
    <3> QED BY <3>1, <3>2, <3>3
  <2> QED BY <2>2, <2>3, <2>4
<1> QED BY <1>1, PerceptionInv, PTL DEF Spec, EngineStaysUnderACall

\* Detections are published in the order of the images, one message for each,
\* numbered upwards, whatever was dropped or failed in between.
THEOREM Detections_In_Order == Spec => DetectionsInOrder
<1>1. ASSUME PInv, [Next]_vars, published' # published
      PROVE  published'.frame > published.frame /\ published'.id > published.id
  <2>1. FramesInOrder /\ RecordsOK
    BY <1>1 DEF PInv
  <2>2. PublishDetections
    BY <1>1 DEF Next, Process, NodeThread, NodeStep, AskModel, SwitchBegins, SwitchBusy, Switch,
       Rollback, StopWorker, JoinWorker, Drain, Close, JoinCamera, JoinFails, Interrupt, Destroy,
       NodeTo, WorkerStep, Dequeue, WorkerEnds, Prepare, EnterEngine, Call, DirectReturns, GstReturns,
       LeaveEngine, WorkerTo, ReidStep, ReidTo, EngineStep, Configure, OpenFirst, Capture, CameraTo,
       Deliver, OnImage, vars, pipeAll, pipelineVars
  <2>3. published'.frame = worker.frame /\ published'.id = worker.id /\ worker.at = "publish"
    BY <1>1, <2>2 DEF PublishDetections
  <2> QED BY <2>1, <2>3 DEF FramesInOrder, RecordsOK
<1> QED BY <1>1, PerceptionInv, PTL DEF Spec, DetectionsInOrder

-----------------------------------------------------------------------------
(* The newest frame is kept.                                                *)

\* The frame that came last waits last, or it is the one the worker took last.
NewestIsKept ==
  IF queue = <<>> THEN worker.frame = received ELSE queue[Len(queue)] = received

LEMMA EmptyIsShort ==
  ASSUME NEW S, NEW q \in Seq(S)
  PROVE  q = <<>> <=> Len(q) = 0
  OBVIOUS

\* A queue and what is left without its first end alike.
LEMMA TailLast ==
  ASSUME NEW S, NEW q \in Seq(S), q # <<>>
  PROVE  /\ Tail(q) = <<>> => Head(q) = q[Len(q)]
         /\ Tail(q) # <<>> => Tail(q)[Len(Tail(q))] = q[Len(q)]
<1>1. /\ Tail(q) \in Seq(S) /\ Len(q) \in Nat \ {0} /\ Len(Tail(q)) = Len(q) - 1
      /\ Head(q) = q[1] /\ \A i \in 1 .. Len(q) - 1 : Tail(q)[i] = q[i + 1]
  OBVIOUS
<1>2. ASSUME Tail(q) = <<>>
      PROVE  Head(q) = q[Len(q)]
  <2>1. Len(Tail(q)) = 0
    BY <1>1, <1>2, EmptyIsShort
  <2>2. Len(q) = 1
    BY <1>1, <1>2, <2>1
  <2>3. q[Len(q)] = q[1]
    BY <2>2
  <2> QED
    BY <1>1, <2>3
<1>3. ASSUME Tail(q) # <<>>
      PROVE  Tail(q)[Len(Tail(q))] = q[Len(q)]
  <2>1. Len(Tail(q)) # 0
    BY <1>1, <1>3, EmptyIsShort
  <2>2. Len(q) - 1 \in 1 .. Len(q) - 1 /\ (Len(q) - 1) + 1 = Len(q)
    BY <1>1, <2>1
  <2> QED
    BY <1>1, <2>2
<1> QED
  BY <1>2, <1>3

LEMMA KeptStep == PInv /\ NewestIsKept /\ [Next]_vars => NewestIsKept'
<1> SUFFICES ASSUME PInv, NewestIsKept, [Next]_vars
             PROVE  NewestIsKept'
  OBVIOUS
<1>1. /\ queue \in Seq(Nat) /\ Len(queue) \in Nat /\ received \in Nat
      /\ worker \in [at : WorkerAt, frame : Nat, id : Nat, got : Nat]
  BY DEF PInv, RecordsOK
<1>2. ASSUME OnImage
      PROVE  NewestIsKept'
  <2>1. /\ received' = received + 1
        /\ queue' = Append(IF Len(queue) < QueueSize THEN queue ELSE Tail(queue), received + 1)
    BY <1>2 DEF OnImage, Enqueue
  <2>2. (IF Len(queue) < QueueSize THEN queue ELSE Tail(queue)) \in Seq(Nat)
    <3>1. Len(queue) < QueueSize \/ queue # <<>>
      BY <1>1, PipelineAssumption
    <3> QED
      BY <1>1, <3>1
  <2>3. queue' # <<>> /\ queue'[Len(queue')] = received + 1
    BY <2>1, <2>2
  <2> QED
    BY <2>1, <2>3 DEF NewestIsKept
<1>3. ASSUME Dequeue
      PROVE  NewestIsKept'
  <2>1. /\ queue # <<>> /\ queue' = Tail(queue) /\ received' = received
        /\ worker' = [at |-> "prepare", frame |-> Head(queue), id |-> nextId, got |-> None]
    BY <1>3 DEF Dequeue
  <2>2. /\ Tail(queue) = <<>> => Head(queue) = queue[Len(queue)]
        /\ Tail(queue) # <<>> => Tail(queue)[Len(Tail(queue))] = queue[Len(queue)]
    BY <1>1, <2>1, TailLast
  <2>3. queue[Len(queue)] = received
    BY <2>1 DEF NewestIsKept
  <2>4. worker'.frame = Head(queue)
    BY <2>1
  <2> QED
    BY <2>1, <2>2, <2>3, <2>4 DEF NewestIsKept
<1>4. ASSUME UNCHANGED <<received, queue>>, worker'.frame = worker.frame
      PROVE  NewestIsKept'
  BY <1>4 DEF NewestIsKept
<1>5. CASE UNCHANGED pipeAll
  BY <1>4, <1>5 DEF pipeAll, pipelineVars
<1>6. CASE Deliver
  BY <1>2, <1>6 DEF Deliver
<1>7. CASE WorkerStep
  <2>1. ASSUME WorkerStep, ~Dequeue
        PROVE  UNCHANGED <<received, queue>> /\ worker'.frame = worker.frame
    BY <1>1, <2>1 DEF WorkerStep, WorkerEnds, Prepare, EnterEngine, Call, DirectReturns,
       GstReturns, LeaveEngine, PublishDetections, WorkerTo, WorkerIdle
  <2> QED
    BY <1>3, <1>4, <1>7, <2>1
<1>8. CASE ReidStep \/ EngineStep \/ AskModel
  BY <1>4, <1>8 DEF ReidStep, ReidTo, EngineStep, AskModel, pipelineVars
<1>9. CASE NodeThread \/ Interrupt
  BY <1>4, <1>9 DEF NodeThread, Interrupt, JoinCamera, JoinFails, NodeStep, Destroy, NodeTo,
     SwitchBegins, SwitchBusy, Switch, Rollback, StopWorker, JoinWorker, Drain, Close
<1>10. CASE Configure \/ OpenFirst \/ Capture \/ UNCHANGED vars
  BY <1>5, <1>10 DEF Configure, OpenFirst, Capture, vars
<1> QED
  BY <1>6, <1>7, <1>8, <1>9, <1>10 DEF Next, Process

\* The newest image is never the one that on_image drops for lack of room, and
\* the worker takes it before it finds the queue empty: what NewestIsTaken adds
\* is that the worker goes on.
THEOREM Newest_Is_Kept == Spec => []NewestIsKept
<1>1. Init => NewestIsKept
  BY DEF Init, PipelineInit, NewestIsKept
<1> QED
  BY <1>1, KeptStep, PerceptionInv, PTL DEF Spec
=============================================================================
