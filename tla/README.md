# Selected-person following: TLA+ models and proofs

The repository is the software of a Raspberry Pi companion computer that finds
people in a camera image, tracks them, lets an operator select one, remembers
who that person is (TIM-MARS), and turns the position of the selected person
into velocity references for a flight controller. This directory holds TLA+
models of the parts whose mistakes would move the aircraft on wrong or old
information, TLC configurations that check them, and TLAPS proofs.

Paths below are relative to `src/ros2_ws/src/thesis_bringup/thesis_bringup/`
unless they start with `tools/`, `docs/` or `thesis_tracker/`.

## 1. Inventory

| Part | Code | State it keeps | Operations |
| --- | --- | --- | --- |
| Controller | `control/` , `freshness.py` | last target, last status, authority epoch, trusted observation, recovery attempt, last command | `on_status`, `on_target`, `on_timer` (30 Hz), shutdown |
| TIM-MARS node and runtime | `tim_mars/target_memory_mars_node.py`, `tim_mars/runtime.py`, `authority_qos.py` | session id, selection generation, pending selection, mirrored id, last processed frame, image buffer | `on_select`, `on_clear`, mirror of `/target`, `on_tracks`, appearance results |
| Target identity memory | `tim_mars/target_memory.py` and its policies | target id, state (NO_TARGET, LOCKED, UNCERTAIN, LOST), frames since seen, confirmation counters, lineage trust | `select`, `clear`, `update` |
| Appearance memories | `tim_mars/positive_appearance_memory.py`, `tim_mars/hard_negative_memory.py` | anchor, gallery, adaptive prototype; negative prototypes with provenance, pending candidates | bootstrap, observe, invalidate, update, discard |
| Asynchronous appearance | `tim_mars/appearance_async.py`, `tim_mars/appearance_request_transport.py`, `perception/reid_request_executor.py` | pending queue, in-flight ledger, accepted results, worker thread, generations | submit, publish, dequeue, execute, expire, cancel, result |
| Hailo runtime | `perception/hailo_shared_runtime.py` | one device, two configured networks, lock, running flag | start, run detector, run ReID, close |
| Perception | `perception/perception_pipeline_node.py`, `perception/perception_camera_node.py` | latest-frame slot, stop flag, worker threads, timing | image callback, worker loops, shutdown |
| Trackers | `thesis_tracker/` | tracks with state, hits, age, next id | predict, associate, update, remove |
| Camera | `camera/camera_capture_node.py` | capture thread, buffer, health | open, read, reconnect, publish |
| Dashboard | `dashboard/dashboard_bridge_node.py` | telemetry snapshot, selection command | HTTP and WebSocket requests, ROS callbacks |
| Launcher and evidence tools | `tools/` | process groups, run directory | start, ordered shutdown, recording, verification |

How they interact: camera frames go to perception; detections to the tracker;
tracks to TIM-MARS and the dashboard; the dashboard sends select and clear to
TIM-MARS; TIM-MARS publishes the target (best effort) and its authority status
(reliable) to the controller; the controller publishes the velocity reference.
TIM-MARS asks perception for appearance embeddings on two further topics, and
perception answers late, or never. Nodes are processes; within the controller
and TIM-MARS one executor thread runs one callback at a time, while perception
and the camera run threads.

What is hard: two topics with different delivery guarantees that must be read
as one pair; an operator who changes the selection while messages of the old one
are in flight; TIM-MARS restarting under a running controller; results of an
accelerator that arrive after the selection they were asked for has gone;
a search that must never outlive or repeat its authorisation; worker threads
that must stop without leaving a request unanswered.

## 2. Plan

Order, with the most consequential behaviour first. All of it is done but the
last item, for the reason in section 11.

1. **Controller**: `ControlRef`, `FollowContract`, `ControlRefProofs`.
2. **Authority link**: `TimAuthority`, `MemoryContract`, `AuthorityLink`,
   `AuthorityLinkProofs`. The TIM-MARS producer and its two topics, composed with
   the controller.
3. **Asynchronous appearance**: `ReidRequest`, `ReidLedger`, `ReidExecutor`,
   `ReidService`, `ReidLink`, `ReidProofs`.
4. **Target identity memory** and 5. **appearance memories**: `PositiveMemory`,
   `NegativeMemory`, `CandidateGates`, `TargetMemory`, `TargetMemoryProofs`.
   `TargetMemory` implements the `MemoryContract` that item 2 uses in its place.
6. **Trackers**: `TrackContract`, `TrackTable`, `SortBackend`, `OcSortBackend`,
   `ByteTrackBackend`, `DeepSortBackend`, `TrackerNode`, `TrackerNodeProofs`.
7. **Perception threads and the Hailo runtime**: `InferenceEngine`,
   `PerceptionPipeline`, `PerceptionCamera`, `PerceptionCameraProofs`.
8. **Camera**: `CameraSetup`, `CameraCapture`, `CameraCaptureProofs`.
9. **Dashboard**: `DashboardControl`, `DashboardBridge`, `DashboardBridgeProofs`.
10. Launcher shutdown: left out.

Every safety invariant and action property that a run checks is proved (section
10). Still worth proving: that a request of `ReidLink`, whose numbers start again, is
answered once as well as in `ReidService`; that a shutdown of the pipeline which
passed `Drain` finds no call it still has to wait for.

The modules named `MC...` give the constants values that a `.cfg` cannot write.
Operators that a comment of their module calls a coding error (`Careless...`,
`LateStamp`, ...) are no part of the specification: each is what the code would
be after a plausible mistake, kept beside the definition it would spoil, to show
that a property notices.

## 3. The controller

`ControlRef.tla` has one action per callback of `control_ref_node.py`. The node
spins one executor thread with `rclpy.spin_once`, so a callback is atomic.
`OnStatusAccepted`, `OnStatusRejected` and `OnStatusUnparsed` are the three ways
through `on_status`; `OnTarget` is `on_target`; the seven `Timer...` actions are
the seven ways through `on_timer`; `Shutdown` is the end of `main`; `Advance`
lets time pass. The variables are the fields of the node under shorter names,
given beside each declaration. `Clamp`, `Slew`, `MayFollow`, `MayRecover`,
`RecoveryYaw` are the pure functions of `state_aware_policy.py`; `EpochAccepted`
is `evaluate_authority_epoch`; `Fresh` and `Misordered` are
`classify_freshness`.

The environment delivers any message of `Statuses` and `Targets` at any moment,
so messages may be lost, late, repeated and reordered; whatever holds here needs
nothing of the transport. `TickMin` and `TickMax` bound the gap between two
timer callbacks; without an upper bound no limit in time could hold, because
the limits are only tested inside the callback.

Abstractions: time and velocities are integers; `vx` stands for both
translation axes; gains are folded into the image errors of the message; the
bounds, size, score and quality checks of a target are one flag. `hist` is a
history variable that no action reads.

| Property | What it says |
| --- | --- |
| `IInv` | the inductive invariant of section 10; among its parts: without a target there is nothing left to stop, a trusted observation belongs to the current session, a search never translates or turns away |
| `OneAttemptPerObservation` | one observation, one search, however it ended |
| `RecoveryEndsInTime`, `FollowEndsWhenInputsStop` | the watchdogs, with their exact slack of one gap |
| `EpochsNeverReturn` | a revoked selection or session never comes back, and each change stops the aircraft |
| `CommandIsSlewed` | no axis jumps, whatever the alternation of modes |
| `ContractSpec` | the controller implements `FollowContract`, the documented contract without clocks or velocities |
| `TurnWithinBudget` | the yaw really commanded stays within the budget |

| Run | Bounds | Result |
| --- | --- | --- |
| `controller` | 2 sessions, 2 generations, 6 statuses, 4 targets, gaps of 0 to 2, 6 units of time | all hold |
| `controller_late_tick` | one selection, gaps of 1 or 2, 10 units | `TurnWithinBudget` violated |

Two sessions and two generations are the least with which an epoch can be
replaced, come back late, and share a generation number with another session.
Six units are enough to follow, lose, search, expire and follow again (stale
timeout 2, attempt 3, trusted age 4). Deadlock is not checked because the process
really ends.

**Finding** (`controller_late_tick`). `handle_recovery_yaw` charges the new rate
for the interval that has just ended, while the rate is in force for the interval
that begins. With a strictly periodic timer the two are equal and the budget is
hard (proved: `Turn_Within_Budget`); with one late callback the aircraft is
commanded to turn further than the documented budget. The node logs such a slip
and does nothing else about it.

## 4. The authority link

`TimAuthority.tla` is the TIM-MARS node and its runtime, one action per callback
(one executor thread, so a callback is atomic): `OnSelect`, `OnClear` and
`OnRawTarget` begin a new selection generation; `OnTracks` processes one tracker
message and publishes the target and then the status; `Reconcile` is the timer
of the asynchronous appearance work, which publishes the last status again as it
was; `Restart` starts the process anew with another session id. What the target
memory decides is any of the `Outcomes` of `MemoryContract`, which section 5 shows
`TargetMemory` to keep.

`AuthorityLink.tla` composes it with `ControlRef` through the two topics: `Tim`
and `Ctl` are INSTANCEs that share the clock. The topics are modelled from the
QoS both ends ask for (`authority_qos.py`): statuses are reliable and in order,
the oldest dropped when more than `QueueDepth` wait; targets may be lost, the
rest keep their order; nothing orders one topic against the other. What a process
that died had sent arrives before what its successor sends, or never. A status is
published again only when no other waits: one that waits already stands for its
repetition. `heldEpoch`, `left` and `chosen` are history variables.

| Property | What it says |
| --- | --- |
| `FollowsCurrentSelection` | targets carry no epoch; still the target followed was made in the very selection whose status authorises it, because the pair must share frame and stamp and each frame is processed once |
| `FollowsOnlyASelection` | after a clear or a restart nothing is followed until a select |
| `RevokedFollowingEnds` | following ends within `StaleTimeout` and one gap after TIM-MARS left the epoch, though every message that says so be late or dropped |
| `EpochIsLearned` | once nothing waits for it, the controller is in the epoch of the last selection or clear, however many statuses were dropped |

Run `link`: 2 sessions, 2 generations in each, by command or by mirroring the
raw target, 2 frames with one person or none, 2 messages per queue, 4 units of
time, stale timeout 1. Two messages per queue are the least with which a status
can be dropped while another waits; the code's depth is ten. Four units are one
for the selection, the stale timeout, one gap, and one more in which following
would be too long. A second track could only make a pair fail, which a missing
track does as well. A frame reaches TIM-MARS once: the tracker publishes each
detection message once, and the topic does not duplicate. The four properties are
also proved, for every value of these bounds.

Limits that the model shows and that are not defects of a documented claim: the
transport could deliver a status of a dead process after one of its successor,
and `evaluate_authority_epoch` (`control/tim_authority_status.py`) takes any
session it has not retired for a restart, so a controller that never heard the
dead process would refuse the live one (it hovers; the model excludes that
order); for a status the controller looks at the receive age and at the flag
TIM-MARS computed when it published, so a recovery turn may begin on a `LOST`
status whose image is older than the stale timeout.

## 5. The target memory

`TargetMemory.tla` is `TargetIdentityMemory`. The node calls it from one thread, so
a call is one action: `Select`, `Clear`, and `Update`, which ends in `Idle`, `Miss`,
`Probation` or `Accept`. `CandidateGates.tla` holds what leads there and changes
nothing: the scores, the proposals (short-gap protection, the search over everybody
after a long loss, the rank-aware one, the normal one) in the order of the code,
the safety gates, and the messages a candidate needs. `PositiveMemory.tla` (operator's
track, anchor, gallery, adaptive prototype, lineage) and `NegativeMemory.tla`
(prototypes staged, committed, merged, aged, reconciled, evicted) are the two
appearance memories as records and operators; `Accept` and the other actions make
the whole transaction of the code.

An embedding is one of a few looks, with a given similarity of every two; a box is
one of a few geometries, with its overlap, distance and scale; a crop is good
enough to learn from, to compare with, or for nothing. A scene is what one tracker
message shows: tracks with look, geometry and crop, whether they stand close
together, and whether an embedding that was demanded failed. The configuration is
`tim_mars_canonical.yaml` with its thresholds, and its counts of frames and entries
made small.

| Property | What it says |
| --- | --- |
| `RecoveryIsConfirmed` | three trackers count confirmations and other proposals, misses and rejections reset them: no lock is recovered without the messages on probation, of the same track, without a break |
| `SwitchIsProven` | the lock moves to another number only if the anchor or the gallery recognised that track, now or earlier in the same probation: the excuse for a missing embedding is never that of another track, and the adaptive prototype never moves a lock |
| `AnchorIsOperators` | the anchor is learned once, from the operator's own track, and only if that track was in every message since |
| `NegativesFromUnbrokenLock` | a negative is committed only from consecutive messages under one trusted lock |
| `MemoryConsistent` | the type; whatever may teach the gallery is the followed track in a supported lineage; no negative outlives the anchor it was measured against |
| `KeepsContract` | every update is one of the `Outcomes` that `TimAuthority` assumes |

Run `target_memory`: two tracks; the selected person from the front and from the
back, somebody else who resembles the front; three geometries. These are the least
with which a track can be taken over by somebody else, come back as itself, look
unlike itself, and be confused with its neighbour. Every count of frames is 1 to 3,
enough for each limit to be reached and passed. The gallery takes one look, so that the
second evicts it; the limit on negatives is not reached, because only the two looks
that are not the anchor's can be negatives, and section 10 proves it for any number.
`ConfigAssumption` asks of the configuration what the YAML file gives it: room for a
negative and at least one sight to confirm it, and a search over everybody that begins
after the target was given up.

What the model makes visible, without contradicting a document: a pending candidate
leaves the target's state and count of misses as they are, so candidates that
alternate on probation keep it UNCERTAIN for ever; a committed negative past its age
is retired only by a trusted accept, so it can go on blocking the recovery that
would retire it; staged negatives survive a miss.

## 6. Asynchronous appearance

TIM-MARS sends crops to perception and may get an embedding back. Three modules
hold the pieces: `ReidRequest.tla` (the identity and the order of requests),
`ReidLedger.tla` (TIM-MARS: the ledger of requests in flight, the generations of
tracks, and the callbacks that use them) and `ReidExecutor.tla` (perception: the
bounded queue, the worker thread, the shutdown). Two compose them:
`ReidService.tla` puts the executor in an environment that may ask for anything;
`ReidLink.tla`, which extends the executor as well, joins ledger and executor by two topics that lose messages.

TIM-MARS runs one callback at a time, so `OnFrame`, `OnSelection`, `Reconcile` and
`OnResult` are one action each. The ledger's own queue is filled and emptied
within `stage`, so it is no variable. In perception two threads interleave: the
submission changes the queue under the lock (`SubmitAccepted`, `SubmitRefused`),
and the failures it owes go out afterwards, one by one (`EmitReject`), while the
worker goes through `Take`, `Start`, `Finish`, `Emit`, `Release`. `Signal`, `Close`,
`CloseRaises`, `Join` are the end of `main` and `destroy_node`; `sinkUp` says
whether the publisher still works. The wait of the worker has a timeout, so a
notification lost is harmless and notifications are left out. A request records
the process and the selection period it was sent in, and an answer the request it
was computed from; neither is in the messages, and no guard reads them.

| Property | What it says |
| --- | --- |
| `OneAnswer` | a request is never both run and dropped, however the threads interleave |
| `EveryRequestAnswered` | nor is one forgotten, while results can be published |
| `AcceptedIsCausal` | the observation kept was computed from the very request it is kept for, of this process and of the present selection |
| `AcceptedOfSameInstance` | a track that vanished, jumped or started over since the crop accepts nothing for it |
| `OverdueForgotten` | lost messages leave the ledger within deadline and one reconciliation |
| `TypeOK` | what is in flight has distinct numbers and the present frame generation |
| `CloseJoins` | close waits for the worker |

| Run | Bounds | Result |
| --- | --- | --- |
| `reid_service` | 4 requests of 2 processes, one place, two remembered numbers, 2 units of time, signal at any moment, `FairServiceSpec` | holds |
| `reid_close` | 3 of these requests | `CloseJoins` violated |
| `reid_link` | 2 processes, 1 track of up to 2 generations, 2 requests, 2 frame generations, one selection or restart, 4 units, deadline 1, restart 2 | holds |

Four units of time are: a request, its deadline, a restart or an expiry, and the
answer. Two requests are the least with which one replaces, drops or is mistaken
for another. `RestartTime` is the assumption on which `AcceptedIsCausal` rests
across restarts: numbers begin again at one, and only the times of the answer tell
the old request from the new, so a TIM-MARS up again within the deadline of its last
request could accept the old embedding (with `RestartTime` 1 TLC finds it). The
deadline is 500 ms unless configured and a node takes longer than that to start.
`ReconcileGap` is the period of the reconciliation timer. One track is
enough: no guard of the ledger relates two tracks but the drop of the oldest crop of
a frame, which this run does not reach (the executor's is reached in
`reid_service`). Fairness, in `reid_service` and
`reid_close`: both threads run and the accelerator returns from every call.
`CHECK_DEADLOCK` is off because clocks, numbers and generations are bounded and
the service really ends.

**Finding** (`reid_close`). `close` reports the cancelled requests before it joins.
After a signal the ROS context is shut down, the report raises, and neither the join
nor the closing of the engine in `destroy_node` takes place.

A limit: the executor knows requests by number alone and remembers at least 256
numbers, so after a restart of TIM-MARS it refuses the new process's first requests
as duplicates until the numbers pass those of the old one. The selected person is
then without an embedding for that time, which the memory of section 5 treats as a
missing look.

## 7. Perception and camera

`InferenceEngine.tla` is the engine and the device it owns. The direct engine runs
one network at a time under its lock; the GStreamer engine files results by
presentation time and may give up before one comes. `PerceptionPipeline.tla` has
the node: the bounded queue of raw frames, the worker that owns the detector, the
ReID worker that shares the device, and the node's own thread, which exchanges the
model when a parameter is set (close, open, and open the old one again on failure)
and shuts everything down. The engine lock and the count of active calls are what
the code has. `PerceptionCamera.tla` is the combined process: it adds the
configuration of the sensor (`CameraSetup.tla`) and the capture thread that hands
its frames to the pipeline.

`CameraCapture.tla` is the camera node by itself: configuration, opening, the
capture thread, the thread that publishes the newest frame (of the images or of the
dashboard: two instances of the same code that share only what the capture thread
writes, so one is modelled), the watchdog, resizes by parameter, and shutdown. A
tick of the clock is a period of the watchdog. Copy, resize and publication are
separate steps where the code lets go of the frame lock.

| Property | What it says |
| --- | --- |
| `PipelineConsistent` | the parameter names the model that is loaded, if any, through failed changes and failed rollbacks; what is published for a frame was computed from it; no stream without the rate that was asked for |
| `EngineStaysUnderACall` | no engine is exchanged or closed under a thread that is inside it, nor before the capture thread ended |
| `DetectionsInOrder`, `NewestIsTaken` | one message per image, in their order; the full queue never loses the newest |
| `NodeReturns` | a model change is answered and a shutdown ends |
| `CaptureConsistent` | an image carries its own stamp although newer ones are stored while it is copied; the camera is opened with the size the sensor was set to |
| `StallEndsProcess` | a camera that stops giving frames ends the process in bounded time |
| `EachImageOnce`, `NewestIsPublished` | none twice, none out of order, none forgotten between wake-up and wait |
| `DoesNotHang` | the node does not live on without its publishing thread |

| Run | Bounds | Result |
| --- | --- | --- |
| `perception` | 2 models, 3 backends, queue of 2, 3 frames, 1 model change, `FairSpec` | holds |
| `camera` | 2 media devices, 2 sizes, 2 frames, 2 resizes, startup 3 and stall 2 ticks, `FairSpec` | holds |
| `camera_resize` | the same with 1 resize | `DoesNotHang` violated |

Three frames fill a queue of two and push one out; one change with two models
reaches success, rollback and the failure of both. Two frames and two resizes are a
copy with a newer frame behind it and a resize on either side. Fairness: the threads
of the process run, and a call to the device returns, because it has a timeout of
its own; the strong fairness is for a worker that waits for a lock others take and
release again. Nothing is assumed of the camera, which may stop at any time.

**Finding** (`camera_resize`). `_on_set_parameters` takes the resize buffer away
under the frame lock; the publishing thread tests and uses the buffer without it.
Between the two uses the exception ends that thread; the watchdog looks only at the
capture thread, so the node goes on without images.

Limits: width and height may be read torn for one frame; a failed reopen in the
combined process ends the capture thread silently; `startup_t0` is set once, so
after the startup time a single failed read ends the process; after both a change
and its rollback failed, frames are published empty and a request for the
parameter's own path is answered "HEF unchanged". Left out: a media device whose sensor
entity has another name than the configured one, and an exception of the executor's close
when the ReID worker stops (the finding `reid_close` is of that exception).

## 8. Trackers

`TrackTable.tla` is the state all backends share; the four `...Backend.tla` modules
are the life of a track in each. Boxes, filters and assignment costs are left out: an
association matches any tracks with as many detections, each at most once. What is
kept is what decides who lives and who is shown: hits, age, lists, and in ByteTrack the
`removed` numbers, in OC-SORT the history and the copy that re-update replays, in
DeepSORT the gallery and the image buffer. `TrackerNode.tla` is the node: frames,
timing and images on three topics that lose and overtake, the exchange of backends by
parameter, and a perception that restarts and numbers its frames from one.
`TrackContract.tla` is what every backend promises those who use its numbers.

| Property | What it says |
| --- | --- |
| `KeepsContract` | the node implements `TrackContract`: a number shown was observed in this frame, never belongs to two tracks, and does not come back after the patience of its backend |
| `TablesConsistent` | ByteTrack's removed tracks linger one frame and never return as lost; OC-SORT's history has an entry for every frame, so a gap is replayed once and whole; DeepSORT's gallery has each look of the confirmed tracks once; no timing waits for ever |
| `StampNotNewer` | the source stamp of a message is never later than its frame, so no age is computed too small |

Run `trackers`: 2 hits to confirm, one detection a frame and two in the second, 6
frames, patience of 1 or 2, gallery of 2, two images, one timing context, one exchange,
one restart. Two tracks at once are the least for duplicates and re-matching; six
frames are birth, confirmation, loss, the whole patience, and one more.

Limits: numbers begin again after an exchange of backends (the dashboard revokes the
selection first, a parameter set from elsewhere does not); a backend made later takes
`max_age` and the like as an earlier one declared them, although the comments name
other defaults; a stamp may be older than its frame after a restart of perception,
never newer; from which image DeepSORT takes a look is left open and no property depends
on it. Left out: ByteTrack's `min_box_area` (0 as the node makes it), an OC-SORT prediction
that is not a number, and an `nn_budget` of 0 or less, which means no bound (100 is
configured).

## 9. Dashboard

`DashboardControl.tla` is the control side of the bridge: a thread for each HTTP
request, the node's thread that turns tracks into the raw target, the parameter calls
it makes, and the commands on their way. A request changes the authority under the
state lock (`Apply`) and, after it has let go of the lock, publishes the zero target and
the command (`Command`) and writes its event (`Log`); a request is answered when these
are done. `DashboardBridge.tla` adds the telemetry to the browsers, startup and shutdown.

- **Phases.** `__init__` starts the thread that serves requests (404) long before the
  publishers exist (430-444) and the first event is logged (483). `phase` is `starting`,
  `publishing`, `up`, `down`. A request accepted in the first or the last has changed the
  authority and raises when it publishes (`Raises`); so does one whose id does not fit in
  the message, which `_parse_target_focus_id` accepts. Where the message fields are not
  checked such an id is cut instead: `CommandOf`.
- **Log.** Without a path, or with an `OSError`, `_record_target_authority_event` returns
  and the request goes on. `Record` writes the event or loses it; the history variable
  `unlogged` has what was lost.
- **Delivery.** Select and clear are two reliable topics that keep their last
  `CommandDepth` commands. TIM-MARS's executor (external) takes one message of each topic
  it finds one on, select before clear, and need not find on either what was published
  (`TimWaits`): each topic keeps its order, and between the two there is none. The history
  variable `raced` has the revocations that were sent while a selection was under way.

| Property | What it says |
| --- | --- |
| `LogLosesOnlyFailures` | the log has no change of authority twice and none that did not happen; with no request under way it lacks exactly what could not be written and what belonged to requests that died while they published |
| `TimFollowsTheLastWord` | one client that waits for each answer: when its commands are taken, TIM-MARS follows nobody or the target asked for last; after a revocation nobody, unless the revocation is in `raced` |
| `SwitchAfterRevocation` | the same client: a model or tracker changed long after the request gave up finds no selection older than the request, or a clear as late as it under way, unless the revocation is in `raced` |
| `BridgeConsistent` | the old target appears at most once more on the raw topic after the authority changed |
| `BrowserCatchesUp` | a connected browser shows the state in the end, also if it connected between a copy and its broadcast |

Run `dashboard`: 3 requests of one client, or 2 of many on 2 threads; ids 1 and 2, of which
2 does not fit; topics of depth 2; 2 messages of tracks (with many clients: what the tracks
do does not depend on who asks); a TIM-MARS that dies and starts again at any time. Three
requests are a selection, a switch and a selection after it, or two selections and the
clear that overtakes one; three selections overflow a topic. The telemetry, which no other
part reads, is watched with one request only. `FairSpec`: the node becomes complete, and
the telemetry timer and the asyncio loop run; nothing is assumed of requests or TIM-MARS.

What the code does not do, and the properties therefore do not say:

- A clear may overtake an older selection. Select and clear, each with its answer awaited,
  can end with the target selected; select, select, clear can do so even if TIM-MARS sees
  everything at once, because its executor takes one of each. Nor does a clear know which
  selection it was meant for: an old one wipes a later selection. The comments at 565 and
  650 (the authority is reset before the detector changes) hold of what was sent, not of
  what TIM-MARS follows. With several clients TIM-MARS can be left on the earlier request.
- `docs/live/dashboard_trust_boundary.md:112-114` says that every accepted transaction is
  written to `target_authority_events.jsonl`. An event is lost without a path (832), on
  `OSError` (867), and when the request raises after the generation was counted (880, or
  before the publishers exist). `LogLosesOnlyFailures` says that nothing else is lost.
- `tools/live/write_live_run_metadata.py:322` takes the first event of the log for the
  startup event. A request served between 430 and 483 may write its event before.

## 10. What is proved

The proofs hold for every value of the constants that satisfies the named assumptions
of the modules: any number of sessions, frames, requests, tracks and messages, any
limits. Every safety invariant and action property of the passing runs is the
statement of a theorem.

**`ControlRefProofs`** (limits not negative, timer gap not zero). `IInv` is the
inductive invariant. The safety properties alone are not inductive: that one
observation authorises one attempt needs `AttemptSpent` (an attempt has consumed the
stamp it runs on); that epochs never return needs `EpochConsistent` (the current
session was never retired and the status kept belongs to it); the limits in time need
`TimedByLastTick` (each limit held at the last timer callback, and the next is at most
`TickMax` away). The step lemmas (`EpochStep`, `AttemptStep`, `TimedStep`...) prove one
conjunct each, with one case per action. Each property then follows from `IInv`;
`Implements` is the refinement of `FollowContract`. `Turn_Within_Budget` assumes
`TickMin = TickMax` and carries `TurnMetered` (the yaw charged is the yaw the commands
will have added up to at the next callback) beside `IInv`.

**`AuthorityLinkProofs`**. No state records in which epoch a frame was processed, yet
that is what relates targets (which carry a frame) to statuses (which carry an
epoch). The invariant therefore says there is an assignment of epochs to frames, `E`,
that everything in TIM-MARS, in both queues and in the controller agrees with; a step
either keeps `E` or extends it by the frame just processed. Beside it: statuses wait in
the order of their epochs, and the one published last waits last, unless the controller
is in its epoch already.

The same module closes the composition. `Alone` is `ControlRef` with every message the
link can carry as its inputs. `Link_Implements_ControlRef` maps each step: `OnStatus`
and `OnTarget` are the controller's callbacks with the head of the queue (the messages
parse, so none is skipped), the timer and the clock are its own, and what TIM-MARS, the
topics and a restart do leaves the controller alone. `Link_Keeps_Contract` then carries
the controller's theorems over, under the controller's own `BoundAssumption`.

**`TargetMemoryProofs`**. `IInv` relates target, probation, history and protected
memory. The part that is not obvious is `Grounded`: as long as there is no anchor,
nothing was learned, and a lineage counts as supported only if it is the operator's own
and was never interrupted. `Keeps_Contract` closes the other composition: the outcomes
that `AuthorityLinkProofs` assumes of the memory are those it has.

The negative memory is a fold over the distractors of a message, each of which may
renew, stage, commit or evict an entry. `MInv` adds that staged evidence was seen in no
more messages than the lock has been trusted for. `Learning` is the invariant of the
fold; the recursive functions behind it are followed step by step with the least
counterexample in place of induction (`LeastNatural`), and a list that only grows by
looks it does not have yet stays within the number of looks by counting. So
`Negatives_From_Unbroken_Lock` and `Memory_Consistent` hold for every configuration, the
limits no run reaches included.

**`ReidProofs`**. Of every request anywhere in `ReidLink` `Sent` says that none in flight
shares its process and number, and that one of an older process had expired before the
present process was up; of every answer, that one of success was begun before the
deadline of its request. Together they exclude an old answer under a new number.
`Accepted_Causal` assumes `RestartTime > Deadline`; the other theorems do not.

Of `ReidService`, `SInv` says where a request can be: it waits, is owed a failure, is held
by the worker or is answered (`Places`), there once (`Unique`) and nowhere else
(`Parted`), whatever the threads were doing when the signal came. That is
`One_Answer`. `Nothing_Lost` is the converse: it is in one of these places, as long as
the publisher works, and the publisher works as long as nobody closes.

**`PerceptionCameraProofs`**: the count of calls is the number of threads inside, the
camera has ended before the engine is closed, the parameter follows the model, frames
are in order from the queue to the message. `Newest_Is_Kept` says that the newest frame
waits last or is the one taken last. **`CameraCaptureProofs`**: what the publishing
thread holds was stored together; the watchdog looked at the age of the last frame at
every tick; the camera is opened with the size the configuration read back from the
sensor, wherever its media device stands in the list (`DevicesAssumption`: a list, each
device with a size). `No_Wakeup_Lost` says that the event is set, or about to be,
whenever the waiting thread has not published the newest frame; it is stated of the
thread without a period, because one with a period looks again when that is over.

**`TrackerNodeProofs`** (at least two hits to confirm, patience and room for one timing not
zero; DeepSORT counts hits up to at least the size of its gallery). `TInv` says of each
backend what lets its tracks live: ByteTrack's lost tracks were seen no longer ago than
its patience, or one frame more once they are removed (`ListsOK`); OC-SORT's history has
an entry for each frame, and the copy it replays was taken at the first miss after the
last frame observed (`HistoryOK`); the looks of an unconfirmed DeepSORT track are still
with the track, those of a confirmed one in the gallery (`LooksOK`, `GalleryOK`). That a
stamp is never later than its frame needs `ContextOK`: a timing that waits is not newer
than its number says, also when a restarted perception has begun to count again. The
refinement of `TrackContract` is proved with one lemma per backend.

**`DashboardBridgeProofs`** (any number of request threads, requests and targets, any
limit of ids and depth of the topics). `DInv` counts: an accepted request has a number of
its own and none is missing (`NumbersOK`); the events are those of the start and of the
requests past their log, each written or lost, and there are no more commands under way
than were sent (`CountsOK`). For one client, `OneByOne` says that the focus and the highest
number are the last request's, and that what is under way is older until its command is
sent. `LastWord` then says of a revocation that no selection is under way and a clear is if
TIM-MARS follows anybody, and of a selection that it is the last under way or what TIM-MARS
follows, if anything. `SwitchesRevoke` says of every switch whose parameter call may still
be served that TIM-MARS follows nobody or a later selection, or a clear as late is under
way, and that only later selections wait. Both except the revocations in `raced`, without
which TLC finds the clear that overtakes.
`Browser_Is_Told` says that a page which shows an old state has the flag or a copy under
way, and that the last copy is the state unless the flag is set.

Only model-checked is liveness, which TLAPS does not reach: `EveryRequestAnswered`,
`NewestIsTaken`, `NewestIsPublished`, `BrowserCatchesUp`, `NodeReturns`. Of the first four
the part that is safety, that nothing is forgotten while it waits, is proved
(`Nothing_Lost`, `Newest_Is_Kept`, `No_Wakeup_Lost`, `Browser_Is_Told`); what the runs add
is that the threads go on.

## 11. Not modelled

- **Numerics**: scores, embeddings, Kalman filters, assignment, image processing. Their
  verdicts are inputs, in every combination the scenes and associations list.
- **Appearance attachment** (`appearance_attachment.py` beyond what the ledger needs):
  which box gets a crop is a function of coordinates and image content within one
  callback; its results are inputs of `TargetMemory`.
- **Policies the canonical configuration turns off** in the target memory: candidate
  belief, absence recovery, spatial gate, gallery consensus, development ablations; and
  TIM-MARS's `auto_select_largest`, for manual inspection only.
- **Video file publisher** and **MAVROS IMU monitor**: no state another part reads.
- **Launcher**: shell scripts that signal process groups with growing force; what they
  rely on is the operating system's.
- **Evidence and validation tools**: offline checks of recorded files; they change no
  running state.
- In modelled parts: logging, diagnostics, counters, statistics, the wording of
  answers, the dashboard's video and system metrics.
