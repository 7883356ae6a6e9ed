---------------------------- MODULE CameraCapture ----------------------------
(***************************************************************************)
(* camera_capture_node.py: the capture thread, the thread that publishes   *)
(* its newest frame (that of the images or that of the dashboard, which    *)
(* only share what the capture thread writes), the watchdog, the ROS       *)
(* parameters that resize the images while all this runs, and shutdown.    *)
(*                                                                         *)
(* A tick of the clock is the period of the watchdog.  A frame is the      *)
(* number of its capture, and so is its stamp.                             *)
(*                                                                         *)
(* CarelessStore, LateStamp, RepeatedCopy, ClearAfter and SeenOnly are     *)
(* coding errors that one of the properties notices, not the code.         *)
(***************************************************************************)
EXTENDS CameraSetup

CONSTANTS
  StartupTicks,  \* startup_frame_timeout_s
  StallTicks,    \* stall_timeout_s
  MaxFrames,     \* bound of the frames captured
  MaxResizes     \* bound of the resizes asked for

ASSUME CaptureAssumption ==
  {StartupTicks, StallTicks, MaxFrames, MaxResizes} \subseteq Nat

VARIABLES
  phase,      \* "configuring", "opening", "running", "stopping", "destroyed", "exited"
  setup,      \* what the configuration found, until the camera is open
  width,      \* size of the captured images
  capture,    \* where the capture thread is
  latest,     \* frame and stamp under _frame_lock
  age,        \* ticks since the last frame, or since the start
  polled,     \* the watchdog has looked in this tick
  kind,       \* the publishing thread: "timed", "eager" or "dashboard"
  event,      \* _new_frame_event or _dashboard_event
  out,        \* the publishing thread: where it is and what it copied
  target,     \* size asked for by the parameters
  buffer,     \* size of the resize buffer, 0 for None
  lastId,     \* _last_published_frame_id
  sent,       \* the last message: frame, stamp and resizes made before
  resizes     \* resizes made

captureVars == <<phase, setup, width, capture, latest, age, polled>>
outVars == <<kind, event, out, target, buffer, lastId, sent, resizes>>
vars == <<captureVars, outVars>>

Stopped == phase \in {"stopping", "destroyed"}
Alive == phase \in {"running", "stopping", "destroyed"}

-----------------------------------------------------------------------------
(* The constructor.                                                        *)

NoSetup == [world |-> <<>>, refused |-> FALSE]

Configure ==
  /\ phase = "configuring"
  /\ \E world \in Worlds, refused, adopt, strict, failed, wedged \in BOOLEAN,
        usable \in SUBSET {"video0", "video1"} :
       LET size == SizeUsed(Detected(world), refused, adopt, strict)
           raises == \/ VideoDevice("video0", usable) = {}
                     \/ size = 0
                     \/ CommandsRaise(failed, wedged, strict)
       IN  /\ phase' = IF raises THEN "exited" ELSE "opening"
           /\ width' = IF raises THEN Asked ELSE size
           /\ setup' = IF raises THEN NoSetup ELSE [world |-> world, refused |-> refused]
  /\ UNCHANGED <<capture, latest, age, polled, outVars>>

\* Sizes that were not configured are those of the capture.
Open ==
  /\ phase = "opening"
  /\ \/ phase' = "running" /\ capture' = "loop"
        /\ \E auto \in BOOLEAN : target' = IF auto THEN width ELSE target
     \/ phase' = "exited" /\ UNCHANGED <<capture, target>>
  /\ setup' = NoSetup
  /\ UNCHANGED <<width, latest, age, polled, kind, event, out, buffer, lastId, sent, resizes>>

-----------------------------------------------------------------------------
(* _capture_loop.                                                          *)

CaptureTo(at) ==
  /\ capture' = at
  /\ UNCHANGED <<phase, setup, width, latest, age, polled, outVars>>

\* The stop event is looked at once a turn.
Turn == capture = "loop" /\ CaptureTo(IF Stopped THEN "ended" ELSE "reading")

ReadFails == capture = "reading" /\ CaptureTo("closed")

\* A camera that does not open again is tried for ever.
Reopen == capture = "closed" /\ \E open \in BOOLEAN : CaptureTo(IF open THEN "loop" ELSE "retry")

Retry == capture = "retry" /\ CaptureTo(IF Stopped THEN "ended" ELSE "closed")

CarelessStore ==
  /\ capture = "reading" /\ latest.id < MaxFrames
  /\ capture' = "stored"
  /\ latest' = [id |-> 1 - latest.id, stamp |-> latest.id + 1]
  /\ age' = 0
  /\ UNCHANGED <<phase, setup, width, polled, outVars>>

Store ==
  /\ capture = "reading" /\ latest.id < MaxFrames
  /\ capture' = "stored"
  /\ latest' = [id |-> latest.id + 1, stamp |-> latest.id + 1]
  /\ age' = 0
  /\ UNCHANGED <<phase, setup, width, polled, outVars>>

Wake ==
  /\ capture = "stored"
  /\ capture' = "loop" /\ event' = TRUE
  /\ UNCHANGED <<phase, setup, width, latest, age, polled, kind, out, target, buffer, lastId, sent, resizes>>

CaptureStep == Turn \/ ReadFails \/ Reopen \/ Retry \/ Store \/ Wake

-----------------------------------------------------------------------------
(* _publisher_loop and _dashboard_loop.                                    *)

OutTo(at) == out' = [out EXCEPT !.at = at]

StopsWaiting == out.at = "wait" /\ Stopped /\ OutTo("ended")
                /\ UNCHANGED <<captureVars, kind, event, target, buffer, lastId, sent, resizes>>

\* With a period the wait ends after it too, and a frame that comes before
\* its time only clears the event.
Awake ==
  /\ out.at = "wait" /\ ~Stopped
  /\ kind = "eager" => event
  /\ event' = FALSE
  /\ \/ OutTo("copy")
     \/ kind # "eager" /\ event /\ OutTo("wait")
  /\ UNCHANGED <<captureVars, kind, target, buffer, lastId, sent, resizes>>

\* The dashboard's images are for subscribers only.
NobodyLooks ==
  /\ out.at = "copy" /\ kind = "dashboard" /\ OutTo("wait")
  /\ UNCHANGED <<captureVars, kind, event, target, buffer, lastId, sent, resizes>>

RepeatedCopy ==
  /\ out.at = "copy"
  /\ out' = IF latest.id # 0
            THEN [at |-> "prepare", id |-> latest.id, stamp |-> latest.stamp]
            ELSE [out EXCEPT !.at = "wait"]
  /\ UNCHANGED <<captureVars, kind, event, target, buffer, lastId, sent, resizes>>

\* A frame that was already published is not published again.
Copy ==
  /\ out.at = "copy"
  /\ out' = IF latest.id # 0 /\ latest.id # lastId
            THEN [at |-> "prepare", id |-> latest.id, stamp |-> latest.stamp]
            ELSE [out EXCEPT !.at = "wait"]
  /\ UNCHANGED <<captureVars, kind, event, target, buffer, lastId, sent, resizes>>

\* The frame as it is, or a buffer of the size asked for.
Prepare ==
  /\ out.at = "prepare"
  /\ OutTo(IF target = width THEN "send" ELSE "resize")
  /\ buffer' = IF target = width THEN buffer ELSE target
  /\ UNCHANGED <<captureVars, kind, event, target, lastId, sent, resizes>>

\* The buffer is read again; a resize took it away: an exception that nothing
\* catches ends the thread.
Resize ==
  /\ out.at = "resize"
  /\ OutTo(IF buffer = 0 THEN "dead" ELSE "send")
  /\ UNCHANGED <<captureVars, kind, event, target, buffer, lastId, sent, resizes>>

LateStamp ==
  /\ out.at = "send"
  /\ \/ phase = "running" /\ OutTo("sent")
        /\ sent' = [id |-> out.id, stamp |-> latest.stamp, resizes |-> resizes]
     \/ Stopped /\ OutTo("wait") /\ UNCHANGED sent
  /\ UNCHANGED <<captureVars, kind, event, target, buffer, lastId, resizes>>

Send ==
  /\ out.at = "send"
  /\ \/ phase = "running" /\ OutTo("sent")
        /\ sent' = [id |-> out.id, stamp |-> out.stamp, resizes |-> resizes]
     \/ Stopped /\ OutTo("wait") /\ UNCHANGED sent
  /\ UNCHANGED <<captureVars, kind, event, target, buffer, lastId, resizes>>

ClearAfter ==
  /\ out.at = "sent"
  /\ lastId' = out.id /\ OutTo("wait") /\ event' = FALSE
  /\ UNCHANGED <<captureVars, kind, target, buffer, sent, resizes>>

\* Without the lock: the reset of a resize may be lost.
Mark ==
  /\ out.at = "sent"
  /\ lastId' = out.id /\ OutTo("wait")
  /\ UNCHANGED <<captureVars, kind, event, target, buffer, sent, resizes>>

OutStep == StopsWaiting \/ Awake \/ NobodyLooks \/ Copy \/ Prepare \/ Resize \/ Send \/ Mark

-----------------------------------------------------------------------------
\* _on_set_parameters: all values are checked before any is used.
SetSize ==
  /\ phase = "running" /\ resizes < MaxResizes
  /\ target' \in Sizes
  /\ buffer' = 0 /\ lastId' = 0
  /\ event' = TRUE
  /\ resizes' = resizes + 1
  /\ UNCHANGED <<captureVars, kind, out, sent>>

-----------------------------------------------------------------------------
(* The clock and _watchdog_loop.                                           *)

Limit == IF latest.id = 0 THEN StartupTicks ELSE StallTicks

\* Time goes on once the watchdog has looked.
Tick ==
  /\ phase = "running" /\ polled
  /\ age' = age + 1 /\ polled' = FALSE
  /\ UNCHANGED <<phase, setup, width, capture, latest, outVars>>

SeenOnly ==
  /\ phase = "running" /\ ~polled
  /\ polled' = TRUE
  /\ phase' = IF latest.id # 0 /\ age > StallTicks THEN "exited" ELSE phase
  /\ UNCHANGED <<setup, width, capture, latest, age, outVars>>

Watch ==
  /\ phase = "running" /\ ~polled
  /\ polled' = TRUE
  /\ phase' = IF age > Limit THEN "exited" ELSE phase
  /\ UNCHANGED <<setup, width, capture, latest, age, outVars>>

-----------------------------------------------------------------------------
(* destroy_node; what it joins may outlive the timeout.                    *)

Stop ==
  /\ phase = "running"
  /\ phase' = "stopping" /\ event' = TRUE
  /\ UNCHANGED <<setup, width, capture, latest, age, polled, kind, out, target, buffer, lastId, sent, resizes>>

Destroy ==
  /\ phase = "stopping"
  /\ phase' = "destroyed"
  /\ UNCHANGED <<setup, width, capture, latest, age, polled, outVars>>

Init ==
  /\ phase = "configuring" /\ setup = NoSetup /\ width = Asked
  /\ capture = "off" /\ latest = [id |-> 0, stamp |-> 0]
  /\ age = 0 /\ polled = FALSE
  /\ kind \in {"timed", "eager", "dashboard"}
  /\ event = FALSE
  /\ out = [at |-> "wait", id |-> 0, stamp |-> 0]
  /\ target \in Sizes /\ buffer = 0 /\ lastId = 0
  /\ sent = [id |-> 0, stamp |-> 0, resizes |-> 0] /\ resizes = 0

Next ==
  \/ Configure \/ Open
  \/ Alive /\ (CaptureStep \/ OutStep)
  \/ SetSize \/ Tick \/ Watch \/ Stop \/ Destroy

Spec == Init /\ [][Next]_vars

\* The publishing thread and the clock run; a timer that is due is not
\* always early (Copy comes in the end), and somebody looks.  The camera may
\* stop giving frames at any time.
FairSpec ==
  /\ Spec
  /\ WF_vars(Alive /\ OutStep) /\ SF_vars(Alive /\ Awake /\ out'.at = "copy")
  /\ SF_vars(Alive /\ Copy)
  /\ WF_vars(Alive /\ Wake)

-----------------------------------------------------------------------------
(* Properties.                                                             *)

TypeOK ==
  /\ phase \in {"configuring", "opening", "running", "stopping", "destroyed", "exited"}
  /\ capture \in {"off", "loop", "reading", "closed", "retry", "stored", "ended"}
  /\ out.at \in {"wait", "copy", "prepare", "resize", "send", "sent", "dead", "ended"}
  /\ out.id <= latest.id /\ sent.id <= latest.id /\ lastId <= latest.id
  /\ width \in Sizes \cup {Asked} /\ buffer \in Sizes \cup {0, Asked}

OpensWithTheSensorsSize ==
  phase = "opening" => SensorsSize(setup.world, width, setup.refused)

\* A published image carries the stamp of its own capture, whatever was
\* captured while it was copied and resized.
StampIsTheFrames == sent.stamp = sent.id

CaptureConsistent == TypeOK /\ OpensWithTheSensorsSize /\ StampIsTheFrames

Sends == out.at = "send" /\ out'.at = "sent"

\* Images are published in the order of their capture, each once: again only
\* when it was resized in between.
EachImageOnce ==
  [][Sends => \/ out.id > sent.id
              \/ out.id = sent.id /\ resizes > sent.resizes]_vars

\* A camera that gives no frame, from the start or later, ends the process
\* after its time and one period of the watchdog: the live stack can fail fast.
StallEndsProcess == phase = "running" => age <= Limit + 1

\* No frame is forgotten while the thread waits: the newest is published
\* unless a newer one comes, the node stops or the thread is dead.
NewestIsPublished ==
  \A n \in 1 .. MaxFrames :
    latest.id = n ~>
      latest.id > n \/ sent.id >= n \/ phase # "running" \/ out.at = "dead"

\* "exiting camera node so live stack can fail fast instead of hanging": the
\* node does not go on without the thread that publishes its images.
DoesNotHang == ~(phase = "running" /\ out.at = "dead")
=============================================================================
