----------------------------- MODULE CameraSetup -----------------------------
(***************************************************************************)
(* How camera_capture_node.py finds and configures the camera before it    *)
(* opens it: the media device, the video device, and the size of the       *)
(* images, which the sensor may refuse or apply differently.               *)
(*                                                                         *)
(* What a media device shows is its topology: the whole camera graph with  *)
(* the size its sensor reports (0 if it reports none), the CSI part only,  *)
(* or nothing.  FirstThatAnswers is a coding error, not the code.          *)
(***************************************************************************)
EXTENDS Integers, Sequences, Functions

CONSTANTS
  MediaDevices,  \* /dev/media*, the configured one first
  Asked,         \* the size configured
  Sizes          \* sizes a sensor may report

ASSUME DevicesAssumption == MediaDevices \in Seq(Range(MediaDevices)) /\ MediaDevices # <<>>

Topologies == [graph : {"full"}, size : Sizes \cup {0}] \cup [graph : {"csi", "none"}, size : {0}]

Worlds == [Range(MediaDevices) -> Topologies]

\* Where the devices stand that show this; the first one is taken.
Showing(world, graph) == {i \in DOMAIN MediaDevices : world[MediaDevices[i]].graph = graph}

First(places) == MediaDevices[CHOOSE i \in places : \A j \in places : i <= j]

FirstThatAnswers(world) ==
  LET answering == DOMAIN MediaDevices \ Showing(world, "none")
  IN  First(IF answering # {} THEN answering ELSE DOMAIN MediaDevices)

\* The whole graph first, then the CSI part, then what was configured.
MediaDevice(world) ==
  LET full == Showing(world, "full")
      csi  == Showing(world, "csi")
  IN  First(IF full # {} THEN full ELSE IF csi # {} THEN csi ELSE DOMAIN MediaDevices)

\* The configured video device, or else any other that can be probed.
VideoDevice(configured, usable) ==
  IF configured \in usable THEN {configured} ELSE usable

Detected(world) == world[MediaDevice(world)].size

\* The size used, or 0 when the constructor raises.  When the sensor refused
\* the size asked for, what it reports is adopted even against the setting.
SizeUsed(detected, refused, adopt, strict) ==
  IF refused /\ strict THEN 0
  ELSE IF detected \in {0, Asked} THEN Asked
  ELSE IF adopt \/ refused THEN detected
  ELSE IF strict THEN 0 ELSE Asked

\* Trigger and CSI commands that fail, and rate controls that hang the sensor.
CommandsRaise(failed, wedged, strict) == wedged \/ (failed /\ strict)

-----------------------------------------------------------------------------
\* "keeping the requested size for CSI/video often leads to a running node
\* with no frames": when a sensor that refused the size asked for reports
\* another, the camera is opened with that one, wherever its media device is
\* found.
SensorsSize(world, size, refused) ==
  LET full == Showing(world, "full")
  IN  refused /\ full # {} /\ world[First(full)].size # 0 => size = world[First(full)].size
=============================================================================
