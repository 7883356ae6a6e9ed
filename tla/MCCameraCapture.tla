--------------------------- MODULE MCCameraCapture ---------------------------
(* An instance of CameraCapture for TLC: two media devices, two sizes.      *)
EXTENDS CameraCapture

MCMediaDevices == <<"media0", "media1">>
=============================================================================
