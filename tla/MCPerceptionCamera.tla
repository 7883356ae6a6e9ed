-------------------------- MODULE MCPerceptionCamera --------------------------
(* An instance of PerceptionCamera for TLC.                                 *)
EXTENDS PerceptionCamera
=============================================================================
