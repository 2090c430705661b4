-------------------------- MODULE MCVideoProcessing --------------------------
(* Two outputs, a few packets, a filter that keeps nothing back or one frame. *)
EXTENDS VideoProcessing

AllFaults == FaultKinds
=============================================================================
