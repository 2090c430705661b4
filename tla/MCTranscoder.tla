---------------------------- MODULE MCTranscoder -----------------------------
(* A few packets, one or two outputs, every kind of failure or none. *)
EXTENDS Transcoder

AllFaults == FaultKinds
=============================================================================
