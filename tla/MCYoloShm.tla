------------------------------ MODULE MCYoloShm ------------------------------
(* A few frames, one run of the detector or two, and failures of every kind. *)
EXTENDS YoloShm

AllFaults == FaultKinds
=============================================================================
