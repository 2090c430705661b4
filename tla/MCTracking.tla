------------------------------ MODULE MCTracking ------------------------------
(* Both pairs, a short video, and every kind of failure. *)
EXTENDS Tracking

AllFaults == FaultKinds
=============================================================================
