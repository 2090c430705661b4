-------------------------- MODULE MCPushPullClient ---------------------------
(* A short file, one or two streams, and failures of every kind. *)
EXTENDS PushPullClient

AllFaults == FaultKinds
=============================================================================
