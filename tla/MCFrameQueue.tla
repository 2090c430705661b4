---------------------------- MODULE MCFrameQueue -----------------------------
(* One producer, a few consumers and a handful of frames. *)
EXTENDS FrameQueue
=============================================================================
