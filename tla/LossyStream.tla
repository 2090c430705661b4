----------------------------- MODULE LossyStream -----------------------------
(***************************************************************************)
(* What the transcoding service promises for one of its outputs: a stream  *)
(* that may lose frames but never reorders, duplicates or invents one, and *)
(* whose responses never run ahead of the requests that were reported.     *)
(*                                                                         *)
(* A frame is named by the number of the request (the packet) it came in.  *)
(***************************************************************************)
EXTENDS OrderedSequences

VARIABLES next,      \* requests reported so far; the number of the next one
          pipe,      \* frames inside the service, the oldest first
          output,    \* frames written, in the order they were written
          answered   \* responses numbered so far

vars == <<next, pipe, output, answered>>

Init ==
    /\ next = 0
    /\ pipe = <<>>
    /\ output = <<>>
    /\ answered = 0

\* A packet arrives; one that is not video is reported but goes no further.
Accept ==
    /\ next' = next + 1
    /\ pipe' \in {pipe, Append(pipe, next)}
    /\ UNCHANGED <<output, answered>>

\* A frame is lost, wherever it is.
Lose ==
    /\ \E i \in 1..Len(pipe) : pipe' = Without(pipe, i)
    /\ UNCHANGED <<next, output, answered>>

\* The oldest frame leaves; it carries a response, or none when the encoder is
\* being flushed, and it may be lost after the response was numbered.
Leave ==
    /\ pipe # <<>>
    /\ pipe' = Tail(pipe)
    /\ \/ output' = Append(output, Head(pipe)) /\ answered' \in {answered, answered + 1}
       \/ output' = output /\ answered' = answered + 1
    /\ UNCHANGED next

Next == Accept \/ Lose \/ Leave

Spec == Init /\ [][Next]_vars

TypeOK ==
    /\ next \in Nat
    /\ pipe \in Seq(Nat)
    /\ output \in Seq(Nat)
    /\ answered \in Nat

\* Frames are written, and wait to be, in the order of their requests and none
\* of them twice; every one belongs to a reported request.
InOrder == OrderedBelow(output \o pipe, next)

\* The number of the response a frame will carry is at most the number of the
\* frame's own request, however many frames ahead of it are lost.
ResponsesFollowRequests == NumberedFrom(pipe, answered)
=============================================================================
