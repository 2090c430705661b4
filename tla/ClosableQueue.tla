---------------------------- MODULE ClosableQueue ----------------------------
(***************************************************************************)
(* What the queues of the transcoding programs promise to the threads that *)
(* share them: a first-in first-out hand-over of values, closed once by    *)
(* the producer, whose consumers are told "no more" only after everything  *)
(* that was put has been taken.  FrameQueue implements this specification. *)
(***************************************************************************)
EXTENDS Naturals, Sequences

CONSTANTS Values,     \* what is handed over
          Consumers   \* the threads that take

VARIABLES buf,        \* put and not yet taken
          closed,     \* the producer has announced the end
          accepted,   \* everything put, in order
          delivered,  \* everything taken, in the order it left the queue
          ended       \* the consumers told that nothing more will come

vars == <<buf, closed, accepted, delivered, ended>>

Init ==
    /\ buf = <<>>
    /\ closed = FALSE
    /\ accepted = <<>>
    /\ delivered = <<>>
    /\ ended = {}

Put(v) ==
    /\ ~closed
    /\ buf' = Append(buf, v)
    /\ accepted' = Append(accepted, v)
    /\ UNCHANGED <<closed, delivered, ended>>

Take ==
    /\ buf # <<>>
    /\ buf' = Tail(buf)
    /\ delivered' = Append(delivered, Head(buf))
    /\ UNCHANGED <<closed, accepted, ended>>

Close ==
    /\ closed' = TRUE
    /\ UNCHANGED <<buf, accepted, delivered, ended>>

End(c) ==
    /\ closed
    /\ buf = <<>>
    /\ ended' = ended \cup {c}
    /\ UNCHANGED <<buf, closed, accepted, delivered>>

Next ==
    \/ \E v \in Values : Put(v)
    \/ Take
    \/ Close
    \/ \E c \in Consumers : End(c)

Spec == Init /\ [][Next]_vars

TypeOK ==
    /\ buf \in Seq(Values)
    /\ closed \in BOOLEAN
    /\ accepted \in Seq(Values)
    /\ delivered \in Seq(Values)
    /\ ended \in SUBSET Consumers

\* Nothing is lost, duplicated or reordered by the hand-over: what was put is
\* what was taken followed by what still waits (push, pop).
Conserved == accepted = delivered \o buf

\* A consumer is told "no more" (pop returns false) only when the queue is
\* closed and everything ever put has been taken.
EndIsFinal == ended # {} => closed /\ delivered = accepted
=============================================================================
