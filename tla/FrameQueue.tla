----------------------------- MODULE FrameQueue ------------------------------
(***************************************************************************)
(* class FrameQueue (and its twin PacketQueue): a std::queue, a mutex, one *)
(* condition variable and a finished_ flag, shared by one producer thread  *)
(* (the decoder) and the consumer threads that call pop().                 *)
(*                                                                         *)
(* A critical section is one action of the thread that owns the mutex; the *)
(* acquisition is an action of its own, so a thread woken by the condition *)
(* variable competes for the mutex with everybody else before it looks at  *)
(* the queue again.                                                        *)
(***************************************************************************)
EXTENDS Naturals, Sequences, FiniteSets

CONSTANTS Consumers,  \* threads that pop
          Producer,   \* the thread that pushes, then calls set_finished
          NoThread,   \* the mutex is free
          MaxPush     \* bound: values pushed before set_finished

ASSUME QueueAssumption ==
    /\ Producer \notin Consumers
    /\ NoThread \notin Consumers \cup {Producer}
    /\ IsFiniteSet(Consumers)
    /\ MaxPush \in Nat

Threads == Consumers \cup {Producer}
Values  == 1..MaxPush

VARIABLES queue_,     \* std::queue<FrameData>
          finished_,  \* the flag
          mutex_,     \* the thread inside a critical section
          pc,         \* what each thread is doing
          accepted,   \* history: pushed so far
          delivered,  \* history: popped so far
          ended       \* history: consumers whose pop returned false

vars == <<queue_, finished_, mutex_, pc, accepted, delivered, ended>>

\* "waiting": blocked in cond_var_.wait, the mutex released
States == {"idle", "push", "pop", "close", "waiting", "done"}

Waiters == {c \in Consumers : pc[c] = "waiting"}
Poppers == {c \in Consumers : pc[c] = "pop"}

TypeOK ==
    /\ queue_ \in Seq(Values)
    /\ finished_ \in BOOLEAN
    /\ mutex_ \in Threads \cup {NoThread}
    /\ pc \in [Threads -> States]
    /\ accepted \in Seq(Values)
    /\ delivered \in Seq(Values)
    /\ ended \in SUBSET Consumers
    \* only a thread inside one of the three operations holds the mutex
    /\ mutex_ # NoThread => pc[mutex_] \in {"push", "pop", "close"}

Init ==
    /\ queue_ = <<>>
    /\ finished_ = FALSE
    /\ mutex_ = NoThread
    /\ pc = [t \in Threads |-> "idle"]
    /\ accepted = <<>>
    /\ delivered = <<>>
    /\ ended = {}

\* The consumer's loop calls pop() again.
CallPop(c) ==
    /\ pc[c] = "idle"
    /\ pc' = [pc EXCEPT ![c] = "pop"]
    /\ UNCHANGED <<queue_, finished_, mutex_, accepted, delivered, ended>>

\* The decoder has another frame, or has none left and calls set_finished().
CallPush ==
    /\ pc[Producer] = "idle"
    /\ Len(accepted) < MaxPush
    /\ pc' = [pc EXCEPT ![Producer] = "push"]
    /\ UNCHANGED <<queue_, finished_, mutex_, accepted, delivered, ended>>

CallSetFinished ==
    /\ pc[Producer] = "idle"
    /\ pc' = [pc EXCEPT ![Producer] = "close"]
    /\ UNCHANGED <<queue_, finished_, mutex_, accepted, delivered, ended>>

\* std::unique_lock / lock_guard, and the re-acquisition on return from wait.
Lock(t) ==
    /\ pc[t] \in {"push", "pop", "close"}
    /\ mutex_ = NoThread
    /\ mutex_' = t
    /\ UNCHANGED <<queue_, finished_, pc, accepted, delivered, ended>>

\* cond_var_.notify_one(): some waiter, if there is one, goes on to relock.
AfterNotifyOne(pcs) ==
    IF \E c \in Consumers : pcs[c] = "waiting"
    THEN {[pcs EXCEPT ![c] = "pop"] : c \in {d \in Consumers : pcs[d] = "waiting"}}
    ELSE {pcs}

\* cond_var_.notify_all()
AfterNotifyAll(pcs) ==
    [t \in Threads |-> IF pcs[t] = "waiting" THEN "pop" ELSE pcs[t]]

\* Mutant: push notifies only when the queue was empty.
MutNotifyWhenEmpty ==
    /\ mutex_ = Producer
    /\ pc[Producer] = "push"
    /\ LET v == Len(accepted) + 1 IN
         /\ queue_' = Append(queue_, v)
         /\ accepted' = Append(accepted, v)
    /\ LET pcs == [pc EXCEPT ![Producer] = "idle"] IN
         IF queue_ = <<>> THEN pc' \in AfterNotifyOne(pcs) ELSE pc' = pcs
    /\ mutex_' = NoThread
    /\ UNCHANGED <<finished_, delivered, ended>>

push ==
    /\ mutex_ = Producer
    /\ pc[Producer] = "push"
    /\ LET v == Len(accepted) + 1 IN
         /\ queue_' = Append(queue_, v)
         /\ accepted' = Append(accepted, v)
    /\ pc' \in AfterNotifyOne([pc EXCEPT ![Producer] = "idle"])
    /\ mutex_' = NoThread
    /\ UNCHANGED <<finished_, delivered, ended>>

\* Mutant: one waiter too few is woken at the end.
MutNotifyOneAtEnd ==
    /\ mutex_ = Producer
    /\ pc[Producer] = "close"
    /\ finished_' = TRUE
    /\ pc' \in AfterNotifyOne([pc EXCEPT ![Producer] = "done"])
    /\ mutex_' = NoThread
    /\ UNCHANGED <<queue_, accepted, delivered, ended>>

set_finished ==
    /\ mutex_ = Producer
    /\ pc[Producer] = "close"
    /\ finished_' = TRUE
    /\ pc' = AfterNotifyAll([pc EXCEPT ![Producer] = "done"])
    /\ mutex_' = NoThread
    /\ UNCHANGED <<queue_, accepted, delivered, ended>>

\* The while loop of pop(): nothing to take yet, wait releases the mutex.
PopWaits(c) ==
    /\ mutex_ = c
    /\ queue_ = <<>>
    /\ ~finished_
    /\ pc' = [pc EXCEPT ![c] = "waiting"]
    /\ mutex_' = NoThread
    /\ UNCHANGED <<queue_, finished_, accepted, delivered, ended>>

\* pop() returns a frame.
PopReturnsFrame(c) ==
    /\ mutex_ = c
    /\ queue_ # <<>>
    /\ queue_' = Tail(queue_)
    /\ delivered' = Append(delivered, Head(queue_))
    /\ pc' = [pc EXCEPT ![c] = "idle"]
    /\ mutex_' = NoThread
    /\ UNCHANGED <<finished_, accepted, ended>>

\* Mutant: finished_ is looked at first, frames still queued are abandoned.
MutFalseBeforeDrained(c) ==
    /\ mutex_ = c
    /\ finished_
    /\ ended' = ended \cup {c}
    /\ pc' = [pc EXCEPT ![c] = "done"]
    /\ mutex_' = NoThread
    /\ UNCHANGED <<queue_, finished_, accepted, delivered>>

\* pop() returns false; the consumer's loop ends.
PopReturnsFalse(c) ==
    /\ mutex_ = c
    /\ queue_ = <<>>
    /\ finished_
    /\ ended' = ended \cup {c}
    /\ pc' = [pc EXCEPT ![c] = "done"]
    /\ mutex_' = NoThread
    /\ UNCHANGED <<queue_, finished_, accepted, delivered>>

pop(c) == PopWaits(c) \/ PopReturnsFrame(c) \/ PopReturnsFalse(c)

\* A condition variable may return without having been notified.
SpuriousWakeup(c) ==
    /\ pc[c] = "waiting"
    /\ pc' = [pc EXCEPT ![c] = "pop"]
    /\ UNCHANGED <<queue_, finished_, mutex_, accepted, delivered, ended>>

\* Every thread has returned: a stuttering step, so that only a thread that is
\* blocked for good counts as a deadlock.
AllDone ==
    /\ \A t \in Threads : pc[t] = "done"
    /\ UNCHANGED vars

ProducerStep == CallPush \/ CallSetFinished \/ Lock(Producer) \/ push \/ set_finished

ConsumerStep(c) == CallPop(c) \/ Lock(c) \/ pop(c)

Next ==
    \/ ProducerStep
    \/ \E c \in Consumers : ConsumerStep(c) \/ SpuriousWakeup(c)
    \/ AllDone

\* The threads are scheduled.  A thread can lose the mutex to another one any
\* number of times, so the acquisition needs strong fairness; everything else
\* stays enabled until it is taken.
Fairness ==
    /\ WF_vars(ProducerStep)
    /\ SF_vars(Lock(Producer))
    /\ \A c \in Consumers : WF_vars(ConsumerStep(c)) /\ SF_vars(Lock(c))

Spec     == Init /\ [][Next]_vars
FairSpec == Spec /\ Fairness

-----------------------------------------------------------------------------
(* Properties *)

\* push's notify_one and set_finished's notify_all lose no wakeup: nobody sleeps
\* on a finished queue, and while somebody sleeps there is an awake consumer in
\* pop() for every queued frame.
NoLostWakeup ==
    /\ finished_ => Waiters = {}
    /\ Waiters # {} => Len(queue_) <= Cardinality(Poppers)

\* push / pop / set_finished implement the closable queue: first in first out,
\* nothing lost, "false" only when finished and drained.
Abstract == INSTANCE ClosableQueue WITH buf <- queue_, closed <- finished_

Implements == Abstract!Spec

\* Every pushed frame is taken and every consumer's loop ends once the producer
\* has called set_finished, whatever the interleaving of notify and wait.
EveryConsumerEnds == <>(ended = Consumers /\ delivered = accepted /\ Len(queue_) = 0)
=============================================================================
