-------------------------- MODULE FrameQueue_proofs --------------------------
(* The mutex and the condition variable implement the closable queue, for any *)
(* number of consumers and of pushes.                                         *)
EXTENDS FrameQueue, FiniteSetTheorems, TLAPS

\* set_finished is the producer's last call, and a push in progress is within
\* the bound.
ProducerInv ==
    /\ finished_ => pc[Producer] = "done"
    /\ pc[Producer] = "push" => Len(accepted) < MaxPush

IInv == TypeOK /\ ProducerInv

\* The notified thread is a consumer, and it goes on to re-acquire the mutex.
LEMMA NotifyOne ==
    ASSUME NEW pcs \in [Threads -> States], NEW next \in AfterNotifyOne(pcs)
    PROVE  /\ next \in [Threads -> States]
           /\ \A t \in Threads : next[t] # pcs[t] => t \in Consumers /\ next[t] = "pop" /\ pcs[t] = "waiting"
  BY DEF AfterNotifyOne, States, Threads

LEMMA NotifyAll ==
    ASSUME NEW pcs \in [Threads -> States]
    PROVE  /\ AfterNotifyAll(pcs) \in [Threads -> States]
           /\ \A t \in Threads : AfterNotifyAll(pcs)[t] # pcs[t]
                  => AfterNotifyAll(pcs)[t] = "pop" /\ pcs[t] = "waiting"
  BY DEF AfterNotifyAll, States

LEMMA InitIInv == Init => IInv
<1> SUFFICES ASSUME Init PROVE IInv
  OBVIOUS
<1>1. TypeOK
  <2>1. <<>> \in Seq(Values)
    OBVIOUS
  <2>2. pc \in [Threads -> States]
    BY DEF Init, States
  <2> QED
    BY <2>1, <2>2 DEF Init, TypeOK
<1>2. pc[Producer] = "idle" /\ ~finished_
  BY DEF Init, Threads
<1> QED
  BY <1>1, <1>2 DEF IInv, ProducerInv

LEMMA StepIInv == IInv /\ [Next]_vars => IInv'
<1> SUFFICES ASSUME IInv, [Next]_vars PROVE IInv'
  OBVIOUS
<1> USE QueueAssumption
<1>1. CASE \E c \in Consumers : CallPop(c)
  BY <1>1 DEF IInv, TypeOK, ProducerInv, CallPop, Threads, States, Values
<1>2. CASE CallPush
  BY <1>2 DEF IInv, TypeOK, ProducerInv, CallPush, Threads, States, Values
<1>3. CASE CallSetFinished
  BY <1>3 DEF IInv, TypeOK, ProducerInv, CallSetFinished, Threads, States, Values
<1>4. CASE \E t \in Threads : Lock(t)
  BY <1>4 DEF IInv, TypeOK, ProducerInv, Lock, Threads, States, Values
<1>5. CASE push
  <2> DEFINE pcs == [pc EXCEPT ![Producer] = "idle"]
  <2>1. pcs \in [Threads -> States] /\ pc' \in AfterNotifyOne(pcs)
    BY <1>5 DEF IInv, TypeOK, push, Threads, States
  <2>2. pc' \in [Threads -> States] /\ pc'[Producer] = "idle"
    BY <2>1, NotifyOne DEF Threads, IInv, TypeOK
  <2>3. Len(accepted) + 1 \in Values
    BY <1>5 DEF IInv, TypeOK, ProducerInv, push, Values
  <2>4. finished_ = FALSE
    BY <1>5 DEF IInv, TypeOK, ProducerInv, push
  <2> QED
    BY <1>5, <2>2, <2>3, <2>4 DEF IInv, TypeOK, ProducerInv, push
<1>6. CASE set_finished
  <2> DEFINE pcs == [pc EXCEPT ![Producer] = "done"]
  <2>1. pcs \in [Threads -> States] /\ pc' = AfterNotifyAll(pcs)
    BY <1>6 DEF IInv, TypeOK, set_finished, Threads, States
  <2>2. pc' \in [Threads -> States] /\ pc'[Producer] = "done"
    BY <2>1, NotifyAll DEF Threads, IInv, TypeOK
  <2> QED
    BY <1>6, <2>2 DEF IInv, TypeOK, ProducerInv, set_finished
<1>7. ASSUME NEW c \in Consumers, pop(c) PROVE IInv'
  <2>1. CASE PopWaits(c)
    BY <2>1 DEF IInv, TypeOK, ProducerInv, PopWaits, Threads, States, Values
  <2>2. CASE PopReturnsFrame(c)
    <3>1. Head(queue_) \in Values /\ Tail(queue_) \in Seq(Values)
      BY <2>2 DEF IInv, TypeOK, PopReturnsFrame
    <3> QED
      BY <2>2, <3>1 DEF IInv, TypeOK, ProducerInv, PopReturnsFrame, Threads, States
  <2>3. CASE PopReturnsFalse(c)
    BY <2>3 DEF IInv, TypeOK, ProducerInv, PopReturnsFalse, Threads, States
  <2> QED
    BY <1>7, <2>1, <2>2, <2>3 DEF pop
<1>8. CASE \E c \in Consumers : SpuriousWakeup(c)
  BY <1>8 DEF IInv, TypeOK, ProducerInv, SpuriousWakeup, Threads, States, Values
<1>9. CASE AllDone \/ UNCHANGED vars
  BY <1>9 DEF IInv, TypeOK, ProducerInv, AllDone, vars
<1> QED
  BY <1>1, <1>2, <1>3, <1>4, <1>5, <1>6, <1>7, <1>8, <1>9
     DEF Next, ProducerStep, ConsumerStep, Threads

\* The queue's state is always of its type and its mutex is held only inside
\* push, pop and set_finished, for any set of consumers.
THEOREM FrameQueueType == Spec => []TypeOK
<1>1. IInv => TypeOK
  BY DEF IInv
<1> QED
  BY <1>1, InitIInv, StepIInv, PTL DEF Spec

\* A step of the mutex-and-condition-variable queue is a step of the closable
\* queue, or leaves everything the closable queue shows unchanged.
LEMMA StepImplements == IInv /\ [Next]_vars => [Abstract!Next]_(Abstract!vars)
<1> SUFFICES ASSUME IInv, [Next]_vars PROVE [Abstract!Next]_(Abstract!vars)
  OBVIOUS
<1> USE QueueAssumption
<1>1. CASE (\E c \in Consumers : CallPop(c) \/ SpuriousWakeup(c) \/ PopWaits(c))
           \/ CallPush \/ CallSetFinished \/ AllDone \/ UNCHANGED vars
  BY <1>1 DEF CallPop, SpuriousWakeup, PopWaits, CallPush, CallSetFinished, AllDone,
              vars, Abstract!vars
<1>2. CASE \E t \in Threads : Lock(t)
  BY <1>2 DEF Lock, Abstract!vars
<1>3. CASE push
  <2>1. Len(accepted) + 1 \in Values /\ ~finished_
    BY <1>3 DEF IInv, TypeOK, ProducerInv, push, Values
  <2>2. Abstract!Put(Len(accepted) + 1)
    BY <1>3, <2>1 DEF push, Abstract!Put
  <2> QED
    BY <2>1, <2>2 DEF Abstract!Next
<1>4. CASE set_finished
  BY <1>4 DEF set_finished, Abstract!Close, Abstract!Next
<1>5. ASSUME NEW c \in Consumers, PopReturnsFrame(c) PROVE Abstract!Take
  BY <1>5 DEF PopReturnsFrame, Abstract!Take
<1>6. ASSUME NEW c \in Consumers, PopReturnsFalse(c) PROVE Abstract!End(c)
  BY <1>6 DEF PopReturnsFalse, Abstract!End
<1> QED
  BY <1>1, <1>2, <1>3, <1>4, <1>5, <1>6
     DEF Next, ProducerStep, ConsumerStep, pop, Threads, Abstract!Next

\* FrameQueue implements ClosableQueue: whatever the interleaving of push, pop,
\* set_finished, notifications and spurious wakeups, frames leave in the order
\* they were pushed and pop returns false only on a finished, drained queue.
THEOREM FrameQueueImplements == Spec => Implements
<1>1. Init => Abstract!Init
  BY DEF Init, Abstract!Init
<1> QED
  BY <1>1, InitIInv, StepIInv, StepImplements, PTL DEF Spec, Implements, Abstract!Spec
-----------------------------------------------------------------------------
(* No wakeup is lost *)

\* Consumers only pop: they are never inside push or set_finished.
ConsumersPop == \A c \in Consumers : pc[c] \in {"idle", "pop", "waiting", "done"}

WakeInv == IInv /\ ConsumersPop /\ NoLostWakeup

\* The threads in pop() are finitely many; one more, one fewer, or at least as many.
LEMMA PoppersCounted == Cardinality(Poppers) \in Nat /\ IsFiniteSet(Poppers)
<1>1. Poppers \in SUBSET Consumers /\ IsFiniteSet(Consumers)
  BY QueueAssumption DEF Poppers
<1>2. IsFiniteSet(Poppers)
  BY <1>1, FS_Subset
<1> QED
  BY <1>2, FS_CardinalityType

LEMMA PoppersGrow ==
    ASSUME IsFiniteSet(Poppers'), Poppers \subseteq Poppers'
    PROVE  Cardinality(Poppers) <= Cardinality(Poppers')
<1>1. Poppers \in SUBSET (Poppers')
  OBVIOUS
<1> QED
  BY <1>1, FS_Subset

\* Taking a thread out of pop() leaves one fewer; putting one in adds one.
LEMMA PopperLeaves ==
    ASSUME NEW c \in Poppers, Poppers' = Poppers \ {c}
    PROVE  Cardinality(Poppers') = Cardinality(Poppers) - 1
  BY PoppersCounted, FS_RemoveElement

LEMMA PopperJoins ==
    ASSUME NEW c, c \notin Poppers, Poppers' = Poppers \cup {c}
    PROVE  Cardinality(Poppers') = Cardinality(Poppers) + 1
  BY PoppersCounted, FS_AddElement

LEMMA StepWakeInv == WakeInv /\ [Next]_vars => WakeInv'
<1> SUFFICES ASSUME WakeInv, [Next]_vars PROVE WakeInv'
  OBVIOUS
<1> USE QueueAssumption
<1>1. IInv /\ IInv'
  BY StepIInv DEF WakeInv
<1>2. Cardinality(Poppers) \in Nat /\ Cardinality(Poppers') \in Nat /\ IsFiniteSet(Poppers')
  <2>1. Poppers' \in SUBSET Consumers
    BY DEF Poppers
  <2> QED
    BY <2>1, PoppersCounted, FS_Subset, FS_CardinalityType
<1>3. /\ pc \in [Threads -> States] /\ pc' \in [Threads -> States]
      /\ queue_ \in Seq(Values) /\ queue_' \in Seq(Values)
  BY <1>1 DEF IInv, TypeOK
<1>4. CASE \E c \in Consumers : CallPop(c) \/ SpuriousWakeup(c)
  <2>1. PICK c \in Consumers : CallPop(c) \/ SpuriousWakeup(c)
    BY <1>4
  <2>2. ConsumersPop' /\ Poppers \subseteq Poppers' /\ Waiters' \subseteq Waiters
    BY <2>1, <1>3 DEF WakeInv, ConsumersPop, CallPop, SpuriousWakeup, Poppers, Waiters, Threads
  <2>3. Cardinality(Poppers) <= Cardinality(Poppers')
    BY <2>2, <1>2, PoppersGrow
  <2>4. queue_' = queue_ /\ finished_' = finished_
    BY <2>1 DEF CallPop, SpuriousWakeup
  <2> QED
    BY <1>1, <1>2, <1>3, <2>2, <2>3, <2>4 DEF WakeInv, NoLostWakeup
<1>5. CASE CallPush \/ CallSetFinished \/ (\E t \in Threads : Lock(t)) \/ AllDone \/ UNCHANGED vars
  <2>1. ConsumersPop' /\ Poppers' = Poppers /\ Waiters' = Waiters
    BY <1>5, <1>3 DEF WakeInv, ConsumersPop, CallPush, CallSetFinished, Lock, AllDone, vars,
                      Poppers, Waiters, Threads
  <2>2. queue_' = queue_ /\ finished_' = finished_
    BY <1>5 DEF CallPush, CallSetFinished, Lock, AllDone, vars
  <2> QED
    BY <1>1, <2>1, <2>2 DEF WakeInv, NoLostWakeup
<1>6. CASE push
  <2> DEFINE pcs == [pc EXCEPT ![Producer] = "idle"]
  <2>1. /\ pcs \in [Threads -> States] /\ pc' \in AfterNotifyOne(pcs)
        /\ \A c \in Consumers : pcs[c] = pc[c]
    BY <1>3, <1>6 DEF push, Threads, States
  <2>2. Len(queue_') = Len(queue_) + 1 /\ finished_' = FALSE /\ finished_ = FALSE
    BY <1>1, <1>3, <1>6 DEF push, IInv, TypeOK, ProducerInv
  <2>3. CASE Waiters = {}
    <3>1. pc' = pcs
      BY <2>1, <2>3 DEF AfterNotifyOne, Waiters
    <3>2. Waiters' = {} /\ ConsumersPop'
      BY <2>1, <2>3, <3>1 DEF Waiters, WakeInv, ConsumersPop
    <3> QED
      BY <1>1, <2>2, <3>2 DEF WakeInv, NoLostWakeup
  <2>4. CASE Waiters # {}
    <3>1. PICK c \in Consumers : pc[c] = "waiting" /\ pc' = [pcs EXCEPT ![c] = "pop"]
      BY <2>1, <2>4 DEF AfterNotifyOne, Waiters
    <3>2. c \notin Poppers /\ Poppers' = Poppers \cup {c} /\ ConsumersPop'
      BY <2>1, <3>1 DEF Poppers, Threads, WakeInv, ConsumersPop
    <3>3. Cardinality(Poppers') = Cardinality(Poppers) + 1
      BY <3>2, PopperJoins
    <3> QED
      BY <1>1, <1>2, <1>3, <2>2, <2>4, <3>2, <3>3 DEF WakeInv, NoLostWakeup
  <2> QED
    BY <2>3, <2>4
<1>7. CASE set_finished
  <2> DEFINE pcs == [pc EXCEPT ![Producer] = "done"]
  <2>1. /\ \A c \in Consumers : pcs[c] = pc[c]
        /\ pc' = [t \in Threads |-> IF pcs[t] = "waiting" THEN "pop" ELSE pcs[t]]
    BY <1>3, <1>7 DEF set_finished, AfterNotifyAll, Threads
  <2>2. \A c \in Consumers : pc'[c] = IF pc[c] = "waiting" THEN "pop" ELSE pc[c]
    BY <2>1 DEF Threads
  <2>3. ConsumersPop' /\ Waiters' = {}
    BY <2>2 DEF WakeInv, ConsumersPop, Waiters
  <2> QED
    BY <1>1, <2>3 DEF WakeInv, NoLostWakeup
<1>8. ASSUME NEW c \in Consumers, pop(c) PROVE WakeInv'
  <2>1. c \in Poppers
    <3>1. mutex_ = c /\ mutex_ # NoThread
      BY <1>8 DEF pop, PopWaits, PopReturnsFrame, PopReturnsFalse, Threads
    <3> QED
      BY <1>1, <1>8, <3>1 DEF IInv, TypeOK, WakeInv, ConsumersPop, Poppers
  <2>2. ConsumersPop'
    BY <1>3, <1>8 DEF pop, PopWaits, PopReturnsFrame, PopReturnsFalse, WakeInv, ConsumersPop, Threads
  <2>3. finished_' = finished_
    BY <1>8 DEF pop, PopWaits, PopReturnsFrame, PopReturnsFalse
  <2>4. CASE PopWaits(c)
    BY <1>1, <1>2, <2>2, <2>4 DEF PopWaits, WakeInv, NoLostWakeup
  <2>5. CASE PopReturnsFrame(c)
    <3>1. Poppers' = Poppers \ {c} /\ Waiters' = Waiters
      BY <1>3, <2>1, <2>5 DEF PopReturnsFrame, Poppers, Waiters, Threads
    <3>2. Cardinality(Poppers') = Cardinality(Poppers) - 1
      BY <2>1, <3>1, PopperLeaves
    <3>3. Len(queue_') = Len(queue_) - 1
      BY <1>3, <2>5 DEF PopReturnsFrame
    <3> QED
      BY <1>1, <1>2, <1>3, <2>2, <2>3, <3>1, <3>2, <3>3 DEF WakeInv, NoLostWakeup
  <2>6. CASE PopReturnsFalse(c)
    <3>1. Waiters' = {}
      BY <1>3, <2>6 DEF PopReturnsFalse, WakeInv, NoLostWakeup, Waiters, Threads
    <3> QED
      BY <1>1, <2>2, <3>1 DEF WakeInv, NoLostWakeup
  <2> QED
    BY <1>8, <2>4, <2>5, <2>6 DEF pop
<1> QED
  BY <1>4, <1>5, <1>6, <1>7, <1>8 DEF Next, ProducerStep, ConsumerStep, Threads

\* However many consumers wait on the condition variable, notify_one in push and
\* notify_all in set_finished wake enough of them: nobody sleeps on a finished
\* queue, nor while there are more frames than awake consumers in pop().
THEOREM FrameQueueWakes == Spec => []NoLostWakeup
<1>1. Init => WakeInv
  <2> SUFFICES ASSUME Init PROVE WakeInv
    OBVIOUS
  <2>1. \A t \in Threads : pc[t] = "idle"
    BY DEF Init
  <2>2. Waiters = {} /\ ConsumersPop
    BY <2>1 DEF Waiters, ConsumersPop, Threads
  <2> QED
    BY <2>2, InitIInv DEF WakeInv, NoLostWakeup
<1>2. WakeInv => NoLostWakeup
  BY DEF WakeInv
<1> QED
  BY <1>1, <1>2, StepWakeInv, PTL DEF Spec
=============================================================================
