---------------------------- MODULE YoloShm_proofs ---------------------------
(***************************************************************************)
(* For any number of frames and runs and whatever crashes between them:    *)
(* both shared-memory buffers have one owner at a time, results reach the  *)
(* reader once and in order, and so do frames the Python program unless an *)
(* earlier run left one announced.                                         *)
(***************************************************************************)
EXTENDS YoloShm, TLAPS

USE YoloAssumption

LEMMA InitType == Init => TypeOK
<1> SUFFICES ASSUME Init PROVE TypeOK
  OBVIOUS
<1>1. NoFrame \in Images /\ NoResult \in Results
  BY DEF NoFrame, NoResult, Images, Results
<1>2. <<>> \in Seq(Images) /\ <<>> \in Seq(Results)
  OBVIOUS
<1>3. /\ starts \in 0..MaxStarts /\ decoded \in 0..MaxFrames /\ frameCounter \in 0..decoded
      /\ frameReady \in Nat /\ frameDone \in Nat /\ resultReady \in Nat
      /\ resultDone \in Nat /\ framesYolo \in Nat
  BY DEF Init
<1>4. /\ posted \in Seq(Images) /\ seen \in Seq(Images) /\ received \in Seq(Results)
      /\ written \in Seq(Results) /\ linked \in SUBSET Names
  BY <1>2 DEF Init
<1>5. /\ meta \in Images /\ pixels \in Images /\ job \in Images /\ jobPixels \in Images
      /\ resultBuf \in Results
  BY <1>1 DEF Init
<1>6. /\ main = "down" /\ ppc = "done" /\ rpc = "done" /\ ypc = "down"
      /\ inputEnded = FALSE /\ readerRunning = FALSE /\ resultLinked = FALSE
  BY DEF Init
<1> QED
  BY <1>3, <1>4, <1>5, <1>6 DEF TypeOK

LEMMA MainType ==
    ASSUME TypeOK, StartDetector \/ DetectorDies \/ Main \/ DecodeFrame \/ DecodeEnds
    PROVE  TypeOK'
<1> USE DEF TypeOK, frameVars, sourceVars, resultVars, readerVars, yoloVars
<1>1. CASE StartDetector
  <2>1. <<>> \in Seq(Images) /\ <<>> \in Seq(Results)
    OBVIOUS
  <2>2. /\ starts' \in 0..MaxStarts /\ decoded' \in 0..MaxFrames /\ frameCounter' \in 0..decoded'
        /\ framesYolo' \in Nat
    BY <1>1 DEF StartDetector
  <2>3. /\ posted' \in Seq(Images) /\ seen' \in Seq(Images) /\ received' \in Seq(Results)
        /\ written' \in Seq(Results)
    BY <1>1, <2>1 DEF StartDetector
  <2> QED
    BY <1>1, <2>2, <2>3 DEF StartDetector
<1>2. CASE DetectorDies
  BY <1>2 DEF DetectorDies
<1>3. CASE OpenInput
  BY <1>3 DEF OpenInput
<1>4. CASE StopThreads
  BY <1>4 DEF StopThreads
<1>5. CASE ExitDetector
  BY <1>5 DEF ExitDetector
<1>6. CASE DecodeFrame
  BY <1>6 DEF DecodeFrame
<1>7. CASE DecodeEnds
  BY <1>7 DEF DecodeEnds
<1> QED
  BY <1>1, <1>2, <1>3, <1>4, <1>5, <1>6, <1>7 DEF Main

LEMMA ProducerType == TypeOK /\ Producer => TypeOK'
<1> SUFFICES ASSUME TypeOK, Producer PROVE TypeOK'
  OBVIOUS
<1> USE DEF TypeOK, frameVars, sourceVars, resultVars, readerVars, yoloVars
<1>1. CASE OpenFrameChannel
  BY <1>1 DEF OpenFrameChannel, NoFrame, Images
<1>2. CASE OpenFrameChannelFails
  BY <1>2 DEF OpenFrameChannelFails
<1>3. CASE PopFrame
  BY <1>3 DEF PopFrame
<1>4. CASE FramesEnd
  BY <1>4 DEF FramesEnd
<1>5. CASE WaitProcessed
  BY <1>5 DEF WaitProcessed
<1>6. CASE WriteMetadata
  BY <1>6 DEF WriteMetadata, Images
<1>7. CASE StartScale
  BY <1>7 DEF StartScale, Torn, Images
<1>8. CASE EndScale
  BY <1>8 DEF EndScale
<1>9. CASE SkipFrame
  BY <1>9 DEF SkipFrame
<1>10. CASE PostFrame
  BY <1>10 DEF PostFrame
<1>11. CASE UnlinkFrameChannel
  BY <1>11 DEF UnlinkFrameChannel
<1> QED
  BY <1>1, <1>2, <1>3, <1>4, <1>5, <1>6, <1>7, <1>8, <1>9, <1>10, <1>11 DEF Producer

LEMMA ReaderType == TypeOK /\ Reader => TypeOK'
<1> SUFFICES ASSUME TypeOK, Reader PROVE TypeOK'
  OBVIOUS
<1> USE DEF TypeOK, frameVars, sourceVars, resultVars, readerVars, yoloVars
<1>1. CASE OpenResultChannel
  BY <1>1 DEF OpenResultChannel, NoResult, Results, NoFrame, Images
<1>2. CASE OpenResultChannelFails
  BY ZenonT(40), <1>2 DEF OpenResultChannelFails
<1>3. CASE WaitResult
  BY <1>3 DEF WaitResult
<1>4. CASE ReaderStops
  BY <1>4 DEF ReaderStops
<1>5. CASE ReadResult
  BY <1>5 DEF ReadResult
<1>6. CASE PostProcessed
  BY <1>6 DEF PostProcessed
<1> QED
  BY <1>1, <1>2, <1>3, <1>4, <1>5, <1>6 DEF Reader

LEMMA YoloType ==
    ASSUME TypeOK, Yolo \/ MonitorExits
    PROVE  TypeOK'
<1> USE DEF TypeOK, frameVars, sourceVars, resultVars, readerVars, yoloVars
<1>1. CASE StartYolo
  BY <1>1 DEF StartYolo
<1>2. CASE Attach
  BY <1>2 DEF Attach
<1>3. CASE AttachFails
  BY <1>3 DEF AttachFails, CleanUp
<1>4. CASE AcquireFrame
  BY <1>4 DEF AcquireFrame
<1>5. CASE ReadMetadata
  <2>1. seen' \in Seq(Images) /\ job' \in Images
    <3>1. Append(seen, meta) \in Seq(Images)
      OBVIOUS
    <3>2. (seen' = seen \/ seen' = Append(seen, meta)) /\ (job' = job \/ job' = meta)
      BY <1>5 DEF ReadMetadata, CleanUp
    <3> QED
      BY <3>1, <3>2
  <2>2. linked' \in SUBSET Names
    <3>1. linked' = {} \/ linked' = linked
      BY <1>5 DEF ReadMetadata, CleanUp
    <3> QED
      BY <3>1
  <2>3. ypc' \in {"down", "release"}
    BY <1>5 DEF ReadMetadata, CleanUp
  <2>4. /\ resultLinked' \in BOOLEAN
        /\ UNCHANGED <<starts, main, sourceVars, ppc, frameCounter, posted, frameReady, frameDone,
                       meta, pixels, resultReady, resultDone, resultBuf, written, readerVars,
                       jobPixels, framesYolo>>
    BY <1>5 DEF ReadMetadata, CleanUp
  <2> QED
    BY <2>1, <2>2, <2>3, <2>4
<1>6. CASE ReleaseFrame
  BY <1>6 DEF ReleaseFrame
<1>7. CASE Infer
  BY <1>7 DEF Infer
<1>8. CASE AcquireResult
  BY <1>8 DEF AcquireResult
<1>9. CASE WriteResult
  <2>1. [frame |-> job, image |-> jobPixels] \in Results
    BY DEF Results
  <2> QED
    BY <1>9, <2>1 DEF WriteResult
<1>10. CASE PublishResult
  BY <1>10 DEF PublishResult
<1>11. CASE MonitorExits
  BY <1>11 DEF MonitorExits
<1>12. CASE ResultFails
  BY <1>12 DEF ResultFails
<1>13. CASE YoloRaises
  BY <1>13 DEF YoloRaises, CleanUp
<1> QED
  BY <1>1, <1>2, <1>3, <1>4, <1>5, <1>6, <1>7, <1>8, <1>9, <1>10, <1>11, <1>12, <1>13 DEF Yolo

LEMMA NextType == TypeOK /\ [Next]_vars => TypeOK'
<1> SUFFICES ASSUME TypeOK, [Next]_vars PROVE TypeOK'
  OBVIOUS
<1>1. CASE UNCHANGED vars
  BY <1>1 DEF vars, frameVars, sourceVars, resultVars, readerVars, yoloVars, TypeOK
<1> QED
  BY <1>1, MainType, ProducerType, ReaderType, YoloType DEF Next

\* Every variable of the detector keeps its type, and the frame thread holds
\* a popped frame only while there is one (frame_queue->pop, main's restart).
THEOREM YoloShmType == Spec => []TypeOK
  BY InitType, NextType, PTL DEF Spec

-----------------------------------------------------------------------------
(* The buffers.  A semaphore's value is kept by a restart when its name still *)
(* exists, so the owner-count is inductive only together with the order the   *)
(* names are unlinked in: /frame_processed is the last of the two to go.  A   *)
(* channel is made while no Python process of this run is attached to it.     *)

Detached == ypc \in {"off", "down"}

Inv ==
    /\ TypeOK
    /\ "ready" \in linked => "processed" \in linked
    /\ ppc = "setup" \/ rpc = "setup" => Detached
    /\ FrameBufferExclusive
    /\ ResultBufferExclusive

LEMMA InitInv == Init => Inv
  BY InitType DEF Init, Inv, Detached, FrameBufferExclusive, ResultBufferExclusive, WritingFrame,
                  HoldingFrame

LEMMA MainInv ==
    ASSUME Inv, TypeOK', StartDetector \/ DetectorDies \/ Main \/ DecodeFrame \/ DecodeEnds
    PROVE  Inv'
<1> USE DEF Inv, TypeOK, Detached, FrameBufferExclusive, ResultBufferExclusive, WritingFrame,
            HoldingFrame, frameVars, sourceVars, resultVars, readerVars, yoloVars
<1>1. CASE StartDetector
  <2>1. <<>> \in Seq(Images) /\ <<>> \in Seq(Results)
    OBVIOUS
  <2>2. /\ starts' \in 0..MaxStarts /\ decoded' \in 0..MaxFrames /\ frameCounter' \in 0..decoded'
        /\ framesYolo' \in Nat
    BY <1>1 DEF StartDetector
  <2>3. /\ posted' \in Seq(Images) /\ seen' \in Seq(Images) /\ received' \in Seq(Results)
        /\ written' \in Seq(Results)
    BY <1>1, <2>1 DEF StartDetector
  <2> QED
    BY <1>1, <2>2, <2>3 DEF StartDetector
<1>2. CASE DetectorDies
  BY <1>2 DEF DetectorDies
<1>3. CASE OpenInput
  BY <1>3 DEF OpenInput
<1>4. CASE StopThreads
  BY <1>4 DEF StopThreads
<1>5. CASE ExitDetector
  BY <1>5 DEF ExitDetector
<1>6. CASE DecodeFrame
  BY <1>6 DEF DecodeFrame
<1>7. CASE DecodeEnds
  BY <1>7 DEF DecodeEnds
<1> QED
  BY <1>1, <1>2, <1>3, <1>4, <1>5, <1>6, <1>7 DEF Main

LEMMA ProducerInv == ASSUME Inv, TypeOK', Producer PROVE Inv'
<1> USE DEF Inv, TypeOK, Detached, FrameBufferExclusive, ResultBufferExclusive, WritingFrame,
            HoldingFrame, frameVars, sourceVars, resultVars, readerVars, yoloVars
<1>1. CASE OpenFrameChannel
  BY <1>1 DEF OpenFrameChannel, Names
<1>2. CASE OpenFrameChannelFails
  BY <1>2 DEF OpenFrameChannelFails
<1>3. CASE PopFrame
  BY <1>3 DEF PopFrame
<1>4. CASE FramesEnd
  BY <1>4 DEF FramesEnd
<1>5. CASE WaitProcessed
  BY <1>5 DEF WaitProcessed
<1>6. CASE WriteMetadata
  BY <1>6 DEF WriteMetadata
<1>7. CASE StartScale
  BY <1>7 DEF StartScale
<1>8. CASE EndScale
  BY <1>8 DEF EndScale
<1>9. CASE SkipFrame
  BY <1>9 DEF SkipFrame
<1>10. CASE PostFrame
  BY <1>10 DEF PostFrame
<1>11. CASE UnlinkFrameChannel
  BY <1>11 DEF UnlinkFrameChannel
<1> QED
  BY <1>1, <1>2, <1>3, <1>4, <1>5, <1>6, <1>7, <1>8, <1>9, <1>10, <1>11 DEF Producer

LEMMA ReaderInv == ASSUME Inv, TypeOK', Reader PROVE Inv'
<1> USE DEF Inv, TypeOK, Detached, FrameBufferExclusive, ResultBufferExclusive, WritingFrame,
            HoldingFrame, frameVars, sourceVars, resultVars, readerVars, yoloVars
<1>1. CASE OpenResultChannel
  BY <1>1 DEF OpenResultChannel
<1>2. CASE OpenResultChannelFails
  BY <1>2 DEF OpenResultChannelFails
<1>3. CASE WaitResult
  BY <1>3 DEF WaitResult
<1>4. CASE ReaderStops
  BY <1>4 DEF ReaderStops
<1>5. CASE ReadResult
  BY <1>5 DEF ReadResult
<1>6. CASE PostProcessed
  BY <1>6 DEF PostProcessed
<1> QED
  BY <1>1, <1>2, <1>3, <1>4, <1>5, <1>6 DEF Reader

LEMMA YoloInv == ASSUME Inv, TypeOK', Yolo \/ MonitorExits PROVE Inv'
<1> USE DEF Inv, TypeOK, Detached, FrameBufferExclusive, ResultBufferExclusive, WritingFrame,
            HoldingFrame, frameVars, sourceVars, resultVars, readerVars, yoloVars
<1>1. CASE StartYolo
  BY <1>1 DEF StartYolo
<1>2. CASE Attach
  BY <1>2 DEF Attach
<1>3. CASE AttachFails
  BY <1>3 DEF AttachFails, CleanUp
<1>4. CASE AcquireFrame
  BY <1>4 DEF AcquireFrame
<1>5. CASE ReadMetadata
  <2>1. seen' \in Seq(Images) /\ job' \in Images
    <3>1. Append(seen, meta) \in Seq(Images)
      OBVIOUS
    <3>2. (seen' = seen \/ seen' = Append(seen, meta)) /\ (job' = job \/ job' = meta)
      BY <1>5 DEF ReadMetadata, CleanUp
    <3> QED
      BY <3>1, <3>2
  <2>2. linked' \in SUBSET Names
    <3>1. linked' = {} \/ linked' = linked
      BY <1>5 DEF ReadMetadata, CleanUp
    <3> QED
      BY <3>1
  <2>3. ypc' \in {"down", "release"}
    BY <1>5 DEF ReadMetadata, CleanUp
  <2> QED
    BY <1>5, <2>1, <2>2, <2>3 DEF ReadMetadata, CleanUp
<1>6. CASE ReleaseFrame
  BY <1>6 DEF ReleaseFrame
<1>7. CASE Infer
  BY <1>7 DEF Infer
<1>8. CASE AcquireResult
  BY <1>8 DEF AcquireResult
<1>9. CASE WriteResult
  BY <1>9 DEF WriteResult
<1>10. CASE PublishResult
  BY <1>10 DEF PublishResult
<1>11. CASE MonitorExits
  BY <1>11 DEF MonitorExits
<1>12. CASE ResultFails
  BY <1>12 DEF ResultFails
<1>13. CASE YoloRaises
  BY <1>13 DEF YoloRaises, CleanUp
<1> QED
  BY <1>1, <1>2, <1>3, <1>4, <1>5, <1>6, <1>7, <1>8, <1>9, <1>10, <1>11, <1>12, <1>13 DEF Yolo

LEMMA NextInv == Inv /\ [Next]_vars => Inv'
<1> SUFFICES ASSUME Inv, [Next]_vars PROVE Inv'
  OBVIOUS
<1>1. TypeOK'
  BY NextType DEF Inv
<1>2. CASE UNCHANGED vars
  BY <1>1, <1>2 DEF vars, frameVars, sourceVars, resultVars, readerVars, yoloVars, Inv, Detached,
                    FrameBufferExclusive, ResultBufferExclusive, WritingFrame, HoldingFrame
<1> QED
  BY <1>1, <1>2, MainInv, ProducerInv, ReaderInv, YoloInv DEF Next

LEMMA InvHolds == Spec => []Inv
  BY InitInv, NextInv, PTL DEF Spec

\* Between sem_wait and sem_post on the C++ side and acquire and release on the
\* Python side each buffer of the shared memory has one owner, through any number
\* of crashes and restarts that find the frame semaphores as they were left.
THEOREM BuffersOwned == Spec => []BuffersExclusive
<1>1. Inv => BuffersExclusive
  BY DEF Inv, BuffersExclusive
<1> QED
  BY <1>1, InvHolds, PTL

-----------------------------------------------------------------------------
(* The hand-over of results: a token of the result channel says what the     *)
(* reader still has to take.                                                  *)

ResultInv ==
    /\ rpc = "setup" => ypc = "off"
    /\ ypc \in {"off", "attach"} => written = <<>> /\ received = <<>>
    /\ resultDone > 0 \/ ypc = "write" \/ rpc = "post" => written = received
    /\ ypc = "publish" \/ rpc = "read" \/ (rpc = "wait" /\ resultReady > 0) =>
         written = Append(received, resultBuf)
    /\ written = received \/ \E x \in Results : written = Append(received, x)

\* The order of frames: the run and the number in it that the producer comes to.
Now == <<starts, frameCounter>>

\* A frame announced, or being written, is none that was taken over before.
SeenInv ==
    /\ meta = NoFrame \/ (Earlier(meta, Now) /\ meta[1] \in 1..starts)
    /\ ppc # "done" => starts > 0
    /\ ppc = "setup" => meta[1] < starts /\ ypc = "off"
    /\ ypc \in {"off", "attach"} => seen = <<>>
    /\ \A i \in 1..Len(seen) : Earlier(seen[i], Now) /\ seen[i][1] \in 1..starts
    /\ frameReady > 0 \/ ypc = "metadata" \/ ppc \in {"scale", "convert", "post"} =>
         \A i \in 1..Len(seen) : Earlier(seen[i], meta)

\* Results are about frames taken over, the one at work being later than all.
WrittenInv ==
    /\ \A i \in 1..Len(written) : \E k \in 1..Len(seen) : written[i].frame = seen[k]
    /\ ypc \in {"release", "infer", "acquire", "write"} =>
         /\ \E k \in 1..Len(seen) : job = seen[k]
         /\ \A i \in 1..Len(written) : Earlier(written[i].frame, job)
    /\ \A i, j \in 1..Len(written) : i < j => Earlier(written[i].frame, written[j].frame)

\* The first frame taken over, if any, was posted in this run.
OwnFrames == seen = <<>> \/ seen[1][1] = starts

PostedInv ==
    /\ ppc = "setup" \/ ypc = "off" => seen = <<>>
    /\ ppc = "setup" => posted = <<>>
    /\ OwnFrames =>
        /\ frameDone > 0 \/ WritingFrame \/ ypc = "release" => posted = seen
        /\ frameReady > 0 \/ ypc = "metadata" =>
             \/ posted = Append(seen, meta)
             \/ posted = <<>> /\ seen = <<>> /\ meta[1] < starts
        /\ posted = seen \/ \E x \in Images : posted = Append(seen, x)

Handed == ResultInv /\ SeenInv /\ WrittenInv /\ PostedInv

LEMMA AppendTo ==
    ASSUME NEW S, NEW q \in Seq(S), NEW x \in S
    PROVE  /\ Append(q, x) \in Seq(S) /\ Len(q) \in Nat /\ Len(Append(q, x)) = Len(q) + 1
           /\ \A i \in 1..Len(q) : Append(q, x)[i] = q[i]
           /\ Append(q, x)[Len(q) + 1] = x /\ Append(q, x) # <<>>
  OBVIOUS

\* What holds of the members and of the new one holds of all.
LEMMA AppendMembers ==
    ASSUME NEW S, NEW q \in Seq(S), NEW x \in S
    PROVE  /\ \A i \in 1..Len(Append(q, x)) :
                (i \in 1..Len(q) /\ Append(q, x)[i] = q[i])
                  \/ (i = Len(q) + 1 /\ Append(q, x)[i] = x)
           /\ \A i \in 1..Len(q) : i \in 1..Len(Append(q, x)) /\ Append(q, x)[i] = q[i]
           /\ Len(q) + 1 \in 1..Len(Append(q, x)) /\ Append(q, x)[Len(q) + 1] = x
<1> DEFINE r == Append(q, x)
<1>1. /\ Len(q) \in Nat /\ Len(r) = Len(q) + 1 /\ r[Len(q) + 1] = x
      /\ \A i \in 1..Len(q) : r[i] = q[i]
  BY AppendTo
<1> HIDE DEF r
<1>2. /\ \A i \in 1..Len(r) : (i \in 1..Len(q) /\ r[i] = q[i]) \/ (i = Len(q) + 1 /\ r[i] = x)
      /\ \A i \in 1..Len(q) : i \in 1..Len(r) /\ r[i] = q[i]
      /\ Len(q) + 1 \in 1..Len(r) /\ r[Len(q) + 1] = x
  BY <1>1
<1> QED
  BY <1>2 DEF r

LEMMA HandedTypes ==
    ASSUME Inv
    PROVE  /\ starts \in Nat /\ frameCounter \in Nat /\ frameReady \in Nat /\ frameDone \in Nat
           /\ resultReady \in Nat /\ resultDone \in Nat
           /\ posted \in Seq(Images) /\ seen \in Seq(Images)
           /\ received \in Seq(Results) /\ written \in Seq(Results)
           /\ meta \in Images /\ job \in Images /\ jobPixels \in Images /\ resultBuf \in Results
<1>1. starts \in 0..MaxStarts /\ frameCounter \in 0..decoded /\ decoded \in 0..MaxFrames
  BY DEF Inv, TypeOK
<1>2. /\ frameReady \in Nat /\ frameDone \in Nat /\ resultReady \in Nat /\ resultDone \in Nat
      /\ posted \in Seq(Images) /\ seen \in Seq(Images)
      /\ received \in Seq(Results) /\ written \in Seq(Results)
      /\ meta \in Images /\ job \in Images /\ jobPixels \in Images /\ resultBuf \in Results
  BY DEF Inv, TypeOK
<1> QED
  BY <1>1, <1>2

LEMMA InitHanded == Init => Handed
<1> SUFFICES ASSUME Init PROVE Handed
  OBVIOUS
<1>1. /\ posted = <<>> /\ seen = <<>> /\ received = <<>> /\ written = <<>> /\ meta = NoFrame
      /\ frameReady = 0 /\ frameDone = 0 /\ resultReady = 0 /\ resultDone = 0
      /\ ppc = "done" /\ rpc = "done" /\ ypc = "down"
  BY DEF Init
<1>2. ResultInv
  BY <1>1 DEF ResultInv
<1>3. SeenInv
  BY <1>1 DEF SeenInv
<1>4. WrittenInv
  BY <1>1 DEF WrittenInv
<1>5. PostedInv
  BY <1>1 DEF PostedInv, WritingFrame
<1> QED
  BY <1>2, <1>3, <1>4, <1>5 DEF Handed

\* A result is written when the one before has been taken, and taken when it is written.
LEMMA ResultStep ==
    ASSUME Inv, ResultInv, Next
    PROVE  ResultInv'
<1>1. CASE UNCHANGED <<rpc, ypc, written, received, resultDone, resultReady, resultBuf>>
  BY <1>1 DEF ResultInv
<1>2. CASE StartDetector
  BY <1>2, HandedTypes DEF StartDetector, ResultInv, Inv, ResultBufferExclusive, Detached,
     frameVars, sourceVars, resultVars, readerVars, yoloVars
<1>3. CASE DetectorDies
  BY <1>3, HandedTypes DEF DetectorDies, ResultInv, Inv, ResultBufferExclusive, Detached,
     frameVars, sourceVars, resultVars, readerVars, yoloVars
<1>4. CASE OpenResultChannel
  BY <1>4, HandedTypes DEF OpenResultChannel, ResultInv, Inv, ResultBufferExclusive, Detached,
     frameVars, sourceVars, resultVars, readerVars, yoloVars
<1>5. CASE OpenResultChannelFails
  BY <1>5, HandedTypes DEF OpenResultChannelFails, ResultInv, Inv, ResultBufferExclusive,
     Detached, frameVars, sourceVars, resultVars, readerVars, yoloVars
<1>6. CASE WaitResult
  BY <1>6, HandedTypes DEF WaitResult, ResultInv, Inv, ResultBufferExclusive, Detached, frameVars,
     sourceVars, resultVars, readerVars, yoloVars
<1>7. CASE ReaderStops
  BY <1>7, HandedTypes DEF ReaderStops, ResultInv, Inv, ResultBufferExclusive, Detached,
     frameVars, sourceVars, resultVars, readerVars, yoloVars
<1>8. CASE ReadResult
  BY <1>8, HandedTypes DEF ReadResult, ResultInv, Inv, ResultBufferExclusive, Detached, frameVars,
     sourceVars, resultVars, readerVars, yoloVars
<1>9. CASE PostProcessed
  BY <1>9, HandedTypes DEF PostProcessed, ResultInv, Inv, ResultBufferExclusive, Detached,
     frameVars, sourceVars, resultVars, readerVars, yoloVars
<1>10. CASE StartYolo
  BY <1>10, HandedTypes DEF StartYolo, ResultInv, Inv, ResultBufferExclusive, Detached, frameVars,
     sourceVars, resultVars, readerVars, yoloVars
<1>11. CASE Attach
  BY <1>11, HandedTypes DEF Attach, ResultInv, Inv, ResultBufferExclusive, Detached, frameVars,
     sourceVars, resultVars, readerVars, yoloVars
<1>12. CASE AttachFails
  BY <1>12, HandedTypes DEF AttachFails, CleanUp, ResultInv, Inv, ResultBufferExclusive, Detached,
     frameVars, sourceVars, resultVars, readerVars, yoloVars
<1>13. CASE AcquireFrame
  BY <1>13, HandedTypes DEF AcquireFrame, ResultInv, Inv, ResultBufferExclusive, Detached,
     frameVars, sourceVars, resultVars, readerVars, yoloVars
<1>14. CASE ReadMetadata
  BY <1>14, HandedTypes DEF ReadMetadata, CleanUp, ResultInv, Inv, ResultBufferExclusive, Detached,
     frameVars, sourceVars, resultVars, readerVars, yoloVars
<1>15. CASE ReleaseFrame
  BY <1>15, HandedTypes DEF ReleaseFrame, ResultInv, Inv, ResultBufferExclusive, Detached,
     frameVars, sourceVars, resultVars, readerVars, yoloVars
<1>16. CASE Infer
  BY <1>16, HandedTypes DEF Infer, ResultInv, Inv, ResultBufferExclusive, Detached, frameVars,
     sourceVars, resultVars, readerVars, yoloVars
<1>17. CASE AcquireResult
  BY <1>17, HandedTypes DEF AcquireResult, ResultInv, Inv, ResultBufferExclusive, Detached,
     frameVars, sourceVars, resultVars, readerVars, yoloVars
<1>18. CASE WriteResult
  <2>1. /\ ypc = "write" /\ ypc' = "publish" /\ UNCHANGED <<rpc, received, resultDone, resultReady>>
        /\ resultBuf' = [frame |-> job, image |-> jobPixels]
        /\ written' = Append(written, [frame |-> job, image |-> jobPixels])
    BY <1>18 DEF WriteResult, readerVars
  <2> PICK r \in Results : r = [frame |-> job, image |-> jobPixels]
    BY HandedTypes DEF Results
  <2>2. resultBuf' = r /\ written' = Append(received, r)
    BY <2>1 DEF ResultInv
  <2>3. resultReady = 0 /\ resultDone = 0 /\ rpc \notin {"read", "post"}
    BY <2>1, HandedTypes DEF Inv, ResultBufferExclusive
  <2>4. rpc # "setup"
    BY <2>1 DEF ResultInv
  <2> QED
    BY <2>1, <2>2, <2>3, <2>4 DEF ResultInv
<1>19. CASE PublishResult
  BY <1>19, HandedTypes DEF PublishResult, ResultInv, Inv, ResultBufferExclusive, Detached,
     frameVars, sourceVars, resultVars, readerVars, yoloVars
<1>20. CASE MonitorExits
  BY <1>20, HandedTypes DEF MonitorExits, ResultInv, Inv, ResultBufferExclusive, Detached,
     frameVars, sourceVars, resultVars, readerVars, yoloVars
<1>21. CASE ResultFails
  BY <1>21, HandedTypes DEF ResultFails, ResultInv, Inv, ResultBufferExclusive, Detached,
     frameVars, sourceVars, resultVars, readerVars, yoloVars
<1>22. CASE YoloRaises
  BY <1>22, HandedTypes DEF YoloRaises, CleanUp, ResultInv, Inv, ResultBufferExclusive, Detached,
     frameVars, sourceVars, resultVars, readerVars, yoloVars
<1> QED
  BY <1>1, <1>2, <1>3, <1>4, <1>5, <1>6, <1>7, <1>8, <1>9, <1>10, <1>11, <1>12, <1>13, <1>14,
     <1>15, <1>16, <1>17, <1>18, <1>19, <1>20, <1>21, <1>22
     DEF Next, Main, Producer, Reader, Yolo, OpenInput,
     StopThreads, ExitDetector, DecodeFrame, DecodeEnds, OpenFrameChannel, OpenFrameChannelFails,
     PopFrame, FramesEnd, WaitProcessed, WriteMetadata, StartScale, EndScale, SkipFrame,
     PostFrame, UnlinkFrameChannel, frameVars, sourceVars, resultVars, readerVars, yoloVars

\* Frames are named later and later; what the semaphore announces is the last of them.
LEMMA SeenStep ==
    ASSUME Inv, SeenInv, Next
    PROVE  SeenInv'
<1>1. CASE UNCHANGED <<starts, frameCounter, meta, ppc, ypc, seen, frameReady>>
  BY <1>1 DEF SeenInv, Now
<1>2. CASE StartDetector
  <2>1. /\ starts' = starts + 1 /\ frameCounter' = 0 /\ seen' = <<>>
        /\ ppc' = "setup" /\ ypc' = "off"
        /\ UNCHANGED <<meta, frameReady>>
    BY <1>2 DEF StartDetector
  <2>2. /\ meta[1] \in Nat /\ meta[2] \in Nat /\ starts \in Nat
        /\ meta = NoFrame \/ meta[1] \in 1..starts
    BY HandedTypes DEF SeenInv, Images
  <2>3. meta[1] < starts' /\ (meta = NoFrame \/ meta[1] \in 1..starts')
    <3>1. CASE meta = NoFrame
      BY <2>1, <2>2, <3>1 DEF NoFrame
    <3>2. CASE meta[1] \in 1..starts
      BY <2>1, <2>2, <3>2
    <3> QED
      BY <2>2, <3>1, <3>2
  <2>4. Earlier(meta, Now')
    BY <2>1, <2>3 DEF Earlier, Now
  <2>5. \A i \in 1..Len(seen') : FALSE
    BY <2>1
  <2>6. starts' > 0
    BY <2>1, <2>2
  <2> QED
    BY <2>1, <2>3, <2>4, <2>5, <2>6 DEF SeenInv
<1>3. CASE DetectorDies
  BY <1>3, HandedTypes DEF DetectorDies, SeenInv, Now, Inv, FrameBufferExclusive, Detached,
     WritingFrame, HoldingFrame, frameVars, sourceVars, resultVars, readerVars, yoloVars
<1>4. CASE OpenFrameChannel
  BY <1>4, HandedTypes DEF OpenFrameChannel, SeenInv, Now, Inv, FrameBufferExclusive, Detached,
     WritingFrame, HoldingFrame, frameVars, sourceVars, resultVars, readerVars, yoloVars
<1>5. CASE OpenFrameChannelFails
  BY <1>5, HandedTypes DEF OpenFrameChannelFails, SeenInv, Now, Inv, FrameBufferExclusive,
     Detached, WritingFrame, HoldingFrame, frameVars, sourceVars, resultVars, readerVars, yoloVars
<1>6. CASE PopFrame
  BY <1>6, HandedTypes DEF PopFrame, SeenInv, Now, Inv, FrameBufferExclusive, Detached,
     WritingFrame, HoldingFrame, frameVars, sourceVars, resultVars, readerVars, yoloVars
<1>7. CASE FramesEnd
  BY <1>7, HandedTypes DEF FramesEnd, SeenInv, Now, Inv, FrameBufferExclusive, Detached,
     WritingFrame, HoldingFrame, frameVars, sourceVars, resultVars, readerVars, yoloVars
<1>8. CASE WaitProcessed
  BY <1>8, HandedTypes DEF WaitProcessed, SeenInv, Now, Inv, FrameBufferExclusive, Detached,
     WritingFrame, HoldingFrame, frameVars, sourceVars, resultVars, readerVars, yoloVars
<1>9. CASE WriteMetadata
  <2>1. /\ ppc = "metadata" /\ ppc' \in {"scale", "skip"} /\ meta' = Now
        /\ frameCounter' = frameCounter + 1 /\ UNCHANGED <<starts, ypc, seen, frameReady>>
    BY <1>9 DEF WriteMetadata, yoloVars, Now
  <2>2. starts \in Nat /\ frameCounter \in Nat /\ Now[1] = starts /\ Now[2] = frameCounter
    BY HandedTypes DEF Now
  <2>3. \A f \in Images : Earlier(f, Now) => Earlier(f, Now')
    BY <2>1, <2>2 DEF Earlier, Now, Images
  <2>4. Earlier(meta', Now') /\ meta'[1] = starts
    BY <2>1, <2>2 DEF Earlier, Now
  <2>5. starts > 0
    BY <2>1 DEF SeenInv
  <2>6. meta'[1] \in 1..starts'
    BY <2>1, <2>2, <2>4, <2>5
  <2>7. \A i \in 1..Len(seen') :
          Earlier(seen'[i], Now') /\ seen'[i][1] \in 1..starts' /\ Earlier(seen'[i], meta')
    <3>1. \A i \in 1..Len(seen) : seen[i] \in Images
      BY HandedTypes
    <3> QED
      BY <2>1, <2>3, <3>1 DEF SeenInv
  <2>8. ypc' \in {"off", "attach"} => seen' = <<>>
    BY <2>1 DEF SeenInv
  <2> QED
    BY <2>1, <2>4, <2>6, <2>7, <2>8 DEF SeenInv
<1>10. CASE StartScale
  BY <1>10, HandedTypes DEF StartScale, SeenInv, Now, Inv, FrameBufferExclusive, Detached,
     WritingFrame, HoldingFrame, frameVars, sourceVars, resultVars, readerVars, yoloVars
<1>11. CASE EndScale
  BY <1>11, HandedTypes DEF EndScale, SeenInv, Now, Inv, FrameBufferExclusive, Detached,
     WritingFrame, HoldingFrame, frameVars, sourceVars, resultVars, readerVars, yoloVars
<1>12. CASE SkipFrame
  BY <1>12, HandedTypes DEF SkipFrame, SeenInv, Now, Inv, FrameBufferExclusive, Detached,
     WritingFrame, HoldingFrame, frameVars, sourceVars, resultVars, readerVars, yoloVars
<1>13. CASE PostFrame
  BY <1>13, HandedTypes DEF PostFrame, SeenInv, Now, Inv, FrameBufferExclusive, Detached,
     WritingFrame, HoldingFrame, frameVars, sourceVars, resultVars, readerVars, yoloVars
<1>14. CASE UnlinkFrameChannel
  BY <1>14, HandedTypes DEF UnlinkFrameChannel, SeenInv, Now, Inv, FrameBufferExclusive, Detached,
     WritingFrame, HoldingFrame, frameVars, sourceVars, resultVars, readerVars, yoloVars
<1>15. CASE StartYolo
  BY <1>15, HandedTypes DEF StartYolo, SeenInv, Now, Inv, FrameBufferExclusive, Detached,
     WritingFrame, HoldingFrame, frameVars, sourceVars, resultVars, readerVars, yoloVars
<1>16. CASE Attach
  BY <1>16, HandedTypes DEF Attach, SeenInv, Now, Inv, FrameBufferExclusive, Detached,
     WritingFrame, HoldingFrame, frameVars, sourceVars, resultVars, readerVars, yoloVars
<1>17. CASE AttachFails
  BY <1>17, HandedTypes DEF AttachFails, CleanUp, SeenInv, Now, Inv, FrameBufferExclusive, Detached,
     WritingFrame, HoldingFrame, frameVars, sourceVars, resultVars, readerVars, yoloVars
<1>18. CASE AcquireFrame
  BY <1>18, HandedTypes DEF AcquireFrame, SeenInv, Now, Inv, FrameBufferExclusive, Detached,
     WritingFrame, HoldingFrame, frameVars, sourceVars, resultVars, readerVars, yoloVars
<1>19. CASE ReadMetadata
  <2>1. /\ ypc = "metadata"
        /\ UNCHANGED <<starts, frameCounter, meta, ppc, frameReady, frameDone, posted, written>>
        /\ \/ ypc' = "down" /\ UNCHANGED <<job, seen>>
           \/ ypc' = "release" /\ meta # NoFrame /\ job' = meta /\ seen' = Append(seen, meta)
    BY <1>19 DEF ReadMetadata, CleanUp, resultVars
  <2>2. seen \in Seq(Images) /\ meta \in Images
    BY HandedTypes
  <2>3. /\ \A i \in 1..Len(seen) :
             i \in 1..Len(Append(seen, meta)) /\ Append(seen, meta)[i] = seen[i]
        /\ Len(seen) + 1 \in 1..Len(Append(seen, meta)) /\ Append(seen, meta)[Len(seen) + 1] = meta
        /\ \A i \in 1..Len(Append(seen, meta)) :
             (i \in 1..Len(seen) /\ Append(seen, meta)[i] = seen[i])
               \/ (i = Len(seen) + 1 /\ Append(seen, meta)[i] = meta)
    BY <2>2, AppendMembers
  <2>4. frameReady = 0 /\ ppc \notin {"scale", "convert", "post"}
    BY <2>1, HandedTypes DEF Inv, FrameBufferExclusive, WritingFrame, HoldingFrame
  <2>5. ppc # "setup"
    BY <2>1 DEF SeenInv
  <2>6. CASE ypc' = "down" /\ UNCHANGED <<job, seen>>
    BY <2>1, <2>4, <2>5, <2>6 DEF SeenInv, Now
  <2>7. CASE ypc' = "release" /\ meta # NoFrame /\ seen' = Append(seen, meta)
    <3>1. \A i \in 1..Len(seen') : Earlier(seen'[i], Now) /\ seen'[i][1] \in 1..starts
      BY <2>3, <2>7 DEF SeenInv
    <3>2. Now' = Now
      BY <2>1 DEF Now
    <3> QED
      BY <2>1, <2>4, <2>5, <2>7, <3>1, <3>2 DEF SeenInv
  <2> QED
    BY <2>1, <2>6, <2>7
<1>20. CASE ReleaseFrame
  BY <1>20, HandedTypes DEF ReleaseFrame, SeenInv, Now, Inv, FrameBufferExclusive, Detached,
     WritingFrame, HoldingFrame, frameVars, sourceVars, resultVars, readerVars, yoloVars
<1>21. CASE Infer
  BY <1>21, HandedTypes DEF Infer, SeenInv, Now, Inv, FrameBufferExclusive, Detached,
     WritingFrame, HoldingFrame, frameVars, sourceVars, resultVars, readerVars, yoloVars
<1>22. CASE AcquireResult
  BY <1>22, HandedTypes DEF AcquireResult, SeenInv, Now, Inv, FrameBufferExclusive, Detached,
     WritingFrame, HoldingFrame, frameVars, sourceVars, resultVars, readerVars, yoloVars
<1>23. CASE WriteResult
  BY <1>23, HandedTypes DEF WriteResult, SeenInv, Now, Inv, FrameBufferExclusive, Detached,
     WritingFrame, HoldingFrame, frameVars, sourceVars, resultVars, readerVars, yoloVars
<1>24. CASE PublishResult
  BY <1>24, HandedTypes DEF PublishResult, SeenInv, Now, Inv, FrameBufferExclusive, Detached,
     WritingFrame, HoldingFrame, frameVars, sourceVars, resultVars, readerVars, yoloVars
<1>25. CASE MonitorExits
  BY <1>25, HandedTypes DEF MonitorExits, SeenInv, Now, Inv, FrameBufferExclusive, Detached,
     WritingFrame, HoldingFrame, frameVars, sourceVars, resultVars, readerVars, yoloVars
<1>26. CASE ResultFails
  BY <1>26, HandedTypes DEF ResultFails, SeenInv, Now, Inv, FrameBufferExclusive, Detached,
     WritingFrame, HoldingFrame, frameVars, sourceVars, resultVars, readerVars, yoloVars
<1>27. CASE YoloRaises
  BY <1>27, HandedTypes DEF YoloRaises, CleanUp, SeenInv, Now, Inv, FrameBufferExclusive, Detached,
     WritingFrame, HoldingFrame, frameVars, sourceVars, resultVars, readerVars, yoloVars
<1> QED
  BY <1>1, <1>2, <1>3, <1>4, <1>5, <1>6, <1>7, <1>8, <1>9, <1>10, <1>11, <1>12, <1>13, <1>14,
     <1>15, <1>16, <1>17, <1>18, <1>19, <1>20, <1>21, <1>22, <1>23, <1>24, <1>25, <1>26, <1>27
     DEF Next, Main,
     Producer, Reader, Yolo, OpenInput, StopThreads, ExitDetector, DecodeFrame, DecodeEnds,
     OpenResultChannel, OpenResultChannelFails, WaitResult, ReaderStops, ReadResult,
     PostProcessed, frameVars, sourceVars, resultVars, readerVars, yoloVars

\* A result is about the frame taken over last.
LEMMA WrittenStep ==
    ASSUME Inv, SeenInv, WrittenInv, Next
    PROVE  WrittenInv'
<1>1. CASE UNCHANGED <<ypc, seen, written, job>>
  BY <1>1 DEF WrittenInv
<1>2. CASE StartDetector
  BY <1>2, HandedTypes DEF StartDetector, WrittenInv, SeenInv, frameVars, sourceVars, resultVars,
     readerVars, yoloVars
<1>3. CASE StartYolo
  BY <1>3, HandedTypes DEF StartYolo, WrittenInv, SeenInv, frameVars, sourceVars, resultVars,
     readerVars, yoloVars
<1>4. CASE Attach
  BY <1>4, HandedTypes DEF Attach, WrittenInv, SeenInv, frameVars, sourceVars, resultVars,
     readerVars, yoloVars
<1>5. CASE AttachFails
  BY <1>5, HandedTypes DEF AttachFails, CleanUp, WrittenInv, SeenInv, frameVars, sourceVars,
     resultVars,
     readerVars, yoloVars
<1>6. CASE AcquireFrame
  BY <1>6, HandedTypes DEF AcquireFrame, WrittenInv, SeenInv, frameVars, sourceVars, resultVars,
     readerVars, yoloVars
<1>7. CASE ReadMetadata
  <2>1. /\ ypc = "metadata"
        /\ UNCHANGED <<starts, frameCounter, meta, ppc, frameReady, frameDone, posted, written>>
        /\ \/ ypc' = "down" /\ UNCHANGED <<job, seen>>
           \/ ypc' = "release" /\ meta # NoFrame /\ job' = meta /\ seen' = Append(seen, meta)
    BY <1>7 DEF ReadMetadata, CleanUp, resultVars
  <2>2. seen \in Seq(Images) /\ meta \in Images
    BY HandedTypes
  <2>3. /\ \A i \in 1..Len(seen) :
             i \in 1..Len(Append(seen, meta)) /\ Append(seen, meta)[i] = seen[i]
        /\ Len(seen) + 1 \in 1..Len(Append(seen, meta)) /\ Append(seen, meta)[Len(seen) + 1] = meta
        /\ \A i \in 1..Len(Append(seen, meta)) :
             (i \in 1..Len(seen) /\ Append(seen, meta)[i] = seen[i])
               \/ (i = Len(seen) + 1 /\ Append(seen, meta)[i] = meta)
    BY <2>2, AppendMembers
  <2>4. CASE ypc' = "down" /\ UNCHANGED <<job, seen>>
    BY <2>1, <2>4 DEF WrittenInv
  <2>5. CASE ypc' = "release" /\ meta # NoFrame /\ job' = meta /\ seen' = Append(seen, meta)
    <3>1. \A i \in 1..Len(written) : \E k \in 1..Len(seen') : written[i].frame = seen'[k]
      BY <2>3, <2>5 DEF WrittenInv
    <3>2. \E k \in 1..Len(seen') : job' = seen'[k]
      BY <2>3, <2>5
    <3>3. \A i \in 1..Len(written) : Earlier(written[i].frame, job')
      BY <2>1, <2>5 DEF WrittenInv, SeenInv
    <3> QED
      BY <2>1, <3>1, <3>2, <3>3 DEF WrittenInv
  <2> QED
    BY <2>1, <2>4, <2>5
<1>8. CASE ReleaseFrame
  BY <1>8, HandedTypes DEF ReleaseFrame, WrittenInv, SeenInv, frameVars, sourceVars, resultVars,
     readerVars, yoloVars
<1>9. CASE Infer
  BY <1>9, HandedTypes DEF Infer, WrittenInv, SeenInv, frameVars, sourceVars, resultVars,
     readerVars, yoloVars
<1>10. CASE AcquireResult
  BY <1>10, HandedTypes DEF AcquireResult, WrittenInv, SeenInv, frameVars, sourceVars, resultVars,
     readerVars, yoloVars
<1>11. CASE WriteResult
  <2>1. /\ ypc = "write" /\ ypc' = "publish" /\ UNCHANGED <<job, seen>>
        /\ written' = Append(written, [frame |-> job, image |-> jobPixels])
    BY <1>11 DEF WriteResult
  <2> PICK r \in Results : r = [frame |-> job, image |-> jobPixels]
    BY HandedTypes DEF Results
  <2>2. /\ r.frame = job /\ written' = Append(written, r)
        /\ written \in Seq(Results) /\ Len(written) \in Nat
    BY <2>1, HandedTypes
  <2>3. \A i \in 1..Len(written') : (i \in 1..Len(written) /\ written'[i] = written[i])
                                    \/ (i = Len(written) + 1 /\ written'[i] = r)
    BY <2>2, AppendMembers
  <2>4. /\ \E k \in 1..Len(seen) : job = seen[k]
        /\ \A i \in 1..Len(written) : Earlier(written[i].frame, job)
    BY <2>1 DEF WrittenInv
  <2>5. \A i \in 1..Len(written') : \E k \in 1..Len(seen') : written'[i].frame = seen'[k]
    BY <2>1, <2>2, <2>3, <2>4 DEF WrittenInv
  <2>6. ASSUME NEW i \in 1..Len(written'), NEW j \in 1..Len(written'), i < j
        PROVE  Earlier(written'[i].frame, written'[j].frame)
    <3>1. Len(written') = Len(written) + 1
      BY <2>2, AppendTo
    <3>2. i \in 1..Len(written) /\ written'[i] = written[i]
      BY <2>2, <2>3, <2>6, <3>1
    <3> QED
      BY <2>2, <2>3, <2>4, <2>6, <3>2 DEF WrittenInv
  <2> QED
    BY <2>1, <2>5, <2>6 DEF WrittenInv
<1>12. CASE PublishResult
  BY <1>12, HandedTypes DEF PublishResult, WrittenInv, SeenInv, frameVars, sourceVars, resultVars,
     readerVars, yoloVars
<1>13. CASE MonitorExits
  BY <1>13, HandedTypes DEF MonitorExits, WrittenInv, SeenInv, frameVars, sourceVars, resultVars,
     readerVars, yoloVars
<1>14. CASE ResultFails
  BY <1>14, HandedTypes DEF ResultFails, WrittenInv, SeenInv, frameVars, sourceVars, resultVars,
     readerVars, yoloVars
<1>15. CASE YoloRaises
  BY <1>15, HandedTypes DEF YoloRaises, CleanUp, WrittenInv, SeenInv, frameVars, sourceVars,
     resultVars,
     readerVars, yoloVars
<1> QED
  BY <1>1, <1>2, <1>3, <1>4, <1>5, <1>6, <1>7, <1>8, <1>9, <1>10, <1>11, <1>12, <1>13, <1>14, <1>15
     DEF Next,
     Main, Producer, Reader, Yolo, DetectorDies, OpenInput, StopThreads, ExitDetector,
     DecodeFrame, DecodeEnds, OpenFrameChannel, OpenFrameChannelFails, PopFrame, FramesEnd,
     WaitProcessed, WriteMetadata, StartScale, EndScale, SkipFrame, PostFrame, UnlinkFrameChannel,
     OpenResultChannel, OpenResultChannelFails, WaitResult, ReaderStops, ReadResult,
     PostProcessed, frameVars, sourceVars, resultVars, readerVars, yoloVars

\* A frame is posted when the one before has been taken over.
LEMMA PostedStep ==
    ASSUME Inv, SeenInv, PostedInv, Next
    PROVE  PostedInv'
<1>1. CASE UNCHANGED <<ppc, ypc, seen, posted, frameReady, frameDone, meta, starts>>
  BY <1>1 DEF PostedInv, OwnFrames, WritingFrame
<1>2. CASE StartDetector
  <2>1. /\ starts' = starts + 1 /\ ppc' = "setup" /\ ypc' = "off" /\ posted' = <<>> /\ seen' = <<>>
        /\ UNCHANGED <<meta, frameReady, frameDone>>
    BY <1>2 DEF StartDetector
  <2>2. meta[1] < starts'
    BY <1>2, SeenStep DEF SeenInv, StartDetector, Next
  <2> QED
    BY <2>1, <2>2 DEF PostedInv, WritingFrame
<1>3. CASE DetectorDies
  BY <1>3, HandedTypes DEF DetectorDies, PostedInv, OwnFrames, WritingFrame, SeenInv, Inv,
     FrameBufferExclusive, Detached, HoldingFrame, frameVars, sourceVars, resultVars, readerVars,
     yoloVars
<1>4. CASE OpenFrameChannel
  <2>1. /\ ppc = "setup" /\ ppc' \in {"pop", "done"} /\ UNCHANGED <<starts, posted, ypc, seen>>
        /\ meta' = meta \/ meta' = NoFrame
    BY <1>4 DEF OpenFrameChannel, yoloVars
  <2>2. posted = <<>> /\ seen = <<>> /\ ypc = "off" /\ meta[1] < starts
    BY <2>1 DEF PostedInv, SeenInv
  <2>3. meta'[1] < starts
    <3>1. meta[1] \in Nat /\ starts \in Nat
      BY HandedTypes DEF Images
    <3> QED
      BY <2>1, <2>2, <3>1 DEF NoFrame
  <2> QED
    BY <2>1, <2>2, <2>3 DEF PostedInv, WritingFrame
<1>5. CASE OpenFrameChannelFails
  BY <1>5, HandedTypes DEF OpenFrameChannelFails, PostedInv, OwnFrames, WritingFrame, SeenInv,
     Inv, FrameBufferExclusive, Detached, HoldingFrame, frameVars, sourceVars, resultVars,
     readerVars, yoloVars
<1>6. CASE PopFrame
  BY <1>6, HandedTypes DEF PopFrame, PostedInv, OwnFrames, WritingFrame, SeenInv, Inv,
     FrameBufferExclusive, Detached, HoldingFrame, frameVars, sourceVars, resultVars, readerVars,
     yoloVars
<1>7. CASE FramesEnd
  BY <1>7, HandedTypes DEF FramesEnd, PostedInv, OwnFrames, WritingFrame, SeenInv, Inv,
     FrameBufferExclusive, Detached, HoldingFrame, frameVars, sourceVars, resultVars, readerVars,
     yoloVars
<1>8. CASE WaitProcessed
  BY <1>8, HandedTypes DEF WaitProcessed, PostedInv, OwnFrames, WritingFrame, SeenInv, Inv,
     FrameBufferExclusive, Detached, HoldingFrame, frameVars, sourceVars, resultVars, readerVars,
     yoloVars
<1>9. CASE WriteMetadata
  BY <1>9, HandedTypes DEF WriteMetadata, PostedInv, OwnFrames, WritingFrame, SeenInv, Inv,
     FrameBufferExclusive, Detached, HoldingFrame, frameVars, sourceVars, resultVars, readerVars,
     yoloVars
<1>10. CASE StartScale
  BY <1>10, HandedTypes DEF StartScale, PostedInv, OwnFrames, WritingFrame, SeenInv, Inv,
     FrameBufferExclusive, Detached, HoldingFrame, frameVars, sourceVars, resultVars, readerVars,
     yoloVars
<1>11. CASE EndScale
  BY <1>11, HandedTypes DEF EndScale, PostedInv, OwnFrames, WritingFrame, SeenInv, Inv,
     FrameBufferExclusive, Detached, HoldingFrame, frameVars, sourceVars, resultVars, readerVars,
     yoloVars
<1>12. CASE SkipFrame
  BY <1>12, HandedTypes DEF SkipFrame, PostedInv, OwnFrames, WritingFrame, SeenInv, Inv,
     FrameBufferExclusive, Detached, HoldingFrame, frameVars, sourceVars, resultVars, readerVars,
     yoloVars
<1>13. CASE PostFrame
  BY SMTT(30), <1>13, HandedTypes DEF PostFrame, PostedInv, OwnFrames, WritingFrame, SeenInv, Inv,
     FrameBufferExclusive, Detached, HoldingFrame, frameVars, sourceVars, resultVars, readerVars,
     yoloVars
<1>14. CASE UnlinkFrameChannel
  BY <1>14, HandedTypes DEF UnlinkFrameChannel, PostedInv, OwnFrames, WritingFrame, SeenInv, Inv,
     FrameBufferExclusive, Detached, HoldingFrame, frameVars, sourceVars, resultVars, readerVars,
     yoloVars
<1>15. CASE StartYolo
  BY <1>15, HandedTypes DEF StartYolo, PostedInv, OwnFrames, WritingFrame, SeenInv, Inv,
     FrameBufferExclusive, Detached, HoldingFrame, frameVars, sourceVars, resultVars, readerVars,
     yoloVars
<1>16. CASE Attach
  BY <1>16, HandedTypes DEF Attach, PostedInv, OwnFrames, WritingFrame, SeenInv, Inv,
     FrameBufferExclusive, Detached, HoldingFrame, frameVars, sourceVars, resultVars, readerVars,
     yoloVars
<1>17. CASE AttachFails
  BY <1>17, HandedTypes DEF AttachFails, CleanUp, PostedInv, OwnFrames, WritingFrame, SeenInv, Inv,
     FrameBufferExclusive, Detached, HoldingFrame, frameVars, sourceVars, resultVars, readerVars,
     yoloVars
<1>18. CASE AcquireFrame
  BY <1>18, HandedTypes DEF AcquireFrame, PostedInv, OwnFrames, WritingFrame, SeenInv, Inv,
     FrameBufferExclusive, Detached, HoldingFrame, frameVars, sourceVars, resultVars, readerVars,
     yoloVars
<1>19. CASE ReadMetadata
  <2>1. /\ ypc = "metadata"
        /\ UNCHANGED <<starts, frameCounter, meta, ppc, frameReady, frameDone, posted, written>>
        /\ \/ ypc' = "down" /\ UNCHANGED <<job, seen>>
           \/ ypc' = "release" /\ meta # NoFrame /\ job' = meta /\ seen' = Append(seen, meta)
    BY <1>19 DEF ReadMetadata, CleanUp, resultVars
  <2>2. seen \in Seq(Images) /\ meta \in Images
    BY HandedTypes
  <2>3. /\ \A i \in 1..Len(seen) :
             i \in 1..Len(Append(seen, meta)) /\ Append(seen, meta)[i] = seen[i]
        /\ Len(seen) + 1 \in 1..Len(Append(seen, meta)) /\ Append(seen, meta)[Len(seen) + 1] = meta
        /\ \A i \in 1..Len(Append(seen, meta)) :
             (i \in 1..Len(seen) /\ Append(seen, meta)[i] = seen[i])
               \/ (i = Len(seen) + 1 /\ Append(seen, meta)[i] = meta)
    BY <2>2, AppendMembers
  <2>4. frameReady = 0 /\ frameDone = 0 /\ ~WritingFrame
    BY <2>1, HandedTypes DEF Inv, FrameBufferExclusive, HoldingFrame
  <2>5. ppc # "setup"
    BY <2>1 DEF SeenInv
  <2>6. CASE ypc' = "down" /\ UNCHANGED <<job, seen>>
    BY <2>1, <2>4, <2>5, <2>6 DEF PostedInv, OwnFrames, WritingFrame
  <2>7. CASE ypc' = "release" /\ seen' = Append(seen, meta)
    <3>1. seen' # <<>>
      BY <2>2, <2>7
    <3>2. ASSUME OwnFrames'
          PROVE  posted' = seen'
      <4>1. seen'[1][1] = starts
        BY <2>1, <3>1, <3>2 DEF OwnFrames
      <4>2. CASE seen = <<>>
        <5>1. seen'[1] = meta
          BY <2>7, <4>2
        <5>2. ~(meta[1] < starts)
          BY <4>1, <5>1, HandedTypes DEF Images
        <5> QED
          BY <2>1, <2>7, <4>2, <5>2 DEF PostedInv, OwnFrames
      <4>3. CASE seen # <<>>
        <5>1. seen'[1] = seen[1]
          BY <2>2, <2>7, <4>3
        <5> QED
          BY <2>1, <2>7, <4>1, <4>3, <5>1 DEF PostedInv, OwnFrames
      <4> QED
        BY <4>2, <4>3
    <3> QED
      BY <2>1, <2>4, <2>5, <2>7, <3>2 DEF PostedInv, WritingFrame
  <2> QED
    BY <2>1, <2>6, <2>7
<1>20. CASE ReleaseFrame
  BY <1>20, HandedTypes DEF ReleaseFrame, PostedInv, OwnFrames, WritingFrame, SeenInv, Inv,
     FrameBufferExclusive, Detached, HoldingFrame, frameVars, sourceVars, resultVars, readerVars,
     yoloVars
<1>21. CASE Infer
  BY <1>21, HandedTypes DEF Infer, PostedInv, OwnFrames, WritingFrame, SeenInv, Inv,
     FrameBufferExclusive, Detached, HoldingFrame, frameVars, sourceVars, resultVars, readerVars,
     yoloVars
<1>22. CASE AcquireResult
  BY <1>22, HandedTypes DEF AcquireResult, PostedInv, OwnFrames, WritingFrame, SeenInv, Inv,
     FrameBufferExclusive, Detached, HoldingFrame, frameVars, sourceVars, resultVars, readerVars,
     yoloVars
<1>23. CASE WriteResult
  BY <1>23, HandedTypes DEF WriteResult, PostedInv, OwnFrames, WritingFrame, SeenInv, Inv,
     FrameBufferExclusive, Detached, HoldingFrame, frameVars, sourceVars, resultVars, readerVars,
     yoloVars
<1>24. CASE PublishResult
  BY <1>24, HandedTypes DEF PublishResult, PostedInv, OwnFrames, WritingFrame, SeenInv, Inv,
     FrameBufferExclusive, Detached, HoldingFrame, frameVars, sourceVars, resultVars, readerVars,
     yoloVars
<1>25. CASE MonitorExits
  BY <1>25, HandedTypes DEF MonitorExits, PostedInv, OwnFrames, WritingFrame, SeenInv, Inv,
     FrameBufferExclusive, Detached, HoldingFrame, frameVars, sourceVars, resultVars, readerVars,
     yoloVars
<1>26. CASE ResultFails
  BY <1>26, HandedTypes DEF ResultFails, PostedInv, OwnFrames, WritingFrame, SeenInv, Inv,
     FrameBufferExclusive, Detached, HoldingFrame, frameVars, sourceVars, resultVars, readerVars,
     yoloVars
<1>27. CASE YoloRaises
  BY <1>27, HandedTypes DEF YoloRaises, CleanUp, PostedInv, OwnFrames, WritingFrame, SeenInv, Inv,
     FrameBufferExclusive, Detached, HoldingFrame, frameVars, sourceVars, resultVars, readerVars,
     yoloVars
<1> QED
  BY <1>1, <1>2, <1>3, <1>4, <1>5, <1>6, <1>7, <1>8, <1>9, <1>10, <1>11, <1>12, <1>13, <1>14,
     <1>15, <1>16, <1>17, <1>18, <1>19, <1>20, <1>21, <1>22, <1>23, <1>24, <1>25, <1>26, <1>27
     DEF Next, Main,
     Producer, Reader, Yolo, OpenInput, StopThreads, ExitDetector, DecodeFrame, DecodeEnds,
     OpenResultChannel, OpenResultChannelFails, WaitResult, ReaderStops, ReadResult,
     PostProcessed, frameVars, sourceVars, resultVars, readerVars, yoloVars

LEMMA HandedStep == Inv /\ Handed /\ [Next]_vars => Handed'
<1> SUFFICES ASSUME Inv, Handed, [Next]_vars PROVE Handed'
  OBVIOUS
<1>1. CASE UNCHANGED vars
  <2> USE <1>1 DEF Handed, vars, frameVars, sourceVars, resultVars, readerVars, yoloVars
  <2>1. ResultInv'
    BY DEF ResultInv
  <2>2. SeenInv'
    BY DEF SeenInv, Now
  <2>3. WrittenInv'
    BY DEF WrittenInv
  <2>4. PostedInv'
    BY DEF PostedInv, OwnFrames, WritingFrame
  <2> QED
    BY <2>1, <2>2, <2>3, <2>4
<1>2. CASE Next
  BY <1>2, ResultStep, SeenStep, WrittenStep, PostedStep DEF Handed
<1> QED
  BY <1>1, <1>2

LEMMA HandedHolds == Spec => [](Inv /\ Handed)
  BY InitInv, NextInv, InitHanded, HandedStep, PTL DEF Spec

LEMMA UpToAppended ==
    ASSUME NEW S, NEW s \in Seq(S), NEW t, t = s \/ \E x \in S : t = Append(s, x)
    PROVE  UpToLast(s, t)
<1>1. Len(s) \in Nat /\ SubSeq(s, 1, Len(s)) = s
  OBVIOUS
<1>2. CASE t = s
  BY <1>1, <1>2 DEF UpToLast
<1>3. CASE \E x \in S : t = Append(s, x)
  <2>1. PICK x \in S : t = Append(s, x)
    BY <1>3
  <2>2. Len(Append(s, x)) = Len(s) + 1 /\ SubSeq(Append(s, x), 1, Len(s)) = s
    OBVIOUS
  <2> QED
    BY <2>1, <2>2 DEF UpToLast
<1> QED
  BY <1>2, <1>3

\* Every result the Python program writes reaches yolo_result_queue once and in order,
\* the last one perhaps excepted: whichever process is killed where, and whatever the
\* semaphores held that a start found (yolo_result_reader_thread).
THEOREM ResultsHandedOver == Spec => []ResultHandOver
<1>1. Inv /\ Handed => ResultHandOver
  BY HandedTypes, UpToAppended DEF Handed, ResultInv, ResultHandOver
<1> QED
  BY <1>1, HandedHolds, PTL

\* Results are pushed in the order of the frames they are about, a frame left in the
\* shared memory by an earlier run before all of this run's, and none twice.
THEOREM ResultsPushedInOrder == Spec => []ResultsInOrder
<1>1. Inv /\ Handed => ResultsInOrder
  <2> SUFFICES ASSUME Inv, Handed PROVE ResultsInOrder
    OBVIOUS
  <2>1. \A i \in 1..Len(received) : i \in 1..Len(written) /\ written[i] = received[i]
    BY HandedTypes, AppendTo DEF Handed, ResultInv
  <2>2. \A i, j \in 1..Len(written) : i < j => Earlier(written[i].frame, written[j].frame)
    BY DEF Handed, WrittenInv
  <2> QED
    BY <2>1, <2>2 DEF ResultsInOrder
<1> QED
  BY <1>1, HandedHolds, PTL

\* In every run, after any number of crashes before it and in it, the frames the Python
\* program takes over are those posted, once and in order, unless the first of them is
\* one an earlier run left announced (process_frames_for_yolo_shm opens the semaphores
\* as it finds them).
THEOREM FramesHandedOver == Spec => [](OwnFrames => FrameHandOver)
<1>1. Inv /\ Handed => (OwnFrames => FrameHandOver)
  BY HandedTypes, UpToAppended DEF Handed, PostedInv, FrameHandOver
<1> QED
  BY <1>1, HandedHolds, PTL

\* So a first start loses and repeats no frame between the two programs.
THEOREM FirstRunHandOver ==
    ASSUME MaxStarts = 1
    PROVE  Spec => []FrameHandOver
<1>1. Inv /\ Handed => FrameHandOver
  <2> SUFFICES ASSUME Inv, Handed PROVE OwnFrames
    BY HandedTypes, UpToAppended DEF Handed, PostedInv, FrameHandOver
  <2> SUFFICES ASSUME seen # <<>> PROVE seen[1][1] = starts
    BY DEF OwnFrames
  <2>1. 1 \in 1..Len(seen)
    BY HandedTypes
  <2>2. seen[1][1] \in 1..starts /\ starts \in 0..1
    BY <2>1 DEF Handed, SeenInv, Inv, TypeOK
  <2> QED
    BY <2>2
<1> QED
  BY <1>1, HandedHolds, PTL
=============================================================================
