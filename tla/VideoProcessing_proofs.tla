------------------------ MODULE VideoProcessing_proofs ------------------------
(* The filtering server, for any number of outputs and packets, any delay of     *)
(* its codecs and its filter and any set of failures: what an output writes is   *)
(* in order, every AVFrame has one owner, a failure of one output costs the      *)
(* others nothing, the queues are empty when main deletes them, no thread waits  *)
(* for one that has returned, and every step leaves less work to do.             *)
EXTENDS VideoProcessing, Integers, SequenceTheorems, FiniteSetTheorems, TLAPS

-----------------------------------------------------------------------------
(* The invariant *)

\* main has not started the threads yet: nothing has happened.
Idle ==
    mpc \in {"init", "encoders", "filter", "exit"} =>
        /\ packets = 0 /\ packetQ = <<>> /\ decoding = <<>> /\ decodeQ = <<>>
        /\ fpc = "pop" /\ filtering = <<>> /\ todo = {}
        /\ \A e \in Outputs : /\ epc[e] = "pop" /\ frameQ[e] = <<>> /\ ~finished[e]
                              /\ coding[e] = <<>> /\ output[e] = <<>>

InOrder(s, lo, hi) == Increasing(s) /\ \A i \in 1..Len(s) : lo <= s[i] /\ s[i] < hi

HandlesInOrder(s, lo, hi) ==
    /\ \A i, j \in 1..Len(s) : i < j => s[i].frame < s[j].frame
    /\ \A i \in 1..Len(s) : lo <= s[i].frame /\ s[i].frame < hi

ClonesInOrder(s, lo, hi) ==
    /\ \A i, j \in 1..Len(s) : i < j /\ s[i] # NoFrame /\ s[j] # NoFrame => s[i] < s[j]
    /\ \A i \in 1..Len(s) : s[i] # NoFrame => lo <= s[i] /\ s[i] < hi

\* Eight marks divide the frames on the way of output e: each stage has those
\* between two marks, in order.
Marked(e, m) ==
    /\ m[1] <= m[2] /\ m[2] <= m[3] /\ m[3] <= m[4] /\ m[4] <= m[5]
    /\ m[5] <= m[6] /\ m[6] <= m[7] /\ m[7] <= m[8] /\ m[8] <= packets
    /\ InOrder(output[e], 0, m[1])
    /\ InOrder(coding[e], m[1], m[2])
    /\ epc[e] = "encode" => m[2] <= taken[e][1].frame
    /\ epc[e] \in {"encode", "receive"} => m[2] <= taken[e][1].frame + 1 /\ taken[e][1].frame < m[3]
    /\ HandlesInOrder(frameQ[e], m[3], m[4])
    /\ Waiting(e) => m[4] <= filtered /\ filtered < m[5]
    /\ InOrder(filtering, m[5], m[6])
    /\ ClonesInOrder(decodeQ, m[6], m[7])
    /\ InOrder(decoding, m[7], m[8])
    /\ InOrder(packetQ, m[8], packets)
    /\ \A f \in freed : f.clone = e =>
         f.frame < m[3] /\ (epc[e] \in {"encode", "receive"} => f.frame < taken[e][1].frame)

Ordered == \A e \in Outputs : \E m \in [1..8 -> Nat] : Marked(e, m)

\* A clone made for one output is in the hands of no other.
Cloned ==
    \A e \in Outputs :
        /\ \A i \in 1..Len(frameQ[e]) : frameQ[e][i].clone \in {0, e}
        /\ epc[e] \in {"encode", "receive"} => taken[e][1].clone \in {0, e}

\* While nothing that all share has failed and the filter keeps nothing back, it is
\* empty when its thread turns to the queue, and no frame is shared.
Unshared ==
    depth = 0 /\ 0 \notin failed =>
        /\ fpc \notin {"distribute", "pull"} => filtering = <<>>
        /\ fpc # "share"
        /\ \A e \in Outputs :
             /\ \A i \in 1..Len(frameQ[e]) : frameQ[e][i].clone = e
             /\ epc[e] \in {"encode", "receive"} => taken[e][1].clone = e
        /\ \A f \in freed : f.clone # 0

\* What each thread leaves behind when it has passed on the end of its input.
PacketsDrained ==
    /\ packetsDone => rpc = "done"
    /\ decodeDone => dpc = "done"
    /\ dpc \in {"flush", "close", "done"} /\ 0 \notin failed => packetQ = <<>> /\ packetsDone
    /\ dpc \in {"close", "done"} /\ 0 \notin failed => decoding = <<>>

\* A null pointer is in the queue only after a clone has failed.
NullsFail == 0 \notin failed => \A i \in 1..Len(decodeQ) : decodeQ[i] # NoFrame

FramesDrained ==
    /\ fpc \in {"flush", "share", "close", "done"} => decodeQ = <<>> /\ decodeDone
    /\ filterEof /\ 0 \notin failed => fpc \in {"flush", "share", "close", "done"}
    /\ fpc \in {"flush", "share"} => filterEof
    /\ fpc \in {"close", "done"} /\ 0 \notin failed => filtering = <<>>

OutputsDrained ==
    \A e \in opened :
        /\ finished[e] => fpc = "done" \/ (fpc = "close" /\ e \notin todo)
        /\ epc[e] \in {"flush", "done"} => frameQ[e] = <<>> /\ finished[e]
        /\ epc[e] = "done" /\ e \notin failed => coding[e] = <<>>

AllJoined ==
    mpc = "success" =>
        rpc = "done" /\ dpc = "done" /\ fpc = "done" /\ \A e \in opened : epc[e] = "done"

\* While nothing has failed the frames are numbered through, back from the last
\* packet read: the first frame of each stage.
FirstPacket   == packets - Len(packetQ)
FirstDecoding == FirstPacket - Len(decoding)
FirstDecoded  == FirstDecoding - Len(decodeQ)
FirstFilter   == FirstDecoded - Len(filtering)
FirstQueued(e) == FirstFilter - (IF Waiting(e) THEN 1 ELSE 0) - Len(frameQ[e])
FirstTaken(e)  == FirstQueued(e) - (IF epc[e] = "encode" THEN 1 ELSE 0)
FirstCoding(e) == FirstTaken(e) - Len(coding[e])

From(s, n) == \A i \in 1..Len(s) : s[i] = n + i - 1

SharedComplete ==
    0 \notin failed =>
        /\ From(packetQ, FirstPacket)
        /\ From(decoding, FirstDecoding)
        /\ From(decodeQ, FirstDecoded)
        /\ From(filtering, FirstFilter)

OutputComplete(e) ==
    /\ Waiting(e) => filtered = FirstFilter - 1
    /\ \A i \in 1..Len(frameQ[e]) : frameQ[e][i].frame = FirstQueued(e) + i - 1
    /\ epc[e] = "encode" => taken[e][1].frame = FirstTaken(e)
    /\ From(coding[e], FirstCoding(e))
    /\ From(output[e], 0)
    /\ Len(output[e]) = FirstCoding(e)

OutputsComplete == 0 \notin failed => \A e \in opened \ failed : OutputComplete(e)

-----------------------------------------------------------------------------
(* Sequences *)

LEMMA AppendSeq ==
    ASSUME NEW S, NEW s \in Seq(S), NEW x \in S
    PROVE  /\ Append(s, x) \in Seq(S) /\ Len(s) \in Nat /\ Len(Append(s, x)) = Len(s) + 1
           /\ \A i \in 1..Len(s) : Append(s, x)[i] = s[i]
           /\ Append(s, x)[Len(s) + 1] = x
  OBVIOUS

LEMMA TailSeq ==
    ASSUME NEW S, NEW s \in Seq(S), s # <<>>
    PROVE  /\ Len(s) \in Nat /\ Len(s) >= 1 /\ Head(s) = s[1] /\ Head(s) \in S
           /\ Tail(s) \in Seq(S) /\ Len(Tail(s)) = Len(s) - 1
           /\ \A i \in 1..Len(Tail(s)) : Tail(s)[i] = s[i + 1]
  OBVIOUS

LEMMA EmptyLen == Len(<<>>) = 0
  OBVIOUS

LEMMA SingleSeq ==
    ASSUME NEW S, NEW s \in Seq(S), Len(s) = 1
    PROVE  s # <<>> /\ Head(s) = s[1] /\ s[1] \in S
  BY EmptyLen

\* The types, thread by thread.
MainType ==
    /\ mpc \in {"init", "encoders", "filter", "join", "success", "exit", "crashed"}
    /\ opened \subseteq Outputs
    /\ depth \in FilterDepths
    /\ failed \subseteq 0..NumOutputs

ReaderType ==
    /\ rpc \in {"alloc", "read", "close", "done"}
    /\ packets \in 0..MaxPackets
    /\ packetQ \in Seq(Frames) /\ packetsDone \in BOOLEAN

DecoderType ==
    /\ dpc \in {"alloc", "pop", "receive", "flush", "close", "done"}
    /\ decoding \in Seq(Frames)
    /\ decodeQ \in Seq(Frames \cup {NoFrame}) /\ decodeDone \in BOOLEAN

FilterType ==
    /\ fpc \in {"pop", "pull", "distribute", "flush", "share", "close", "done"}
    /\ filterEof \in BOOLEAN
    /\ filtering \in Seq(Frames)
    /\ filtered \in Frames \cup {NoFrame}
    /\ fpc \in {"distribute", "share"} => filtered # NoFrame
    /\ frameQ \in [Outputs -> Seq(Handles)]
    /\ finished \in [Outputs -> BOOLEAN]

EncoderType ==
    /\ epc \in [Outputs -> {"pop", "encode", "receive", "flush", "done"}]
    /\ taken \in [Outputs -> Seq(Handles)]
    /\ \A e \in Outputs : Len(taken[e]) = IF epc[e] \in {"encode", "receive"} THEN 1 ELSE 0
    /\ coding \in [Outputs -> Seq(Frames)]
    /\ output \in [Outputs -> Seq(Frames)]
    /\ freed \subseteq Handles

LEMMA TypeParts ==
    TypeOK <=> /\ MainType /\ ReaderType /\ DecoderType /\ FilterType /\ EncoderType
               /\ todo \subseteq opened
  BY DEF TypeOK, MainType, ReaderType, DecoderType, FilterType, EncoderType

\* The outputs a failure is put down to.
LEMMA Places == 0 \in 0..NumOutputs /\ Outputs \subseteq 0..NumOutputs /\ \A e \in Outputs : e # 0
  BY VideoProcessingAssumption DEF Outputs

\* An encoder thread holds one frame while it encodes it, and none else.
LEMMA TakenFrame ==
    ASSUME NEW e \in Outputs, EncoderType, epc[e] \in {"encode", "receive"}
    PROVE  taken[e] # <<>> /\ Head(taken[e]) = taken[e][1] /\ taken[e][1] \in Handles
  BY SingleSeq DEF EncoderType

LEMMA MainKeepsType == MainType /\ Next => MainType'
<1> SUFFICES ASSUME MainType, Next PROVE MainType'
  OBVIOUS
<1>1. CASE UNCHANGED <<mpc, opened, depth, failed>>
  BY <1>1 DEF MainType
<1>2. CASE InitializeDecoder
  BY <1>2, Places DEF InitializeDecoder, Fails, MainType, mainVars, readerVars, decoderVars,
     filterVars, encoderVars
<1>3. CASE InitializeEncoders
  BY <1>3, Places DEF InitializeEncoders, Fails, MainType, mainVars, readerVars, decoderVars,
     filterVars, encoderVars
<1>4. CASE InitializeFilter
  BY <1>4, Places DEF InitializeFilter, Fails, MainType, mainVars, readerVars, decoderVars,
     filterVars, encoderVars
<1>5. CASE JoinAndReport
  BY <1>5, Places DEF JoinAndReport, Fails, MainType, mainVars, readerVars, decoderVars,
     filterVars, encoderVars
<1>6. CASE mpc = "join" /\ ReaderStart
  BY <1>6, Places DEF ReaderStart, Fails, MainType, mainVars, readerVars, decoderVars, filterVars,
     encoderVars
<1>7. CASE mpc = "join" /\ DecoderStart
  BY <1>7, Places DEF DecoderStart, Fails, MainType, mainVars, readerVars, decoderVars,
     filterVars, encoderVars
<1>8. CASE mpc = "join" /\ PopPacket
  BY <1>8, Places DEF PopPacket, Fails, MainType, mainVars, readerVars, decoderVars, filterVars,
     encoderVars
<1>9. CASE mpc = "join" /\ ReceiveFrame
  BY <1>9, Places DEF ReceiveFrame, Fails, MainType, mainVars, readerVars, decoderVars,
     filterVars, encoderVars
<1>10. CASE mpc = "join" /\ ReceiveEnds
  BY <1>10, Places DEF ReceiveEnds, Fails, MainType, mainVars, readerVars, decoderVars,
     filterVars, encoderVars
<1>11. CASE mpc = "join" /\ PopDecoded
  BY <1>11, Places DEF PopDecoded, Fails, MainType, mainVars, readerVars, decoderVars, filterVars,
     encoderVars
<1>12. CASE mpc = "join" /\ PullEnds
  BY <1>12, Places DEF PullEnds, Fails, MainType, mainVars, readerVars, decoderVars, filterVars,
     encoderVars
<1>13. ASSUME NEW d \in Outputs, mpc = "join", Distribute(d) PROVE MainType'
  BY <1>13, Places DEF Distribute, Fails, MainType, mainVars, readerVars, decoderVars, filterVars,
     encoderVars
<1>14. ASSUME NEW d \in Outputs, d \in opened, mpc = "join", SkipFrame(d) PROVE MainType'
  BY <1>14, Places DEF SkipFrame, Fails, MainType, FreeTaken, mainVars, readerVars, decoderVars,
     filterVars, encoderVars
<1>15. ASSUME NEW d \in Outputs, d \in opened, mpc = "join", UseFreed(d) PROVE MainType'
  BY <1>15, Places DEF UseFreed, Fails, MainType, mainVars, readerVars, decoderVars, filterVars,
     encoderVars
<1>16. ASSUME NEW d \in Outputs, d \in opened, mpc = "join", WriteFails(d) PROVE MainType'
  BY <1>16, Places DEF WriteFails, Fails, MainType, FreeTaken, mainVars, readerVars, decoderVars,
     filterVars, encoderVars
<1>17. ASSUME NEW d \in Outputs, d \in opened, mpc = "join", PacketsDry(d) PROVE MainType'
  BY <1>17, Places DEF PacketsDry, Fails, MainType, FreeTaken, mainVars, readerVars, decoderVars,
     filterVars, encoderVars
<1>18. ASSUME NEW d \in Outputs, d \in opened, mpc = "join", FlushEnds(d) PROVE MainType'
  BY <1>18, Places DEF FlushEnds, Fails, MainType, mainVars, readerVars, decoderVars, filterVars,
     encoderVars
<1> QED
  BY <1>1, <1>2, <1>3, <1>4, <1>5, <1>6, <1>7, <1>8, <1>9, <1>10, <1>11, <1>12, <1>13, <1>14,
     <1>15, <1>16, <1>17, <1>18 DEF Next, Main, Reader, Decoder, Filter, Encoder, Terminated,
     ReadPacket, ReadEnds, ReaderFinishes, PacketsEnd, DecoderFinishes, FramesEnd, PullFiltered,
     Share, FinishQueue, PopFrame, QueueEnds, SendFrame, WritePacket, Fails, vars, mainVars,
     readerVars, decoderVars, filterVars, encoderVars

LEMMA ReaderKeepsType == ReaderType /\ Next => ReaderType'
<1> SUFFICES ASSUME ReaderType, Next PROVE ReaderType'
  OBVIOUS
<1>1. CASE UNCHANGED <<rpc, packets, packetQ, packetsDone>>
  BY <1>1 DEF ReaderType
<1>2. CASE mpc = "join" /\ ReaderStart
  BY <1>2 DEF ReaderStart, Fails, ReaderType, mainVars, readerVars, decoderVars, filterVars,
     encoderVars
<1>3. CASE mpc = "join" /\ ReadPacket
  <2>1. packets \in Frames /\ packets + 1 \in 0..MaxPackets
    BY <1>3, VideoProcessingAssumption DEF ReaderType, ReadPacket, Frames
  <2>2. Append(packetQ, packets) \in Seq(Frames)
    BY <2>1, AppendSeq DEF ReaderType
  <2> QED
    BY <1>3, <2>1, <2>2 DEF ReaderType, ReadPacket
<1>4. CASE mpc = "join" /\ ReadEnds
  BY <1>4 DEF ReadEnds, Fails, ReaderType, mainVars, readerVars, decoderVars, filterVars,
     encoderVars
<1>5. CASE mpc = "join" /\ ReaderFinishes
  BY <1>5 DEF ReaderFinishes, Fails, ReaderType, mainVars, readerVars, decoderVars, filterVars,
     encoderVars
<1>6. CASE mpc = "join" /\ PopPacket
  <2>1. Tail(packetQ) \in Seq(Frames)
    BY <1>6, TailSeq DEF ReaderType, PopPacket
  <2> QED
    BY <1>6, <2>1 DEF ReaderType, PopPacket
<1> QED
  BY <1>1, <1>2, <1>3, <1>4, <1>5, <1>6 DEF Next, Main, Reader, Decoder, Filter, Encoder,
     Terminated, InitializeDecoder, InitializeEncoders, InitializeFilter, JoinAndReport,
     DecoderStart, PacketsEnd, ReceiveFrame, ReceiveEnds, DecoderFinishes, PopDecoded, FramesEnd,
     PullFiltered, PullEnds, Distribute, Share, FinishQueue, PopFrame, QueueEnds, SkipFrame,
     SendFrame, UseFreed, WritePacket, WriteFails, PacketsDry, FlushEnds, FreeTaken, Fails, vars,
     mainVars, readerVars, decoderVars, filterVars, encoderVars

LEMMA DecoderKeepsType == ReaderType /\ DecoderType /\ Next => DecoderType'
<1> SUFFICES ASSUME ReaderType, DecoderType, Next PROVE DecoderType'
  OBVIOUS
<1>1. CASE UNCHANGED <<dpc, decoding, decodeQ, decodeDone>>
  BY <1>1 DEF DecoderType
<1>2. CASE mpc = "join" /\ DecoderStart
  BY <1>2 DEF DecoderStart, Fails, DecoderType, mainVars, readerVars, decoderVars, filterVars,
     encoderVars
<1>3. CASE mpc = "join" /\ PopPacket
  <2>1. Append(decoding, Head(packetQ)) \in Seq(Frames)
    BY <1>3, TailSeq, AppendSeq DEF ReaderType, DecoderType, PopPacket
  <2> QED
    BY <1>3, <2>1 DEF DecoderType, PopPacket
<1>4. CASE mpc = "join" /\ PacketsEnd
  BY <1>4 DEF PacketsEnd, Fails, DecoderType, mainVars, readerVars, decoderVars, filterVars,
     encoderVars
<1>5. CASE mpc = "join" /\ ReceiveFrame
  <2>1. Tail(decoding) \in Seq(Frames) /\ Head(decoding) \in Frames \cup {NoFrame}
    BY <1>5, TailSeq DEF DecoderType, ReceiveFrame
  <2>2. \A x \in Frames \cup {NoFrame} : Append(decodeQ, x) \in Seq(Frames \cup {NoFrame})
    BY AppendSeq DEF DecoderType
  <2> QED
    BY <1>5, <2>1, <2>2 DEF DecoderType, ReceiveFrame
<1>6. CASE mpc = "join" /\ ReceiveEnds
  BY <1>6 DEF ReceiveEnds, Fails, DecoderType, mainVars, readerVars, decoderVars, filterVars,
     encoderVars
<1>7. CASE mpc = "join" /\ DecoderFinishes
  BY <1>7 DEF DecoderFinishes, Fails, DecoderType, mainVars, readerVars, decoderVars, filterVars,
     encoderVars
<1>8. CASE mpc = "join" /\ PopDecoded
  <2>1. Tail(decodeQ) \in Seq(Frames \cup {NoFrame})
    BY <1>8, TailSeq DEF DecoderType, PopDecoded
  <2> QED
    BY <1>8, <2>1 DEF DecoderType, PopDecoded
<1> QED
  BY <1>1, <1>2, <1>3, <1>4, <1>5, <1>6, <1>7, <1>8 DEF Next, Main, Reader, Decoder, Filter,
     Encoder, Terminated, InitializeDecoder, InitializeEncoders, InitializeFilter, JoinAndReport,
     ReaderStart, ReadPacket, ReadEnds, ReaderFinishes, FramesEnd, PullFiltered, PullEnds,
     Distribute, Share, FinishQueue, PopFrame, QueueEnds, SkipFrame, SendFrame, UseFreed,
     WritePacket, WriteFails, PacketsDry, FlushEnds, FreeTaken, Fails, vars, mainVars, readerVars,
     decoderVars, filterVars, encoderVars

LEMMA FilterKeepsType == DecoderType /\ FilterType /\ Next => FilterType'
<1> SUFFICES ASSUME DecoderType, FilterType, Next PROVE FilterType'
  OBVIOUS
<1>1. CASE UNCHANGED <<fpc, filterEof, filtering, filtered, todo, frameQ, finished>>
  BY <1>1 DEF FilterType
<1>2. CASE mpc = "join" /\ PopDecoded
  <2>1. Head(decodeQ) # NoFrame => Append(filtering, Head(decodeQ)) \in Seq(Frames)
    <3>1. Head(decodeQ) \in Frames \cup {NoFrame}
      BY <1>2, TailSeq DEF DecoderType, PopDecoded
    <3> QED
      BY <3>1, AppendSeq DEF FilterType
  <2> QED
    BY <1>2, <2>1 DEF FilterType, PopDecoded
<1>3. CASE mpc = "join" /\ FramesEnd
  BY <1>3 DEF FramesEnd, Fails, FilterType, mainVars, readerVars, decoderVars, filterVars,
     encoderVars
<1>4. CASE mpc = "join" /\ PullFiltered
  <2>1. Tail(filtering) \in Seq(Frames) /\ Head(filtering) \in Frames
    BY <1>4, TailSeq DEF FilterType, PullFiltered
  <2>2. Head(filtering) # NoFrame
    BY <2>1, VideoProcessingAssumption DEF Frames, NoFrame
  <2> QED
    BY <1>4, <2>1, <2>2 DEF FilterType, PullFiltered
<1>5. CASE mpc = "join" /\ PullEnds
  BY <1>5 DEF PullEnds, Fails, FilterType, mainVars, readerVars, decoderVars, filterVars,
     encoderVars
<1>6. ASSUME NEW d \in Outputs, mpc = "join", Distribute(d) PROVE FilterType'
  <2>1. [frame |-> filtered, clone |-> d] \in Handles
    BY <1>6, VideoProcessingAssumption DEF FilterType, Distribute, Handles, Outputs
  <2>2. Append(frameQ[d], [frame |-> filtered, clone |-> d]) \in Seq(Handles)
    BY <2>1, AppendSeq DEF FilterType
  <2>3. [frameQ EXCEPT ![d] = Append(@, [frame |-> filtered, clone |-> d])] \in [Outputs -> Seq(Handles)]
    BY <2>2 DEF FilterType
  <2> QED
    BY <1>6, <2>3 DEF FilterType, Distribute
<1>7. ASSUME NEW d \in Outputs, mpc = "join", Share(d) PROVE FilterType'
  <2>1. [frame |-> filtered, clone |-> 0] \in Handles
    BY <1>7, VideoProcessingAssumption DEF FilterType, Share, Handles, Outputs
  <2>2. Append(frameQ[d], [frame |-> filtered, clone |-> 0]) \in Seq(Handles)
    BY <2>1, AppendSeq DEF FilterType
  <2>3. [frameQ EXCEPT ![d] = Append(@, [frame |-> filtered, clone |-> 0])] \in [Outputs -> Seq(Handles)]
    BY <2>2 DEF FilterType
  <2> QED
    BY <1>7, <2>3 DEF FilterType, Share
<1>8. ASSUME NEW d \in Outputs, mpc = "join", FinishQueue(d) PROVE FilterType'
  BY <1>8 DEF FinishQueue, Fails, FilterType, mainVars, readerVars, decoderVars, filterVars,
     encoderVars
<1>9. ASSUME NEW d \in Outputs, d \in opened, mpc = "join", PopFrame(d) PROVE FilterType'
  <2>1. Tail(frameQ[d]) \in Seq(Handles)
    BY <1>9, TailSeq DEF FilterType, PopFrame
  <2> QED
    BY <1>9, <2>1 DEF FilterType, PopFrame
<1> QED
  BY <1>1, <1>2, <1>3, <1>4, <1>5, <1>6, <1>7, <1>8, <1>9 DEF Next, Main, Reader, Decoder, Filter,
     Encoder, Terminated, InitializeDecoder, InitializeEncoders, InitializeFilter, JoinAndReport,
     ReaderStart, ReadPacket, ReadEnds, ReaderFinishes, DecoderStart, PopPacket, PacketsEnd,
     ReceiveFrame, ReceiveEnds, DecoderFinishes, QueueEnds, SkipFrame, SendFrame, UseFreed,
     WritePacket, WriteFails, PacketsDry, FlushEnds, FreeTaken, Fails, vars, mainVars, readerVars,
     decoderVars, filterVars, encoderVars

LEMMA EncoderKeepsType == FilterType /\ EncoderType /\ Next => EncoderType'
<1> SUFFICES ASSUME FilterType, EncoderType, Next PROVE EncoderType'
  OBVIOUS
<1>1. CASE UNCHANGED <<epc, taken, coding, output, freed>>
  BY <1>1 DEF EncoderType
<1>2. ASSUME NEW d \in Outputs, d \in opened, mpc = "join", PopFrame(d) PROVE EncoderType'
  <2>1. <<Head(frameQ[d])>> \in Seq(Handles) /\ Len(<<Head(frameQ[d])>>) = 1
    <3>1. Head(frameQ[d]) \in Handles
      BY <1>2, TailSeq DEF FilterType, PopFrame
    <3> QED
      BY <3>1
  <2> QED
    BY <1>2, <2>1 DEF EncoderType, PopFrame
<1>3. ASSUME NEW d \in Outputs, d \in opened, mpc = "join", QueueEnds(d) PROVE EncoderType'
  BY <1>3 DEF QueueEnds, Fails, EncoderType, mainVars, readerVars, decoderVars, filterVars,
     encoderVars
<1>4. ASSUME NEW d \in Outputs, d \in opened, mpc = "join", SkipFrame(d) PROVE EncoderType'
  <2>1. Head(taken[d]) \in Handles
    BY <1>4, TakenFrame DEF SkipFrame
  <2>2. <<>> \in Seq(Handles)
    OBVIOUS
  <2>3. /\ taken' = [taken EXCEPT ![d] = <<>>] /\ freed' = freed \cup {Head(taken[d])}
        /\ epc' = [epc EXCEPT ![d] = "pop"] /\ coding' = coding /\ output' = output
    BY <1>4 DEF FreeTaken, SkipFrame
  <2>4. taken' \in [Outputs -> Seq(Handles)] /\ freed' \subseteq Handles
    BY <2>1, <2>2, <2>3 DEF EncoderType
  <2>5. epc' \in [Outputs -> {"pop", "encode", "receive", "flush", "done"}]
    BY <2>3 DEF EncoderType
  <2>6. \A e \in Outputs :
          Len(taken'[e]) = IF epc'[e] \in {"encode", "receive"} THEN 1 ELSE 0
    <3>1. taken'[d] = <<>> /\ epc'[d] = "pop"
      BY <2>3 DEF EncoderType
    <3>2. Len(taken'[d]) = 0
      BY <3>1, EmptyLen
    <3>3. \A e \in Outputs : e # d => taken'[e] = taken[e] /\ epc'[e] = epc[e]
      BY <2>3 DEF EncoderType
    <3> QED
      BY <3>1, <3>2, <3>3 DEF EncoderType
  <2> QED
    BY <2>3, <2>4, <2>5, <2>6 DEF EncoderType
<1>5. ASSUME NEW d \in Outputs, d \in opened, mpc = "join", SendFrame(d) PROVE EncoderType'
  <2>1. Append(coding[d], Head(taken[d]).frame) \in Seq(Frames)
    <3>2. Head(taken[d]) \in Handles
      BY <1>5, TakenFrame DEF SendFrame
    <3> QED
      BY <3>2, AppendSeq DEF EncoderType, Handles
  <2> QED
    BY <1>5, <2>1 DEF EncoderType, SendFrame
<1>6. ASSUME NEW d \in Outputs, d \in opened, mpc = "join", WritePacket(d) PROVE EncoderType'
  <2>1. Tail(coding[d]) \in Seq(Frames) /\ Head(coding[d]) \in Frames
    BY <1>6, TailSeq DEF EncoderType, WritePacket
  <2>2. Append(output[d], Head(coding[d])) \in Seq(Frames)
    BY <2>1, AppendSeq DEF EncoderType
  <2> QED
    BY <1>6, <2>1, <2>2 DEF EncoderType, WritePacket
<1>7. ASSUME NEW d \in Outputs, d \in opened, mpc = "join", WriteFails(d) PROVE EncoderType'
  <2>1. Tail(coding[d]) \in Seq(Frames)
    BY <1>7, TailSeq DEF EncoderType, WriteFails
  <2>2. coding' \in [Outputs -> Seq(Frames)]
    BY <1>7, <2>1 DEF EncoderType, WriteFails
  <2>3. CASE epc[d] = "receive"
    <3>1. Head(taken[d]) \in Handles
      BY <2>3, TakenFrame
    <3>2. <<>> \in Seq(Handles)
      OBVIOUS
    <3> QED
      BY <1>7, <2>2, <2>3, <3>1, <3>2, EmptyLen DEF EncoderType, FreeTaken, WriteFails
  <2>4. CASE epc[d] # "receive"
    BY <1>7, <2>2, <2>4 DEF EncoderType, WriteFails
  <2> QED
    BY <2>3, <2>4
<1>8. ASSUME NEW d \in Outputs, d \in opened, mpc = "join", PacketsDry(d) PROVE EncoderType'
  <2>1. Head(taken[d]) \in Handles
    BY <1>8, TakenFrame DEF PacketsDry
  <2>2. <<>> \in Seq(Handles)
    OBVIOUS
  <2>3. /\ taken' = [taken EXCEPT ![d] = <<>>] /\ freed' = freed \cup {Head(taken[d])}
        /\ epc' = [epc EXCEPT ![d] = "pop"] /\ coding' = coding /\ output' = output
    BY <1>8 DEF FreeTaken, PacketsDry
  <2>4. taken' \in [Outputs -> Seq(Handles)] /\ freed' \subseteq Handles
    BY <2>1, <2>2, <2>3 DEF EncoderType
  <2>5. epc' \in [Outputs -> {"pop", "encode", "receive", "flush", "done"}]
    BY <2>3 DEF EncoderType
  <2>6. \A e \in Outputs :
          Len(taken'[e]) = IF epc'[e] \in {"encode", "receive"} THEN 1 ELSE 0
    <3>1. taken'[d] = <<>> /\ epc'[d] = "pop"
      BY <2>3 DEF EncoderType
    <3>2. Len(taken'[d]) = 0
      BY <3>1, EmptyLen
    <3>3. \A e \in Outputs : e # d => taken'[e] = taken[e] /\ epc'[e] = epc[e]
      BY <2>3 DEF EncoderType
    <3> QED
      BY <3>1, <3>2, <3>3 DEF EncoderType
  <2> QED
    BY <2>3, <2>4, <2>5, <2>6 DEF EncoderType
<1>9. ASSUME NEW d \in Outputs, d \in opened, mpc = "join", FlushEnds(d) PROVE EncoderType'
  BY <1>9 DEF FlushEnds, Fails, EncoderType, mainVars, readerVars, decoderVars, filterVars,
     encoderVars
<1> QED
  BY <1>1, <1>2, <1>3, <1>4, <1>5, <1>6, <1>7, <1>8, <1>9 DEF Next, Main, Reader, Decoder, Filter,
     Encoder, Terminated, InitializeDecoder, InitializeEncoders, InitializeFilter, JoinAndReport,
     ReaderStart, ReadPacket, ReadEnds, ReaderFinishes, DecoderStart, PopPacket, PacketsEnd,
     ReceiveFrame, ReceiveEnds, DecoderFinishes, PopDecoded, FramesEnd, PullFiltered, PullEnds,
     Distribute, Share, FinishQueue, UseFreed, Fails, vars, mainVars, readerVars, decoderVars,
     filterVars, encoderVars

\* main starts the threads when the encoders are set up.
LEMMA IdleInit == Init => Idle
  BY DEF Init, Idle

LEMMA IdleStep == Idle /\ Next => Idle'
<1> SUFFICES ASSUME Idle, Next PROVE Idle'
  OBVIOUS
<1>1. CASE UNCHANGED <<mpc, packets, packetQ, decoding, decodeQ, fpc, filtering, todo, epc,
         frameQ, finished, coding, output>>
  BY <1>1 DEF Idle
<1>2. CASE InitializeDecoder
  BY <1>2 DEF InitializeDecoder, Fails, Idle, mainVars, readerVars, decoderVars, filterVars,
     encoderVars
<1>3. CASE InitializeEncoders
  BY <1>3 DEF InitializeEncoders, Fails, Idle, mainVars, readerVars, decoderVars, filterVars,
     encoderVars
<1>4. CASE InitializeFilter
  BY <1>4 DEF InitializeFilter, Fails, Idle, mainVars, readerVars, decoderVars, filterVars,
     encoderVars
<1>5. CASE JoinAndReport
  BY <1>5 DEF JoinAndReport, Idle
<1>6. CASE mpc = "join" /\ ReadPacket
  BY <1>6 DEF ReadPacket, Idle, mainVars, readerVars, decoderVars, filterVars, encoderVars
<1>7. CASE mpc = "join" /\ PopPacket
  BY <1>7 DEF PopPacket, Idle, mainVars, readerVars, decoderVars, filterVars, encoderVars
<1>8. CASE mpc = "join" /\ ReceiveFrame
  BY <1>8 DEF ReceiveFrame, Idle, mainVars, readerVars, decoderVars, filterVars, encoderVars
<1>9. CASE mpc = "join" /\ PopDecoded
  BY <1>9 DEF PopDecoded, Idle, mainVars, readerVars, decoderVars, filterVars, encoderVars
<1>10. CASE mpc = "join" /\ FramesEnd
  BY <1>10 DEF FramesEnd, Idle, mainVars, readerVars, decoderVars, filterVars, encoderVars
<1>11. CASE mpc = "join" /\ PullFiltered
  BY <1>11 DEF PullFiltered, Idle, mainVars, readerVars, decoderVars, filterVars, encoderVars
<1>12. CASE mpc = "join" /\ PullEnds
  BY <1>12 DEF PullEnds, Idle, mainVars, readerVars, decoderVars, filterVars, encoderVars
<1>13. ASSUME NEW d \in Outputs, mpc = "join", Distribute(d) PROVE Idle'
  BY <1>13 DEF Distribute, Idle, mainVars, readerVars, decoderVars, filterVars, encoderVars
<1>14. ASSUME NEW d \in Outputs, mpc = "join", Share(d) PROVE Idle'
  BY <1>14 DEF Share, Idle, mainVars, readerVars, decoderVars, filterVars, encoderVars
<1>15. ASSUME NEW d \in Outputs, mpc = "join", FinishQueue(d) PROVE Idle'
  BY <1>15 DEF FinishQueue, Idle, mainVars, readerVars, decoderVars, filterVars, encoderVars
<1>16. ASSUME NEW d \in Outputs, d \in opened, mpc = "join", PopFrame(d) PROVE Idle'
  BY <1>16 DEF PopFrame, Idle, mainVars, readerVars, decoderVars, filterVars, encoderVars
<1>17. ASSUME NEW d \in Outputs, d \in opened, mpc = "join", QueueEnds(d) PROVE Idle'
  BY <1>17 DEF QueueEnds, Idle, mainVars, readerVars, decoderVars, filterVars, encoderVars
<1>18. ASSUME NEW d \in Outputs, d \in opened, mpc = "join", SkipFrame(d) PROVE Idle'
  BY <1>18 DEF SkipFrame, Idle, mainVars, readerVars, decoderVars, filterVars, encoderVars
<1>19. ASSUME NEW d \in Outputs, d \in opened, mpc = "join", SendFrame(d) PROVE Idle'
  BY <1>19 DEF SendFrame, Idle, mainVars, readerVars, decoderVars, filterVars, encoderVars
<1>20. ASSUME NEW d \in Outputs, d \in opened, mpc = "join", UseFreed(d) PROVE Idle'
  BY <1>20 DEF UseFreed, Idle
<1>21. ASSUME NEW d \in Outputs, d \in opened, mpc = "join", WritePacket(d) PROVE Idle'
  BY <1>21 DEF WritePacket, Idle, mainVars, readerVars, decoderVars, filterVars, encoderVars
<1>22. ASSUME NEW d \in Outputs, d \in opened, mpc = "join", WriteFails(d) PROVE Idle'
  BY <1>22 DEF WriteFails, Idle, mainVars, readerVars, decoderVars, filterVars, encoderVars
<1>23. ASSUME NEW d \in Outputs, d \in opened, mpc = "join", PacketsDry(d) PROVE Idle'
  BY <1>23 DEF PacketsDry, Idle, mainVars, readerVars, decoderVars, filterVars, encoderVars
<1>24. ASSUME NEW d \in Outputs, d \in opened, mpc = "join", FlushEnds(d) PROVE Idle'
  BY <1>24 DEF FlushEnds, Idle, mainVars, readerVars, decoderVars, filterVars, encoderVars
<1> QED
  BY <1>1, <1>2, <1>3, <1>4, <1>5, <1>6, <1>7, <1>8, <1>9, <1>10, <1>11, <1>12, <1>13, <1>14,
     <1>15, <1>16, <1>17, <1>18, <1>19, <1>20, <1>21, <1>22, <1>23, <1>24 DEF Next, Main, Reader,
     Decoder, Filter, Encoder, Terminated, ReaderStart, ReadEnds, ReaderFinishes, DecoderStart,
     PacketsEnd, ReceiveEnds, DecoderFinishes, Fails, vars, mainVars, readerVars, decoderVars,
     filterVars, encoderVars

LEMMA TodoStep == Idle /\ todo \subseteq opened /\ Next => (todo \subseteq opened)'
<1> SUFFICES ASSUME Idle, todo \subseteq opened, Next PROVE (todo \subseteq opened)'
  OBVIOUS
<1>1. CASE UNCHANGED <<todo, opened, mpc>>
  BY <1>1
<1>2. CASE InitializeDecoder
  BY <1>2 DEF InitializeDecoder, Fails, Idle, mainVars, readerVars, decoderVars, filterVars,
     encoderVars
<1>3. CASE InitializeEncoders
  BY <1>3 DEF InitializeEncoders, Fails, Idle, mainVars, readerVars, decoderVars, filterVars,
     encoderVars
<1>4. CASE InitializeFilter
  BY <1>4 DEF InitializeFilter, Fails, Idle, mainVars, readerVars, decoderVars, filterVars,
     encoderVars
<1>5. CASE JoinAndReport
  BY <1>5 DEF JoinAndReport, Fails, Idle, mainVars, readerVars, decoderVars, filterVars,
     encoderVars
<1>6. CASE mpc = "join" /\ PullFiltered
  BY <1>6 DEF PullFiltered, Fails, Idle, mainVars, readerVars, decoderVars, filterVars,
     encoderVars
<1>7. CASE mpc = "join" /\ PullEnds
  BY <1>7 DEF PullEnds, Fails, Idle, mainVars, readerVars, decoderVars, filterVars, encoderVars
<1>8. ASSUME NEW d \in Outputs, mpc = "join", Distribute(d) PROVE (todo \subseteq opened)'
  BY <1>8 DEF Distribute, Fails, Idle, mainVars, readerVars, decoderVars, filterVars, encoderVars
<1>9. ASSUME NEW d \in Outputs, mpc = "join", Share(d) PROVE (todo \subseteq opened)'
  BY <1>9 DEF Share, Fails, Idle, mainVars, readerVars, decoderVars, filterVars, encoderVars
<1>10. ASSUME NEW d \in Outputs, mpc = "join", FinishQueue(d) PROVE (todo \subseteq opened)'
  BY <1>10 DEF FinishQueue, Fails, Idle, mainVars, readerVars, decoderVars, filterVars,
     encoderVars
<1>11. ASSUME NEW d \in Outputs, d \in opened, mpc = "join", UseFreed(d) PROVE (todo \subseteq opened)'
  BY <1>11 DEF UseFreed, Fails, Idle, mainVars, readerVars, decoderVars, filterVars, encoderVars
<1> QED
  BY <1>1, <1>2, <1>3, <1>4, <1>5, <1>6, <1>7, <1>8, <1>9, <1>10, <1>11 DEF Next, Main, Reader,
     Decoder, Filter, Encoder, Terminated, ReaderStart, ReadPacket, ReadEnds, ReaderFinishes,
     DecoderStart, PopPacket, PacketsEnd, ReceiveFrame, ReceiveEnds, DecoderFinishes, PopDecoded,
     FramesEnd, PopFrame, QueueEnds, SkipFrame, SendFrame, WritePacket, WriteFails, PacketsDry,
     FlushEnds, FreeTaken, Fails, vars, mainVars, readerVars, decoderVars, filterVars, encoderVars

-----------------------------------------------------------------------------
(* The order of the frames *)

LEMMA InOrderTail ==
    ASSUME NEW s \in Seq(Frames), s # <<>>, NEW lo \in Nat, NEW hi \in Nat, InOrder(s, lo, hi)
    PROVE  /\ Head(s) \in Nat /\ lo <= Head(s) /\ Head(s) < hi
           /\ InOrder(Tail(s), Head(s) + 1, hi) /\ InOrder(Tail(s), lo, hi)
<1>1. /\ Len(s) \in Nat /\ Len(s) >= 1 /\ Head(s) = s[1] /\ Tail(s) \in Seq(Frames)
      /\ Len(Tail(s)) = Len(s) - 1
      /\ \A i \in 1..Len(Tail(s)) : Tail(s)[i] = s[i + 1]
  BY TailSeq
<1>2. \A i \in 1..Len(s) : s[i] \in Nat
  BY VideoProcessingAssumption DEF Frames
<1> DEFINE t == Tail(s)
<1>3. /\ Len(t) = Len(s) - 1 /\ \A i \in 1..Len(t) : t[i] = s[i + 1]
  BY <1>1
<1> HIDE DEF t
<1>4. InOrder(t, s[1] + 1, hi) /\ InOrder(t, lo, hi) /\ lo <= s[1] /\ s[1] < hi
  BY <1>1, <1>2, <1>3 DEF InOrder, Increasing
<1> QED
  BY <1>1, <1>2, <1>4 DEF t

LEMMA InOrderWiden ==
    ASSUME NEW s \in Seq(Frames), NEW lo \in Nat, NEW hi \in Nat, NEW up \in Nat,
           InOrder(s, lo, hi), hi <= up
    PROVE  InOrder(s, lo, up)
<1>1. \A i \in 1..Len(s) : s[i] \in Nat
  BY VideoProcessingAssumption DEF Frames
<1> QED
  BY <1>1 DEF InOrder

LEMMA InOrderAppend ==
    ASSUME NEW s \in Seq(Frames), NEW x \in Frames, NEW lo \in Nat, NEW hi \in Nat,
           InOrder(s, lo, hi), lo <= x, hi <= x
    PROVE  InOrder(Append(s, x), lo, x + 1)
<1> DEFINE t == Append(s, x)
<1>1. /\ Len(s) \in Nat /\ Len(t) = Len(s) + 1 /\ t[Len(s) + 1] = x
      /\ \A i \in 1..Len(s) : t[i] = s[i]
  BY AppendSeq
<1>2. x \in Nat /\ \A i \in 1..Len(s) : s[i] \in Nat
  BY VideoProcessingAssumption DEF Frames
<1> HIDE DEF t
<1>3. \A i \in 1..Len(t) : i \in 1..Len(s) \/ i = Len(s) + 1
  BY <1>1
<1>4. InOrder(t, lo, x + 1)
  BY <1>1, <1>2, <1>3 DEF InOrder, Increasing
<1> QED
  BY <1>4 DEF t

LEMMA HandleType ==
    ASSUME NEW h \in Handles
    PROVE  h.frame \in Frames /\ h.frame \in Nat /\ h.clone \in 0..NumOutputs
  BY VideoProcessingAssumption DEF Handles, Frames

LEMMA HandlesTail ==
    ASSUME NEW s \in Seq(Handles), s # <<>>, NEW lo \in Nat, NEW hi \in Nat, HandlesInOrder(s, lo, hi)
    PROVE  /\ Head(s).frame \in Nat /\ lo <= Head(s).frame /\ Head(s).frame < hi
           /\ HandlesInOrder(Tail(s), Head(s).frame + 1, hi)
<1>1. /\ Len(s) \in Nat /\ Len(s) >= 1 /\ Head(s) = s[1] /\ Tail(s) \in Seq(Handles)
      /\ Len(Tail(s)) = Len(s) - 1
      /\ \A i \in 1..Len(Tail(s)) : Tail(s)[i] = s[i + 1]
  BY TailSeq
<1>2. \A i \in 1..Len(s) : s[i].frame \in Nat
  BY HandleType
<1> DEFINE t == Tail(s)
<1>3. /\ Len(t) = Len(s) - 1 /\ \A i \in 1..Len(t) : t[i] = s[i + 1]
  BY <1>1
<1> HIDE DEF t
<1>a. \A i \in 1..Len(t) : i \in 1..Len(s) /\ i + 1 \in 1..Len(s) /\ 1 < i + 1 /\ 1 \in 1..Len(s)
  BY <1>1, <1>3
<1>b. 1 \in 1..Len(s) /\ s[1].frame \in Nat /\ lo <= s[1].frame /\ s[1].frame < hi
  BY <1>1, <1>2 DEF HandlesInOrder
<1>c. \A i \in 1..Len(t) : t[i].frame \in Nat /\ s[1].frame < t[i].frame /\ t[i].frame < hi
  BY <1>a, <1>2, <1>3 DEF HandlesInOrder
<1>d. \A i, j \in 1..Len(t) : i < j => t[i].frame < t[j].frame
  <2> SUFFICES ASSUME NEW i \in 1..Len(t), NEW j \in 1..Len(t), i < j
               PROVE  t[i].frame < t[j].frame
    OBVIOUS
  <2>1. i + 1 < j + 1 /\ t[i] = s[i + 1] /\ t[j] = s[j + 1]
    BY <1>3
  <2> QED
    BY <2>1, <1>a DEF HandlesInOrder
<1>4. HandlesInOrder(t, s[1].frame + 1, hi) /\ lo <= s[1].frame /\ s[1].frame < hi
  BY <1>b, <1>c, <1>d DEF HandlesInOrder
<1> QED
  BY <1>1, <1>2, <1>4 DEF t

LEMMA HandlesAppend ==
    ASSUME NEW s \in Seq(Handles), NEW x \in Handles, NEW lo \in Nat, NEW hi \in Nat,
           HandlesInOrder(s, lo, hi), lo <= x.frame, hi <= x.frame
    PROVE  HandlesInOrder(Append(s, x), lo, x.frame + 1)
<1> DEFINE t == Append(s, x)
<1>1. /\ Len(s) \in Nat /\ Len(t) = Len(s) + 1 /\ t[Len(s) + 1] = x
      /\ \A i \in 1..Len(s) : t[i] = s[i]
  BY AppendSeq
<1>2. x.frame \in Nat /\ \A i \in 1..Len(s) : s[i].frame \in Nat
  BY HandleType
<1> HIDE DEF t
<1>3. \A i \in 1..Len(t) : i \in 1..Len(s) \/ i = Len(s) + 1
  BY <1>1
<1>4. HandlesInOrder(t, lo, x.frame + 1)
  BY SMTT(30), <1>1, <1>2, <1>3 DEF HandlesInOrder
<1> QED
  BY <1>4 DEF t

LEMMA ClonesTail ==
    ASSUME NEW s \in Seq(Frames \cup {NoFrame}), s # <<>>, NEW lo \in Nat, NEW hi \in Nat,
           ClonesInOrder(s, lo, hi)
    PROVE  /\ ClonesInOrder(Tail(s), lo, hi)
           /\ Head(s) # NoFrame => /\ lo <= Head(s) /\ Head(s) < hi /\ Head(s) \in Frames
                                   /\ ClonesInOrder(Tail(s), Head(s) + 1, hi)
<1>1. /\ Len(s) \in Nat /\ Len(s) >= 1 /\ Head(s) = s[1] /\ Head(s) \in Frames \cup {NoFrame}
      /\ Len(Tail(s)) = Len(s) - 1
      /\ \A i \in 1..Len(Tail(s)) : Tail(s)[i] = s[i + 1]
  BY TailSeq
<1>2. \A i \in 1..Len(s) : s[i] # NoFrame => s[i] \in Nat
  BY VideoProcessingAssumption DEF Frames
<1> DEFINE t == Tail(s)
<1>3. /\ Len(t) = Len(s) - 1 /\ \A i \in 1..Len(t) : t[i] = s[i + 1]
  BY <1>1
<1> HIDE DEF t
<1>4. /\ ClonesInOrder(t, lo, hi)
      /\ s[1] # NoFrame => ClonesInOrder(t, s[1] + 1, hi) /\ lo <= s[1] /\ s[1] < hi
  BY <1>1, <1>2, <1>3 DEF ClonesInOrder
<1> QED
  BY <1>1, <1>2, <1>4 DEF t

LEMMA ClonesAppend ==
    ASSUME NEW s \in Seq(Frames \cup {NoFrame}), NEW lo \in Nat, NEW hi \in Nat,
           ClonesInOrder(s, lo, hi), NEW x \in Frames, lo <= x, hi <= x
    PROVE  ClonesInOrder(Append(s, x), lo, x + 1) /\ ClonesInOrder(Append(s, NoFrame), lo, x + 1)
<1>0. x \in Nat /\ \A i \in 1..Len(s) : s[i] # NoFrame => s[i] \in Nat
  BY VideoProcessingAssumption DEF Frames
<1>1. ASSUME NEW y \in {x, NoFrame} PROVE ClonesInOrder(Append(s, y), lo, x + 1)
  <2> DEFINE t == Append(s, y)
  <2>1. /\ Len(s) \in Nat /\ Len(t) = Len(s) + 1 /\ t[Len(s) + 1] = y
        /\ \A i \in 1..Len(s) : t[i] = s[i]
    BY AppendSeq
  <2> HIDE DEF t
  <2>2. \A i \in 1..Len(t) : i \in 1..Len(s) \/ i = Len(s) + 1
    BY <2>1
  <2>3. ClonesInOrder(t, lo, x + 1)
    BY <1>0, <2>1, <2>2 DEF ClonesInOrder
  <2> QED
    BY <2>3 DEF t
<1> QED
  BY <1>1

LEMMA EmptyInOrder ==
    /\ \A lo, hi : InOrder(<<>>, lo, hi) /\ HandlesInOrder(<<>>, lo, hi) /\ ClonesInOrder(<<>>, lo, hi)
<1>1. 1..Len(<<>>) = {}
  BY EmptyLen
<1> QED
  BY <1>1 DEF InOrder, Increasing, HandlesInOrder, ClonesInOrder

LEMMA OrderedInit == Init => Ordered
<1> SUFFICES ASSUME Init, NEW e \in Outputs PROVE \E m \in [1..8 -> Nat] : Marked(e, m)
  BY DEF Ordered
<1> DEFINE m == [i \in 1..8 |-> 0]
<1>1. m \in [1..8 -> Nat] /\ \A i \in 1..8 : m[i] = 0
  OBVIOUS
<1> HIDE DEF m
<1>2. Marked(e, m)
  BY <1>1, EmptyInOrder DEF Init, Marked, Waiting
<1> QED
  BY <1>1, <1>2

\* What other outputs do leaves the marks of an output where they are.
LEMMA MarkMoved ==
    ASSUME NEW m \in [1..8 -> Nat], NEW k \in 1..8, NEW x \in Nat
    PROVE  \E n \in [1..8 -> Nat] : n[k] = x + 1 /\ \A i \in 1..8 : i # k => n[i] = m[i]
<1> DEFINE w == [m EXCEPT ![k] = x + 1]
<1>1. w \in [1..8 -> Nat] /\ w[k] = x + 1 /\ \A i \in 1..8 : i # k => w[i] = m[i]
  OBVIOUS
<1> QED
  BY <1>1

LEMMA MarkedKept ==
    ASSUME NEW e \in Outputs, NEW m, Marked(e, m),
           UNCHANGED <<packets, packetQ, decoding, decodeQ, filtering>>,
           epc'[e] = epc[e], taken'[e] = taken[e], frameQ'[e] = frameQ[e],
           coding'[e] = coding[e], output'[e] = output[e],
           Waiting(e)' => Waiting(e) /\ filtered' = filtered,
           \A f \in freed' : f \in freed \/ f.clone # e
    PROVE  Marked(e, m)'
  BY DEF Marked

LEMMA OrderedStep == TypeOK /\ Cloned /\ Ordered /\ Next => Ordered'
<1> SUFFICES ASSUME ReaderType, DecoderType, FilterType, EncoderType, Cloned, Ordered, Next
             PROVE  Ordered'
  BY TypeParts
<1>1. CASE UNCHANGED <<packets, packetQ, decoding, decodeQ, fpc, filtering, filtered, todo, epc,
         taken, frameQ, coding, output, freed>>
  BY <1>1 DEF Ordered, Marked, Waiting
<1>2. CASE mpc = "join" /\ ReadPacket
  <2> SUFFICES ASSUME NEW e \in Outputs PROVE \E n \in [1..8 -> Nat] : Marked(e, n)'
    BY DEF Ordered
  <2>1. PICK m \in [1..8 -> Nat] : Marked(e, m)
    BY DEF Ordered
  <2>2. packets \in Frames /\ packets \in Nat /\ packetQ \in Seq(Frames) /\ m[8] \in Nat /\ m[7] \in Nat
    BY <1>2, VideoProcessingAssumption DEF ReaderType, ReadPacket, Frames
  <2>3. InOrder(packetQ, m[8], packets) /\ m[8] <= packets
    BY <2>1 DEF Marked
  <2>4. InOrder(Append(packetQ, packets), m[8], packets + 1)
    BY <2>2, <2>3, InOrderAppend
  <2>5. m[8] <= packets + 1
    BY <2>2, <2>3
  <2>6. UNCHANGED <<decoderVars, filterVars, encoderVars>>
        /\ packets' = packets + 1 /\ packetQ' = Append(packetQ, packets)
    BY <1>2 DEF ReadPacket
  <2>7. Marked(e, m)'
    BY <2>1, <2>4, <2>5, <2>6 DEF Marked, Waiting, decoderVars, filterVars, encoderVars
  <2> QED
    BY <2>7
<1>3. CASE mpc = "join" /\ PopPacket
  <2> SUFFICES ASSUME NEW e \in Outputs PROVE \E n \in [1..8 -> Nat] : Marked(e, n)'
    BY DEF Ordered
  <2>1. PICK m \in [1..8 -> Nat] : Marked(e, m)
    BY DEF Ordered
  <2>2. /\ packetQ # <<>> /\ packetQ \in Seq(Frames) /\ decoding \in Seq(Frames) /\ packets \in Nat
        /\ \A i \in 1..8 : m[i] \in Nat
    BY <1>3 DEF ReaderType, DecoderType, PopPacket
  <2>3. /\ InOrder(packetQ, m[8], packets) /\ InOrder(decoding, m[7], m[8])
        /\ m[7] <= m[8] /\ m[8] <= packets
    BY <2>1 DEF Marked
  <2>a. m[8] \in Nat /\ m[7] \in Nat
    BY <2>2
  <2> DEFINE h == Head(packetQ)
  <2>4. /\ h \in Nat /\ m[8] <= h /\ h < packets /\ InOrder(Tail(packetQ), h + 1, packets)
    BY <2>2, <2>3, <2>a, InOrderTail
  <2>b. h \in Frames
    BY <2>2, TailSeq
  <2> HIDE DEF h
  <2>x. h \in Nat
    BY <2>2, <2>4
  <2>5. PICK n \in [1..8 -> Nat] : n[8] = h + 1 /\ \A i \in 1..8 : i # 8 => n[i] = m[i]
    BY <2>x, MarkMoved
  <2>k. h < packets /\ packets \in Nat /\ h \in Nat
    BY <2>2, <2>4
  <2>l. h + 1 <= packets
    BY <2>k
  <2>g. h \in Nat /\ m[8] <= h
    BY <2>4
  <2>j. m[7] <= m[8] /\ m[8] <= h
    BY <2>3, <2>4
  <2>i. m[7] <= h
    BY <2>a, <2>g, <2>j
  <2>h. InOrder(decoding, m[7], m[8]) /\ decoding \in Seq(Frames)
    BY <2>2, <2>3
  <2>6. InOrder(Append(decoding, h), m[7], h + 1)
    BY <2>a, <2>b, <2>g, <2>h, <2>i, InOrderAppend
  <2>7. InOrder(decoding, m[7], h + 1)
    <3>1. m[8] <= h + 1 /\ h + 1 \in Nat
      BY <2>a, <2>g
    <3> QED
      BY <2>a, <2>h, <3>1, InOrderWiden
  <2>8. /\ UNCHANGED <<packets, decodeQ, filterVars, encoderVars>>
        /\ packetQ' = Tail(packetQ) /\ decoding' \in {decoding, Append(decoding, h)}
    BY <1>3 DEF PopPacket, h
  <2>c. InOrder(decoding', m[7], h + 1)
    BY <2>6, <2>7, <2>8
  <2>d. m[7] <= h + 1 /\ h + 1 <= packets
    BY <2>a, <2>g, <2>i, <2>l
  <2>e. /\ n[1] = m[1] /\ n[2] = m[2] /\ n[3] = m[3] /\ n[4] = m[4] /\ n[5] = m[5] /\ n[6] = m[6]
        /\ n[7] = m[7] /\ n[8] = h + 1
    BY <2>5
  <2>f. Marked(e, n)'
    BY <2>1, <2>4, <2>8, <2>c, <2>d, <2>e DEF Marked, Waiting, filterVars, encoderVars
  <2> QED
    BY <2>5, <2>f
<1>4. CASE mpc = "join" /\ ReceiveFrame
  <2> SUFFICES ASSUME NEW e \in Outputs PROVE \E n \in [1..8 -> Nat] : Marked(e, n)'
    BY DEF Ordered
  <2>1. PICK m \in [1..8 -> Nat] : Marked(e, m)
    BY DEF Ordered
  <2>2. /\ decoding # <<>> /\ decoding \in Seq(Frames) /\ decodeQ \in Seq(Frames \cup {NoFrame})
        /\ \A i \in 1..8 : m[i] \in Nat
    BY <1>4 DEF DecoderType, ReceiveFrame
  <2>3. /\ InOrder(decoding, m[7], m[8]) /\ ClonesInOrder(decodeQ, m[6], m[7]) /\ m[6] <= m[7] /\ m[7] <= m[8]
    BY <2>1 DEF Marked
  <2>a. m[8] \in Nat /\ m[7] \in Nat /\ m[6] \in Nat
    BY <2>2
  <2> DEFINE h == Head(decoding)
  <2>4. /\ h \in Nat /\ m[7] <= h /\ h < m[8] /\ InOrder(Tail(decoding), h + 1, m[8])
    BY <2>2, <2>3, <2>a, InOrderTail
  <2>b. h \in Frames
    BY <2>2, TailSeq
  <2> HIDE DEF h
  <2>x. h \in Nat
    BY <2>2, <2>4
  <2>5. PICK n \in [1..8 -> Nat] : n[7] = h + 1 /\ \A i \in 1..8 : i # 7 => n[i] = m[i]
    BY <2>x, MarkMoved
  <2>d. m[6] <= h /\ m[6] <= h + 1 /\ h + 1 <= m[8]
    BY <2>3, <2>4, <2>a
  <2>6. ClonesInOrder(Append(decodeQ, h), m[6], h + 1) /\ ClonesInOrder(Append(decodeQ, NoFrame), m[6], h + 1)
    BY <2>2, <2>3, <2>4, <2>a, <2>b, <2>d, ClonesAppend
  <2>8. /\ UNCHANGED <<packets, packetQ, filterVars, encoderVars>>
        /\ decoding' = Tail(decoding) /\ decodeQ' \in {Append(decodeQ, NoFrame), Append(decodeQ, h)}
    BY <1>4 DEF ReceiveFrame, readerVars, h
  <2>c. ClonesInOrder(decodeQ', m[6], h + 1)
    BY <2>6, <2>8
  <2>e. /\ n[1] = m[1] /\ n[2] = m[2] /\ n[3] = m[3] /\ n[4] = m[4] /\ n[5] = m[5]
        /\ n[6] = m[6] /\ n[8] = m[8] /\ n[7] = h + 1
    BY <2>5
  <2>f. Marked(e, n)'
    BY <2>1, <2>4, <2>8, <2>c, <2>d, <2>e DEF Marked, Waiting, filterVars, encoderVars
  <2> QED
    BY <2>5, <2>f
<1>5. CASE mpc = "join" /\ PopDecoded
  <2> SUFFICES ASSUME NEW e \in Outputs PROVE \E n \in [1..8 -> Nat] : Marked(e, n)'
    BY DEF Ordered
  <2>1. PICK m \in [1..8 -> Nat] : Marked(e, m)
    BY DEF Ordered
  <2>2. /\ decodeQ # <<>> /\ filtering \in Seq(Frames) /\ decodeQ \in Seq(Frames \cup {NoFrame})
        /\ \A i \in 1..8 : m[i] \in Nat
    BY <1>5 DEF DecoderType, FilterType, PopDecoded
  <2>3. /\ ClonesInOrder(decodeQ, m[6], m[7]) /\ InOrder(filtering, m[5], m[6]) /\ m[5] <= m[6] /\ m[6] <= m[7]
    BY <2>1 DEF Marked
  <2>a. m[7] \in Nat /\ m[6] \in Nat /\ m[5] \in Nat
    BY <2>2
  <2> DEFINE h == Head(decodeQ)
  <2>4. /\ ClonesInOrder(Tail(decodeQ), m[6], m[7])
        /\ h # NoFrame => /\ m[6] <= h /\ h < m[7] /\ h \in Frames
                          /\ ClonesInOrder(Tail(decodeQ), h + 1, m[7])
    BY <2>2, <2>3, <2>a, ClonesTail
  <2>8. /\ UNCHANGED <<packets, packetQ, decoding, todo, filtered, frameQ, encoderVars>>
        /\ decodeQ' = Tail(decodeQ) /\ fpc = "pop" /\ fpc' \in {"pop", "pull"}
        /\ filtering' = filtering \/ (h # NoFrame /\ filtering' = Append(filtering, h))
    BY <1>5 DEF PopDecoded, readerVars, h
  <2> HIDE DEF h
  <2>b. CASE filtering' = filtering
    <3>1. Marked(e, m)'
      BY <2>1, <2>4, <2>8, <2>b DEF Marked, Waiting, encoderVars
    <3> QED
      BY <3>1
  <2>c. CASE h # NoFrame /\ filtering' = Append(filtering, h)
    <3>0. h \in Nat /\ h \in Frames /\ m[6] <= h /\ h < m[7]
      BY <2>4, <2>c, VideoProcessingAssumption DEF Frames
    <3>x. h \in Nat
      BY <3>0
    <3>1. PICK n \in [1..8 -> Nat] : n[6] = h + 1 /\ \A i \in 1..8 : i # 6 => n[i] = m[i]
      BY <3>x, MarkMoved
    <3>2. m[5] <= h /\ m[5] <= h + 1 /\ h + 1 <= m[7]
      BY <2>3, <2>a, <3>0
    <3>3. InOrder(Append(filtering, h), m[5], h + 1)
      BY <2>2, <2>3, <2>a, <3>0, <3>2, InOrderAppend
    <3>4. /\ n[1] = m[1] /\ n[2] = m[2] /\ n[3] = m[3] /\ n[4] = m[4] /\ n[5] = m[5]
        /\ n[7] = m[7] /\ n[8] = m[8] /\ n[6] = h + 1
      BY <3>1
    <3>5. Marked(e, n)'
      BY <2>1, <2>4, <2>8, <2>c, <3>2, <3>3, <3>4 DEF Marked, Waiting, encoderVars
    <3> QED
      BY <3>1, <3>5
  <2> QED
    BY <2>8, <2>b, <2>c
<1>6. CASE mpc = "join" /\ FramesEnd
  <2> SUFFICES ASSUME NEW e \in Outputs PROVE \E n \in [1..8 -> Nat] : Marked(e, n)'
    BY DEF Ordered
  <2>1. PICK m \in [1..8 -> Nat] : Marked(e, m)
    BY DEF Ordered
  <2>2. /\ UNCHANGED <<packets, packetQ, decoding, decodeQ, filtering, filtered, frameQ, encoderVars>>
        /\ fpc' = "flush"
    BY <1>6 DEF FramesEnd, readerVars, decoderVars
  <2>3. Marked(e, m)'
    BY <2>1, <2>2 DEF Marked, Waiting, encoderVars
  <2> QED
    BY <2>3
<1>7. CASE mpc = "join" /\ PullFiltered
  <2> SUFFICES ASSUME NEW e \in Outputs PROVE \E n \in [1..8 -> Nat] : Marked(e, n)'
    BY DEF Ordered
  <2>1. PICK m \in [1..8 -> Nat] : Marked(e, m)
    BY DEF Ordered
  <2>2. /\ filtering # <<>> /\ filtering \in Seq(Frames)
        /\ \A i \in 1..8 : m[i] \in Nat
    BY <1>7 DEF FilterType, PullFiltered
  <2>3. /\ InOrder(filtering, m[5], m[6]) /\ m[4] <= m[5] /\ m[5] <= m[6]
    BY <2>1 DEF Marked
  <2>a. m[6] \in Nat /\ m[5] \in Nat /\ m[4] \in Nat
    BY <2>2
  <2> DEFINE h == Head(filtering)
  <2>4. /\ h \in Nat /\ m[5] <= h /\ h < m[6] /\ InOrder(Tail(filtering), h + 1, m[6])
    BY <2>2, <2>3, <2>a, InOrderTail
  <2>8. /\ UNCHANGED <<packets, packetQ, decoding, decodeQ, frameQ, encoderVars>>
        /\ filtering' = Tail(filtering) /\ filtered' = h
    BY <1>7 DEF PullFiltered, readerVars, decoderVars, h
  <2> HIDE DEF h
  <2>x. h \in Nat
    BY <2>2, <2>4
  <2>5. PICK n \in [1..8 -> Nat] : n[5] = h + 1 /\ \A i \in 1..8 : i # 5 => n[i] = m[i]
    BY <2>x, MarkMoved
  <2>d. m[4] <= h /\ h < h + 1 /\ m[4] <= h + 1 /\ h + 1 <= m[6]
    BY <2>3, <2>4, <2>a
  <2>e. /\ n[1] = m[1] /\ n[2] = m[2] /\ n[3] = m[3] /\ n[4] = m[4]
        /\ n[6] = m[6] /\ n[7] = m[7] /\ n[8] = m[8] /\ n[5] = h + 1
    BY <2>5
  <2>f. Marked(e, n)'
    BY <2>1, <2>4, <2>8, <2>d, <2>e DEF Marked, encoderVars
  <2> QED
    BY <2>5, <2>f
<1>8. CASE mpc = "join" /\ PullEnds
  <2> SUFFICES ASSUME NEW e \in Outputs PROVE \E n \in [1..8 -> Nat] : Marked(e, n)'
    BY DEF Ordered
  <2>1. PICK m \in [1..8 -> Nat] : Marked(e, m)
    BY DEF Ordered
  <2>2. /\ UNCHANGED <<packets, packetQ, decoding, decodeQ, filtering, filtered, frameQ, encoderVars>>
        /\ fpc' \in {"pop", "close"}
    BY <1>8 DEF PullEnds, readerVars, decoderVars
  <2>3. Marked(e, m)'
    BY <2>1, <2>2 DEF Marked, Waiting, encoderVars
  <2> QED
    BY <2>3
<1>9. ASSUME NEW d \in Outputs, mpc = "join", Distribute(d) PROVE Ordered'
  <2> SUFFICES ASSUME NEW e \in Outputs PROVE \E n \in [1..8 -> Nat] : Marked(e, n)'
    BY DEF Ordered
  <2>1. PICK m \in [1..8 -> Nat] : Marked(e, m)
    BY DEF Ordered
  <2>2. /\ UNCHANGED <<packets, packetQ, decoding, decodeQ, filtering, encoderVars>>
        /\ fpc = "distribute" /\ d \in todo /\ todo' = todo \ {d}
        /\ filtered' = filtered \/ todo' = {}
        /\ frameQ' \in {frameQ, [frameQ EXCEPT ![d] = Append(@, [frame |-> filtered, clone |-> d])]}
    BY <1>9 DEF Distribute, NextOutput, readerVars, decoderVars, filterVars
  <2>3. frameQ \in [Outputs -> Seq(Handles)] /\ filtered \in Frames /\ \A i \in 1..8 : m[i] \in Nat
    BY <2>2 DEF FilterType
  <2>4. CASE frameQ'[e] = frameQ[e]
    <3>1. Waiting(e)' => Waiting(e) /\ filtered' = filtered
      BY <2>2 DEF Waiting
    <3>2. Marked(e, m)'
      BY <2>1, <2>2, <2>4, <3>1, MarkedKept DEF encoderVars
    <3> QED
      BY <3>2
  <2>5. CASE frameQ'[e] # frameQ[e]
    <3>1. e = d /\ frameQ'[d] = Append(frameQ[d], [frame |-> filtered, clone |-> d])
      BY <2>2, <2>3, <2>5
    <3>2. /\ HandlesInOrder(frameQ[d], m[3], m[4]) /\ m[3] <= m[4] /\ m[4] <= m[5]
          /\ m[4] <= filtered /\ filtered < m[5]
      BY <2>1, <2>2, <3>1 DEF Marked, Waiting
    <3> DEFINE x == [frame |-> filtered, clone |-> d]
    <3>3. x \in Handles /\ x.frame = filtered
      BY <2>3, VideoProcessingAssumption DEF Handles, Outputs
    <3> HIDE DEF x
    <3>4. filtered \in Nat /\ m[3] \in Nat /\ m[4] \in Nat /\ m[5] \in Nat
      BY <2>3, VideoProcessingAssumption DEF Frames
    <3>5. m[3] <= filtered /\ m[3] <= filtered + 1 /\ filtered + 1 <= m[5]
      BY <3>2, <3>4
    <3>6. HandlesInOrder(Append(frameQ[d], x), m[3], x.frame + 1)
      BY <2>3, <3>2, <3>3, <3>4, <3>5, HandlesAppend
    <3>7. HandlesInOrder(frameQ'[e], m[3], filtered + 1)
      BY <3>1, <3>3, <3>6 DEF x
    <3>x. filtered \in Nat
      BY <3>4
    <3>8. PICK n \in [1..8 -> Nat] : n[4] = filtered + 1 /\ \A i \in 1..8 : i # 4 => n[i] = m[i]
      BY <3>x, MarkMoved
    <3>9. /\ n[1] = m[1] /\ n[2] = m[2] /\ n[3] = m[3] /\ n[5] = m[5]
        /\ n[6] = m[6] /\ n[7] = m[7] /\ n[8] = m[8] /\ n[4] = filtered + 1
      BY <3>8
    <3>10. ~Waiting(e)'
      BY <2>2, <3>1 DEF Waiting
    <3>11. Marked(e, n)'
      BY <2>1, <2>2, <3>5, <3>7, <3>9, <3>10 DEF Marked, encoderVars
    <3> QED
      BY <3>8, <3>11
  <2> QED
    BY <2>4, <2>5
<1>10. ASSUME NEW d \in Outputs, mpc = "join", Share(d) PROVE Ordered'
  <2> SUFFICES ASSUME NEW e \in Outputs PROVE \E n \in [1..8 -> Nat] : Marked(e, n)'
    BY DEF Ordered
  <2>1. PICK m \in [1..8 -> Nat] : Marked(e, m)
    BY DEF Ordered
  <2>2. /\ UNCHANGED <<packets, packetQ, decoding, decodeQ, filtering, encoderVars>>
        /\ fpc = "share" /\ d \in todo /\ todo' = todo \ {d}
        /\ filtered' = filtered \/ todo' = {}
        /\ frameQ' \in {frameQ, [frameQ EXCEPT ![d] = Append(@, [frame |-> filtered, clone |-> 0])]}
    BY <1>10 DEF Share, NextOutput, readerVars, decoderVars, filterVars
  <2>3. frameQ \in [Outputs -> Seq(Handles)] /\ filtered \in Frames /\ \A i \in 1..8 : m[i] \in Nat
    BY <2>2 DEF FilterType
  <2>4. CASE frameQ'[e] = frameQ[e]
    <3>1. Waiting(e)' => Waiting(e) /\ filtered' = filtered
      BY <2>2 DEF Waiting
    <3>2. Marked(e, m)'
      BY <2>1, <2>2, <2>4, <3>1, MarkedKept DEF encoderVars
    <3> QED
      BY <3>2
  <2>5. CASE frameQ'[e] # frameQ[e]
    <3>1. e = d /\ frameQ'[d] = Append(frameQ[d], [frame |-> filtered, clone |-> 0])
      BY <2>2, <2>3, <2>5
    <3>2. /\ HandlesInOrder(frameQ[d], m[3], m[4]) /\ m[3] <= m[4] /\ m[4] <= m[5]
          /\ m[4] <= filtered /\ filtered < m[5]
      BY <2>1, <2>2, <3>1 DEF Marked, Waiting
    <3> DEFINE x == [frame |-> filtered, clone |-> 0]
    <3>3. x \in Handles /\ x.frame = filtered
      BY <2>3, VideoProcessingAssumption DEF Handles, Outputs
    <3> HIDE DEF x
    <3>4. filtered \in Nat /\ m[3] \in Nat /\ m[4] \in Nat /\ m[5] \in Nat
      BY <2>3, VideoProcessingAssumption DEF Frames
    <3>5. m[3] <= filtered /\ m[3] <= filtered + 1 /\ filtered + 1 <= m[5]
      BY <3>2, <3>4
    <3>6. HandlesInOrder(Append(frameQ[d], x), m[3], x.frame + 1)
      BY <2>3, <3>2, <3>3, <3>4, <3>5, HandlesAppend
    <3>7. HandlesInOrder(frameQ'[e], m[3], filtered + 1)
      BY <3>1, <3>3, <3>6 DEF x
    <3>x. filtered \in Nat
      BY <3>4
    <3>8. PICK n \in [1..8 -> Nat] : n[4] = filtered + 1 /\ \A i \in 1..8 : i # 4 => n[i] = m[i]
      BY <3>x, MarkMoved
    <3>9. /\ n[1] = m[1] /\ n[2] = m[2] /\ n[3] = m[3] /\ n[5] = m[5]
        /\ n[6] = m[6] /\ n[7] = m[7] /\ n[8] = m[8] /\ n[4] = filtered + 1
      BY <3>8
    <3>10. ~Waiting(e)'
      BY <2>2, <3>1 DEF Waiting
    <3>11. Marked(e, n)'
      BY <2>1, <2>2, <3>5, <3>7, <3>9, <3>10 DEF Marked, encoderVars
    <3> QED
      BY <3>8, <3>11
  <2> QED
    BY <2>4, <2>5
<1>11. ASSUME NEW d \in Outputs, mpc = "join", FinishQueue(d) PROVE Ordered'
  <2> SUFFICES ASSUME NEW e \in Outputs PROVE \E n \in [1..8 -> Nat] : Marked(e, n)'
    BY DEF Ordered
  <2>1. PICK m \in [1..8 -> Nat] : Marked(e, m)
    BY DEF Ordered
  <2>2. /\ UNCHANGED <<packets, packetQ, decoding, decodeQ, filtering, filtered, frameQ, encoderVars>>
        /\ fpc' \in {"close", "done"}
    BY <1>11 DEF FinishQueue, readerVars, decoderVars
  <2>3. Marked(e, m)'
    BY <2>1, <2>2 DEF Marked, Waiting, encoderVars
  <2> QED
    BY <2>3
<1>12. ASSUME NEW d \in Outputs, d \in opened, mpc = "join", PopFrame(d) PROVE Ordered'
  <2> SUFFICES ASSUME NEW e \in Outputs PROVE \E n \in [1..8 -> Nat] : Marked(e, n)'
    BY DEF Ordered
  <2>1. PICK m \in [1..8 -> Nat] : Marked(e, m)
    BY DEF Ordered
  <2>2. e # d => Marked(e, m)'
    <3> SUFFICES ASSUME e # d PROVE Marked(e, m)'
      OBVIOUS
    <3>1. /\ epc'[e] = epc[e] /\ taken'[e] = taken[e] /\ frameQ'[e] = frameQ[e]
          /\ coding'[e] = coding[e] /\ output'[e] = output[e]
          /\ UNCHANGED <<packets, packetQ, decoding, decodeQ, fpc, todo, filtered, filtering>>
      BY <1>12 DEF PopFrame, mainVars, readerVars, decoderVars, filterVars, encoderVars, FilterType, EncoderType
    <3>2. Waiting(e)' => Waiting(e) /\ filtered' = filtered
      BY <3>1 DEF Waiting
    <3>3. \A f \in freed' : f \in freed \/ f.clone # e
      BY <1>12 DEF PopFrame, mainVars, readerVars, decoderVars, filterVars, encoderVars
    <3> QED
      BY <2>1, <3>1, <3>2, <3>3, MarkedKept
  <2>3. CASE e = d
    <3>1. /\ UNCHANGED <<packets, packetQ, decoding, decodeQ, fpc, todo, filtered, filtering, coding, output, freed>>
          /\ frameQ[e] # <<>> /\ frameQ'[e] = Tail(frameQ[e]) /\ taken'[e] = <<Head(frameQ[e])>>
          /\ epc[e] = "pop" /\ epc'[e] = "encode"
      BY <1>12, <2>3 DEF PopFrame, FilterType, EncoderType, mainVars, readerVars, decoderVars, filterVars, encoderVars
    <3>2. frameQ[e] \in Seq(Handles) /\ \A i \in 1..8 : m[i] \in Nat
      BY DEF FilterType
    <3>3. /\ HandlesInOrder(frameQ[e], m[3], m[4]) /\ m[2] <= m[3] /\ m[3] <= m[4]
          /\ \A f \in freed : f.clone = e => f.frame < m[3]
      BY <2>1 DEF Marked
    <3>4. m[2] \in Nat /\ m[3] \in Nat /\ m[4] \in Nat
      BY <3>2
    <3> DEFINE h == Head(frameQ[e])
    <3>5. /\ h.frame \in Nat /\ m[3] <= h.frame /\ h.frame < m[4]
          /\ HandlesInOrder(Tail(frameQ[e]), h.frame + 1, m[4])
      BY <3>1, <3>2, <3>3, <3>4, HandlesTail
    <3>6. taken'[e][1] = h
      BY <3>1
    <3> HIDE DEF h
    <3>x. h.frame \in Nat
      BY <3>2, <3>5
    <3>7. PICK n \in [1..8 -> Nat] : n[3] = h.frame + 1 /\ \A i \in 1..8 : i # 3 => n[i] = m[i]
      BY <3>x, MarkMoved
    <3>8. /\ n[1] = m[1] /\ n[2] = m[2] /\ n[4] = m[4] /\ n[5] = m[5]
        /\ n[6] = m[6] /\ n[7] = m[7] /\ n[8] = m[8] /\ n[3] = h.frame + 1
      BY <3>7
    <3>9. /\ m[2] <= h.frame /\ m[2] <= h.frame + 1 /\ h.frame < h.frame + 1 /\ h.frame + 1 <= m[4]
      BY <3>3, <3>4, <3>5
    <3>10. \A f \in freed : f.clone = e => f.frame < h.frame + 1 /\ f.frame < h.frame
      <4> SUFFICES ASSUME NEW f \in freed, f.clone = e PROVE f.frame < h.frame + 1 /\ f.frame < h.frame
        OBVIOUS
      <4>1. f.frame \in Nat
        BY VideoProcessingAssumption DEF EncoderType, Handles, Frames
      <4> QED
        BY <3>3, <3>4, <3>5, <4>1
    <3>11. Waiting(e)' <=> Waiting(e)
      BY <3>1 DEF Waiting
    <3>12. Marked(e, n)'
      BY <2>1, <3>1, <3>5, <3>6, <3>8, <3>9, <3>10, <3>11 DEF Marked
    <3> QED
      BY <3>7, <3>12
  <2> QED
    BY <2>1, <2>2, <2>3
<1>13. ASSUME NEW d \in Outputs, d \in opened, mpc = "join", QueueEnds(d) PROVE Ordered'
  <2> SUFFICES ASSUME NEW e \in Outputs PROVE \E n \in [1..8 -> Nat] : Marked(e, n)'
    BY DEF Ordered
  <2>1. PICK m \in [1..8 -> Nat] : Marked(e, m)
    BY DEF Ordered
  <2>2. e # d => Marked(e, m)'
    <3> SUFFICES ASSUME e # d PROVE Marked(e, m)'
      OBVIOUS
    <3>1. /\ epc'[e] = epc[e] /\ taken'[e] = taken[e] /\ frameQ'[e] = frameQ[e]
          /\ coding'[e] = coding[e] /\ output'[e] = output[e]
          /\ UNCHANGED <<packets, packetQ, decoding, decodeQ, fpc, todo, filtered, filtering>>
      BY <1>13 DEF QueueEnds, mainVars, readerVars, decoderVars, filterVars, encoderVars, FilterType, EncoderType
    <3>2. Waiting(e)' => Waiting(e) /\ filtered' = filtered
      BY <3>1 DEF Waiting
    <3>3. \A f \in freed' : f \in freed \/ f.clone # e
      BY <1>13 DEF QueueEnds, mainVars, readerVars, decoderVars, filterVars, encoderVars
    <3> QED
      BY <2>1, <3>1, <3>2, <3>3, MarkedKept
  <2>3. CASE e = d
    <3>1. /\ UNCHANGED <<packets, packetQ, decoding, decodeQ, fpc, todo, filtered, filtering, frameQ, taken, coding, output, freed>>
          /\ epc[e] = "pop" /\ epc'[e] = "flush"
      BY <1>13, <2>3 DEF QueueEnds, EncoderType, mainVars, readerVars, decoderVars, filterVars, encoderVars
    <3>2. Marked(e, m)'
      BY <2>1, <3>1 DEF Marked, Waiting
    <3> QED
      BY <3>2
  <2> QED
    BY <2>1, <2>2, <2>3
<1>14. ASSUME NEW d \in Outputs, d \in opened, mpc = "join", SkipFrame(d) PROVE Ordered'
  <2> SUFFICES ASSUME NEW e \in Outputs PROVE \E n \in [1..8 -> Nat] : Marked(e, n)'
    BY DEF Ordered
  <2>1. PICK m \in [1..8 -> Nat] : Marked(e, m)
    BY DEF Ordered
  <2>2. e # d => Marked(e, m)'
    <3> SUFFICES ASSUME e # d PROVE Marked(e, m)'
      OBVIOUS
    <3>1. /\ epc'[e] = epc[e] /\ taken'[e] = taken[e] /\ frameQ'[e] = frameQ[e]
          /\ coding'[e] = coding[e] /\ output'[e] = output[e]
          /\ UNCHANGED <<packets, packetQ, decoding, decodeQ, fpc, todo, filtered, filtering>>
      BY <1>14 DEF SkipFrame, FreeTaken, mainVars, readerVars, decoderVars, filterVars, encoderVars, FilterType, EncoderType
    <3>2. Waiting(e)' => Waiting(e) /\ filtered' = filtered
      BY <3>1 DEF Waiting
    <3>3. \A f \in freed' : f \in freed \/ f.clone # e
      <4>1. freed' = freed \/ (epc[d] \in {"encode", "receive"} /\ freed' = freed \cup {Head(taken[d])})
        BY <1>14 DEF SkipFrame, FreeTaken
      <4>2. epc[d] \in {"encode", "receive"} => Head(taken[d]).clone \in {0, d}
        BY TakenFrame DEF Cloned
      <4> QED
        BY <4>1, <4>2, Places
    <3> QED
      BY <2>1, <3>1, <3>2, <3>3, MarkedKept
  <2>3. CASE e = d
    <3>1. /\ UNCHANGED <<packets, packetQ, decoding, decodeQ, fpc, todo, filtered, filtering, frameQ, coding, output>>
          /\ freed' = freed \cup {Head(taken[e])} /\ taken'[e] = <<>>
          /\ epc[e] \in {"encode", "receive"} /\ epc'[e] = "pop"
      BY <1>14, <2>3 DEF SkipFrame, FreeTaken, EncoderType, mainVars, readerVars, decoderVars, filterVars, encoderVars
    <3>2. Head(taken[e]) = taken[e][1]
      BY <3>1, TakenFrame
    <3>3. \A f \in freed' : f.clone = e => f.frame < m[3]
      BY <2>1, <3>1, <3>2 DEF Marked
    <3>4. Marked(e, m)'
      BY <2>1, <3>1, <3>3 DEF Marked, Waiting
    <3> QED
      BY <3>4
  <2> QED
    BY <2>1, <2>2, <2>3
<1>15. ASSUME NEW d \in Outputs, d \in opened, mpc = "join", SendFrame(d) PROVE Ordered'
  <2> SUFFICES ASSUME NEW e \in Outputs PROVE \E n \in [1..8 -> Nat] : Marked(e, n)'
    BY DEF Ordered
  <2>1. PICK m \in [1..8 -> Nat] : Marked(e, m)
    BY DEF Ordered
  <2>2. e # d => Marked(e, m)'
    <3> SUFFICES ASSUME e # d PROVE Marked(e, m)'
      OBVIOUS
    <3>1. /\ epc'[e] = epc[e] /\ taken'[e] = taken[e] /\ frameQ'[e] = frameQ[e]
          /\ coding'[e] = coding[e] /\ output'[e] = output[e]
          /\ UNCHANGED <<packets, packetQ, decoding, decodeQ, fpc, todo, filtered, filtering>>
      BY <1>15 DEF SendFrame, mainVars, readerVars, decoderVars, filterVars, encoderVars, FilterType, EncoderType
    <3>2. Waiting(e)' => Waiting(e) /\ filtered' = filtered
      BY <3>1 DEF Waiting
    <3>3. \A f \in freed' : f \in freed \/ f.clone # e
      BY <1>15 DEF SendFrame, mainVars, readerVars, decoderVars, filterVars, encoderVars
    <3> QED
      BY <2>1, <3>1, <3>2, <3>3, MarkedKept
  <2>3. CASE e = d
    <3>1. /\ UNCHANGED <<packets, packetQ, decoding, decodeQ, fpc, todo, filtered, filtering, frameQ, taken, output, freed>>
          /\ coding'[e] = Append(coding[e], Head(taken[e]).frame)
          /\ epc[e] = "encode" /\ epc'[e] = "receive"
      BY <1>15, <2>3 DEF SendFrame, EncoderType, mainVars, readerVars, decoderVars, filterVars, encoderVars
    <3> DEFINE x == taken[e][1].frame
    <3>2. Head(taken[e]).frame = x /\ x \in Frames /\ x \in Nat
      BY <3>1, TakenFrame, VideoProcessingAssumption DEF Handles, Frames
    <3>3. /\ InOrder(coding[e], m[1], m[2]) /\ m[1] <= m[2] /\ m[2] <= m[3] /\ m[2] <= x /\ x < m[3]
          /\ coding[e] \in Seq(Frames) /\ \A i \in 1..8 : m[i] \in Nat
      BY <2>1, <3>1 DEF Marked, EncoderType
    <3> HIDE DEF x
    <3>4. m[1] \in Nat /\ m[2] \in Nat /\ m[3] \in Nat
      BY <3>3
    <3>5. m[1] <= x /\ m[1] <= x + 1 /\ x + 1 <= m[3] /\ x + 1 <= x + 1
      BY SMTT(30), <3>2, <3>3, <3>4
    <3>6. InOrder(Append(coding[e], x), m[1], x + 1)
      BY <3>2, <3>3, <3>4, <3>5, InOrderAppend
    <3>x. x \in Nat
      BY <3>2, <3>3
    <3>7. PICK n \in [1..8 -> Nat] : n[2] = x + 1 /\ \A i \in 1..8 : i # 2 => n[i] = m[i]
      BY <3>x, MarkMoved
    <3>8. /\ n[1] = m[1] /\ n[3] = m[3] /\ n[4] = m[4] /\ n[5] = m[5]
        /\ n[6] = m[6] /\ n[7] = m[7] /\ n[8] = m[8] /\ n[2] = x + 1
      BY <3>7
    <3>9. x = taken[e][1].frame
      BY DEF x
    <3>10. Marked(e, n)'
      BY <2>1, <3>1, <3>2, <3>3, <3>5, <3>6, <3>8, <3>9 DEF Marked, Waiting
    <3> QED
      BY <3>7, <3>10
  <2> QED
    BY <2>1, <2>2, <2>3
<1>16. ASSUME NEW d \in Outputs, d \in opened, mpc = "join", WritePacket(d) PROVE Ordered'
  <2> SUFFICES ASSUME NEW e \in Outputs PROVE \E n \in [1..8 -> Nat] : Marked(e, n)'
    BY DEF Ordered
  <2>1. PICK m \in [1..8 -> Nat] : Marked(e, m)
    BY DEF Ordered
  <2>2. e # d => Marked(e, m)'
    <3> SUFFICES ASSUME e # d PROVE Marked(e, m)'
      OBVIOUS
    <3>1. /\ epc'[e] = epc[e] /\ taken'[e] = taken[e] /\ frameQ'[e] = frameQ[e]
          /\ coding'[e] = coding[e] /\ output'[e] = output[e]
          /\ UNCHANGED <<packets, packetQ, decoding, decodeQ, fpc, todo, filtered, filtering>>
      BY <1>16 DEF WritePacket, mainVars, readerVars, decoderVars, filterVars, encoderVars, FilterType, EncoderType
    <3>2. Waiting(e)' => Waiting(e) /\ filtered' = filtered
      BY <3>1 DEF Waiting
    <3>3. \A f \in freed' : f \in freed \/ f.clone # e
      BY <1>16 DEF WritePacket, mainVars, readerVars, decoderVars, filterVars, encoderVars
    <3> QED
      BY <2>1, <3>1, <3>2, <3>3, MarkedKept
  <2>3. CASE e = d
    <3>1. /\ UNCHANGED <<packets, packetQ, decoding, decodeQ, fpc, todo, filtered, filtering, frameQ, taken, epc, freed>>
          /\ coding[e] # <<>> /\ coding'[e] = Tail(coding[e])
          /\ output'[e] = Append(output[e], Head(coding[e]))
      BY <1>16, <2>3 DEF WritePacket, EncoderType, mainVars, readerVars, decoderVars, filterVars, encoderVars
    <3> DEFINE h == Head(coding[e])
    <3>2. /\ InOrder(coding[e], m[1], m[2]) /\ InOrder(output[e], 0, m[1]) /\ m[1] <= m[2]
          /\ coding[e] \in Seq(Frames) /\ output[e] \in Seq(Frames) /\ \A i \in 1..8 : m[i] \in Nat
      BY <2>1, <3>1 DEF Marked, EncoderType
    <3>3. m[1] \in Nat /\ m[2] \in Nat
      BY <3>2
    <3>4. /\ h \in Nat /\ m[1] <= h /\ h < m[2] /\ InOrder(Tail(coding[e]), h + 1, m[2])
      BY <3>1, <3>2, <3>3, InOrderTail
    <3>5. h \in Frames
      BY <3>1, <3>2, TailSeq
    <3> HIDE DEF h
    <3>6. InOrder(Append(output[e], h), 0, h + 1)
      BY SMTT(30), <3>2, <3>3, <3>4, <3>5, InOrderAppend
    <3>7. h + 1 <= m[2]
      BY <3>3, <3>4
    <3>x. h \in Nat
      BY <3>2, <3>4
    <3>8. PICK n \in [1..8 -> Nat] : n[1] = h + 1 /\ \A i \in 1..8 : i # 1 => n[i] = m[i]
      BY <3>x, MarkMoved
    <3>9. /\ n[2] = m[2] /\ n[3] = m[3] /\ n[4] = m[4] /\ n[5] = m[5]
        /\ n[6] = m[6] /\ n[7] = m[7] /\ n[8] = m[8] /\ n[1] = h + 1
      BY <3>8
    <3>10. h = Head(coding[e])
      BY DEF h
    <3>11. Marked(e, n)'
      BY <2>1, <3>1, <3>4, <3>6, <3>7, <3>9, <3>10 DEF Marked, Waiting
    <3> QED
      BY <3>8, <3>11
  <2> QED
    BY <2>1, <2>2, <2>3
<1>17. ASSUME NEW d \in Outputs, d \in opened, mpc = "join", WriteFails(d) PROVE Ordered'
  <2> SUFFICES ASSUME NEW e \in Outputs PROVE \E n \in [1..8 -> Nat] : Marked(e, n)'
    BY DEF Ordered
  <2>1. PICK m \in [1..8 -> Nat] : Marked(e, m)
    BY DEF Ordered
  <2>2. e # d => Marked(e, m)'
    <3> SUFFICES ASSUME e # d PROVE Marked(e, m)'
      OBVIOUS
    <3>1. /\ epc'[e] = epc[e] /\ taken'[e] = taken[e] /\ frameQ'[e] = frameQ[e]
          /\ coding'[e] = coding[e] /\ output'[e] = output[e]
          /\ UNCHANGED <<packets, packetQ, decoding, decodeQ, fpc, todo, filtered, filtering>>
      BY <1>17 DEF WriteFails, FreeTaken, mainVars, readerVars, decoderVars, filterVars, encoderVars, FilterType, EncoderType
    <3>2. Waiting(e)' => Waiting(e) /\ filtered' = filtered
      BY <3>1 DEF Waiting
    <3>3. \A f \in freed' : f \in freed \/ f.clone # e
      <4>1. freed' = freed \/ (epc[d] \in {"encode", "receive"} /\ freed' = freed \cup {Head(taken[d])})
        BY <1>17 DEF WriteFails, FreeTaken
      <4>2. epc[d] \in {"encode", "receive"} => Head(taken[d]).clone \in {0, d}
        BY TakenFrame DEF Cloned
      <4> QED
        BY <4>1, <4>2, Places
    <3> QED
      BY <2>1, <3>1, <3>2, <3>3, MarkedKept
  <2>3. CASE e = d
    <3>1. /\ UNCHANGED <<packets, packetQ, decoding, decodeQ, fpc, todo, filtered, filtering, frameQ, output>>
          /\ coding[e] # <<>> /\ coding'[e] = Tail(coding[e])
      BY <1>17, <2>3 DEF WriteFails, EncoderType, mainVars, readerVars, decoderVars, filterVars, encoderVars
    <3>2. /\ InOrder(coding[e], m[1], m[2]) /\ coding[e] \in Seq(Frames)
          /\ m[1] \in Nat /\ m[2] \in Nat
      BY <2>1, <3>1 DEF Marked, EncoderType
    <3>3. InOrder(coding'[e], m[1], m[2])
      BY <3>1, <3>2, InOrderTail
    <3>4. CASE epc[e] = "receive"
      <4>1. freed' = freed \cup {Head(taken[e])} /\ epc'[e] = "pop"
        BY <1>17, <2>3, <3>4 DEF WriteFails, FreeTaken, EncoderType
      <4>2. Head(taken[e]) = taken[e][1]
        BY <3>4, TakenFrame
      <4>3. \A f \in freed' : f.clone = e => f.frame < m[3]
        BY <2>1, <3>4, <4>1, <4>2 DEF Marked
      <4> QED
        BY <2>1, <3>1, <3>3, <4>1, <4>3 DEF Marked, Waiting
    <3>5. CASE epc[e] = "flush"
      <4>1. epc'[e] = "done" /\ UNCHANGED <<taken, freed>>
        BY <1>17, <2>3, <3>5 DEF WriteFails, EncoderType
      <4> QED
        BY <2>1, <3>1, <3>3, <3>5, <4>1 DEF Marked, Waiting
    <3> QED
      BY <1>17, <2>3, <3>4, <3>5 DEF WriteFails
  <2> QED
    BY <2>1, <2>2, <2>3
<1>18. ASSUME NEW d \in Outputs, d \in opened, mpc = "join", PacketsDry(d) PROVE Ordered'
  <2> SUFFICES ASSUME NEW e \in Outputs PROVE \E n \in [1..8 -> Nat] : Marked(e, n)'
    BY DEF Ordered
  <2>1. PICK m \in [1..8 -> Nat] : Marked(e, m)
    BY DEF Ordered
  <2>2. e # d => Marked(e, m)'
    <3> SUFFICES ASSUME e # d PROVE Marked(e, m)'
      OBVIOUS
    <3>1. /\ epc'[e] = epc[e] /\ taken'[e] = taken[e] /\ frameQ'[e] = frameQ[e]
          /\ coding'[e] = coding[e] /\ output'[e] = output[e]
          /\ UNCHANGED <<packets, packetQ, decoding, decodeQ, fpc, todo, filtered, filtering>>
      BY <1>18 DEF PacketsDry, FreeTaken, mainVars, readerVars, decoderVars, filterVars, encoderVars, FilterType, EncoderType
    <3>2. Waiting(e)' => Waiting(e) /\ filtered' = filtered
      BY <3>1 DEF Waiting
    <3>3. \A f \in freed' : f \in freed \/ f.clone # e
      <4>1. freed' = freed \/ (epc[d] \in {"encode", "receive"} /\ freed' = freed \cup {Head(taken[d])})
        BY <1>18 DEF PacketsDry, FreeTaken
      <4>2. epc[d] \in {"encode", "receive"} => Head(taken[d]).clone \in {0, d}
        BY TakenFrame DEF Cloned
      <4> QED
        BY <4>1, <4>2, Places
    <3> QED
      BY <2>1, <3>1, <3>2, <3>3, MarkedKept
  <2>3. CASE e = d
    <3>1. /\ UNCHANGED <<packets, packetQ, decoding, decodeQ, fpc, todo, filtered, filtering, frameQ, coding, output>>
          /\ freed' = freed \cup {Head(taken[e])} /\ taken'[e] = <<>>
          /\ epc[e] \in {"encode", "receive"} /\ epc'[e] = "pop"
      BY <1>18, <2>3 DEF PacketsDry, FreeTaken, EncoderType, mainVars, readerVars, decoderVars, filterVars, encoderVars
    <3>2. Head(taken[e]) = taken[e][1]
      BY <3>1, TakenFrame
    <3>3. \A f \in freed' : f.clone = e => f.frame < m[3]
      BY <2>1, <3>1, <3>2 DEF Marked
    <3>4. Marked(e, m)'
      BY <2>1, <3>1, <3>3 DEF Marked, Waiting
    <3> QED
      BY <3>4
  <2> QED
    BY <2>1, <2>2, <2>3
<1>19. ASSUME NEW d \in Outputs, d \in opened, mpc = "join", FlushEnds(d) PROVE Ordered'
  <2> SUFFICES ASSUME NEW e \in Outputs PROVE \E n \in [1..8 -> Nat] : Marked(e, n)'
    BY DEF Ordered
  <2>1. PICK m \in [1..8 -> Nat] : Marked(e, m)
    BY DEF Ordered
  <2>2. e # d => Marked(e, m)'
    <3> SUFFICES ASSUME e # d PROVE Marked(e, m)'
      OBVIOUS
    <3>1. /\ epc'[e] = epc[e] /\ taken'[e] = taken[e] /\ frameQ'[e] = frameQ[e]
          /\ coding'[e] = coding[e] /\ output'[e] = output[e]
          /\ UNCHANGED <<packets, packetQ, decoding, decodeQ, fpc, todo, filtered, filtering>>
      BY <1>19 DEF FlushEnds, mainVars, readerVars, decoderVars, filterVars, encoderVars, FilterType, EncoderType
    <3>2. Waiting(e)' => Waiting(e) /\ filtered' = filtered
      BY <3>1 DEF Waiting
    <3>3. \A f \in freed' : f \in freed \/ f.clone # e
      BY <1>19 DEF FlushEnds, mainVars, readerVars, decoderVars, filterVars, encoderVars
    <3> QED
      BY <2>1, <3>1, <3>2, <3>3, MarkedKept
  <2>3. CASE e = d
    <3>1. /\ UNCHANGED <<packets, packetQ, decoding, decodeQ, fpc, todo, filtered, filtering, frameQ, taken, coding, output, freed>>
          /\ epc[e] = "flush" /\ epc'[e] = "done"
      BY <1>19, <2>3 DEF FlushEnds, EncoderType, mainVars, readerVars, decoderVars, filterVars, encoderVars
    <3>2. Marked(e, m)'
      BY <2>1, <3>1 DEF Marked, Waiting
    <3> QED
      BY <3>2
  <2> QED
    BY <2>1, <2>2, <2>3
<1> QED
  BY <1>1, <1>2, <1>3, <1>4, <1>5, <1>6, <1>7, <1>8, <1>9, <1>10, <1>11, <1>12, <1>13, <1>14,
     <1>15, <1>16, <1>17, <1>18, <1>19 DEF Next, Main, Reader, Decoder, Filter, Encoder,
     Terminated, InitializeDecoder, InitializeEncoders, InitializeFilter, JoinAndReport,
     ReaderStart, ReadEnds, ReaderFinishes, DecoderStart, PacketsEnd, ReceiveEnds,
     DecoderFinishes, UseFreed, Fails, vars, mainVars, readerVars, decoderVars, filterVars,
     encoderVars

-----------------------------------------------------------------------------
(* The owners of the frames *)

LEMMA AppendMembers ==
    ASSUME NEW S, NEW s \in Seq(S), NEW x \in S
    PROVE  \A i \in 1..Len(Append(s, x)) : (i \in 1..Len(s) /\ Append(s, x)[i] = s[i]) \/ Append(s, x)[i] = x
<1> DEFINE t == Append(s, x)
<1>1. /\ Len(s) \in Nat /\ Len(t) = Len(s) + 1 /\ t[Len(s) + 1] = x
      /\ \A i \in 1..Len(s) : t[i] = s[i]
  BY AppendSeq
<1> HIDE DEF t
<1>2. \A i \in 1..Len(t) : (i \in 1..Len(s) /\ t[i] = s[i]) \/ t[i] = x
  BY <1>1
<1> QED
  BY <1>2 DEF t

LEMMA TailMembers ==
    ASSUME NEW S, NEW s \in Seq(S), s # <<>>
    PROVE  /\ \A i \in 1..Len(Tail(s)) : i + 1 \in 1..Len(s) /\ Tail(s)[i] = s[i + 1]
           /\ 1 \in 1..Len(s) /\ Head(s) = s[1]
<1> DEFINE t == Tail(s)
<1>1. /\ Len(s) \in Nat /\ Len(s) >= 1 /\ Head(s) = s[1] /\ Len(t) = Len(s) - 1
      /\ \A i \in 1..Len(t) : t[i] = s[i + 1]
  BY TailSeq
<1> HIDE DEF t
<1>2. (\A i \in 1..Len(t) : i + 1 \in 1..Len(s) /\ t[i] = s[i + 1]) /\ 1 \in 1..Len(s) /\ Head(s) = s[1]
  BY <1>1
<1> QED
  BY <1>2 DEF t

LEMMA ClonedInit == Init => Cloned
<1>1. 1..Len(<<>>) = {}
  BY EmptyLen
<1> QED
  BY <1>1 DEF Init, Cloned

LEMMA ClonedStep == TypeOK /\ Cloned /\ Next => Cloned'
<1> SUFFICES ASSUME MainType, ReaderType, DecoderType, FilterType, EncoderType, todo \subseteq
                 opened, Cloned, Next
             PROVE  Cloned'
  BY TypeParts
<1>1. CASE UNCHANGED <<frameQ, taken, epc>>
  BY <1>1 DEF Cloned
<1>2. ASSUME NEW d \in Outputs, mpc = "join", Distribute(d) PROVE Cloned'
  <2>1. /\ taken' = taken /\ epc' = epc
        /\ frameQ' \in {frameQ, [frameQ EXCEPT ![d] = Append(@, [frame |-> filtered, clone |-> d])]}
    BY <1>2 DEF Distribute, encoderVars
  <2> DEFINE x == [frame |-> filtered, clone |-> d]
  <2>2. x \in Handles /\ x.clone = d
    BY <1>2, VideoProcessingAssumption DEF FilterType, Distribute, Handles, Outputs
  <2> HIDE DEF x
  <2>3. frameQ'[d] \in {frameQ[d], Append(frameQ[d], x)} /\ \A e \in Outputs \ {d} : frameQ'[e] = frameQ[e]
    BY <2>1 DEF FilterType, x
  <2>4. frameQ[d] \in Seq(Handles)
    BY DEF FilterType
  <2>5. \A i \in 1..Len(frameQ'[d]) : (i \in 1..Len(frameQ[d]) /\ frameQ'[d][i] = frameQ[d][i]) \/ frameQ'[d][i] = x
    BY SMTT(30), <2>2, <2>3, <2>4, AppendMembers
  <2> QED
    BY <2>1, <2>2, <2>3, <2>5 DEF Cloned
<1>3. ASSUME NEW d \in Outputs, mpc = "join", Share(d) PROVE Cloned'
  <2>1. /\ taken' = taken /\ epc' = epc
        /\ frameQ' \in {frameQ, [frameQ EXCEPT ![d] = Append(@, [frame |-> filtered, clone |-> 0])]}
    BY <1>3 DEF Share, encoderVars
  <2> DEFINE x == [frame |-> filtered, clone |-> 0]
  <2>2. x \in Handles /\ x.clone = 0
    BY <1>3, VideoProcessingAssumption DEF FilterType, Share, Handles, Outputs
  <2> HIDE DEF x
  <2>3. frameQ'[d] \in {frameQ[d], Append(frameQ[d], x)} /\ \A e \in Outputs \ {d} : frameQ'[e] = frameQ[e]
    BY <2>1 DEF FilterType, x
  <2>4. frameQ[d] \in Seq(Handles)
    BY DEF FilterType
  <2>5. \A i \in 1..Len(frameQ'[d]) : (i \in 1..Len(frameQ[d]) /\ frameQ'[d][i] = frameQ[d][i]) \/ frameQ'[d][i] = x
    BY <2>2, <2>3, <2>4, AppendMembers
  <2> QED
    BY <2>1, <2>2, <2>3, <2>5 DEF Cloned
<1>4. ASSUME NEW d \in Outputs, d \in opened, mpc = "join", PopFrame(d) PROVE Cloned'
  <2>1. /\ \A e \in Outputs \ {d} : frameQ'[e] = frameQ[e] /\ taken'[e] = taken[e] /\ epc'[e] = epc[e]
        /\ frameQ'[d] = Tail(frameQ[d]) /\ taken'[d] = <<Head(frameQ[d])>> /\ frameQ[d] # <<>>
        /\ frameQ[d] \in Seq(Handles)
    BY <1>4 DEF PopFrame, FilterType, EncoderType
  <2>2. /\ \A i \in 1..Len(Tail(frameQ[d])) : i + 1 \in 1..Len(frameQ[d]) /\ Tail(frameQ[d])[i] = frameQ[d][i + 1]
        /\ 1 \in 1..Len(frameQ[d]) /\ Head(frameQ[d]) = frameQ[d][1]
    BY <2>1, TailMembers
  <2>3. \A i \in 1..Len(frameQ'[d]) : frameQ'[d][i].clone \in {0, d}
    BY <2>1, <2>2 DEF Cloned
  <2>4. taken'[d][1].clone \in {0, d}
    BY <2>1, <2>2 DEF Cloned
  <2> QED
    BY <2>1, <2>3, <2>4 DEF Cloned
<1>5. ASSUME NEW d \in Outputs, d \in opened, mpc = "join", QueueEnds(d) PROVE Cloned'
  <2>1. /\ frameQ' = frameQ
        /\ \A e \in Outputs : epc'[e] \in {"encode", "receive"} =>
             epc[e] \in {"encode", "receive"} /\ taken'[e] = taken[e]
    BY <1>5 DEF QueueEnds, filterVars, EncoderType
  <2> QED
    BY <2>1 DEF Cloned
<1>6. ASSUME NEW d \in Outputs, d \in opened, mpc = "join", SkipFrame(d) PROVE Cloned'
  <2>1. /\ frameQ' = frameQ
        /\ \A e \in Outputs : epc'[e] \in {"encode", "receive"} =>
             epc[e] \in {"encode", "receive"} /\ taken'[e] = taken[e]
    BY <1>6 DEF SkipFrame, FreeTaken, filterVars, EncoderType
  <2> QED
    BY <2>1 DEF Cloned
<1>7. ASSUME NEW d \in Outputs, d \in opened, mpc = "join", SendFrame(d) PROVE Cloned'
  <2>1. /\ frameQ' = frameQ
        /\ \A e \in Outputs : epc'[e] \in {"encode", "receive"} =>
             epc[e] \in {"encode", "receive"} /\ taken'[e] = taken[e]
    BY <1>7 DEF SendFrame, filterVars, EncoderType
  <2> QED
    BY <2>1 DEF Cloned
<1>8. ASSUME NEW d \in Outputs, d \in opened, mpc = "join", WriteFails(d) PROVE Cloned'
  <2>1. /\ frameQ' = frameQ
        /\ \A e \in Outputs : epc'[e] \in {"encode", "receive"} =>
             epc[e] \in {"encode", "receive"} /\ taken'[e] = taken[e]
    BY <1>8 DEF WriteFails, FreeTaken, filterVars, EncoderType
  <2> QED
    BY <2>1 DEF Cloned
<1>9. ASSUME NEW d \in Outputs, d \in opened, mpc = "join", PacketsDry(d) PROVE Cloned'
  <2>1. /\ frameQ' = frameQ
        /\ \A e \in Outputs : epc'[e] \in {"encode", "receive"} =>
             epc[e] \in {"encode", "receive"} /\ taken'[e] = taken[e]
    BY <1>9 DEF PacketsDry, FreeTaken, filterVars, EncoderType
  <2> QED
    BY <2>1 DEF Cloned
<1>10. ASSUME NEW d \in Outputs, d \in opened, mpc = "join", FlushEnds(d) PROVE Cloned'
  <2>1. /\ frameQ' = frameQ
        /\ \A e \in Outputs : epc'[e] \in {"encode", "receive"} =>
             epc[e] \in {"encode", "receive"} /\ taken'[e] = taken[e]
    BY <1>10 DEF FlushEnds, filterVars, EncoderType
  <2> QED
    BY <2>1 DEF Cloned
<1> QED
  BY <1>1, <1>2, <1>3, <1>4, <1>5, <1>6, <1>7, <1>8, <1>9, <1>10 DEF Next, Main, Reader, Decoder,
     Filter, Encoder, Terminated, InitializeDecoder, InitializeEncoders, InitializeFilter,
     JoinAndReport, ReaderStart, ReadPacket, ReadEnds, ReaderFinishes, DecoderStart, PopPacket,
     PacketsEnd, ReceiveFrame, ReceiveEnds, DecoderFinishes, PopDecoded, FramesEnd, PullFiltered,
     PullEnds, FinishQueue, UseFreed, WritePacket, Fails, vars, mainVars, readerVars, decoderVars,
     filterVars, encoderVars

LEMMA UnsharedInit == Init => Unshared
<1>1. 1..Len(<<>>) = {}
  BY EmptyLen
<1> QED
  BY <1>1 DEF Init, Unshared

\* The condition of Unshared was true before a step after which it is.
LEMMA FailedGrows == TypeOK /\ Next => failed \subseteq failed' /\ depth' = depth
  BY DEF Next, Main, Reader, Decoder, Filter, Encoder, Terminated, InitializeDecoder,
     InitializeEncoders, InitializeFilter, JoinAndReport, ReaderStart, ReadPacket, ReadEnds,
     ReaderFinishes, DecoderStart, PopPacket, PacketsEnd, ReceiveFrame, ReceiveEnds,
     DecoderFinishes, PopDecoded, FramesEnd, PullFiltered, PullEnds, Distribute, Share,
     FinishQueue, PopFrame, QueueEnds, SkipFrame, SendFrame, UseFreed, WritePacket, WriteFails,
     PacketsDry, FlushEnds, FreeTaken, Fails, vars, mainVars, readerVars, decoderVars, filterVars,
     encoderVars

LEMMA UnsharedStep == TypeOK /\ Unshared /\ Next => Unshared'
<1> SUFFICES ASSUME MainType, ReaderType, DecoderType, FilterType, EncoderType, todo \subseteq
                 opened, Unshared, Next
             PROVE  Unshared'
  BY TypeParts
<1>1. CASE UNCHANGED <<depth, failed, fpc, filtering, frameQ, taken, epc, freed>>
  BY <1>1 DEF Unshared
<1>2. CASE InitializeDecoder
  <2>1. UNCHANGED <<depth, fpc, filtering, frameQ, taken, epc, freed>> /\ (0 \notin failed' => 0 \notin failed)
    BY <1>2 DEF InitializeDecoder, Fails, mainVars, readerVars, decoderVars, filterVars, encoderVars
  <2> QED
    BY <2>1 DEF Unshared
<1>3. CASE InitializeEncoders
  <2>1. UNCHANGED <<depth, fpc, filtering, frameQ, taken, epc, freed>> /\ (0 \notin failed' => 0 \notin failed)
    BY <1>3 DEF InitializeEncoders, Fails, mainVars, readerVars, decoderVars, filterVars, encoderVars
  <2> QED
    BY <2>1 DEF Unshared
<1>4. CASE InitializeFilter
  <2>1. UNCHANGED <<depth, fpc, filtering, frameQ, taken, epc, freed>> /\ (0 \notin failed' => 0 \notin failed)
    BY <1>4 DEF InitializeFilter, Fails, mainVars, readerVars, decoderVars, filterVars, encoderVars
  <2> QED
    BY <2>1 DEF Unshared
<1>5. CASE mpc = "join" /\ ReaderStart
  <2>1. UNCHANGED <<depth, fpc, filtering, frameQ, taken, epc, freed>> /\ (0 \notin failed' => 0 \notin failed)
    BY <1>5 DEF ReaderStart, Fails, mainVars, readerVars, decoderVars, filterVars, encoderVars
  <2> QED
    BY <2>1 DEF Unshared
<1>6. CASE mpc = "join" /\ DecoderStart
  <2>1. UNCHANGED <<depth, fpc, filtering, frameQ, taken, epc, freed>> /\ (0 \notin failed' => 0 \notin failed)
    BY <1>6 DEF DecoderStart, Fails, mainVars, readerVars, decoderVars, filterVars, encoderVars
  <2> QED
    BY <2>1 DEF Unshared
<1>7. CASE mpc = "join" /\ PopPacket
  <2>1. UNCHANGED <<depth, fpc, filtering, frameQ, taken, epc, freed>> /\ (0 \notin failed' => 0 \notin failed)
    BY <1>7 DEF PopPacket, Fails, mainVars, readerVars, decoderVars, filterVars, encoderVars
  <2> QED
    BY <2>1 DEF Unshared
<1>8. CASE mpc = "join" /\ ReceiveFrame
  <2>1. UNCHANGED <<depth, fpc, filtering, frameQ, taken, epc, freed>> /\ (0 \notin failed' => 0 \notin failed)
    BY <1>8 DEF ReceiveFrame, Fails, mainVars, readerVars, decoderVars, filterVars, encoderVars
  <2> QED
    BY <2>1 DEF Unshared
<1>9. CASE mpc = "join" /\ ReceiveEnds
  <2>1. UNCHANGED <<depth, fpc, filtering, frameQ, taken, epc, freed>> /\ (0 \notin failed' => 0 \notin failed)
    BY <1>9 DEF ReceiveEnds, Fails, mainVars, readerVars, decoderVars, filterVars, encoderVars
  <2> QED
    BY <2>1 DEF Unshared
<1>10. CASE mpc = "join" /\ PopDecoded
  <2>1. /\ UNCHANGED <<depth, frameQ, taken, epc, freed>> /\ (0 \notin failed' => 0 \notin failed)
        /\ fpc = "pop" /\ (fpc' = "pull" \/ (fpc' = "pop" /\ filtering' = filtering))
    BY <1>10 DEF PopDecoded, Fails, mainVars, readerVars, decoderVars, filterVars, encoderVars
  <2> QED
    BY <2>1 DEF Unshared
<1>11. CASE mpc = "join" /\ FramesEnd
  <2>1. /\ UNCHANGED <<depth, failed, filtering, frameQ, taken, epc, freed>>
        /\ fpc = "pop" /\ fpc' = "flush"
    BY <1>11 DEF FramesEnd, mainVars, readerVars, decoderVars, filterVars, encoderVars
  <2> QED
    BY <2>1 DEF Unshared
<1>12. CASE mpc = "join" /\ PullFiltered
  <2>1. /\ UNCHANGED <<depth, failed, frameQ, taken, epc, freed>> /\ filtering # <<>>
        /\ (\/ fpc = "pull" /\ fpc' = "distribute"
            \/ fpc = "flush" /\ fpc' = "share")
    BY <1>12 DEF PullFiltered, mainVars, readerVars, decoderVars, filterVars, encoderVars
  <2>2. depth = 0 /\ 0 \notin failed => fpc = "pull" /\ fpc' = "distribute"
    BY <2>1 DEF Unshared
  <2> QED
    BY <2>1, <2>2 DEF Unshared
<1>13. CASE mpc = "join" /\ PullEnds
  <2>1. /\ UNCHANGED <<depth, filtering, frameQ, taken, epc, freed>> /\ (0 \notin failed' => 0 \notin failed)
        /\ fpc \in {"pull", "flush"} /\ fpc' \in {"pop", "close"}
        /\ 0 \notin failed' => filtering = <<>> \/ Len(filtering) <= depth
    BY <1>13 DEF PullEnds, Fails, mainVars, readerVars, decoderVars, filterVars, encoderVars
  <2>2. depth = 0 /\ 0 \notin failed' => filtering = <<>>
    <3>1. Len(filtering) <= 0 => filtering = <<>>
      BY DEF FilterType
    <3> QED
      BY <2>1, <3>1
  <2> QED
    BY <2>1, <2>2 DEF Unshared
<1>14. ASSUME NEW d \in Outputs, mpc = "join", Distribute(d) PROVE Unshared'
  <2>1. /\ taken' = taken /\ epc' = epc
        /\ frameQ' \in {frameQ, [frameQ EXCEPT ![d] = Append(@, [frame |-> filtered, clone |-> d])]}
    BY <1>14 DEF Distribute, encoderVars
  <2> DEFINE x == [frame |-> filtered, clone |-> d]
  <2>2. x \in Handles /\ x.clone = d
    BY <1>14, VideoProcessingAssumption DEF FilterType, Distribute, Handles, Outputs
  <2> HIDE DEF x
  <2>3. frameQ'[d] \in {frameQ[d], Append(frameQ[d], x)} /\ \A e \in Outputs \ {d} : frameQ'[e] = frameQ[e]
    BY <2>1 DEF FilterType, x
  <2>4. frameQ[d] \in Seq(Handles)
    BY DEF FilterType
  <2>5. \A i \in 1..Len(frameQ'[d]) : (i \in 1..Len(frameQ[d]) /\ frameQ'[d][i] = frameQ[d][i]) \/ frameQ'[d][i] = x
    BY SMTT(30), <2>2, <2>3, <2>4, AppendMembers
  <2>6. /\ UNCHANGED <<depth, filtering, freed>> /\ (0 \notin failed' => 0 \notin failed)
        /\ fpc = "distribute" /\ fpc' \in {"distribute", "pull"}
    BY <1>14, Places DEF Distribute, Fails, mainVars, readerVars, decoderVars, filterVars, encoderVars
  <2>7. depth = 0 /\ 0 \notin failed => \A e \in Outputs : \A i \in 1..Len(frameQ'[e]) : frameQ'[e][i].clone = e
    BY SMTT(30), <2>2, <2>3, <2>5 DEF Unshared
  <2> QED
    BY <2>1, <2>6, <2>7 DEF Unshared
<1>15. ASSUME NEW d \in Outputs, mpc = "join", Share(d) PROVE Unshared'
  <2>1. depth' = depth /\ failed' = failed /\ fpc = "share"
    BY <1>15 DEF Share, mainVars
  <2> QED
    BY <2>1 DEF Unshared
<1>16. ASSUME NEW d \in Outputs, mpc = "join", FinishQueue(d) PROVE Unshared'
  <2>1. /\ UNCHANGED <<depth, failed, filtering, frameQ, taken, epc, freed>>
        /\ fpc = "close" /\ fpc' \in {"close", "done"}
    BY <1>16 DEF FinishQueue, mainVars, readerVars, decoderVars, filterVars, encoderVars
  <2> QED
    BY <2>1 DEF Unshared
<1>17. ASSUME NEW d \in Outputs, d \in opened, mpc = "join", PopFrame(d) PROVE Unshared'
  <2>1. /\ \A e \in Outputs \ {d} : frameQ'[e] = frameQ[e] /\ taken'[e] = taken[e] /\ epc'[e] = epc[e]
        /\ frameQ'[d] = Tail(frameQ[d]) /\ taken'[d] = <<Head(frameQ[d])>> /\ frameQ[d] # <<>>
        /\ frameQ[d] \in Seq(Handles)
        /\ UNCHANGED <<depth, failed, fpc, filtering, freed>>
    BY <1>17 DEF PopFrame, FilterType, EncoderType, mainVars
  <2>2. /\ \A i \in 1..Len(Tail(frameQ[d])) : i + 1 \in 1..Len(frameQ[d]) /\ Tail(frameQ[d])[i] = frameQ[d][i + 1]
        /\ 1 \in 1..Len(frameQ[d]) /\ Head(frameQ[d]) = frameQ[d][1]
    BY <2>1, TailMembers
  <2> SUFFICES ASSUME depth' = 0, 0 \notin failed' PROVE Unshared'
    BY DEF Unshared
  <2>a. \A i \in 1..Len(frameQ[d]) : frameQ[d][i].clone = d
    BY <2>1 DEF Unshared
  <2>3. \A i \in 1..Len(frameQ'[d]) : frameQ'[d][i].clone = d
    BY <2>1, <2>2, <2>a
  <2>4. taken'[d][1].clone = d
    BY <2>1, <2>2, <2>a
  <2> QED
    BY <2>1, <2>3, <2>4 DEF Unshared
<1>18. ASSUME NEW d \in Outputs, d \in opened, mpc = "join", QueueEnds(d) PROVE Unshared'
  <2>1. /\ UNCHANGED <<depth, fpc, filtering, frameQ>> /\ (0 \notin failed' => 0 \notin failed)
        /\ \A e \in Outputs : epc'[e] \in {"encode", "receive"} =>
             epc[e] \in {"encode", "receive"} /\ taken'[e] = taken[e]
        /\ freed' = freed \/ (epc[d] \in {"encode", "receive"} /\ freed' = freed \cup {Head(taken[d])})
    BY <1>18 DEF QueueEnds, Fails, mainVars, readerVars, decoderVars, filterVars, encoderVars, EncoderType
  <2>2. epc[d] \in {"encode", "receive"} => Head(taken[d]) = taken[d][1]
    BY TakenFrame
  <2>3. depth = 0 /\ 0 \notin failed' => \A f \in freed' : f.clone # 0
    BY <2>1, <2>2, Places DEF Unshared
  <2> QED
    BY <2>1, <2>3 DEF Unshared
<1>19. ASSUME NEW d \in Outputs, d \in opened, mpc = "join", SkipFrame(d) PROVE Unshared'
  <2>1. /\ UNCHANGED <<depth, fpc, filtering, frameQ>> /\ (0 \notin failed' => 0 \notin failed)
        /\ \A e \in Outputs : epc'[e] \in {"encode", "receive"} =>
             epc[e] \in {"encode", "receive"} /\ taken'[e] = taken[e]
        /\ freed' = freed \/ (epc[d] \in {"encode", "receive"} /\ freed' = freed \cup {Head(taken[d])})
    BY <1>19 DEF SkipFrame, Fails, FreeTaken, mainVars, readerVars, decoderVars, filterVars, encoderVars, EncoderType
  <2>2. epc[d] \in {"encode", "receive"} => Head(taken[d]) = taken[d][1]
    BY TakenFrame
  <2>3. depth = 0 /\ 0 \notin failed' => \A f \in freed' : f.clone # 0
    BY <2>1, <2>2, Places DEF Unshared
  <2> QED
    BY <2>1, <2>3 DEF Unshared
<1>20. ASSUME NEW d \in Outputs, d \in opened, mpc = "join", SendFrame(d) PROVE Unshared'
  <2>1. /\ UNCHANGED <<depth, fpc, filtering, frameQ>> /\ (0 \notin failed' => 0 \notin failed)
        /\ \A e \in Outputs : epc'[e] \in {"encode", "receive"} =>
             epc[e] \in {"encode", "receive"} /\ taken'[e] = taken[e]
        /\ freed' = freed \/ (epc[d] \in {"encode", "receive"} /\ freed' = freed \cup {Head(taken[d])})
    BY <1>20 DEF SendFrame, Fails, mainVars, readerVars, decoderVars, filterVars, encoderVars, EncoderType
  <2>2. epc[d] \in {"encode", "receive"} => Head(taken[d]) = taken[d][1]
    BY TakenFrame
  <2>3. depth = 0 /\ 0 \notin failed' => \A f \in freed' : f.clone # 0
    BY <2>1, <2>2, Places DEF Unshared
  <2> QED
    BY <2>1, <2>3 DEF Unshared
<1>21. ASSUME NEW d \in Outputs, d \in opened, mpc = "join", WriteFails(d) PROVE Unshared'
  <2>1. /\ UNCHANGED <<depth, fpc, filtering, frameQ>> /\ (0 \notin failed' => 0 \notin failed)
        /\ \A e \in Outputs : epc'[e] \in {"encode", "receive"} =>
             epc[e] \in {"encode", "receive"} /\ taken'[e] = taken[e]
        /\ freed' = freed \/ (epc[d] \in {"encode", "receive"} /\ freed' = freed \cup {Head(taken[d])})
    BY <1>21 DEF WriteFails, Fails, FreeTaken, mainVars, readerVars, decoderVars, filterVars, encoderVars, EncoderType
  <2>2. epc[d] \in {"encode", "receive"} => Head(taken[d]) = taken[d][1]
    BY TakenFrame
  <2>3. depth = 0 /\ 0 \notin failed' => \A f \in freed' : f.clone # 0
    BY <2>1, <2>2, Places DEF Unshared
  <2> QED
    BY <2>1, <2>3 DEF Unshared
<1>22. ASSUME NEW d \in Outputs, d \in opened, mpc = "join", PacketsDry(d) PROVE Unshared'
  <2>1. /\ UNCHANGED <<depth, fpc, filtering, frameQ>> /\ (0 \notin failed' => 0 \notin failed)
        /\ \A e \in Outputs : epc'[e] \in {"encode", "receive"} =>
             epc[e] \in {"encode", "receive"} /\ taken'[e] = taken[e]
        /\ freed' = freed \/ (epc[d] \in {"encode", "receive"} /\ freed' = freed \cup {Head(taken[d])})
    BY <1>22 DEF PacketsDry, Fails, FreeTaken, mainVars, readerVars, decoderVars, filterVars, encoderVars, EncoderType
  <2>2. epc[d] \in {"encode", "receive"} => Head(taken[d]) = taken[d][1]
    BY TakenFrame
  <2>3. depth = 0 /\ 0 \notin failed' => \A f \in freed' : f.clone # 0
    BY <2>1, <2>2, Places DEF Unshared
  <2> QED
    BY <2>1, <2>3 DEF Unshared
<1>23. ASSUME NEW d \in Outputs, d \in opened, mpc = "join", FlushEnds(d) PROVE Unshared'
  <2>1. /\ UNCHANGED <<depth, fpc, filtering, frameQ>> /\ (0 \notin failed' => 0 \notin failed)
        /\ \A e \in Outputs : epc'[e] \in {"encode", "receive"} =>
             epc[e] \in {"encode", "receive"} /\ taken'[e] = taken[e]
        /\ freed' = freed \/ (epc[d] \in {"encode", "receive"} /\ freed' = freed \cup {Head(taken[d])})
    BY <1>23 DEF FlushEnds, Fails, mainVars, readerVars, decoderVars, filterVars, encoderVars, EncoderType
  <2>2. epc[d] \in {"encode", "receive"} => Head(taken[d]) = taken[d][1]
    BY TakenFrame
  <2>3. depth = 0 /\ 0 \notin failed' => \A f \in freed' : f.clone # 0
    BY <2>1, <2>2, Places DEF Unshared
  <2> QED
    BY <2>1, <2>3 DEF Unshared
<1> QED
  BY <1>1, <1>2, <1>3, <1>4, <1>5, <1>6, <1>7, <1>8, <1>9, <1>10, <1>11, <1>12, <1>13, <1>14,
     <1>15, <1>16, <1>17, <1>18, <1>19, <1>20, <1>21, <1>22, <1>23 DEF Next, Main, Reader,
     Decoder, Filter, Encoder, Terminated, JoinAndReport, ReadPacket, ReadEnds, ReaderFinishes,
     PacketsEnd, DecoderFinishes, UseFreed, WritePacket, Fails, vars, mainVars, readerVars,
     decoderVars, filterVars, encoderVars

-----------------------------------------------------------------------------
(* The end of the input *)

LEMMA DrainedInit == Init => PacketsDrained /\ NullsFail /\ FramesDrained /\ OutputsDrained /\ AllJoined
<1>1. 1..Len(<<>>) = {}
  BY EmptyLen
<1> QED
  BY <1>1 DEF Init, PacketsDrained, NullsFail, FramesDrained, OutputsDrained, AllJoined

LEMMA PacketsDrainedStep == TypeOK /\ PacketsDrained /\ Next => PacketsDrained'
<1> SUFFICES ASSUME MainType, ReaderType, DecoderType, FilterType, EncoderType, todo \subseteq
                 opened, PacketsDrained, Next
             PROVE  PacketsDrained'
  BY TypeParts
<1>1. CASE UNCHANGED <<packetsDone, rpc, decodeDone, dpc, packetQ, decoding, failed>>
  BY <1>1 DEF PacketsDrained
<1>2. CASE InitializeDecoder
  BY <1>2, Places DEF InitializeDecoder, Fails, PacketsDrained, ReaderType, DecoderType, mainVars,
     readerVars, decoderVars, filterVars, encoderVars
<1>3. CASE InitializeEncoders
  BY <1>3, Places DEF InitializeEncoders, Fails, PacketsDrained, ReaderType, DecoderType,
     mainVars, readerVars, decoderVars, filterVars, encoderVars
<1>4. CASE InitializeFilter
  BY <1>4, Places DEF InitializeFilter, Fails, PacketsDrained, ReaderType, DecoderType, mainVars,
     readerVars, decoderVars, filterVars, encoderVars
<1>5. CASE mpc = "join" /\ ReaderStart
  BY <1>5, Places DEF ReaderStart, Fails, PacketsDrained, ReaderType, DecoderType, mainVars,
     readerVars, decoderVars, filterVars, encoderVars
<1>6. CASE mpc = "join" /\ ReadPacket
  BY <1>6, Places DEF ReadPacket, Fails, PacketsDrained, ReaderType, DecoderType, mainVars,
     readerVars, decoderVars, filterVars, encoderVars
<1>7. CASE mpc = "join" /\ ReadEnds
  BY <1>7, Places DEF ReadEnds, Fails, PacketsDrained, ReaderType, DecoderType, mainVars,
     readerVars, decoderVars, filterVars, encoderVars
<1>8. CASE mpc = "join" /\ ReaderFinishes
  BY <1>8, Places DEF ReaderFinishes, Fails, PacketsDrained, ReaderType, DecoderType, mainVars,
     readerVars, decoderVars, filterVars, encoderVars
<1>9. CASE mpc = "join" /\ DecoderStart
  BY <1>9, Places DEF DecoderStart, Fails, PacketsDrained, ReaderType, DecoderType, mainVars,
     readerVars, decoderVars, filterVars, encoderVars
<1>10. CASE mpc = "join" /\ PopPacket
  BY <1>10, Places DEF PopPacket, Fails, PacketsDrained, ReaderType, DecoderType, mainVars,
     readerVars, decoderVars, filterVars, encoderVars
<1>11. CASE mpc = "join" /\ PacketsEnd
  BY <1>11, Places DEF PacketsEnd, Fails, PacketsDrained, ReaderType, DecoderType, mainVars,
     readerVars, decoderVars, filterVars, encoderVars
<1>12. CASE mpc = "join" /\ ReceiveFrame
  BY <1>12, Places DEF ReceiveFrame, Fails, PacketsDrained, ReaderType, DecoderType, mainVars,
     readerVars, decoderVars, filterVars, encoderVars
<1>13. CASE mpc = "join" /\ ReceiveEnds
  BY <1>13, Places DEF ReceiveEnds, Fails, PacketsDrained, ReaderType, DecoderType, mainVars,
     readerVars, decoderVars, filterVars, encoderVars
<1>14. CASE mpc = "join" /\ DecoderFinishes
  BY <1>14, Places DEF DecoderFinishes, Fails, PacketsDrained, ReaderType, DecoderType, mainVars,
     readerVars, decoderVars, filterVars, encoderVars
<1>15. CASE mpc = "join" /\ PopDecoded
  BY <1>15, Places DEF PopDecoded, Fails, PacketsDrained, ReaderType, DecoderType, mainVars,
     readerVars, decoderVars, filterVars, encoderVars
<1>16. CASE mpc = "join" /\ PullEnds
  BY <1>16, Places DEF PullEnds, Fails, PacketsDrained, ReaderType, DecoderType, mainVars,
     readerVars, decoderVars, filterVars, encoderVars
<1>17. ASSUME NEW d \in Outputs, mpc = "join", Distribute(d) PROVE PacketsDrained'
  BY <1>17, Places DEF Distribute, Fails, PacketsDrained, ReaderType, DecoderType, mainVars,
     readerVars, decoderVars, filterVars, encoderVars
<1>18. ASSUME NEW d \in Outputs, d \in opened, mpc = "join", SkipFrame(d) PROVE PacketsDrained'
  BY <1>18, Places DEF SkipFrame, Fails, PacketsDrained, ReaderType, DecoderType, FreeTaken,
     mainVars, readerVars, decoderVars, filterVars, encoderVars
<1>19. ASSUME NEW d \in Outputs, d \in opened, mpc = "join", WriteFails(d) PROVE PacketsDrained'
  BY <1>19, Places DEF WriteFails, Fails, PacketsDrained, ReaderType, DecoderType, FreeTaken,
     mainVars, readerVars, decoderVars, filterVars, encoderVars
<1>20. ASSUME NEW d \in Outputs, d \in opened, mpc = "join", PacketsDry(d) PROVE PacketsDrained'
  BY <1>20, Places DEF PacketsDry, Fails, PacketsDrained, ReaderType, DecoderType, FreeTaken,
     mainVars, readerVars, decoderVars, filterVars, encoderVars
<1>21. ASSUME NEW d \in Outputs, d \in opened, mpc = "join", FlushEnds(d) PROVE PacketsDrained'
  BY <1>21, Places DEF FlushEnds, Fails, PacketsDrained, ReaderType, DecoderType, mainVars,
     readerVars, decoderVars, filterVars, encoderVars
<1> QED
  BY <1>1, <1>2, <1>3, <1>4, <1>5, <1>6, <1>7, <1>8, <1>9, <1>10, <1>11, <1>12, <1>13, <1>14,
     <1>15, <1>16, <1>17, <1>18, <1>19, <1>20, <1>21 DEF Next, Main, Reader, Decoder, Filter,
     Encoder, Terminated, JoinAndReport, FramesEnd, PullFiltered, Share, FinishQueue, PopFrame,
     QueueEnds, SendFrame, UseFreed, WritePacket, Fails, vars, mainVars, readerVars, decoderVars,
     filterVars, encoderVars

LEMMA NullsFailStep == TypeOK /\ NullsFail /\ Next => NullsFail'
<1> SUFFICES ASSUME MainType, ReaderType, DecoderType, FilterType, EncoderType, todo \subseteq
                 opened, NullsFail, Next
             PROVE  NullsFail'
  BY TypeParts
<1>1. CASE UNCHANGED <<decodeQ, failed>>
  BY <1>1 DEF NullsFail
<1>2. CASE InitializeDecoder
  <2>1. decodeQ' = decodeQ /\ (0 \notin failed' => 0 \notin failed)
    BY <1>2 DEF InitializeDecoder, Fails, mainVars, readerVars, decoderVars, filterVars, encoderVars
  <2> QED
    BY <2>1 DEF NullsFail
<1>3. CASE InitializeEncoders
  <2>1. decodeQ' = decodeQ /\ (0 \notin failed' => 0 \notin failed)
    BY <1>3 DEF InitializeEncoders, Fails, mainVars, readerVars, decoderVars, filterVars, encoderVars
  <2> QED
    BY <2>1 DEF NullsFail
<1>4. CASE InitializeFilter
  <2>1. decodeQ' = decodeQ /\ (0 \notin failed' => 0 \notin failed)
    BY <1>4 DEF InitializeFilter, Fails, mainVars, readerVars, decoderVars, filterVars, encoderVars
  <2> QED
    BY <2>1 DEF NullsFail
<1>5. CASE mpc = "join" /\ ReaderStart
  <2>1. decodeQ' = decodeQ /\ (0 \notin failed' => 0 \notin failed)
    BY <1>5 DEF ReaderStart, Fails, mainVars, readerVars, decoderVars, filterVars, encoderVars
  <2> QED
    BY <2>1 DEF NullsFail
<1>6. CASE mpc = "join" /\ DecoderStart
  <2>1. decodeQ' = decodeQ /\ (0 \notin failed' => 0 \notin failed)
    BY <1>6 DEF DecoderStart, Fails, mainVars, readerVars, decoderVars, filterVars, encoderVars
  <2> QED
    BY <2>1 DEF NullsFail
<1>7. CASE mpc = "join" /\ PopPacket
  <2>1. decodeQ' = decodeQ /\ (0 \notin failed' => 0 \notin failed)
    BY <1>7 DEF PopPacket, Fails, mainVars, readerVars, decoderVars, filterVars, encoderVars
  <2> QED
    BY <2>1 DEF NullsFail
<1>8. CASE mpc = "join" /\ ReceiveFrame
  <2>1. /\ 0 \notin failed' => 0 \notin failed /\ decodeQ' = Append(decodeQ, Head(decoding))
        /\ decodeQ \in Seq(Frames \cup {NoFrame}) /\ decoding # <<>> /\ decoding \in Seq(Frames)
    BY <1>8 DEF ReceiveFrame, Fails, DecoderType
  <2>2. Head(decoding) \in Frames /\ Head(decoding) # NoFrame
    <3>1. Head(decoding) \in Frames
      BY <2>1, TailSeq
    <3> QED
      BY <3>1, VideoProcessingAssumption DEF Frames, NoFrame
  <2>3. \A i \in 1..Len(Append(decodeQ, Head(decoding))) :
          \/ i \in 1..Len(decodeQ) /\ Append(decodeQ, Head(decoding))[i] = decodeQ[i]
          \/ Append(decodeQ, Head(decoding))[i] = Head(decoding)
    BY <2>1, <2>2, AppendMembers
  <2> QED
    BY <2>1, <2>2, <2>3 DEF NullsFail
<1>9. CASE mpc = "join" /\ ReceiveEnds
  <2>1. decodeQ' = decodeQ /\ (0 \notin failed' => 0 \notin failed)
    BY <1>9 DEF ReceiveEnds, Fails, mainVars, readerVars, decoderVars, filterVars, encoderVars
  <2> QED
    BY <2>1 DEF NullsFail
<1>10. CASE mpc = "join" /\ PopDecoded
  <2>1. /\ decodeQ' = Tail(decodeQ) /\ (0 \notin failed' => 0 \notin failed)
        /\ decodeQ \in Seq(Frames \cup {NoFrame}) /\ decodeQ # <<>>
    BY <1>10 DEF PopDecoded, Fails, DecoderType
  <2>2. \A i \in 1..Len(Tail(decodeQ)) : i + 1 \in 1..Len(decodeQ) /\ Tail(decodeQ)[i] = decodeQ[i + 1]
    BY <2>1, TailMembers
  <2> QED
    BY <2>1, <2>2 DEF NullsFail
<1>11. CASE mpc = "join" /\ PullEnds
  <2>1. decodeQ' = decodeQ /\ (0 \notin failed' => 0 \notin failed)
    BY <1>11 DEF PullEnds, Fails, mainVars, readerVars, decoderVars, filterVars, encoderVars
  <2> QED
    BY <2>1 DEF NullsFail
<1>12. ASSUME NEW d \in Outputs, mpc = "join", Distribute(d) PROVE NullsFail'
  <2>1. decodeQ' = decodeQ /\ (0 \notin failed' => 0 \notin failed)
    BY <1>12 DEF Distribute, Fails, mainVars, readerVars, decoderVars, filterVars, encoderVars
  <2> QED
    BY <2>1 DEF NullsFail
<1>13. ASSUME NEW d \in Outputs, d \in opened, mpc = "join", SkipFrame(d) PROVE NullsFail'
  <2>1. decodeQ' = decodeQ /\ (0 \notin failed' => 0 \notin failed)
    BY <1>13 DEF SkipFrame, Fails, mainVars, readerVars, decoderVars, filterVars, encoderVars
  <2> QED
    BY <2>1 DEF NullsFail
<1>14. ASSUME NEW d \in Outputs, d \in opened, mpc = "join", WriteFails(d) PROVE NullsFail'
  <2>1. decodeQ' = decodeQ /\ (0 \notin failed' => 0 \notin failed)
    BY <1>14 DEF WriteFails, Fails, mainVars, readerVars, decoderVars, filterVars, encoderVars
  <2> QED
    BY <2>1 DEF NullsFail
<1>15. ASSUME NEW d \in Outputs, d \in opened, mpc = "join", PacketsDry(d) PROVE NullsFail'
  <2>1. decodeQ' = decodeQ /\ (0 \notin failed' => 0 \notin failed)
    BY <1>15 DEF PacketsDry, Fails, mainVars, readerVars, decoderVars, filterVars, encoderVars
  <2> QED
    BY <2>1 DEF NullsFail
<1>16. ASSUME NEW d \in Outputs, d \in opened, mpc = "join", FlushEnds(d) PROVE NullsFail'
  <2>1. decodeQ' = decodeQ /\ (0 \notin failed' => 0 \notin failed)
    BY <1>16 DEF FlushEnds, Fails, mainVars, readerVars, decoderVars, filterVars, encoderVars
  <2> QED
    BY <2>1 DEF NullsFail
<1> QED
  BY <1>1, <1>2, <1>3, <1>4, <1>5, <1>6, <1>7, <1>8, <1>9, <1>10, <1>11, <1>12, <1>13, <1>14,
     <1>15, <1>16 DEF Next, Main, Reader, Decoder, Filter, Encoder, Terminated, JoinAndReport,
     ReadPacket, ReadEnds, ReaderFinishes, PacketsEnd, DecoderFinishes, FramesEnd, PullFiltered,
     Share, FinishQueue, PopFrame, QueueEnds, SendFrame, UseFreed, WritePacket, Fails, vars,
     mainVars, readerVars, decoderVars, filterVars, encoderVars

LEMMA FramesDrainedStep == TypeOK /\ PacketsDrained /\ NullsFail /\ FramesDrained /\ Next =>
    FramesDrained'
<1> SUFFICES ASSUME MainType, ReaderType, DecoderType, FilterType, EncoderType, todo \subseteq
                 opened, PacketsDrained, NullsFail, FramesDrained, Next
             PROVE  FramesDrained'
  BY TypeParts
<1>1. CASE UNCHANGED <<fpc, decodeQ, decodeDone, filterEof, filtering, failed>>
  BY <1>1 DEF FramesDrained
<1>2. CASE InitializeDecoder
  BY <1>2, Places DEF InitializeDecoder, Fails, FramesDrained, PacketsDrained, FilterType,
     DecoderType, mainVars, readerVars, decoderVars, filterVars, encoderVars
<1>3. CASE InitializeEncoders
  BY <1>3, Places DEF InitializeEncoders, Fails, FramesDrained, PacketsDrained, FilterType,
     DecoderType, mainVars, readerVars, decoderVars, filterVars, encoderVars
<1>4. CASE InitializeFilter
  BY <1>4, Places DEF InitializeFilter, Fails, FramesDrained, PacketsDrained, FilterType,
     DecoderType, mainVars, readerVars, decoderVars, filterVars, encoderVars
<1>5. CASE mpc = "join" /\ ReaderStart
  BY <1>5, Places DEF ReaderStart, Fails, FramesDrained, PacketsDrained, FilterType, DecoderType,
     mainVars, readerVars, decoderVars, filterVars, encoderVars
<1>6. CASE mpc = "join" /\ DecoderStart
  BY <1>6, Places DEF DecoderStart, Fails, FramesDrained, PacketsDrained, FilterType, DecoderType,
     mainVars, readerVars, decoderVars, filterVars, encoderVars
<1>7. CASE mpc = "join" /\ PopPacket
  BY <1>7, Places DEF PopPacket, Fails, FramesDrained, PacketsDrained, FilterType, DecoderType,
     mainVars, readerVars, decoderVars, filterVars, encoderVars
<1>8. CASE mpc = "join" /\ ReceiveFrame
  BY <1>8, Places DEF ReceiveFrame, Fails, FramesDrained, PacketsDrained, FilterType, DecoderType,
     mainVars, readerVars, decoderVars, filterVars, encoderVars
<1>9. CASE mpc = "join" /\ ReceiveEnds
  BY <1>9, Places DEF ReceiveEnds, Fails, FramesDrained, PacketsDrained, FilterType, DecoderType,
     mainVars, readerVars, decoderVars, filterVars, encoderVars
<1>10. CASE mpc = "join" /\ DecoderFinishes
  BY <1>10, Places DEF DecoderFinishes, Fails, FramesDrained, PacketsDrained, FilterType,
     DecoderType, mainVars, readerVars, decoderVars, filterVars, encoderVars
<1>11. CASE mpc = "join" /\ PopDecoded
  <2>1. /\ decodeQ # <<>> /\ decodeQ \in Seq(Frames \cup {NoFrame}) /\ fpc = "pop"
        /\ fpc' \in {"pop", "pull"} /\ (0 \notin failed' => 0 \notin failed)
        /\ filterEof' = (filterEof \/ Head(decodeQ) = NoFrame)
    BY <1>11 DEF PopDecoded, Fails, DecoderType
  <2>2. 0 \notin failed => Head(decodeQ) # NoFrame
    BY <2>1, TailMembers DEF NullsFail
  <2> QED
    BY <2>1, <2>2 DEF FramesDrained
<1>12. CASE mpc = "join" /\ FramesEnd
  BY <1>12, Places DEF FramesEnd, Fails, FramesDrained, PacketsDrained, FilterType, DecoderType,
     mainVars, readerVars, decoderVars, filterVars, encoderVars
<1>13. CASE mpc = "join" /\ PullFiltered
  BY <1>13, Places DEF PullFiltered, Fails, FramesDrained, PacketsDrained, FilterType,
     DecoderType, mainVars, readerVars, decoderVars, filterVars, encoderVars
<1>14. CASE mpc = "join" /\ PullEnds
  BY <1>14, Places DEF PullEnds, Fails, FramesDrained, PacketsDrained, FilterType, DecoderType,
     mainVars, readerVars, decoderVars, filterVars, encoderVars
<1>15. ASSUME NEW d \in Outputs, mpc = "join", Distribute(d) PROVE FramesDrained'
  BY <1>15, Places DEF Distribute, Fails, FramesDrained, PacketsDrained, FilterType, DecoderType,
     mainVars, readerVars, decoderVars, filterVars, encoderVars
<1>16. ASSUME NEW d \in Outputs, mpc = "join", Share(d) PROVE FramesDrained'
  BY <1>16, Places DEF Share, Fails, FramesDrained, PacketsDrained, FilterType, DecoderType,
     mainVars, readerVars, decoderVars, filterVars, encoderVars
<1>17. ASSUME NEW d \in Outputs, mpc = "join", FinishQueue(d) PROVE FramesDrained'
  BY <1>17, Places DEF FinishQueue, Fails, FramesDrained, PacketsDrained, FilterType, DecoderType,
     mainVars, readerVars, decoderVars, filterVars, encoderVars
<1>18. ASSUME NEW d \in Outputs, d \in opened, mpc = "join", SkipFrame(d) PROVE FramesDrained'
  BY <1>18, Places DEF SkipFrame, Fails, FramesDrained, PacketsDrained, FilterType, DecoderType,
     FreeTaken, mainVars, readerVars, decoderVars, filterVars, encoderVars
<1>19. ASSUME NEW d \in Outputs, d \in opened, mpc = "join", WriteFails(d) PROVE FramesDrained'
  BY <1>19, Places DEF WriteFails, Fails, FramesDrained, PacketsDrained, FilterType, DecoderType,
     FreeTaken, mainVars, readerVars, decoderVars, filterVars, encoderVars
<1>20. ASSUME NEW d \in Outputs, d \in opened, mpc = "join", PacketsDry(d) PROVE FramesDrained'
  BY <1>20, Places DEF PacketsDry, Fails, FramesDrained, PacketsDrained, FilterType, DecoderType,
     FreeTaken, mainVars, readerVars, decoderVars, filterVars, encoderVars
<1>21. ASSUME NEW d \in Outputs, d \in opened, mpc = "join", FlushEnds(d) PROVE FramesDrained'
  BY <1>21, Places DEF FlushEnds, Fails, FramesDrained, PacketsDrained, FilterType, DecoderType,
     mainVars, readerVars, decoderVars, filterVars, encoderVars
<1> QED
  BY <1>1, <1>2, <1>3, <1>4, <1>5, <1>6, <1>7, <1>8, <1>9, <1>10, <1>11, <1>12, <1>13, <1>14,
     <1>15, <1>16, <1>17, <1>18, <1>19, <1>20, <1>21 DEF Next, Main, Reader, Decoder, Filter,
     Encoder, Terminated, JoinAndReport, ReadPacket, ReadEnds, ReaderFinishes, PacketsEnd,
     PopFrame, QueueEnds, SendFrame, UseFreed, WritePacket, Fails, vars, mainVars, readerVars,
     decoderVars, filterVars, encoderVars

LEMMA OutputsDrainedStep == TypeOK /\ Idle /\ OutputsDrained /\ Next => OutputsDrained'
<1> SUFFICES ASSUME MainType, ReaderType, DecoderType, FilterType, EncoderType, todo \subseteq
                 opened, Idle, OutputsDrained, Next
             PROVE  OutputsDrained'
  BY TypeParts
<1>1. CASE UNCHANGED <<opened, finished, fpc, todo, epc, frameQ, coding, failed>>
  BY <1>1 DEF OutputsDrained
<1>2. CASE InitializeDecoder
  BY <1>2, Places DEF InitializeDecoder, Fails, OutputsDrained, FilterType, EncoderType, MainType,
     mainVars, readerVars, decoderVars, filterVars, encoderVars
<1>3. CASE InitializeEncoders
  <2>1. UNCHANGED <<finished, fpc, todo, epc, frameQ, coding>> /\ opened' \subseteq Outputs
    BY <1>3 DEF InitializeEncoders, mainVars, readerVars, decoderVars, filterVars, encoderVars
  <2>2. \A e \in Outputs : ~finished[e] /\ epc[e] = "pop"
    BY <1>3 DEF InitializeEncoders, Idle
  <2> QED
    BY <2>1, <2>2 DEF OutputsDrained
<1>4. CASE InitializeFilter
  BY <1>4, Places DEF InitializeFilter, Fails, OutputsDrained, FilterType, EncoderType, MainType,
     mainVars, readerVars, decoderVars, filterVars, encoderVars
<1>5. CASE mpc = "join" /\ ReaderStart
  BY <1>5, Places DEF ReaderStart, Fails, OutputsDrained, FilterType, EncoderType, MainType,
     mainVars, readerVars, decoderVars, filterVars, encoderVars
<1>6. CASE mpc = "join" /\ DecoderStart
  BY <1>6, Places DEF DecoderStart, Fails, OutputsDrained, FilterType, EncoderType, MainType,
     mainVars, readerVars, decoderVars, filterVars, encoderVars
<1>7. CASE mpc = "join" /\ PopPacket
  BY <1>7, Places DEF PopPacket, Fails, OutputsDrained, FilterType, EncoderType, MainType,
     mainVars, readerVars, decoderVars, filterVars, encoderVars
<1>8. CASE mpc = "join" /\ ReceiveFrame
  BY <1>8, Places DEF ReceiveFrame, Fails, OutputsDrained, FilterType, EncoderType, MainType,
     mainVars, readerVars, decoderVars, filterVars, encoderVars
<1>9. CASE mpc = "join" /\ ReceiveEnds
  BY <1>9, Places DEF ReceiveEnds, Fails, OutputsDrained, FilterType, EncoderType, MainType,
     mainVars, readerVars, decoderVars, filterVars, encoderVars
<1>10. CASE mpc = "join" /\ PopDecoded
  BY <1>10, Places DEF PopDecoded, Fails, OutputsDrained, FilterType, EncoderType, MainType,
     mainVars, readerVars, decoderVars, filterVars, encoderVars
<1>11. CASE mpc = "join" /\ FramesEnd
  BY <1>11, Places DEF FramesEnd, Fails, OutputsDrained, FilterType, EncoderType, MainType,
     mainVars, readerVars, decoderVars, filterVars, encoderVars
<1>12. CASE mpc = "join" /\ PullFiltered
  BY <1>12, Places DEF PullFiltered, Fails, OutputsDrained, FilterType, EncoderType, MainType,
     mainVars, readerVars, decoderVars, filterVars, encoderVars
<1>13. CASE mpc = "join" /\ PullEnds
  BY <1>13, Places DEF PullEnds, Fails, OutputsDrained, FilterType, EncoderType, MainType,
     mainVars, readerVars, decoderVars, filterVars, encoderVars
<1>14. ASSUME NEW d \in Outputs, mpc = "join", Distribute(d) PROVE OutputsDrained'
  BY <1>14, Places DEF Distribute, Fails, OutputsDrained, FilterType, EncoderType, MainType,
     mainVars, readerVars, decoderVars, filterVars, encoderVars
<1>15. ASSUME NEW d \in Outputs, mpc = "join", Share(d) PROVE OutputsDrained'
  BY <1>15, Places DEF Share, Fails, OutputsDrained, FilterType, EncoderType, MainType, mainVars,
     readerVars, decoderVars, filterVars, encoderVars
<1>16. ASSUME NEW d \in Outputs, mpc = "join", FinishQueue(d) PROVE OutputsDrained'
  BY <1>16, Places DEF FinishQueue, Fails, OutputsDrained, FilterType, EncoderType, MainType,
     mainVars, readerVars, decoderVars, filterVars, encoderVars
<1>17. ASSUME NEW d \in Outputs, d \in opened, mpc = "join", PopFrame(d) PROVE OutputsDrained'
  BY <1>17, Places DEF PopFrame, Fails, OutputsDrained, FilterType, EncoderType, MainType,
     mainVars, readerVars, decoderVars, filterVars, encoderVars
<1>18. ASSUME NEW d \in Outputs, d \in opened, mpc = "join", QueueEnds(d) PROVE OutputsDrained'
  BY <1>18, Places DEF QueueEnds, Fails, OutputsDrained, FilterType, EncoderType, MainType,
     mainVars, readerVars, decoderVars, filterVars, encoderVars
<1>19. ASSUME NEW d \in Outputs, d \in opened, mpc = "join", SkipFrame(d) PROVE OutputsDrained'
  BY <1>19, Places DEF SkipFrame, Fails, OutputsDrained, FilterType, EncoderType, MainType,
     FreeTaken, mainVars, readerVars, decoderVars, filterVars, encoderVars
<1>20. ASSUME NEW d \in Outputs, d \in opened, mpc = "join", SendFrame(d) PROVE OutputsDrained'
  BY <1>20, Places DEF SendFrame, Fails, OutputsDrained, FilterType, EncoderType, MainType,
     mainVars, readerVars, decoderVars, filterVars, encoderVars
<1>21. ASSUME NEW d \in Outputs, d \in opened, mpc = "join", WritePacket(d) PROVE OutputsDrained'
  BY <1>21, Places DEF WritePacket, Fails, OutputsDrained, FilterType, EncoderType, MainType,
     mainVars, readerVars, decoderVars, filterVars, encoderVars
<1>22. ASSUME NEW d \in Outputs, d \in opened, mpc = "join", WriteFails(d) PROVE OutputsDrained'
  BY <1>22, Places DEF WriteFails, Fails, OutputsDrained, FilterType, EncoderType, MainType,
     FreeTaken, mainVars, readerVars, decoderVars, filterVars, encoderVars
<1>23. ASSUME NEW d \in Outputs, d \in opened, mpc = "join", PacketsDry(d) PROVE OutputsDrained'
  BY <1>23, Places DEF PacketsDry, Fails, OutputsDrained, FilterType, EncoderType, MainType,
     FreeTaken, mainVars, readerVars, decoderVars, filterVars, encoderVars
<1>24. ASSUME NEW d \in Outputs, d \in opened, mpc = "join", FlushEnds(d) PROVE OutputsDrained'
  BY <1>24, Places DEF FlushEnds, Fails, OutputsDrained, FilterType, EncoderType, MainType,
     mainVars, readerVars, decoderVars, filterVars, encoderVars
<1> QED
  BY <1>1, <1>2, <1>3, <1>4, <1>5, <1>6, <1>7, <1>8, <1>9, <1>10, <1>11, <1>12, <1>13, <1>14,
     <1>15, <1>16, <1>17, <1>18, <1>19, <1>20, <1>21, <1>22, <1>23, <1>24 DEF Next, Main, Reader,
     Decoder, Filter, Encoder, Terminated, JoinAndReport, ReadPacket, ReadEnds, ReaderFinishes,
     PacketsEnd, DecoderFinishes, UseFreed, Fails, vars, mainVars, readerVars, decoderVars,
     filterVars, encoderVars

LEMMA AllJoinedStep == TypeOK /\ Idle /\ AllJoined /\ Next => AllJoined'
<1> SUFFICES ASSUME MainType, ReaderType, DecoderType, FilterType, EncoderType, todo \subseteq
                 opened, Idle, AllJoined, Next
             PROVE  AllJoined'
  BY TypeParts
<1>1. CASE UNCHANGED <<mpc, rpc, dpc, fpc, epc, opened>>
  BY <1>1 DEF AllJoined
<1>2. CASE InitializeDecoder
  BY <1>2 DEF InitializeDecoder, Fails, AllJoined, mainVars, readerVars, decoderVars, filterVars,
     encoderVars
<1>3. CASE InitializeEncoders
  BY <1>3 DEF InitializeEncoders, Fails, AllJoined, mainVars, readerVars, decoderVars, filterVars,
     encoderVars
<1>4. CASE InitializeFilter
  BY <1>4 DEF InitializeFilter, Fails, AllJoined, mainVars, readerVars, decoderVars, filterVars,
     encoderVars
<1>5. CASE JoinAndReport
  BY <1>5 DEF JoinAndReport, Fails, AllJoined, mainVars, readerVars, decoderVars, filterVars,
     encoderVars
<1>6. CASE mpc = "join" /\ ReaderStart
  BY <1>6 DEF ReaderStart, AllJoined, mainVars
<1>7. CASE mpc = "join" /\ ReadPacket
  BY <1>7 DEF ReadPacket, AllJoined, mainVars
<1>8. CASE mpc = "join" /\ ReadEnds
  BY <1>8 DEF ReadEnds, AllJoined, mainVars
<1>9. CASE mpc = "join" /\ ReaderFinishes
  BY <1>9 DEF ReaderFinishes, AllJoined, mainVars
<1>10. CASE mpc = "join" /\ DecoderStart
  BY <1>10 DEF DecoderStart, AllJoined, mainVars
<1>11. CASE mpc = "join" /\ PopPacket
  BY <1>11 DEF PopPacket, AllJoined, mainVars
<1>12. CASE mpc = "join" /\ PacketsEnd
  BY <1>12 DEF PacketsEnd, AllJoined, mainVars
<1>13. CASE mpc = "join" /\ ReceiveEnds
  BY <1>13 DEF ReceiveEnds, AllJoined, mainVars
<1>14. CASE mpc = "join" /\ DecoderFinishes
  BY <1>14 DEF DecoderFinishes, AllJoined, mainVars
<1>15. CASE mpc = "join" /\ PopDecoded
  BY <1>15 DEF PopDecoded, AllJoined, mainVars
<1>16. CASE mpc = "join" /\ FramesEnd
  BY <1>16 DEF FramesEnd, AllJoined, mainVars
<1>17. CASE mpc = "join" /\ PullFiltered
  BY <1>17 DEF PullFiltered, AllJoined, mainVars
<1>18. CASE mpc = "join" /\ PullEnds
  BY <1>18 DEF PullEnds, AllJoined, mainVars
<1>19. ASSUME NEW d \in Outputs, mpc = "join", Distribute(d) PROVE AllJoined'
  BY <1>19 DEF Distribute, AllJoined, mainVars
<1>20. ASSUME NEW d \in Outputs, mpc = "join", Share(d) PROVE AllJoined'
  BY <1>20 DEF Share, AllJoined, mainVars
<1>21. ASSUME NEW d \in Outputs, mpc = "join", FinishQueue(d) PROVE AllJoined'
  BY <1>21 DEF FinishQueue, AllJoined, mainVars
<1>22. ASSUME NEW d \in Outputs, d \in opened, mpc = "join", PopFrame(d) PROVE AllJoined'
  BY <1>22 DEF PopFrame, AllJoined, mainVars
<1>23. ASSUME NEW d \in Outputs, d \in opened, mpc = "join", QueueEnds(d) PROVE AllJoined'
  BY <1>23 DEF QueueEnds, AllJoined, mainVars
<1>24. ASSUME NEW d \in Outputs, d \in opened, mpc = "join", SkipFrame(d) PROVE AllJoined'
  BY <1>24 DEF SkipFrame, AllJoined, mainVars
<1>25. ASSUME NEW d \in Outputs, d \in opened, mpc = "join", SendFrame(d) PROVE AllJoined'
  BY <1>25 DEF SendFrame, AllJoined, mainVars
<1>26. ASSUME NEW d \in Outputs, d \in opened, mpc = "join", UseFreed(d) PROVE AllJoined'
  BY <1>26 DEF UseFreed, AllJoined
<1>27. ASSUME NEW d \in Outputs, d \in opened, mpc = "join", WriteFails(d) PROVE AllJoined'
  BY <1>27 DEF WriteFails, AllJoined, mainVars
<1>28. ASSUME NEW d \in Outputs, d \in opened, mpc = "join", PacketsDry(d) PROVE AllJoined'
  BY <1>28 DEF PacketsDry, AllJoined, mainVars
<1>29. ASSUME NEW d \in Outputs, d \in opened, mpc = "join", FlushEnds(d) PROVE AllJoined'
  BY <1>29 DEF FlushEnds, AllJoined, mainVars
<1> QED
  BY <1>1, <1>2, <1>3, <1>4, <1>5, <1>6, <1>7, <1>8, <1>9, <1>10, <1>11, <1>12, <1>13, <1>14,
     <1>15, <1>16, <1>17, <1>18, <1>19, <1>20, <1>21, <1>22, <1>23, <1>24, <1>25, <1>26, <1>27,
     <1>28, <1>29 DEF Next, Main, Reader, Decoder, Filter, Encoder, Terminated, ReceiveFrame,
     WritePacket, Fails, vars, mainVars, readerVars, decoderVars, filterVars, encoderVars

-----------------------------------------------------------------------------
(* Nothing is lost while nothing fails *)

LEMMA FromTail ==
    ASSUME NEW S, NEW s \in Seq(S), s # <<>>, NEW n \in Int, From(s, n)
    PROVE  /\ Head(s) = n /\ From(Tail(s), n + 1) /\ Len(Tail(s)) = Len(s) - 1
           /\ Len(s) \in Nat /\ Len(s) >= 1
<1>1. /\ Len(s) \in Nat /\ Len(s) >= 1 /\ Head(s) = s[1] /\ Len(Tail(s)) = Len(s) - 1
      /\ \A i \in 1..Len(Tail(s)) : Tail(s)[i] = s[i + 1]
  BY TailSeq
<1> DEFINE t == Tail(s)
<1>2. Len(t) = Len(s) - 1 /\ \A i \in 1..Len(t) : t[i] = s[i + 1]
  BY <1>1
<1> HIDE DEF t
<1>3. \A i \in 1..Len(t) : i + 1 \in 1..Len(s)
  BY <1>1, <1>2
<1>4. From(t, n + 1) /\ s[1] = n
  BY <1>1, <1>2, <1>3 DEF From
<1> QED
  BY <1>1, <1>4 DEF t

LEMMA FromAppend ==
    ASSUME NEW S, NEW s \in Seq(S), NEW n \in Int, NEW x \in S, x = n + Len(s), From(s, n)
    PROVE  From(Append(s, x), n) /\ Len(Append(s, x)) = Len(s) + 1 /\ Len(s) \in Nat
<1> DEFINE t == Append(s, x)
<1>1. /\ Len(s) \in Nat /\ Len(t) = Len(s) + 1 /\ t[Len(s) + 1] = x
      /\ \A i \in 1..Len(s) : t[i] = s[i]
  BY AppendSeq
<1> HIDE DEF t
<1>2. \A i \in 1..Len(t) : i \in 1..Len(s) \/ i = Len(s) + 1
  BY <1>1
<1>3. From(t, n)
  BY <1>1, <1>2 DEF From
<1> QED
  BY <1>1, <1>3 DEF t

LEMMA FirstTypes ==
    ASSUME ReaderType, DecoderType, FilterType
    PROVE  /\ packets \in Nat /\ FirstPacket \in Int /\ FirstDecoding \in Int /\ FirstDecoded \in Int
           /\ FirstFilter \in Int
           /\ Len(packetQ) \in Nat /\ Len(decoding) \in Nat /\ Len(decodeQ) \in Nat /\ Len(filtering) \in Nat
           /\ packetQ \in Seq(Frames) /\ decoding \in Seq(Frames) /\ filtering \in Seq(Frames)
           /\ decodeQ \in Seq(Frames \cup {NoFrame})
<1>1. /\ packetQ \in Seq(Frames) /\ decoding \in Seq(Frames) /\ filtering \in Seq(Frames)
      /\ decodeQ \in Seq(Frames \cup {NoFrame}) /\ packets \in Nat
  BY VideoProcessingAssumption DEF ReaderType, DecoderType, FilterType
<1>2. Len(packetQ) \in Nat /\ Len(decoding) \in Nat /\ Len(decodeQ) \in Nat /\ Len(filtering) \in Nat
  BY <1>1
<1> QED
  BY <1>1, <1>2 DEF FirstPacket, FirstDecoding, FirstDecoded, FirstFilter

LEMMA SharedInit == Init => SharedComplete
<1>1. 1..Len(<<>>) = {}
  BY EmptyLen
<1> QED
  BY <1>1 DEF Init, SharedComplete, From

LEMMA SharedStep == TypeOK /\ NullsFail /\ FramesDrained /\ SharedComplete /\ Next =>
    SharedComplete'
<1> SUFFICES ASSUME MainType, ReaderType, DecoderType, FilterType, EncoderType, todo \subseteq
                 opened, NullsFail, FramesDrained, SharedComplete, Next
             PROVE  SharedComplete'
  BY TypeParts
<1>1. CASE UNCHANGED <<packets, packetQ, decoding, decodeQ, filtering, failed>>
  BY <1>1 DEF SharedComplete, FirstPacket, FirstDecoding, FirstDecoded, FirstFilter
<1>2. CASE InitializeDecoder
  <2>1. UNCHANGED <<packets, packetQ, decoding, decodeQ, filtering>> /\ (0 \notin failed' => 0 \notin failed)
    BY <1>2 DEF InitializeDecoder, Fails, mainVars, readerVars, decoderVars, filterVars, encoderVars
  <2> QED
    BY <2>1 DEF SharedComplete, FirstPacket, FirstDecoding, FirstDecoded, FirstFilter
<1>3. CASE InitializeEncoders
  <2>1. UNCHANGED <<packets, packetQ, decoding, decodeQ, filtering>> /\ (0 \notin failed' => 0 \notin failed)
    BY <1>3 DEF InitializeEncoders, Fails, mainVars, readerVars, decoderVars, filterVars, encoderVars
  <2> QED
    BY <2>1 DEF SharedComplete, FirstPacket, FirstDecoding, FirstDecoded, FirstFilter
<1>4. CASE InitializeFilter
  <2>1. UNCHANGED <<packets, packetQ, decoding, decodeQ, filtering>> /\ (0 \notin failed' => 0 \notin failed)
    BY <1>4 DEF InitializeFilter, Fails, mainVars, readerVars, decoderVars, filterVars, encoderVars
  <2> QED
    BY <2>1 DEF SharedComplete, FirstPacket, FirstDecoding, FirstDecoded, FirstFilter
<1>5. CASE mpc = "join" /\ ReaderStart
  <2>1. UNCHANGED <<packets, packetQ, decoding, decodeQ, filtering>> /\ (0 \notin failed' => 0 \notin failed)
    BY <1>5 DEF ReaderStart, Fails, mainVars, readerVars, decoderVars, filterVars, encoderVars
  <2> QED
    BY <2>1 DEF SharedComplete, FirstPacket, FirstDecoding, FirstDecoded, FirstFilter
<1>6. CASE mpc = "join" /\ ReadPacket
  <2> SUFFICES ASSUME 0 \notin failed' PROVE SharedComplete'
    BY DEF SharedComplete
  <2>1. /\ UNCHANGED <<decoding, decodeQ, filtering, failed>> /\ packetQ' = Append(packetQ, packets)
        /\ packets' = packets + 1 /\ packets \in Frames
    BY <1>6, FirstTypes, VideoProcessingAssumption DEF ReadPacket, Frames, decoderVars, filterVars, ReaderType
  <2>2. From(packetQ, FirstPacket) /\ packets = FirstPacket + Len(packetQ)
    BY <2>1, FirstTypes DEF SharedComplete, FirstPacket
  <2>3. From(packetQ', FirstPacket) /\ Len(packetQ') = Len(packetQ) + 1
    BY <2>1, <2>2, FirstTypes, FromAppend
  <2>4. FirstPacket' = FirstPacket
    BY <2>1, <2>3, FirstTypes DEF FirstPacket
  <2>5. FirstDecoding' = FirstDecoding /\ FirstDecoded' = FirstDecoded /\ FirstFilter' = FirstFilter
    BY <2>1, <2>4 DEF FirstDecoding, FirstDecoded, FirstFilter
  <2> QED
    BY <2>1, <2>3, <2>4, <2>5 DEF SharedComplete
<1>7. CASE mpc = "join" /\ DecoderStart
  <2>1. UNCHANGED <<packets, packetQ, decoding, decodeQ, filtering>> /\ (0 \notin failed' => 0 \notin failed)
    BY <1>7 DEF DecoderStart, Fails, mainVars, readerVars, decoderVars, filterVars, encoderVars
  <2> QED
    BY <2>1 DEF SharedComplete, FirstPacket, FirstDecoding, FirstDecoded, FirstFilter
<1>8. CASE mpc = "join" /\ PopPacket
  <2> SUFFICES ASSUME 0 \notin failed' PROVE SharedComplete'
    BY DEF SharedComplete
  <2>1. /\ UNCHANGED <<decodeQ, filtering, failed, packets>> /\ packetQ # <<>> /\ packetQ' = Tail(packetQ)
        /\ decoding' = Append(decoding, Head(packetQ))
    BY <1>8 DEF PopPacket, Fails, filterVars
  <2>2. From(packetQ, FirstPacket) /\ From(decoding, FirstDecoding)
    BY <2>1 DEF SharedComplete
  <2>3. /\ Head(packetQ) = FirstPacket /\ From(packetQ', FirstPacket + 1) /\ Len(packetQ') = Len(packetQ) - 1
        /\ Head(packetQ) \in Frames
    BY <2>1, <2>2, FirstTypes, FromTail, TailSeq
  <2>4. FirstPacket' = FirstPacket + 1
    BY <2>1, <2>3, FirstTypes DEF FirstPacket
  <2>5. Head(packetQ) = FirstDecoding + Len(decoding)
    BY <2>3, FirstTypes DEF FirstDecoding
  <2>6. From(decoding', FirstDecoding) /\ Len(decoding') = Len(decoding) + 1
    BY <2>1, <2>2, <2>3, <2>5, FirstTypes, FromAppend
  <2>7. FirstDecoding' = FirstDecoding
    BY <2>4, <2>6, FirstTypes DEF FirstDecoding
  <2>8. FirstDecoded' = FirstDecoded /\ FirstFilter' = FirstFilter
    BY <2>1, <2>7 DEF FirstDecoded, FirstFilter
  <2> QED
    BY <2>1, <2>3, <2>4, <2>6, <2>7, <2>8, <2>2 DEF SharedComplete
<1>9. CASE mpc = "join" /\ ReceiveFrame
  <2> SUFFICES ASSUME 0 \notin failed' PROVE SharedComplete'
    BY DEF SharedComplete
  <2>1. /\ UNCHANGED <<packetQ, filtering, failed, packets>> /\ decoding # <<>> /\ decoding' = Tail(decoding)
        /\ decodeQ' = Append(decodeQ, Head(decoding))
    BY <1>9 DEF ReceiveFrame, Fails, filterVars, readerVars
  <2>2. From(decoding, FirstDecoding) /\ From(decodeQ, FirstDecoded)
    BY <2>1 DEF SharedComplete
  <2>3. /\ Head(decoding) = FirstDecoding /\ From(decoding', FirstDecoding + 1)
        /\ Len(decoding') = Len(decoding) - 1 /\ Head(decoding) \in Frames \cup {NoFrame}
    BY <2>1, <2>2, FirstTypes, FromTail, TailSeq
  <2>4. FirstPacket' = FirstPacket
    BY <2>1 DEF FirstPacket
  <2>5. FirstDecoding' = FirstDecoding + 1
    BY <2>3, <2>4, FirstTypes DEF FirstDecoding
  <2>6. Head(decoding) = FirstDecoded + Len(decodeQ)
    BY <2>3, FirstTypes DEF FirstDecoded
  <2>7. From(decodeQ', FirstDecoded) /\ Len(decodeQ') = Len(decodeQ) + 1
    BY <2>1, <2>2, <2>3, <2>6, FirstTypes, FromAppend
  <2>8. FirstDecoded' = FirstDecoded
    BY <2>5, <2>7, FirstTypes DEF FirstDecoded
  <2>9. FirstFilter' = FirstFilter
    BY <2>1, <2>8 DEF FirstFilter
  <2> QED
    BY <2>1, <2>2, <2>3, <2>4, <2>5, <2>7, <2>8, <2>9 DEF SharedComplete
<1>10. CASE mpc = "join" /\ ReceiveEnds
  <2>1. UNCHANGED <<packets, packetQ, decoding, decodeQ, filtering>> /\ (0 \notin failed' => 0 \notin failed)
    BY <1>10 DEF ReceiveEnds, Fails, mainVars, readerVars, decoderVars, filterVars, encoderVars
  <2> QED
    BY <2>1 DEF SharedComplete, FirstPacket, FirstDecoding, FirstDecoded, FirstFilter
<1>11. CASE mpc = "join" /\ PopDecoded
  <2> SUFFICES ASSUME 0 \notin failed' PROVE SharedComplete'
    BY DEF SharedComplete
  <2>a. decodeQ # <<>> /\ 0 \notin failed
    BY <1>11 DEF PopDecoded, Fails
  <2>b. Head(decodeQ) # NoFrame
    BY <2>a, FirstTypes, TailMembers DEF NullsFail
  <2>c. ~filterEof
    BY <1>11, <2>a DEF PopDecoded, FramesDrained
  <2>1. /\ UNCHANGED <<packetQ, decoding, failed, packets>> /\ decodeQ' = Tail(decodeQ)
        /\ filtering' = Append(filtering, Head(decodeQ))
    BY <1>11, <2>b, <2>c DEF PopDecoded, Fails, readerVars
  <2>2. From(decodeQ, FirstDecoded) /\ From(filtering, FirstFilter)
    BY <2>a DEF SharedComplete
  <2>3. /\ Head(decodeQ) = FirstDecoded /\ From(decodeQ', FirstDecoded + 1)
        /\ Len(decodeQ') = Len(decodeQ) - 1 /\ Head(decodeQ) \in Frames
    BY <2>1, <2>2, <2>a, <2>b, FirstTypes, FromTail, TailSeq
  <2>4. FirstPacket' = FirstPacket /\ FirstDecoding' = FirstDecoding
    BY <2>1 DEF FirstPacket, FirstDecoding
  <2>5. FirstDecoded' = FirstDecoded + 1
    BY <2>3, <2>4, FirstTypes DEF FirstDecoded
  <2>6. Head(decodeQ) = FirstFilter + Len(filtering)
    BY <2>3, FirstTypes DEF FirstFilter
  <2>7. From(filtering', FirstFilter) /\ Len(filtering') = Len(filtering) + 1
    BY <2>1, <2>2, <2>3, <2>6, FirstTypes, FromAppend
  <2>8. FirstFilter' = FirstFilter
    BY <2>5, <2>7, FirstTypes DEF FirstFilter
  <2> QED
    BY <2>1, <2>2, <2>3, <2>4, <2>5, <2>7, <2>8, <2>a DEF SharedComplete
<1>12. CASE mpc = "join" /\ PullFiltered
  <2> SUFFICES ASSUME 0 \notin failed' PROVE SharedComplete'
    BY DEF SharedComplete
  <2>1. /\ UNCHANGED <<packetQ, decoding, decodeQ, failed, packets>> /\ filtering # <<>>
        /\ filtering' = Tail(filtering)
    BY <1>12 DEF PullFiltered, readerVars, decoderVars
  <2>2. From(filtering, FirstFilter)
    BY <2>1 DEF SharedComplete
  <2>3. From(filtering', FirstFilter + 1) /\ Len(filtering') = Len(filtering) - 1
    BY <2>1, <2>2, FirstTypes, FromTail
  <2>4. FirstPacket' = FirstPacket /\ FirstDecoding' = FirstDecoding /\ FirstDecoded' = FirstDecoded
    BY <2>1 DEF FirstPacket, FirstDecoding, FirstDecoded
  <2>5. FirstFilter' = FirstFilter + 1
    BY <2>3, <2>4, FirstTypes DEF FirstFilter
  <2> QED
    BY <2>1, <2>3, <2>4, <2>5 DEF SharedComplete
<1>13. CASE mpc = "join" /\ PullEnds
  <2>1. UNCHANGED <<packets, packetQ, decoding, decodeQ, filtering>> /\ (0 \notin failed' => 0 \notin failed)
    BY <1>13 DEF PullEnds, Fails, mainVars, readerVars, decoderVars, filterVars, encoderVars
  <2> QED
    BY <2>1 DEF SharedComplete, FirstPacket, FirstDecoding, FirstDecoded, FirstFilter
<1>14. ASSUME NEW d \in Outputs, mpc = "join", Distribute(d) PROVE SharedComplete'
  <2>1. UNCHANGED <<packets, packetQ, decoding, decodeQ, filtering>> /\ (0 \notin failed' => 0 \notin failed)
    BY <1>14 DEF Distribute, Fails, mainVars, readerVars, decoderVars, filterVars, encoderVars
  <2> QED
    BY <2>1 DEF SharedComplete, FirstPacket, FirstDecoding, FirstDecoded, FirstFilter
<1>15. ASSUME NEW d \in Outputs, d \in opened, mpc = "join", SkipFrame(d) PROVE SharedComplete'
  <2>1. UNCHANGED <<packets, packetQ, decoding, decodeQ, filtering>> /\ (0 \notin failed' => 0 \notin failed)
    BY <1>15 DEF SkipFrame, Fails, FreeTaken, mainVars, readerVars, decoderVars, filterVars,
       encoderVars
  <2> QED
    BY <2>1 DEF SharedComplete, FirstPacket, FirstDecoding, FirstDecoded, FirstFilter
<1>16. ASSUME NEW d \in Outputs, d \in opened, mpc = "join", WriteFails(d) PROVE SharedComplete'
  <2>1. UNCHANGED <<packets, packetQ, decoding, decodeQ, filtering>> /\ (0 \notin failed' => 0 \notin failed)
    BY <1>16 DEF WriteFails, Fails, FreeTaken, mainVars, readerVars, decoderVars, filterVars,
       encoderVars
  <2> QED
    BY <2>1 DEF SharedComplete, FirstPacket, FirstDecoding, FirstDecoded, FirstFilter
<1>17. ASSUME NEW d \in Outputs, d \in opened, mpc = "join", PacketsDry(d) PROVE SharedComplete'
  <2>1. UNCHANGED <<packets, packetQ, decoding, decodeQ, filtering>> /\ (0 \notin failed' => 0 \notin failed)
    BY <1>17 DEF PacketsDry, Fails, FreeTaken, mainVars, readerVars, decoderVars, filterVars,
       encoderVars
  <2> QED
    BY <2>1 DEF SharedComplete, FirstPacket, FirstDecoding, FirstDecoded, FirstFilter
<1>18. ASSUME NEW d \in Outputs, d \in opened, mpc = "join", FlushEnds(d) PROVE SharedComplete'
  <2>1. UNCHANGED <<packets, packetQ, decoding, decodeQ, filtering>> /\ (0 \notin failed' => 0 \notin failed)
    BY <1>18 DEF FlushEnds, Fails, mainVars, readerVars, decoderVars, filterVars, encoderVars
  <2> QED
    BY <2>1 DEF SharedComplete, FirstPacket, FirstDecoding, FirstDecoded, FirstFilter
<1> QED
  BY <1>1, <1>2, <1>3, <1>4, <1>5, <1>6, <1>7, <1>8, <1>9, <1>10, <1>11, <1>12, <1>13, <1>14,
     <1>15, <1>16, <1>17, <1>18 DEF Next, Main, Reader, Decoder, Filter, Encoder, Terminated,
     JoinAndReport, ReadEnds, ReaderFinishes, PacketsEnd, DecoderFinishes, FramesEnd, Share,
     FinishQueue, PopFrame, QueueEnds, SendFrame, UseFreed, WritePacket, Fails, vars, mainVars,
     readerVars, decoderVars, filterVars, encoderVars

\* A frame given out by the filter leaves it, nothing else changes its number.
LEMMA FilterNumber ==
    ASSUME ReaderType, DecoderType, FilterType, NullsFail, FramesDrained, Next, 0 \notin failed'
    PROVE  \/ FirstFilter' = FirstFilter
           \/ mpc = "join" /\ PullFiltered
<1>1. CASE UNCHANGED <<packets, packetQ, decoding, decodeQ, filtering>>
  BY <1>1 DEF FirstPacket, FirstDecoding, FirstDecoded, FirstFilter
<1>2. CASE mpc = "join" /\ ReadPacket
  <2>1. /\ UNCHANGED <<decoding, decodeQ, filtering>> /\ packetQ' = Append(packetQ, packets)
        /\ packets' = packets + 1 /\ packets \in Frames
    BY <1>2, FirstTypes, VideoProcessingAssumption DEF ReadPacket, Frames, decoderVars, filterVars, ReaderType
  <2>2. Len(packetQ') = Len(packetQ) + 1
    BY <2>1, FirstTypes, AppendSeq
  <2> QED
    BY <2>1, <2>2, FirstTypes DEF FirstPacket, FirstDecoding, FirstDecoded, FirstFilter
<1>3. CASE mpc = "join" /\ PopPacket
  <2>1. /\ UNCHANGED <<decodeQ, filtering, packets>> /\ packetQ # <<>> /\ packetQ' = Tail(packetQ)
        /\ decoding' = Append(decoding, Head(packetQ))
    BY <1>3 DEF PopPacket, Fails, filterVars
  <2>2. Len(packetQ') = Len(packetQ) - 1 /\ Len(decoding') = Len(decoding) + 1
    BY <2>1, FirstTypes, AppendSeq, TailSeq
  <2>3. FirstPacket' = FirstPacket + 1
    BY <2>1, <2>2, FirstTypes DEF FirstPacket
  <2>4. FirstDecoding' = FirstDecoding
    BY <2>2, <2>3, FirstTypes DEF FirstDecoding
  <2> QED
    BY <2>1, <2>4 DEF FirstDecoded, FirstFilter
<1>4. CASE mpc = "join" /\ ReceiveFrame
  <2>1. /\ UNCHANGED <<packetQ, filtering, packets>> /\ decoding # <<>> /\ decoding' = Tail(decoding)
        /\ decodeQ' = Append(decodeQ, Head(decoding))
    BY <1>4 DEF ReceiveFrame, Fails, filterVars, readerVars
  <2>2. Head(decoding) \in Frames \cup {NoFrame} /\ Len(decoding') = Len(decoding) - 1
    BY <2>1, FirstTypes, TailSeq
  <2>3. Len(decodeQ') = Len(decodeQ) + 1
    BY <2>1, <2>2, FirstTypes, AppendSeq
  <2>4. FirstDecoding' = FirstDecoding + 1
    BY <2>1, <2>2, FirstTypes DEF FirstPacket, FirstDecoding
  <2>5. FirstDecoded' = FirstDecoded
    BY <2>3, <2>4, FirstTypes DEF FirstDecoded
  <2> QED
    BY <2>1, <2>5 DEF FirstFilter
<1>5. CASE mpc = "join" /\ PopDecoded
  <2>a. decodeQ # <<>> /\ 0 \notin failed
    BY <1>5 DEF PopDecoded, Fails
  <2>b. Head(decodeQ) # NoFrame
    BY <2>a, FirstTypes, TailMembers DEF NullsFail
  <2>c. ~filterEof
    BY <1>5, <2>a DEF PopDecoded, FramesDrained
  <2>1. /\ UNCHANGED <<packetQ, decoding, packets>> /\ decodeQ' = Tail(decodeQ)
        /\ filtering' = Append(filtering, Head(decodeQ))
    BY <1>5, <2>b, <2>c DEF PopDecoded, Fails, readerVars
  <2>2. Head(decodeQ) \in Frames /\ Len(decodeQ') = Len(decodeQ) - 1
    BY <2>1, <2>a, <2>b, FirstTypes, TailSeq
  <2>3. Len(filtering') = Len(filtering) + 1
    BY <2>1, <2>2, FirstTypes, AppendSeq
  <2>4. FirstDecoded' = FirstDecoded + 1
    BY SMTT(30), <2>1, <2>2, FirstTypes DEF FirstPacket, FirstDecoding, FirstDecoded
  <2> QED
    BY <2>3, <2>4, FirstTypes DEF FirstFilter
<1> QED
  BY <1>1, <1>2, <1>3, <1>4, <1>5 DEF Next, Main, Reader, Decoder, Filter, Encoder, Terminated,
     InitializeDecoder, InitializeEncoders, InitializeFilter, JoinAndReport, ReaderStart,
     ReadEnds, ReaderFinishes, DecoderStart, PacketsEnd, ReceiveEnds, DecoderFinishes, FramesEnd,
     PullEnds, Distribute, Share, FinishQueue, PopFrame, QueueEnds, SkipFrame, SendFrame,
     UseFreed, WritePacket, WriteFails, PacketsDry, FlushEnds, FreeTaken, Fails, vars, mainVars,
     readerVars, decoderVars, filterVars, encoderVars

LEMMA HandlesFrom ==
    ASSUME NEW s \in Seq(Handles), NEW n \in Int,
           \A i \in 1..Len(s) : s[i].frame = n + i - 1
    PROVE  /\ s # <<>> => /\ Head(s).frame = n /\ Len(Tail(s)) = Len(s) - 1
                          /\ \A i \in 1..Len(Tail(s)) : Tail(s)[i].frame = (n + 1) + i - 1
           /\ \A x \in Handles : x.frame = n + Len(s) =>
                /\ Len(Append(s, x)) = Len(s) + 1
                /\ \A i \in 1..Len(Append(s, x)) : Append(s, x)[i].frame = n + i - 1
<1>1. ASSUME s # <<>>
      PROVE  /\ Head(s).frame = n /\ Len(Tail(s)) = Len(s) - 1
             /\ \A i \in 1..Len(Tail(s)) : Tail(s)[i].frame = (n + 1) + i - 1
  <2> DEFINE t == Tail(s)
  <2>1. /\ Len(s) \in Nat /\ Len(s) >= 1 /\ Head(s) = s[1] /\ Len(t) = Len(s) - 1
        /\ \A i \in 1..Len(t) : t[i] = s[i + 1]
    BY <1>1, TailSeq
  <2> HIDE DEF t
  <2>2. \A i \in 1..Len(t) : i + 1 \in 1..Len(s)
    BY <2>1
  <2>3. Head(s).frame = n /\ \A i \in 1..Len(t) : t[i].frame = (n + 1) + i - 1
    BY <2>1, <2>2
  <2> QED
    BY <2>1, <2>3 DEF t
<1>2. ASSUME NEW x \in Handles, x.frame = n + Len(s)
      PROVE  /\ Len(Append(s, x)) = Len(s) + 1
             /\ \A i \in 1..Len(Append(s, x)) : Append(s, x)[i].frame = n + i - 1
  <2> DEFINE t == Append(s, x)
  <2>1. /\ Len(s) \in Nat /\ Len(t) = Len(s) + 1 /\ t[Len(s) + 1] = x
        /\ \A i \in 1..Len(s) : t[i] = s[i]
    BY AppendSeq
  <2> HIDE DEF t
  <2>2. \A i \in 1..Len(t) : i \in 1..Len(s) \/ i = Len(s) + 1
    BY <2>1
  <2>3. \A i \in 1..Len(t) : t[i].frame = n + i - 1
    BY <1>2, <2>1, <2>2
  <2> QED
    BY <2>1, <2>3 DEF t
<1> QED
  BY <1>1, <1>2

\* Steps of other threads and other outputs.
LEMMA OutputKept ==
    ASSUME NEW e \in Outputs, OutputComplete(e), FirstFilter' = FirstFilter,
           epc'[e] = epc[e], taken'[e] = taken[e], frameQ'[e] = frameQ[e],
           coding'[e] = coding[e], output'[e] = output[e],
           Waiting(e)' <=> Waiting(e), Waiting(e) => filtered' = filtered
    PROVE  OutputComplete(e)'
<1>1. FirstQueued(e)' = FirstQueued(e)
  BY DEF FirstQueued
<1>2. FirstTaken(e)' = FirstTaken(e)
  BY <1>1 DEF FirstTaken
<1>3. FirstCoding(e)' = FirstCoding(e)
  BY <1>2 DEF FirstCoding
<1> QED
  BY <1>1, <1>2, <1>3 DEF OutputComplete

LEMMA OutputTypes ==
    ASSUME ReaderType, DecoderType, FilterType, EncoderType, NEW e \in Outputs
    PROVE  /\ FirstFilter \in Int /\ FirstQueued(e) \in Int /\ FirstTaken(e) \in Int /\ FirstCoding(e) \in Int
           /\ frameQ[e] \in Seq(Handles) /\ coding[e] \in Seq(Frames) /\ output[e] \in Seq(Frames)
           /\ Len(frameQ[e]) \in Nat /\ Len(coding[e]) \in Nat /\ Len(output[e]) \in Nat
<1>1. FirstFilter \in Int
  BY FirstTypes
<1>2. frameQ[e] \in Seq(Handles) /\ coding[e] \in Seq(Frames) /\ output[e] \in Seq(Frames)
  BY DEF FilterType, EncoderType
<1>3. Len(frameQ[e]) \in Nat /\ Len(coding[e]) \in Nat /\ Len(output[e]) \in Nat
  BY <1>2
<1>4. FirstQueued(e) \in Int
  BY <1>1, <1>3 DEF FirstQueued
<1>5. FirstTaken(e) \in Int
  BY <1>4 DEF FirstTaken
<1>6. FirstCoding(e) \in Int
  BY <1>3, <1>5 DEF FirstCoding
<1> QED
  BY <1>1, <1>2, <1>3, <1>4, <1>5, <1>6

LEMMA NoneFirst ==
    ASSUME packets = 0, Len(packetQ) = 0, Len(decoding) = 0, Len(decodeQ) = 0, Len(filtering) = 0
    PROVE  FirstFilter = 0
  BY DEF FirstFilter, FirstDecoded, FirstDecoding, FirstPacket

LEMMA NoneOfOutput ==
    ASSUME NEW e, FirstFilter = 0, ~Waiting(e), epc[e] = "pop", Len(frameQ[e]) = 0, Len(coding[e]) = 0
    PROVE  FirstQueued(e) = 0 /\ FirstTaken(e) = 0 /\ FirstCoding(e) = 0
<1>1. FirstQueued(e) = 0
  <2>1. (IF Waiting(e) THEN 1 ELSE 0) = 0
    OBVIOUS
  <2>2. 0 - 0 - 0 = 0
    OBVIOUS
  <2> QED
    BY <2>1, <2>2, Zenon DEF FirstQueued
<1>2. FirstTaken(e) = 0
  BY <1>1 DEF FirstTaken
<1> QED
  BY <1>1, <1>2 DEF FirstCoding

LEMMA OutputsInit == Init => OutputsComplete
<1> SUFFICES ASSUME Init, NEW e \in Outputs PROVE OutputComplete(e)
  BY DEF OutputsComplete, Init
<1>1. 1..Len(<<>>) = {} /\ Len(<<>>) = 0
  BY EmptyLen
<1>2. FirstFilter = 0
  <2>1. packets = 0 /\ Len(packetQ) = 0 /\ Len(decoding) = 0 /\ Len(decodeQ) = 0 /\ Len(filtering) = 0
    BY <1>1 DEF Init
  <2> QED
    BY <2>1, NoneFirst
<1>3. ~Waiting(e) /\ epc[e] = "pop" /\ frameQ[e] = <<>> /\ coding[e] = <<>> /\ output[e] = <<>>
  BY DEF Init, Waiting
<1>4. FirstQueued(e) = 0 /\ FirstTaken(e) = 0 /\ FirstCoding(e) = 0
  <2>1. Len(frameQ[e]) = 0 /\ Len(coding[e]) = 0
    BY <1>1, <1>3
  <2> QED
    BY <1>2, <1>3, <2>1, NoneOfOutput
<1> QED
  BY <1>1, <1>3, <1>4 DEF OutputComplete, From

LEMMA OutputsStep == TypeOK /\ Idle /\ NullsFail /\ FramesDrained /\ SharedComplete /\
    OutputsComplete /\ Next => OutputsComplete'
<1> SUFFICES ASSUME MainType, ReaderType, DecoderType, FilterType, EncoderType, todo \subseteq
                 opened, Idle, NullsFail, FramesDrained, SharedComplete, OutputsComplete, Next
             PROVE  OutputsComplete'
  BY TypeParts
<1>1. CASE UNCHANGED <<packets, packetQ, decoding, decodeQ, filtering, fpc, todo, filtered,
         frameQ, epc, taken, coding, output, opened, failed>>
  BY <1>1 DEF OutputsComplete, OutputComplete, Waiting, FirstPacket, FirstDecoding, FirstDecoded,
     FirstFilter, FirstQueued, FirstTaken, FirstCoding
<1>2. CASE InitializeDecoder
  <2> SUFFICES ASSUME 0 \notin failed', NEW e \in opened' \ failed' PROVE OutputComplete(e)'
    BY DEF OutputsComplete
  <2>1. /\ UNCHANGED <<opened, epc, taken, frameQ, coding, output, packets, packetQ, decoding, decodeQ, filtering, fpc, todo, filtered>>
        /\ (0 \notin failed' => 0 \notin failed) /\ e \in Outputs /\ (e \notin failed' => e \notin failed)
    BY <1>2 DEF InitializeDecoder, Fails, MainType, mainVars, readerVars, decoderVars, filterVars, encoderVars
  <2>2. FirstFilter' = FirstFilter
    BY <2>1 DEF FirstPacket, FirstDecoding, FirstDecoded, FirstFilter
  <2>3. OutputComplete(e) /\ (Waiting(e)' <=> Waiting(e))
    BY <2>1 DEF OutputsComplete, Waiting
  <2> QED
    BY <2>1, <2>2, <2>3, OutputKept
<1>3. CASE InitializeEncoders
  <2> SUFFICES ASSUME 0 \notin failed', NEW e \in opened' \ failed' PROVE OutputComplete(e)'
    BY DEF OutputsComplete
  <2>1. /\ packets' = 0 /\ packetQ' = <<>> /\ decoding' = <<>> /\ decodeQ' = <<>> /\ filtering' = <<>>
        /\ e \in Outputs /\ fpc' = "pop"
        /\ epc'[e] = "pop" /\ frameQ'[e] = <<>> /\ coding'[e] = <<>> /\ output'[e] = <<>>
    BY <1>3 DEF InitializeEncoders, Idle, mainVars, readerVars, decoderVars, filterVars, encoderVars
  <2>2. 1..Len(<<>>) = {} /\ Len(<<>>) = 0
    BY EmptyLen
  <2>3. FirstFilter' = 0
    <3>1. Len(packetQ') = 0 /\ Len(decoding') = 0 /\ Len(decodeQ') = 0 /\ Len(filtering') = 0
      BY <2>1, <2>2
    <3> QED
      <4>1. packets' = 0
        BY <2>1
      <4> HIDE <2>1, <2>2
      <4> QED
        BY <3>1, <4>1 DEF FirstFilter, FirstDecoded, FirstDecoding, FirstPacket
  <2>4. ~Waiting(e)'
    BY <2>1 DEF Waiting
  <2>5. FirstQueued(e)' = 0 /\ FirstTaken(e)' = 0 /\ FirstCoding(e)' = 0
    <3>0. Len(frameQ'[e]) = 0 /\ Len(coding'[e]) = 0
      BY <2>1, <2>2
    <3>1. FirstQueued(e)' = 0
      <4>1. (IF Waiting(e)' THEN 1 ELSE 0) = 0
        BY <2>4
      <4>2. 0 - 0 - 0 = 0
        OBVIOUS
      <4> QED
        BY <2>3, <3>0, <4>1, <4>2, Zenon DEF FirstQueued
    <3>2. FirstTaken(e)' = 0
      BY <2>1, <3>1 DEF FirstTaken
    <3> QED
      BY <3>0, <3>1, <3>2 DEF FirstCoding
  <2> QED
    BY <2>1, <2>2, <2>4, <2>5 DEF OutputComplete, From
<1>4. CASE InitializeFilter
  <2> SUFFICES ASSUME 0 \notin failed', NEW e \in opened' \ failed' PROVE OutputComplete(e)'
    BY DEF OutputsComplete
  <2>1. /\ UNCHANGED <<opened, epc, taken, frameQ, coding, output, packets, packetQ, decoding, decodeQ, filtering, fpc, todo, filtered>>
        /\ (0 \notin failed' => 0 \notin failed) /\ e \in Outputs /\ (e \notin failed' => e \notin failed)
    BY <1>4 DEF InitializeFilter, Fails, MainType, mainVars, readerVars, decoderVars, filterVars, encoderVars
  <2>2. FirstFilter' = FirstFilter
    BY <2>1 DEF FirstPacket, FirstDecoding, FirstDecoded, FirstFilter
  <2>3. OutputComplete(e) /\ (Waiting(e)' <=> Waiting(e))
    BY <2>1 DEF OutputsComplete, Waiting
  <2> QED
    BY <2>1, <2>2, <2>3, OutputKept
<1>5. CASE mpc = "join" /\ ReaderStart
  <2> SUFFICES ASSUME 0 \notin failed', NEW e \in opened' \ failed' PROVE OutputComplete(e)'
    BY DEF OutputsComplete
  <2>1. /\ UNCHANGED <<opened, epc, taken, frameQ, coding, output>> /\ (0 \notin failed' => 0 \notin failed)
        /\ e \in Outputs /\ (e \notin failed' => e \notin failed)
        /\ (UNCHANGED <<fpc, todo, filtered>> \/ (filtered' = filtered /\ fpc \notin {"distribute", "share"}
                                                /\ fpc' \notin {"distribute", "share"}))
    BY <1>5 DEF ReaderStart, Fails, MainType, mainVars, readerVars, decoderVars, filterVars,
       encoderVars
  <2>2. FirstFilter' = FirstFilter
    BY <1>5, FilterNumber DEF PullFiltered, ReaderStart, mainVars, readerVars, decoderVars,
       filterVars, encoderVars
  <2>3. OutputComplete(e) /\ (Waiting(e)' <=> Waiting(e)) /\ (Waiting(e) => filtered' = filtered)
    BY <2>1 DEF OutputsComplete, Waiting
  <2> QED
    BY <2>1, <2>2, <2>3, OutputKept
<1>6. CASE mpc = "join" /\ ReadPacket
  <2> SUFFICES ASSUME 0 \notin failed', NEW e \in opened' \ failed' PROVE OutputComplete(e)'
    BY DEF OutputsComplete
  <2>1. /\ UNCHANGED <<opened, epc, taken, frameQ, coding, output>> /\ (0 \notin failed' => 0 \notin failed)
        /\ e \in Outputs /\ (e \notin failed' => e \notin failed)
        /\ (UNCHANGED <<fpc, todo, filtered>> \/ (filtered' = filtered /\ fpc \notin {"distribute", "share"}
                                                /\ fpc' \notin {"distribute", "share"}))
    BY <1>6 DEF ReadPacket, Fails, MainType, mainVars, readerVars, decoderVars, filterVars,
       encoderVars
  <2>2. FirstFilter' = FirstFilter
    BY <1>6, FilterNumber DEF PullFiltered, ReadPacket, mainVars, readerVars, decoderVars,
       filterVars, encoderVars
  <2>3. OutputComplete(e) /\ (Waiting(e)' <=> Waiting(e)) /\ (Waiting(e) => filtered' = filtered)
    BY <2>1 DEF OutputsComplete, Waiting
  <2> QED
    BY <2>1, <2>2, <2>3, OutputKept
<1>7. CASE mpc = "join" /\ DecoderStart
  <2> SUFFICES ASSUME 0 \notin failed', NEW e \in opened' \ failed' PROVE OutputComplete(e)'
    BY DEF OutputsComplete
  <2>1. /\ UNCHANGED <<opened, epc, taken, frameQ, coding, output>> /\ (0 \notin failed' => 0 \notin failed)
        /\ e \in Outputs /\ (e \notin failed' => e \notin failed)
        /\ (UNCHANGED <<fpc, todo, filtered>> \/ (filtered' = filtered /\ fpc \notin {"distribute", "share"}
                                                /\ fpc' \notin {"distribute", "share"}))
    BY <1>7 DEF DecoderStart, Fails, MainType, mainVars, readerVars, decoderVars, filterVars,
       encoderVars
  <2>2. FirstFilter' = FirstFilter
    BY <1>7, FilterNumber DEF PullFiltered, DecoderStart, mainVars, readerVars, decoderVars,
       filterVars, encoderVars
  <2>3. OutputComplete(e) /\ (Waiting(e)' <=> Waiting(e)) /\ (Waiting(e) => filtered' = filtered)
    BY <2>1 DEF OutputsComplete, Waiting
  <2> QED
    BY <2>1, <2>2, <2>3, OutputKept
<1>8. CASE mpc = "join" /\ PopPacket
  <2> SUFFICES ASSUME 0 \notin failed', NEW e \in opened' \ failed' PROVE OutputComplete(e)'
    BY DEF OutputsComplete
  <2>1. /\ UNCHANGED <<opened, epc, taken, frameQ, coding, output>> /\ (0 \notin failed' => 0 \notin failed)
        /\ e \in Outputs /\ (e \notin failed' => e \notin failed)
        /\ (UNCHANGED <<fpc, todo, filtered>> \/ (filtered' = filtered /\ fpc \notin {"distribute", "share"}
                                                /\ fpc' \notin {"distribute", "share"}))
    BY <1>8 DEF PopPacket, Fails, MainType, mainVars, readerVars, decoderVars, filterVars,
       encoderVars
  <2>2. FirstFilter' = FirstFilter
    BY <1>8, FilterNumber DEF PullFiltered, PopPacket, mainVars, readerVars, decoderVars, filterVars,
       encoderVars
  <2>3. OutputComplete(e) /\ (Waiting(e)' <=> Waiting(e)) /\ (Waiting(e) => filtered' = filtered)
    BY <2>1 DEF OutputsComplete, Waiting
  <2> QED
    BY <2>1, <2>2, <2>3, OutputKept
<1>9. CASE mpc = "join" /\ ReceiveFrame
  <2> SUFFICES ASSUME 0 \notin failed', NEW e \in opened' \ failed' PROVE OutputComplete(e)'
    BY DEF OutputsComplete
  <2>1. /\ UNCHANGED <<opened, epc, taken, frameQ, coding, output>> /\ (0 \notin failed' => 0 \notin failed)
        /\ e \in Outputs /\ (e \notin failed' => e \notin failed)
        /\ (UNCHANGED <<fpc, todo, filtered>> \/ (filtered' = filtered /\ fpc \notin {"distribute", "share"}
                                                /\ fpc' \notin {"distribute", "share"}))
    BY <1>9 DEF ReceiveFrame, Fails, MainType, mainVars, readerVars, decoderVars, filterVars,
       encoderVars
  <2>2. FirstFilter' = FirstFilter
    BY <1>9, FilterNumber DEF PullFiltered, ReceiveFrame, mainVars, readerVars, decoderVars,
       filterVars, encoderVars
  <2>3. OutputComplete(e) /\ (Waiting(e)' <=> Waiting(e)) /\ (Waiting(e) => filtered' = filtered)
    BY <2>1 DEF OutputsComplete, Waiting
  <2> QED
    BY <2>1, <2>2, <2>3, OutputKept
<1>10. CASE mpc = "join" /\ ReceiveEnds
  <2> SUFFICES ASSUME 0 \notin failed', NEW e \in opened' \ failed' PROVE OutputComplete(e)'
    BY DEF OutputsComplete
  <2>1. /\ UNCHANGED <<opened, epc, taken, frameQ, coding, output>> /\ (0 \notin failed' => 0 \notin failed)
        /\ e \in Outputs /\ (e \notin failed' => e \notin failed)
        /\ (UNCHANGED <<fpc, todo, filtered>> \/ (filtered' = filtered /\ fpc \notin {"distribute", "share"}
                                                /\ fpc' \notin {"distribute", "share"}))
    BY <1>10 DEF ReceiveEnds, Fails, MainType, mainVars, readerVars, decoderVars, filterVars,
       encoderVars
  <2>2. FirstFilter' = FirstFilter
    BY <1>10, FilterNumber DEF PullFiltered, ReceiveEnds, mainVars, readerVars, decoderVars,
       filterVars, encoderVars
  <2>3. OutputComplete(e) /\ (Waiting(e)' <=> Waiting(e)) /\ (Waiting(e) => filtered' = filtered)
    BY <2>1 DEF OutputsComplete, Waiting
  <2> QED
    BY <2>1, <2>2, <2>3, OutputKept
<1>11. CASE mpc = "join" /\ PopDecoded
  <2> SUFFICES ASSUME 0 \notin failed', NEW e \in opened' \ failed' PROVE OutputComplete(e)'
    BY DEF OutputsComplete
  <2>1. /\ UNCHANGED <<opened, epc, taken, frameQ, coding, output>> /\ (0 \notin failed' => 0 \notin failed)
        /\ e \in Outputs /\ (e \notin failed' => e \notin failed)
        /\ (UNCHANGED <<fpc, todo, filtered>> \/ (filtered' = filtered /\ fpc \notin {"distribute", "share"}
                                                /\ fpc' \notin {"distribute", "share"}))
    BY <1>11 DEF PopDecoded, Fails, MainType, mainVars, readerVars, decoderVars, filterVars,
       encoderVars
  <2>2. FirstFilter' = FirstFilter
    BY <1>11, FilterNumber DEF PullFiltered, PopDecoded, mainVars, readerVars, decoderVars,
       filterVars, encoderVars
  <2>3. OutputComplete(e) /\ (Waiting(e)' <=> Waiting(e)) /\ (Waiting(e) => filtered' = filtered)
    BY <2>1 DEF OutputsComplete, Waiting
  <2> QED
    BY <2>1, <2>2, <2>3, OutputKept
<1>12. CASE mpc = "join" /\ FramesEnd
  <2> SUFFICES ASSUME 0 \notin failed', NEW e \in opened' \ failed' PROVE OutputComplete(e)'
    BY DEF OutputsComplete
  <2>1. /\ UNCHANGED <<opened, epc, taken, frameQ, coding, output>> /\ (0 \notin failed' => 0 \notin failed)
        /\ e \in Outputs /\ (e \notin failed' => e \notin failed)
        /\ (UNCHANGED <<fpc, todo, filtered>> \/ (filtered' = filtered /\ fpc \notin {"distribute", "share"}
                                                /\ fpc' \notin {"distribute", "share"}))
    BY <1>12 DEF FramesEnd, Fails, MainType, mainVars, readerVars, decoderVars, filterVars,
       encoderVars
  <2>2. FirstFilter' = FirstFilter
    BY <1>12, FilterNumber DEF PullFiltered, FramesEnd, mainVars, readerVars, decoderVars, filterVars,
       encoderVars
  <2>3. OutputComplete(e) /\ (Waiting(e)' <=> Waiting(e)) /\ (Waiting(e) => filtered' = filtered)
    BY <2>1 DEF OutputsComplete, Waiting
  <2> QED
    BY <2>1, <2>2, <2>3, OutputKept
<1>13. CASE mpc = "join" /\ PullFiltered
  <2> SUFFICES ASSUME 0 \notin failed', NEW e \in opened' \ failed' PROVE OutputComplete(e)'
    BY DEF OutputsComplete
  <2>1. /\ UNCHANGED <<opened, failed, epc, taken, frameQ, coding, output, packets, packetQ, decoding, decodeQ>>
        /\ e \in Outputs /\ filtering # <<>> /\ filtering' = Tail(filtering) /\ filtered' = Head(filtering)
        /\ ~Waiting(e) /\ Waiting(e)'
    BY <1>13 DEF PullFiltered, Waiting, MainType, mainVars, readerVars, decoderVars, filterVars, encoderVars
  <2>2. From(filtering, FirstFilter) /\ OutputComplete(e)
    BY <2>1 DEF SharedComplete, OutputsComplete
  <2>3. filtered' = FirstFilter /\ Len(filtering') = Len(filtering) - 1
    BY <2>1, <2>2, FirstTypes, FromTail
  <2>4. FirstFilter' = FirstFilter + 1
    <3>1. FirstDecoded' = FirstDecoded
      BY <2>1 DEF FirstPacket, FirstDecoding, FirstDecoded
    <3> QED
      BY <2>3, <3>1, FirstTypes DEF FirstFilter
  <2>5. FirstQueued(e)' = FirstQueued(e)
    BY <2>1, <2>4, OutputTypes DEF FirstQueued
  <2>6. FirstTaken(e)' = FirstTaken(e)
    BY <2>1, <2>5 DEF FirstTaken
  <2>7. FirstCoding(e)' = FirstCoding(e)
    BY <2>1, <2>6 DEF FirstCoding
  <2>8. filtered' = FirstFilter' - 1
    BY <2>3, <2>4, FirstTypes
  <2> QED
    BY <2>1, <2>2, <2>5, <2>6, <2>7, <2>8 DEF OutputComplete
<1>14. CASE mpc = "join" /\ PullEnds
  <2> SUFFICES ASSUME 0 \notin failed', NEW e \in opened' \ failed' PROVE OutputComplete(e)'
    BY DEF OutputsComplete
  <2>1. /\ UNCHANGED <<opened, epc, taken, frameQ, coding, output>> /\ (0 \notin failed' => 0 \notin failed)
        /\ e \in Outputs /\ (e \notin failed' => e \notin failed)
        /\ (UNCHANGED <<fpc, todo, filtered>> \/ (filtered' = filtered /\ fpc \notin {"distribute", "share"}
                                                /\ fpc' \notin {"distribute", "share"}))
    BY <1>14 DEF PullEnds, Fails, MainType, mainVars, readerVars, decoderVars, filterVars, encoderVars
  <2>2. FirstFilter' = FirstFilter
    BY <1>14, FilterNumber DEF PullFiltered, PullEnds, mainVars, readerVars, decoderVars, filterVars,
       encoderVars
  <2>3. OutputComplete(e) /\ (Waiting(e)' <=> Waiting(e)) /\ (Waiting(e) => filtered' = filtered)
    BY <2>1 DEF OutputsComplete, Waiting
  <2> QED
    BY <2>1, <2>2, <2>3, OutputKept
<1>15. ASSUME NEW d \in Outputs, mpc = "join", Distribute(d) PROVE OutputsComplete'
  <2> SUFFICES ASSUME 0 \notin failed', NEW e \in opened' \ failed' PROVE OutputComplete(e)'
    BY DEF OutputsComplete
  <2>1. /\ UNCHANGED <<opened, epc, taken, coding, output, packets, packetQ, decoding, decodeQ, filtering>>
        /\ e \in Outputs /\ fpc = "distribute" /\ d \in todo /\ todo' = todo \ {d}
        /\ (0 \notin failed' => 0 \notin failed) /\ (e \notin failed' => e \notin failed)
        /\ todo' # {} => fpc' = fpc /\ filtered' = filtered
        /\ (\/ d \in failed'
            \/ frameQ' = [frameQ EXCEPT ![d] = Append(@, [frame |-> filtered, clone |-> d])])
        /\ \A x \in Outputs : x # d => frameQ'[x] = frameQ[x]
    BY <1>15 DEF Distribute, Fails, NextOutput, MainType, FilterType, mainVars, readerVars, decoderVars, filterVars, encoderVars
  <2>2. FirstFilter' = FirstFilter /\ OutputComplete(e)
    BY <2>1 DEF FirstPacket, FirstDecoding, FirstDecoded, FirstFilter, OutputsComplete
  <2>3. CASE e # d
    <3>1. (Waiting(e)' <=> Waiting(e)) /\ (Waiting(e) => filtered' = filtered)
      <4>1. e \in todo' <=> e \in todo
        BY <2>1, <2>3
      <4>2. e \in todo => todo' # {}
        BY <4>1
      <4> QED
        BY <2>1, <4>1, <4>2 DEF Waiting
    <3> QED
      BY <2>1, <2>2, <2>3, <3>1, OutputKept
  <2>4. CASE e = d
    <3> DEFINE x == [frame |-> filtered, clone |-> d]
    <3>1. Waiting(e) /\ ~Waiting(e)'
      BY <2>1, <2>4 DEF Waiting
    <3>2. x \in Handles /\ x.frame = filtered
      BY <2>1, VideoProcessingAssumption DEF FilterType, Handles, Outputs
    <3>3. frameQ'[e] = Append(frameQ[e], x)
      BY <2>1, <2>4 DEF FilterType
    <3> HIDE DEF x
    <3>4. /\ filtered = FirstFilter - 1
          /\ \A i \in 1..Len(frameQ[e]) : frameQ[e][i].frame = FirstQueued(e) + i - 1
      BY <2>2, <3>1 DEF OutputComplete
    <3>5. x.frame = FirstQueued(e) + Len(frameQ[e])
      BY <2>1, <3>1, <3>2, <3>4, OutputTypes DEF FirstQueued
    <3>6. /\ Len(frameQ'[e]) = Len(frameQ[e]) + 1
          /\ \A i \in 1..Len(frameQ'[e]) : frameQ'[e][i].frame = FirstQueued(e) + i - 1
      <4>1. FirstQueued(e) \in Int /\ frameQ[e] \in Seq(Handles)
        BY <2>1, OutputTypes
      <4> QED
        BY <3>2, <3>3, <3>4, <3>5, <4>1, HandlesFrom
    <3>7. FirstQueued(e)' = FirstQueued(e)
      BY SMTT(30), <2>1, <2>2, <3>1, <3>6, OutputTypes DEF FirstQueued
    <3>8. FirstTaken(e)' = FirstTaken(e)
      BY <2>1, <3>7 DEF FirstTaken
    <3>9. FirstCoding(e)' = FirstCoding(e)
      BY <2>1, <3>8 DEF FirstCoding
    <3> QED
      BY <2>1, <2>2, <3>1, <3>6, <3>7, <3>8, <3>9 DEF OutputComplete
  <2> QED
    BY <2>3, <2>4
<1>16. ASSUME NEW d \in Outputs, mpc = "join", Share(d) PROVE OutputsComplete'
  <2> SUFFICES ASSUME 0 \notin failed', NEW e \in opened' \ failed' PROVE OutputComplete(e)'
    BY DEF OutputsComplete
  <2>1. /\ UNCHANGED <<opened, epc, taken, coding, output, packets, packetQ, decoding, decodeQ, filtering>>
        /\ e \in Outputs /\ fpc = "share" /\ d \in todo /\ todo' = todo \ {d}
        /\ (0 \notin failed' => 0 \notin failed) /\ (e \notin failed' => e \notin failed)
        /\ todo' # {} => fpc' = fpc /\ filtered' = filtered
        /\ (\/ d \in failed'
            \/ frameQ' = [frameQ EXCEPT ![d] = Append(@, [frame |-> filtered, clone |-> 0])])
        /\ \A x \in Outputs : x # d => frameQ'[x] = frameQ[x]
    BY <1>16 DEF Share, Fails, NextOutput, MainType, FilterType, mainVars, readerVars, decoderVars, filterVars, encoderVars
  <2>2. FirstFilter' = FirstFilter /\ OutputComplete(e)
    BY <2>1 DEF FirstPacket, FirstDecoding, FirstDecoded, FirstFilter, OutputsComplete
  <2>3. CASE e # d
    <3>1. (Waiting(e)' <=> Waiting(e)) /\ (Waiting(e) => filtered' = filtered)
      <4>1. e \in todo' <=> e \in todo
        BY <2>1, <2>3
      <4>2. e \in todo => todo' # {}
        BY <4>1
      <4> QED
        BY <2>1, <4>1, <4>2 DEF Waiting
    <3> QED
      BY <2>1, <2>2, <2>3, <3>1, OutputKept
  <2>4. CASE e = d
    <3> DEFINE x == [frame |-> filtered, clone |-> 0]
    <3>1. Waiting(e) /\ ~Waiting(e)'
      BY <2>1, <2>4 DEF Waiting
    <3>2. x \in Handles /\ x.frame = filtered
      BY <2>1, VideoProcessingAssumption DEF FilterType, Handles, Outputs
    <3>3. frameQ'[e] = Append(frameQ[e], x)
      BY <2>1, <2>4 DEF FilterType
    <3> HIDE DEF x
    <3>4. /\ filtered = FirstFilter - 1
          /\ \A i \in 1..Len(frameQ[e]) : frameQ[e][i].frame = FirstQueued(e) + i - 1
      BY <2>2, <3>1 DEF OutputComplete
    <3>5. x.frame = FirstQueued(e) + Len(frameQ[e])
      BY <2>1, <3>1, <3>2, <3>4, OutputTypes DEF FirstQueued
    <3>6. /\ Len(frameQ'[e]) = Len(frameQ[e]) + 1
          /\ \A i \in 1..Len(frameQ'[e]) : frameQ'[e][i].frame = FirstQueued(e) + i - 1
      <4>1. FirstQueued(e) \in Int /\ frameQ[e] \in Seq(Handles)
        BY <2>1, OutputTypes
      <4> QED
        BY <3>2, <3>3, <3>4, <3>5, <4>1, HandlesFrom
    <3>7. FirstQueued(e)' = FirstQueued(e)
      BY SMTT(30), <2>1, <2>2, <3>1, <3>6, OutputTypes DEF FirstQueued
    <3>8. FirstTaken(e)' = FirstTaken(e)
      BY <2>1, <3>7 DEF FirstTaken
    <3>9. FirstCoding(e)' = FirstCoding(e)
      BY <2>1, <3>8 DEF FirstCoding
    <3> QED
      BY <2>1, <2>2, <3>1, <3>6, <3>7, <3>8, <3>9 DEF OutputComplete
  <2> QED
    BY <2>3, <2>4
<1>17. ASSUME NEW d \in Outputs, mpc = "join", FinishQueue(d) PROVE OutputsComplete'
  <2> SUFFICES ASSUME 0 \notin failed', NEW e \in opened' \ failed' PROVE OutputComplete(e)'
    BY DEF OutputsComplete
  <2>1. /\ UNCHANGED <<opened, epc, taken, frameQ, coding, output>> /\ (0 \notin failed' => 0 \notin failed)
        /\ e \in Outputs /\ (e \notin failed' => e \notin failed)
        /\ (UNCHANGED <<fpc, todo, filtered>> \/ (filtered' = filtered /\ fpc \notin {"distribute", "share"}
                                                /\ fpc' \notin {"distribute", "share"}))
    BY <1>17 DEF FinishQueue, Fails, MainType, mainVars, readerVars, decoderVars, filterVars,
       encoderVars
  <2>2. FirstFilter' = FirstFilter
    BY <1>17, FilterNumber DEF PullFiltered, FinishQueue, mainVars, readerVars, decoderVars,
       filterVars, encoderVars
  <2>3. OutputComplete(e) /\ (Waiting(e)' <=> Waiting(e)) /\ (Waiting(e) => filtered' = filtered)
    BY <2>1 DEF OutputsComplete, Waiting
  <2> QED
    BY <2>1, <2>2, <2>3, OutputKept
<1>18. ASSUME NEW d \in Outputs, d \in opened, mpc = "join", PopFrame(d) PROVE OutputsComplete'
  <2> SUFFICES ASSUME 0 \notin failed', NEW e \in opened' \ failed' PROVE OutputComplete(e)'
    BY DEF OutputsComplete
  <2>1. /\ UNCHANGED <<opened, packets, packetQ, decoding, decodeQ, filtering, fpc, todo, filtered>>
        /\ e \in Outputs /\ (0 \notin failed' => 0 \notin failed) /\ (e \notin failed' => e \notin failed)
        /\ e # d => /\ epc'[e] = epc[e] /\ taken'[e] = taken[e] /\ frameQ'[e] = frameQ[e]
                    /\ coding'[e] = coding[e] /\ output'[e] = output[e]
    BY <1>18 DEF PopFrame, Fails, MainType, FilterType, EncoderType, mainVars, readerVars, decoderVars, filterVars, encoderVars
  <2>2. /\ FirstFilter' = FirstFilter /\ OutputComplete(e) /\ (Waiting(e)' <=> Waiting(e))
    BY <2>1 DEF FirstPacket, FirstDecoding, FirstDecoded, FirstFilter, OutputsComplete, Waiting
  <2>3. CASE e # d
    BY <2>1, <2>2, <2>3, OutputKept
  <2>4. CASE e = d
    <3>1. /\ UNCHANGED <<coding, output>> /\ epc[e] = "pop" /\ epc'[e] = "encode"
          /\ frameQ[e] # <<>> /\ frameQ'[e] = Tail(frameQ[e]) /\ taken'[e] = <<Head(frameQ[e])>>
      BY <1>18, <2>1, <2>4 DEF PopFrame, FilterType, EncoderType, mainVars, readerVars, decoderVars, filterVars, encoderVars
    <3>2. \A i \in 1..Len(frameQ[e]) : frameQ[e][i].frame = FirstQueued(e) + i - 1
      BY <2>2 DEF OutputComplete
    <3>3. /\ Head(frameQ[e]).frame = FirstQueued(e) /\ Len(frameQ'[e]) = Len(frameQ[e]) - 1
          /\ \A i \in 1..Len(frameQ'[e]) : frameQ'[e][i].frame = (FirstQueued(e) + 1) + i - 1
      <4>1. FirstQueued(e) \in Int /\ frameQ[e] \in Seq(Handles)
        BY <2>1, OutputTypes
      <4>2. /\ Head(frameQ[e]).frame = FirstQueued(e) /\ Len(Tail(frameQ[e])) = Len(frameQ[e]) - 1
            /\ \A i \in 1..Len(Tail(frameQ[e])) :
                 Tail(frameQ[e])[i].frame = (FirstQueued(e) + 1) + i - 1
        <5> HIDE DEF FirstQueued
        <5> QED
          BY <3>1, <3>2, <4>1, HandlesFrom
      <4> QED
        BY <3>1, <4>2
    <3>4. FirstQueued(e)' = FirstQueued(e) + 1
      <4>1. FirstFilter \in Int /\ Len(frameQ[e]) \in Nat
        BY <2>1, OutputTypes
      <4>2. Len(frameQ'[e]) = Len(frameQ[e]) - 1
        BY <3>3
      <4> QED
        BY <2>2, <4>1, <4>2 DEF FirstQueued
    <3>5. FirstTaken(e)' = FirstTaken(e) /\ FirstTaken(e) = FirstQueued(e)
      BY <2>1, <3>1, <3>4, OutputTypes DEF FirstTaken
    <3>6. FirstCoding(e)' = FirstCoding(e)
      BY <3>1, <3>5 DEF FirstCoding
    <3>7. taken'[e][1].frame = FirstTaken(e)'
      BY <3>1, <3>3, <3>5
    <3> QED
      BY <2>1, <2>2, <3>1, <3>3, <3>4, <3>5, <3>6, <3>7 DEF OutputComplete
  <2> QED
    BY <2>3, <2>4
<1>19. ASSUME NEW d \in Outputs, d \in opened, mpc = "join", QueueEnds(d) PROVE OutputsComplete'
  <2> SUFFICES ASSUME 0 \notin failed', NEW e \in opened' \ failed' PROVE OutputComplete(e)'
    BY DEF OutputsComplete
  <2>1. /\ UNCHANGED <<opened, packets, packetQ, decoding, decodeQ, filtering, fpc, todo, filtered>>
        /\ e \in Outputs /\ (0 \notin failed' => 0 \notin failed) /\ (e \notin failed' => e \notin failed)
        /\ e # d => /\ epc'[e] = epc[e] /\ taken'[e] = taken[e] /\ frameQ'[e] = frameQ[e]
                    /\ coding'[e] = coding[e] /\ output'[e] = output[e]
    BY <1>19 DEF QueueEnds, Fails, MainType, FilterType, EncoderType, mainVars, readerVars, decoderVars, filterVars, encoderVars
  <2>2. /\ FirstFilter' = FirstFilter /\ OutputComplete(e) /\ (Waiting(e)' <=> Waiting(e))
    BY <2>1 DEF FirstPacket, FirstDecoding, FirstDecoded, FirstFilter, OutputsComplete, Waiting
  <2>3. CASE e # d
    BY <2>1, <2>2, <2>3, OutputKept
  <2>4. CASE e = d
    <3>1. /\ UNCHANGED <<frameQ, coding, output>> /\ epc[e] = "pop" /\ epc'[e] = "flush"
      BY <1>19, <2>4 DEF QueueEnds, EncoderType, mainVars, readerVars, decoderVars, filterVars, encoderVars
    <3>2. FirstQueued(e)' = FirstQueued(e)
      BY <2>2, <3>1 DEF FirstQueued
    <3>3. FirstTaken(e)' = FirstTaken(e)
      BY <2>1, <3>1, <3>2, OutputTypes DEF FirstTaken
    <3>4. FirstCoding(e)' = FirstCoding(e)
      BY <3>1, <3>3 DEF FirstCoding
    <3> QED
      BY <2>1, <2>2, <3>1, <3>2, <3>3, <3>4 DEF OutputComplete
  <2> QED
    BY <2>3, <2>4
<1>20. ASSUME NEW d \in Outputs, d \in opened, mpc = "join", SkipFrame(d) PROVE OutputsComplete'
  <2> SUFFICES ASSUME 0 \notin failed', NEW e \in opened' \ failed' PROVE OutputComplete(e)'
    BY DEF OutputsComplete
  <2>1. /\ UNCHANGED <<opened, packets, packetQ, decoding, decodeQ, filtering, fpc, todo, filtered>>
        /\ e \in Outputs /\ (0 \notin failed' => 0 \notin failed) /\ (e \notin failed' => e \notin failed)
        /\ e # d => /\ epc'[e] = epc[e] /\ taken'[e] = taken[e] /\ frameQ'[e] = frameQ[e]
                    /\ coding'[e] = coding[e] /\ output'[e] = output[e]
    BY <1>20 DEF SkipFrame, Fails, FreeTaken, MainType, FilterType, EncoderType, mainVars, readerVars, decoderVars, filterVars, encoderVars
  <2>2. /\ FirstFilter' = FirstFilter /\ OutputComplete(e) /\ (Waiting(e)' <=> Waiting(e))
    BY <2>1 DEF FirstPacket, FirstDecoding, FirstDecoded, FirstFilter, OutputsComplete, Waiting
  <2>3. CASE e # d
    BY <2>1, <2>2, <2>3, OutputKept
  <2>4. CASE e = d
    BY <1>20, <2>4 DEF SkipFrame, Fails
  <2> QED
    BY <2>3, <2>4
<1>21. ASSUME NEW d \in Outputs, d \in opened, mpc = "join", SendFrame(d) PROVE OutputsComplete'
  <2> SUFFICES ASSUME 0 \notin failed', NEW e \in opened' \ failed' PROVE OutputComplete(e)'
    BY DEF OutputsComplete
  <2>1. /\ UNCHANGED <<opened, packets, packetQ, decoding, decodeQ, filtering, fpc, todo, filtered>>
        /\ e \in Outputs /\ (0 \notin failed' => 0 \notin failed) /\ (e \notin failed' => e \notin failed)
        /\ e # d => /\ epc'[e] = epc[e] /\ taken'[e] = taken[e] /\ frameQ'[e] = frameQ[e]
                    /\ coding'[e] = coding[e] /\ output'[e] = output[e]
    BY <1>21 DEF SendFrame, Fails, MainType, FilterType, EncoderType, mainVars, readerVars, decoderVars, filterVars, encoderVars
  <2>2. /\ FirstFilter' = FirstFilter /\ OutputComplete(e) /\ (Waiting(e)' <=> Waiting(e))
    BY <2>1 DEF FirstPacket, FirstDecoding, FirstDecoded, FirstFilter, OutputsComplete, Waiting
  <2>3. CASE e # d
    BY <2>1, <2>2, <2>3, OutputKept
  <2>4. CASE e = d
    <3>1. /\ UNCHANGED <<frameQ, taken, output>> /\ epc[e] = "encode" /\ epc'[e] = "receive"
          /\ coding'[e] = Append(coding[e], Head(taken[e]).frame)
      BY <1>21, <2>1, <2>4 DEF SendFrame, FilterType, EncoderType, mainVars, readerVars, decoderVars, filterVars, encoderVars
    <3>2. /\ Head(taken[e]).frame = FirstTaken(e) /\ Head(taken[e]).frame \in Frames
      BY <2>1, <2>2, <3>1, TakenFrame, HandleType DEF OutputComplete
    <3>3. FirstQueued(e)' = FirstQueued(e)
      BY <2>2, <3>1 DEF FirstQueued
    <3>4. FirstTaken(e)' = FirstTaken(e) + 1
      BY <2>1, <3>1, <3>3, OutputTypes DEF FirstTaken
    <3>5. From(coding[e], FirstCoding(e)) /\ FirstTaken(e) = FirstCoding(e) + Len(coding[e])
      BY <2>1, <2>2, OutputTypes DEF OutputComplete, FirstCoding
    <3>6. From(coding'[e], FirstCoding(e)) /\ Len(coding'[e]) = Len(coding[e]) + 1
      <4>1. FirstCoding(e) \in Int /\ coding[e] \in Seq(Frames)
        BY <2>1, OutputTypes
      <4> QED
        BY <3>1, <3>2, <3>5, <4>1, FromAppend
    <3>7. FirstCoding(e)' = FirstCoding(e)
      BY <2>1, <3>4, <3>6, OutputTypes DEF FirstCoding
    <3> QED
      BY <2>1, <2>2, <3>1, <3>3, <3>6, <3>7 DEF OutputComplete
  <2> QED
    BY <2>3, <2>4
<1>22. ASSUME NEW d \in Outputs, d \in opened, mpc = "join", WritePacket(d) PROVE OutputsComplete'
  <2> SUFFICES ASSUME 0 \notin failed', NEW e \in opened' \ failed' PROVE OutputComplete(e)'
    BY DEF OutputsComplete
  <2>1. /\ UNCHANGED <<opened, packets, packetQ, decoding, decodeQ, filtering, fpc, todo, filtered>>
        /\ e \in Outputs /\ (0 \notin failed' => 0 \notin failed) /\ (e \notin failed' => e \notin failed)
        /\ e # d => /\ epc'[e] = epc[e] /\ taken'[e] = taken[e] /\ frameQ'[e] = frameQ[e]
                    /\ coding'[e] = coding[e] /\ output'[e] = output[e]
    BY <1>22 DEF WritePacket, Fails, MainType, FilterType, EncoderType, mainVars, readerVars, decoderVars, filterVars, encoderVars
  <2>2. /\ FirstFilter' = FirstFilter /\ OutputComplete(e) /\ (Waiting(e)' <=> Waiting(e))
    BY <2>1 DEF FirstPacket, FirstDecoding, FirstDecoded, FirstFilter, OutputsComplete, Waiting
  <2>3. CASE e # d
    BY <2>1, <2>2, <2>3, OutputKept
  <2>4. CASE e = d
    <3>1. /\ UNCHANGED <<frameQ, taken, epc>> /\ coding[e] # <<>> /\ coding'[e] = Tail(coding[e])
          /\ output'[e] = Append(output[e], Head(coding[e]))
      BY <1>22, <2>1, <2>4 DEF WritePacket, FilterType, EncoderType, mainVars, readerVars, decoderVars, filterVars, encoderVars
    <3>2. FirstQueued(e)' = FirstQueued(e)
      BY <2>2, <3>1 DEF FirstQueued
    <3>3. FirstTaken(e)' = FirstTaken(e)
      BY <3>1, <3>2 DEF FirstTaken
    <3>4. /\ From(coding[e], FirstCoding(e)) /\ From(output[e], 0) /\ Len(output[e]) = FirstCoding(e)
      BY <2>2 DEF OutputComplete
    <3>5. FirstCoding(e) \in Int /\ coding[e] \in Seq(Frames) /\ output[e] \in Seq(Frames)
          /\ Len(coding[e]) \in Nat /\ Len(output[e]) \in Nat /\ FirstTaken(e) \in Int
      BY <2>1, OutputTypes
    <3>6. /\ Head(coding[e]) = FirstCoding(e) /\ From(coding'[e], FirstCoding(e) + 1)
          /\ Len(coding'[e]) = Len(coding[e]) - 1
      BY <3>1, <3>4, <3>5, FromTail
    <3>7. Head(coding[e]) \in Frames /\ Head(coding[e]) = 0 + Len(output[e])
      BY <3>1, <3>4, <3>5, <3>6, TailSeq
    <3>8. From(output'[e], 0) /\ Len(output'[e]) = Len(output[e]) + 1
      BY <3>1, <3>4, <3>5, <3>7, FromAppend
    <3>9. FirstCoding(e)' = FirstCoding(e) + 1
      BY <3>3, <3>5, <3>6 DEF FirstCoding
    <3>10. Len(output'[e]) = FirstCoding(e)'
      BY <3>4, <3>8, <3>9
    <3> QED
      BY <2>1, <2>2, <3>1, <3>2, <3>3, <3>6, <3>8, <3>9, <3>10 DEF OutputComplete
  <2> QED
    BY <2>3, <2>4
<1>23. ASSUME NEW d \in Outputs, d \in opened, mpc = "join", WriteFails(d) PROVE OutputsComplete'
  <2> SUFFICES ASSUME 0 \notin failed', NEW e \in opened' \ failed' PROVE OutputComplete(e)'
    BY DEF OutputsComplete
  <2>1. /\ UNCHANGED <<opened, packets, packetQ, decoding, decodeQ, filtering, fpc, todo, filtered>>
        /\ e \in Outputs /\ (0 \notin failed' => 0 \notin failed) /\ (e \notin failed' => e \notin failed)
        /\ e # d => /\ epc'[e] = epc[e] /\ taken'[e] = taken[e] /\ frameQ'[e] = frameQ[e]
                    /\ coding'[e] = coding[e] /\ output'[e] = output[e]
    BY <1>23 DEF WriteFails, Fails, FreeTaken, MainType, FilterType, EncoderType, mainVars, readerVars, decoderVars, filterVars, encoderVars
  <2>2. /\ FirstFilter' = FirstFilter /\ OutputComplete(e) /\ (Waiting(e)' <=> Waiting(e))
    BY <2>1 DEF FirstPacket, FirstDecoding, FirstDecoded, FirstFilter, OutputsComplete, Waiting
  <2>3. CASE e # d
    BY <2>1, <2>2, <2>3, OutputKept
  <2>4. CASE e = d
    BY <1>23, <2>4 DEF WriteFails, Fails
  <2> QED
    BY <2>3, <2>4
<1>24. ASSUME NEW d \in Outputs, d \in opened, mpc = "join", PacketsDry(d) PROVE OutputsComplete'
  <2> SUFFICES ASSUME 0 \notin failed', NEW e \in opened' \ failed' PROVE OutputComplete(e)'
    BY DEF OutputsComplete
  <2>1. /\ UNCHANGED <<opened, packets, packetQ, decoding, decodeQ, filtering, fpc, todo, filtered>>
        /\ e \in Outputs /\ (0 \notin failed' => 0 \notin failed) /\ (e \notin failed' => e \notin failed)
        /\ e # d => /\ epc'[e] = epc[e] /\ taken'[e] = taken[e] /\ frameQ'[e] = frameQ[e]
                    /\ coding'[e] = coding[e] /\ output'[e] = output[e]
    BY <1>24 DEF PacketsDry, Fails, FreeTaken, MainType, FilterType, EncoderType, mainVars, readerVars, decoderVars, filterVars, encoderVars
  <2>2. /\ FirstFilter' = FirstFilter /\ OutputComplete(e) /\ (Waiting(e)' <=> Waiting(e))
    BY <2>1 DEF FirstPacket, FirstDecoding, FirstDecoded, FirstFilter, OutputsComplete, Waiting
  <2>3. CASE e # d
    BY <2>1, <2>2, <2>3, OutputKept
  <2>4. CASE e = d
    <3>1. /\ UNCHANGED <<frameQ, coding, output>> /\ epc[e] = "receive" /\ epc'[e] = "pop"
      BY <1>24, <2>4 DEF PacketsDry, FreeTaken, EncoderType, mainVars, readerVars, decoderVars, filterVars, encoderVars
    <3>2. FirstQueued(e)' = FirstQueued(e)
      BY <2>2, <3>1 DEF FirstQueued
    <3>3. FirstTaken(e)' = FirstTaken(e)
      BY <2>1, <3>1, <3>2, OutputTypes DEF FirstTaken
    <3>4. FirstCoding(e)' = FirstCoding(e)
      BY <3>1, <3>3 DEF FirstCoding
    <3> QED
      BY <2>1, <2>2, <3>1, <3>2, <3>3, <3>4 DEF OutputComplete
  <2> QED
    BY <2>3, <2>4
<1>25. ASSUME NEW d \in Outputs, d \in opened, mpc = "join", FlushEnds(d) PROVE OutputsComplete'
  <2> SUFFICES ASSUME 0 \notin failed', NEW e \in opened' \ failed' PROVE OutputComplete(e)'
    BY DEF OutputsComplete
  <2>1. /\ UNCHANGED <<opened, packets, packetQ, decoding, decodeQ, filtering, fpc, todo, filtered>>
        /\ e \in Outputs /\ (0 \notin failed' => 0 \notin failed) /\ (e \notin failed' => e \notin failed)
        /\ e # d => /\ epc'[e] = epc[e] /\ taken'[e] = taken[e] /\ frameQ'[e] = frameQ[e]
                    /\ coding'[e] = coding[e] /\ output'[e] = output[e]
    BY <1>25 DEF FlushEnds, Fails, MainType, FilterType, EncoderType, mainVars, readerVars, decoderVars, filterVars, encoderVars
  <2>2. /\ FirstFilter' = FirstFilter /\ OutputComplete(e) /\ (Waiting(e)' <=> Waiting(e))
    BY <2>1 DEF FirstPacket, FirstDecoding, FirstDecoded, FirstFilter, OutputsComplete, Waiting
  <2>3. CASE e # d
    BY <2>1, <2>2, <2>3, OutputKept
  <2>4. CASE e = d
    <3>1. /\ UNCHANGED <<frameQ, coding, output>> /\ epc[e] = "flush" /\ epc'[e] = "done"
      BY <1>25, <2>4 DEF FlushEnds, EncoderType, mainVars, readerVars, decoderVars, filterVars, encoderVars
    <3>2. FirstQueued(e)' = FirstQueued(e)
      BY <2>2, <3>1 DEF FirstQueued
    <3>3. FirstTaken(e)' = FirstTaken(e)
      BY <2>1, <3>1, <3>2, OutputTypes DEF FirstTaken
    <3>4. FirstCoding(e)' = FirstCoding(e)
      BY <3>1, <3>3 DEF FirstCoding
    <3> QED
      BY <2>1, <2>2, <3>1, <3>2, <3>3, <3>4 DEF OutputComplete
  <2> QED
    BY <2>3, <2>4
<1> QED
  BY <1>1, <1>2, <1>3, <1>4, <1>5, <1>6, <1>7, <1>8, <1>9, <1>10, <1>11, <1>12, <1>13, <1>14,
     <1>15, <1>16, <1>17, <1>18, <1>19, <1>20, <1>21, <1>22, <1>23, <1>24, <1>25 DEF Next, Main,
     Reader, Decoder, Filter, Encoder, Terminated, JoinAndReport, ReadEnds, ReaderFinishes,
     PacketsEnd, DecoderFinishes, UseFreed, Fails, vars, mainVars, readerVars, decoderVars,
     filterVars, encoderVars

-----------------------------------------------------------------------------
(* The theorems *)

IInv ==
    /\ TypeOK /\ Idle /\ Cloned /\ Ordered /\ Unshared
    /\ PacketsDrained /\ NullsFail /\ FramesDrained /\ OutputsDrained /\ AllJoined
    /\ SharedComplete /\ OutputsComplete

LEMMA ConcatMembers ==
    \A s, t \in Seq(Handles) : \A k \in DOMAIN (s \o t) :
        \/ \E i \in 1..Len(s) : (s \o t)[k] = s[i]
        \/ \E i \in 1..Len(t) : (s \o t)[k] = t[i]
<1> TAKE s, t \in Seq(Handles)
<1> TAKE k \in DOMAIN (s \o t)
<1> DEFINE u == s \o t
<1>1. /\ Len(s) \in Nat /\ Len(t) \in Nat /\ u \in Seq(Handles) /\ Len(u) = Len(s) + Len(t)
      /\ \A i \in 1..Len(u) : u[i] = IF i <= Len(s) THEN s[i] ELSE t[i - Len(s)]
  BY ConcatProperties
<1>2. k \in 1..(Len(s) + Len(t))
  BY <1>1
<1> HIDE DEF u
<1>3. \/ k \in 1..Len(s) /\ u[k] = s[k]
      \/ k - Len(s) \in 1..Len(t) /\ u[k] = t[k - Len(s)]
  BY <1>1, <1>2
<1> QED
  BY <1>3 DEF u

LEMMA TypeInit == Init => TypeOK
<1> SUFFICES ASSUME Init PROVE TypeOK
  OBVIOUS
<1> USE VideoProcessingAssumption DEF Init
<1>1. MainType /\ todo \subseteq opened
  BY DEF MainType
<1>0. \A S : <<>> \in Seq(S)
  OBVIOUS
<1>2. ReaderType
  <2>1. 0 \in 0..MaxPackets
    OBVIOUS
  <2> QED
    BY <1>0, <2>1 DEF ReaderType
<1>3. DecoderType
  BY <1>0 DEF DecoderType
<1>4. FilterType
  BY <1>0 DEF FilterType
<1>5. EncoderType
  BY EmptyLen DEF EncoderType
<1> QED
  BY <1>1, <1>2, <1>3, <1>4, <1>5, TypeParts

LEMMA InitIInv == Init => IInv
  BY TypeInit, IdleInit, ClonedInit, OrderedInit, UnsharedInit, DrainedInit, SharedInit, OutputsInit DEF IInv

LEMMA TypeStep == TypeOK /\ Idle /\ Next => TypeOK'
<1> SUFFICES ASSUME MainType, ReaderType, DecoderType, FilterType, EncoderType, todo \subseteq opened,
                    Idle, Next
             PROVE  TypeOK'
  BY TypeParts
<1>1. MainType' /\ ReaderType' /\ DecoderType' /\ FilterType' /\ EncoderType' /\ (todo \subseteq opened)'
  BY MainKeepsType, ReaderKeepsType, DecoderKeepsType, FilterKeepsType, EncoderKeepsType, TodoStep
<1>2. TypeOK' <=> (MainType /\ ReaderType /\ DecoderType /\ FilterType /\ EncoderType
                   /\ todo \subseteq opened)'
  BY TypeParts DEF TypeOK, MainType, ReaderType, DecoderType, FilterType, EncoderType
<1> QED
  BY <1>1, <1>2

LEMMA StutterIInv == IInv /\ UNCHANGED vars => IInv'
<1> SUFFICES ASSUME IInv, UNCHANGED vars PROVE IInv'
  OBVIOUS
<1> USE DEF IInv, vars, mainVars, readerVars, decoderVars, filterVars, encoderVars
<1>1. TypeOK'
  BY DEF TypeOK
<1>2. Idle' /\ Cloned' /\ Unshared'
  BY DEF Idle, Cloned, Unshared
<1>3. Ordered'
  BY DEF Ordered, Marked, Waiting
<1>4. PacketsDrained' /\ NullsFail' /\ FramesDrained' /\ OutputsDrained' /\ AllJoined'
  BY DEF PacketsDrained, NullsFail, FramesDrained, OutputsDrained, AllJoined
<1>5. SharedComplete' /\ OutputsComplete'
  BY DEF SharedComplete, OutputsComplete, OutputComplete, Waiting, FirstPacket, FirstDecoding,
         FirstDecoded, FirstFilter, FirstQueued, FirstTaken, FirstCoding
<1> QED
  BY <1>1, <1>2, <1>3, <1>4, <1>5

LEMMA StepIInv == IInv /\ [Next]_vars => IInv'
<1>1. IInv /\ Next => TypeOK' /\ Idle' /\ Cloned' /\ Ordered' /\ Unshared'
  BY TypeStep, IdleStep, ClonedStep, OrderedStep, UnsharedStep DEF IInv
<1>2. IInv /\ Next => PacketsDrained' /\ NullsFail' /\ FramesDrained' /\ OutputsDrained' /\ AllJoined'
  BY PacketsDrainedStep, NullsFailStep, FramesDrainedStep, OutputsDrainedStep, AllJoinedStep DEF IInv
<1>3. IInv /\ Next => SharedComplete' /\ OutputsComplete'
  BY SharedStep, OutputsStep DEF IInv
<1> QED
  BY <1>1, <1>2, <1>3, StutterIInv DEF IInv

LEMMA Invariant == Spec => []IInv
  BY InitIInv, StepIInv, PTL DEF Spec

\* The types of the filtering server's state hold in every run.
THEOREM VideoProcessingType == Spec => []TypeOK
<1>1. IInv => TypeOK
  BY DEF IInv
<1> QED
  BY <1>1, Invariant, PTL

\* Every output of the filtering server writes its frames in the order they were
\* read, none of them twice, whatever fails.
THEOREM VideoProcessingInOrder == Spec => []OutputsInOrder
<1>1. IInv => OutputsInOrder
  BY DEF IInv, Ordered, Marked, InOrder, OutputsInOrder
<1> QED
  BY <1>1, Invariant, PTL

\* With a filter that keeps nothing back no two queues or encoders share an AVFrame
\* and none holds a freed one, until what all share fails.
THEOREM VideoProcessingOwners == Spec => []FramesAreOwned
<1>1. IInv => FramesAreOwned
  <2> SUFFICES ASSUME IInv, depth = 0, 0 \notin failed
               PROVE  /\ \A e \in Outputs : HandlesOf(Held(e)) \cap freed = {}
                      /\ \A d, e \in Outputs : d # e => HandlesOf(Held(d)) \cap HandlesOf(Held(e)) = {}
    BY DEF FramesAreOwned
  <2>0. FilterType /\ EncoderType
    BY TypeParts DEF IInv
  <2>1. ASSUME NEW e \in Outputs, NEW h \in HandlesOf(Held(e))
        PROVE  \/ \E i \in 1..Len(frameQ[e]) : h = frameQ[e][i]
               \/ epc[e] \in {"encode", "receive"} /\ h = taken[e][1]
    <3>1. /\ frameQ[e] \in Seq(Handles) /\ taken[e] \in Seq(Handles)
          /\ Len(taken[e]) = IF epc[e] \in {"encode", "receive"} THEN 1 ELSE 0
      BY <2>0 DEF FilterType, EncoderType
    <3>2. \/ \E i \in 1..Len(frameQ[e]) : h = frameQ[e][i]
          \/ \E i \in 1..Len(taken[e]) : h = taken[e][i]
      <4>1. PICK k \in DOMAIN (frameQ[e] \o taken[e]) : h = (frameQ[e] \o taken[e])[k]
        BY <2>1 DEF HandlesOf, Held
      <4> QED
        <5>1. \/ \E i \in 1..Len(frameQ[e]) : (frameQ[e] \o taken[e])[k] = frameQ[e][i]
              \/ \E i \in 1..Len(taken[e]) : (frameQ[e] \o taken[e])[k] = taken[e][i]
          BY <3>1, <4>1, ConcatMembers
        <5> QED
          BY <4>1, <5>1
    <3>3. ASSUME NEW i \in 1..Len(taken[e]) PROVE epc[e] \in {"encode", "receive"} /\ i = 1
      BY <3>1, <3>3
    <3> QED
      BY <3>2, <3>3
  <2>2. ASSUME NEW e \in Outputs, NEW h \in HandlesOf(Held(e)) PROVE h.clone = e /\ h \notin freed
    <3>1. h.clone = e
      BY <2>1, <2>2 DEF IInv, Unshared
    <3>2. PICK m \in [1..8 -> Nat] : Marked(e, m)
      BY DEF IInv, Ordered
    <3>3. ASSUME NEW f \in freed, f.clone = e PROVE f.frame # h.frame
      <4>1. f.frame \in Nat /\ h.frame \in Nat /\ m[3] \in Nat
        <5>1. f \in Handles
          BY <2>0 DEF EncoderType
        <5>2. h \in Handles
          BY SMTT(30), <2>0, <2>1, <2>2, TakenFrame DEF FilterType
        <5> QED
          BY <5>1, <5>2, HandleType
      <4>2. CASE \E i \in 1..Len(frameQ[e]) : h = frameQ[e][i]
        <5>1. m[3] <= h.frame /\ f.frame < m[3]
          BY <3>2, <3>3, <4>2 DEF Marked, HandlesInOrder
        <5> QED
          BY <4>1, <5>1
      <4>3. CASE epc[e] \in {"encode", "receive"} /\ h = taken[e][1]
        <5>1. f.frame < h.frame
          BY <3>2, <3>3, <4>3 DEF Marked
        <5> QED
          BY <4>1, <5>1
      <4> QED
        BY <2>1, <2>2, <4>2, <4>3
    <3> QED
      BY <3>1, <3>3
  <2> QED
    BY <2>2
<1> QED
  BY <1>1, Invariant, PTL

\* An output that met no failure has written every frame that was read, whatever
\* happened to the others.
THEOREM VideoProcessingIsolated == Spec => []OutputsAreIsolated
<1>1. IInv => OutputsAreIsolated
  <2> SUFFICES ASSUME IInv, mpc = "success", 0 \notin failed, NEW e \in opened \ failed
               PROVE  output[e] = [i \in 1..packets |-> i - 1]
    BY DEF OutputsAreIsolated
  <2>0. MainType /\ ReaderType /\ DecoderType /\ FilterType /\ EncoderType
    BY TypeParts DEF IInv
  <2>1. e \in Outputs /\ e \in opened /\ OutputComplete(e)
    BY <2>0 DEF IInv, OutputsComplete, MainType
  <2>2. packetQ = <<>> /\ decoding = <<>> /\ decodeQ = <<>> /\ filtering = <<>> /\ fpc = "done"
    BY DEF IInv, AllJoined, PacketsDrained, FramesDrained
  <2>3. epc[e] = "done" /\ frameQ[e] = <<>> /\ coding[e] = <<>>
    BY <2>1 DEF IInv, AllJoined, OutputsDrained
  <2>4. ~Waiting(e) /\ packets \in Nat
    BY <2>0, <2>2, FirstTypes DEF Waiting
  <2>5. FirstFilter = packets
    BY <2>2, <2>4, EmptyLen DEF FirstPacket, FirstDecoding, FirstDecoded, FirstFilter
  <2>6. FirstCoding(e) = packets
    BY <2>3, <2>4, <2>5, EmptyLen DEF FirstQueued, FirstTaken, FirstCoding
  <2>7. /\ output[e] \in Seq(Frames) /\ Len(output[e]) = packets
        /\ \A i \in 1..packets : output[e][i] = i - 1
    <3>1. output[e] \in Seq(Frames) /\ Len(output[e]) = packets /\ From(output[e], 0)
      BY <2>0, <2>1, <2>6 DEF OutputComplete, EncoderType
    <3> QED
      BY <2>4, <3>1 DEF From
  <2>8. output[e] \in [1..packets -> Frames]
    BY <2>7
  <2> QED
    BY <2>7, <2>8
<1> QED
  BY <1>1, Invariant, PTL

\* When main reports, no queue of frames holds one and no encoder has one it did not
\* free, whichever of them failed.
THEOREM VideoProcessingDrains == Spec => []QueuesAreDrained
<1>1. IInv => QueuesAreDrained
  <2> SUFFICES ASSUME IInv, mpc = "success"
               PROVE  decodeQ = <<>> /\ \A e \in opened : frameQ[e] = <<>> /\ taken[e] = <<>>
    BY DEF QueuesAreDrained
  <2>0. MainType /\ EncoderType
    BY TypeParts DEF IInv
  <2>1. decodeQ = <<>>
    BY DEF IInv, AllJoined, FramesDrained
  <2>2. ASSUME NEW e \in opened PROVE frameQ[e] = <<>> /\ taken[e] = <<>>
    <3>1. epc[e] = "done" /\ frameQ[e] = <<>> /\ e \in Outputs
      BY <2>0 DEF IInv, AllJoined, OutputsDrained, MainType
    <3>2. taken[e] \in Seq(Handles) /\ Len(taken[e]) = 0
      BY <2>0, <3>1 DEF EncoderType
    <3> QED
      BY <3>1, <3>2
  <2> QED
    BY <2>1, <2>2
<1> QED
  BY <1>1, Invariant, PTL

-----------------------------------------------------------------------------
(* Nobody waits for a thread that has returned *)

\* A thread that returned told the one it feeds, the filter thread every output, one
\* after the other; a loop over the outputs has one to visit, since main gives up
\* without an encoder.
ToldInv ==
    /\ rpc = "done" => packetsDone
    /\ dpc = "done" => decodeDone
    /\ fpc = "close" => \A e \in opened \ todo : finished[e]
    /\ fpc = "done" => \A e \in opened : finished[e]
    /\ fpc \in {"distribute", "share", "close"} => todo # {}
    /\ mpc \in {"filter", "join"} => opened # {}

LEMMA InitTold == Init => ToldInv
  BY DEF Init, ToldInv

\* The steps of the threads by what they leave alone.
LEMMA MainSteps ==
    ASSUME Main
    PROVE  UNCHANGED <<rpc, packets, packetQ, packetsDone, dpc, decoding, decodeQ, decodeDone, fpc,
                       filtering, filtered, todo, frameQ, finished, epc, taken, coding>>
  BY DEF Main, InitializeDecoder, InitializeEncoders, InitializeFilter, JoinAndReport, readerVars,
     decoderVars, filterVars, encoderVars

LEMMA ReaderSteps ==
    ASSUME Reader
    PROVE  UNCHANGED <<mpc, opened, dpc, decoding, decodeQ, decodeDone, fpc, filtering, filtered, todo,
                       frameQ, finished, epc, taken, coding>>
  BY DEF Reader, ReaderStart, ReadPacket, ReadEnds, ReaderFinishes, mainVars, decoderVars, filterVars,
     encoderVars

LEMMA DecoderSteps ==
    ASSUME Decoder
    PROVE  UNCHANGED <<mpc, opened, rpc, packets, packetsDone, fpc, filtering, filtered, todo, frameQ,
                       finished, epc, taken, coding>>
  BY DEF Decoder, DecoderStart, PopPacket, PacketsEnd, ReceiveFrame, ReceiveEnds, DecoderFinishes,
     mainVars, readerVars, filterVars, encoderVars

LEMMA FilterSteps ==
    ASSUME Filter
    PROVE  UNCHANGED <<mpc, opened, rpc, packets, packetQ, packetsDone, dpc, decoding, decodeDone, epc,
                       taken, coding>>
  BY DEF Filter, PopDecoded, FramesEnd, PullFiltered, PullEnds, Distribute, Share, FinishQueue,
     mainVars, readerVars, decoderVars, encoderVars

LEMMA EncoderSteps ==
    ASSUME NEW d \in Outputs, Encoder(d)
    PROVE  /\ UNCHANGED <<opened, rpc, packets, packetQ, packetsDone, dpc, decoding, decodeQ, decodeDone,
                          fpc, filtering, filtered, todo, finished>>
           /\ mpc = "join" /\ mpc' \in {"join", "crashed"}
  BY DEF Encoder, PopFrame, QueueEnds, SkipFrame, SendFrame, UseFreed, WritePacket, WriteFails,
     PacketsDry, FlushEnds, mainVars, readerVars, decoderVars, filterVars

LEMMA StepTold == ASSUME TypeOK, Idle, ToldInv, [Next]_vars PROVE ToldInv'
<1> USE DEF ToldInv
<1>0. todo \subseteq opened /\ opened \subseteq Outputs /\ finished \in [Outputs -> BOOLEAN]
  BY DEF TypeOK
<1>1. CASE Main
  <2>1. UNCHANGED <<rpc, packetsDone, dpc, decodeDone, fpc, todo, finished>>
    BY <1>1, MainSteps
  <2>2. CASE InitializeEncoders
    <3>1. fpc = "pop" /\ mpc' \in {"filter", "exit"} /\ (mpc' = "filter" => opened' # {})
      BY <2>2 DEF InitializeEncoders, Idle
    <3> QED
      BY <2>1, <3>1
  <2>3. CASE InitializeDecoder \/ InitializeFilter \/ JoinAndReport
    <3>1. opened' = opened /\ (mpc' \in {"filter", "join"} => mpc = "filter")
      BY <2>3 DEF InitializeDecoder, InitializeFilter, JoinAndReport
    <3> QED
      BY <2>1, <3>1
  <2> QED
    BY <1>1, <2>2, <2>3 DEF Main
<1>2. CASE Reader
  <2>1. UNCHANGED <<mpc, opened, dpc, decodeDone, fpc, todo, finished>>
    BY <1>2, ReaderSteps
  <2>2. rpc # "done" /\ (rpc' = "done" => packetsDone')
    BY <1>2 DEF Reader, ReaderStart, ReadPacket, ReadEnds, ReaderFinishes
  <2> QED
    BY <2>1, <2>2
<1>3. CASE Decoder
  <2>1. UNCHANGED <<mpc, opened, rpc, packetsDone, fpc, todo, finished>>
    BY <1>3, DecoderSteps
  <2>2. dpc # "done" /\ (dpc' = "done" => decodeDone')
    BY <1>3 DEF Decoder, DecoderStart, PopPacket, PacketsEnd, ReceiveFrame, ReceiveEnds, DecoderFinishes
  <2> QED
    BY <2>1, <2>2
<1>4. CASE Filter
  <2>1. UNCHANGED <<mpc, opened, rpc, packetsDone, dpc, decodeDone>> /\ mpc = "join"
    BY <1>4, FilterSteps DEF Filter
  <2>2. CASE PopDecoded \/ FramesEnd
    BY <2>1, <2>2 DEF PopDecoded, FramesEnd
  <2>3. CASE PullFiltered \/ PullEnds
    <3>1. /\ todo' = opened \/ fpc' = "pop"
          /\ fpc' # "done"
      BY <2>3 DEF PullFiltered, PullEnds
    <3>2. opened' \ opened = {}
      BY <2>1
    <3> QED
      BY <2>1, <3>1, <3>2
  <2>4. ASSUME NEW d \in Outputs, Distribute(d) \/ Share(d) PROVE ToldInv'
    <3>1. fpc' \in {"distribute", "share", "pull", "flush"} /\ (fpc' \in {"distribute", "share"} => todo' # {})
      BY <2>4 DEF Distribute, Share
    <3> QED
      BY <2>1, <3>1
  <2>5. ASSUME NEW d \in Outputs, FinishQueue(d) PROVE ToldInv'
    <3>1. /\ fpc = "close" /\ d \in todo /\ todo' = todo \ {d}
          /\ finished' = [finished EXCEPT ![d] = TRUE]
          /\ fpc' = IF todo' = {} THEN "done" ELSE "close"
      BY <2>5 DEF FinishQueue, NextOutput
    <3>2. \A e \in opened \ todo' : finished'[e]
      BY <1>0, <3>1
    <3> QED
      BY <2>1, <3>1, <3>2
  <2> QED
    BY <1>4, <2>2, <2>3, <2>4, <2>5 DEF Filter
<1>5. ASSUME NEW d \in Outputs, Encoder(d) PROVE ToldInv'
  BY <1>5, EncoderSteps
<1>6. CASE UNCHANGED vars
  BY <1>6 DEF vars, mainVars, readerVars, decoderVars, filterVars
<1> QED
  BY <1>1, <1>2, <1>3, <1>4, <1>5, <1>6 DEF Next, Terminated

\* Whichever threads fail or give up, a thread that waits for a packet or a frame waits
\* for one that still runs, and a loop over the outputs has one to visit.
THEOREM VideoProcessingWaits == Spec => []WaitsAreAnswered
<1>1. ToldInv => WaitsAreAnswered
  BY DEF ToldInv, WaitsAreAnswered
<1>2. IInv => TypeOK /\ Idle
  BY DEF IInv
<1> QED
  BY <1>1, <1>2, InitTold, StepTold, Invariant, PTL DEF Spec

-----------------------------------------------------------------------------
(* The program does not run for ever *)

\* Dictionary order on the tuples the threads' remaining work is measured by.
LEMMA LowerTwo ==
    ASSUME NEW a, NEW b, NEW x, NEW y, a < x \/ (a = x /\ b < y)
    PROVE  Lower(<<a, b>>, <<x, y>>)
<1>1. CASE a < x
  <2>1. 1 \in 1..Len(<<x, y>>) /\ 1..(1 - 1) = {}
    OBVIOUS
  <2> QED
    BY <1>1, <2>1 DEF Lower
<1>2. CASE a = x /\ b < y
  <2>1. 2 \in 1..Len(<<x, y>>) /\ 1..(2 - 1) = {1}
    OBVIOUS
  <2> QED
    BY <1>2, <2>1 DEF Lower
<1> QED
  BY <1>1, <1>2

LEMMA LowerOne == ASSUME NEW a, NEW x, a < x PROVE Lower(<<a>>, <<x>>)
<1>1. 1 \in 1..Len(<<x>>) /\ 1..(1 - 1) = {}
  OBVIOUS
<1> QED
  BY <1>1 DEF Lower

LEMMA LowerThree ==
    ASSUME NEW a, NEW b, NEW c, NEW x, NEW y, NEW z,
           a < x \/ (a = x /\ b < y) \/ (a = x /\ b = y /\ c < z)
    PROVE  Lower(<<a, b, c>>, <<x, y, z>>)
<1>0. Len(<<x, y, z>>) = 3 /\ 1..(1 - 1) = {} /\ 1..(2 - 1) = {1} /\ 1..(3 - 1) = {1, 2}
  OBVIOUS
<1>1. CASE a < x
  <2>1. 1 \in 1..Len(<<x, y, z>>)
    BY <1>0
  <2> QED
    BY <1>0, <1>1, <2>1 DEF Lower
<1>2. CASE a = x /\ b < y
  <2>1. 2 \in 1..Len(<<x, y, z>>)
    BY <1>0
  <2> QED
    BY <1>0, <1>2, <2>1 DEF Lower
<1>3. CASE a = x /\ b = y /\ c < z
  <2>1. 3 \in 1..Len(<<x, y, z>>)
    BY <1>0
  <2> QED
    BY <1>0, <1>3, <2>1 DEF Lower
<1> QED
  BY <1>1, <1>2, <1>3

LEMMA LowerFour ==
    ASSUME NEW a, NEW b, NEW c, NEW d, NEW x, NEW y, NEW z, NEW w,
           \/ a < x
           \/ a = x /\ b < y
           \/ a = x /\ b = y /\ c < z
           \/ a = x /\ b = y /\ c = z /\ d < w
    PROVE  Lower(<<a, b, c, d>>, <<x, y, z, w>>)
<1>0. /\ Len(<<x, y, z, w>>) = 4
      /\ 1..(1 - 1) = {} /\ 1..(2 - 1) = {1} /\ 1..(3 - 1) = {1, 2} /\ 1..(4 - 1) = {1, 2, 3}
  OBVIOUS
<1>1. CASE a < x
  <2>1. 1 \in 1..Len(<<x, y, z, w>>)
    BY <1>0
  <2> QED
    BY <1>0, <1>1, <2>1 DEF Lower
<1>2. CASE a = x /\ b < y
  <2>1. 2 \in 1..Len(<<x, y, z, w>>)
    BY <1>0
  <2> QED
    BY <1>0, <1>2, <2>1 DEF Lower
<1>3. CASE a = x /\ b = y /\ c < z
  <2>1. 3 \in 1..Len(<<x, y, z, w>>)
    BY <1>0
  <2> QED
    BY <1>0, <1>3, <2>1 DEF Lower
<1>4. CASE a = x /\ b = y /\ c = z /\ d < w
  <2>1. 4 \in 1..Len(<<x, y, z, w>>)
    BY <1>0
  <2> QED
    BY <1>0, <1>4, <2>1 DEF Lower
<1> QED
  BY <1>1, <1>2, <1>3, <1>4

\* What is left is counted by natural numbers.
LeftOK ==
    /\ ToRead \in Nat /\ Len(packetQ) \in Nat /\ Len(decoding) \in Nat /\ Len(decodeQ) \in Nat
    /\ Len(filtering) \in Nat /\ Cardinality(todo) \in Nat
    /\ MainTurns \in Nat /\ ReaderTurns \in Nat /\ DecoderTurns \in Nat /\ FilterTurns \in Nat
    /\ \A e \in Outputs : Len(frameQ[e]) \in Nat /\ Len(coding[e]) \in Nat /\ EncoderTurns(e) \in Nat

LEMMA TodoFinite == ASSUME TypeOK PROVE IsFiniteSet(todo)
<1>1. NumOutputs \in Nat
  BY VideoProcessingAssumption
<1>2. IsFiniteSet(Outputs)
  BY <1>1, FS_Interval DEF Outputs
<1>3. todo \subseteq Outputs
  BY DEF TypeOK
<1> QED
  BY <1>2, <1>3, FS_Subset

LEMMA LeftTypes == TypeOK => LeftOK
<1> SUFFICES ASSUME TypeOK PROVE LeftOK
  OBVIOUS
<1>1. ToRead \in Nat
  BY VideoProcessingAssumption DEF TypeOK, ToRead
<1>2. Len(packetQ) \in Nat /\ Len(decoding) \in Nat /\ Len(decodeQ) \in Nat /\ Len(filtering) \in Nat
  BY DEF TypeOK
<1>3. Cardinality(todo) \in Nat
  BY TodoFinite, FS_CardinalityType
<1>4. ASSUME NEW e \in Outputs PROVE Len(frameQ[e]) \in Nat /\ Len(coding[e]) \in Nat
  BY <1>4 DEF TypeOK
<1>5. /\ MainTurns \in Nat /\ ReaderTurns \in Nat /\ DecoderTurns \in Nat /\ FilterTurns \in Nat
      /\ \A e \in Outputs : EncoderTurns(e) \in Nat
  BY DEF MainTurns, ReaderTurns, DecoderTurns, FilterTurns, EncoderTurns
<1> QED
  BY <1>1, <1>2, <1>3, <1>4, <1>5 DEF LeftOK

LEMMA LeftTypesNext == TypeOK' => LeftOK'
  BY LeftTypes, PTL

\* The frames on their way to the decoder, and to the filter.
LEMMA InFlightTypes == LeftOK => ToDecode \in Nat /\ ToFilter \in Nat
<1> SUFFICES ASSUME LeftOK PROVE ToDecode \in Nat /\ ToFilter \in Nat
  OBVIOUS
<1>1. ToRead \in Nat /\ Len(packetQ) \in Nat /\ Len(decoding) \in Nat /\ Len(decodeQ) \in Nat
  BY DEF LeftOK
<1>2. \A i, j \in Nat : i + j \in Nat
  OBVIOUS
<1>3. ToDecode \in Nat
  BY <1>1, <1>2 DEF ToDecode
<1>4. ToDecode + Len(decoding) \in Nat
  BY <1>1, <1>2, <1>3
<1>5. (ToDecode + Len(decoding)) + Len(decodeQ) \in Nat
  BY <1>1, <1>2, <1>4
<1> QED
  BY <1>3, <1>5 DEF ToFilter

LEMMA InFlightTypesNext == LeftOK' => ToDecode' \in Nat /\ ToFilter' \in Nat
<1>1. LeftOK' => (ToDecode \in Nat /\ ToFilter \in Nat)'
  BY InFlightTypes, PTL
<1> QED
  BY <1>1

\* The frames on their way to an encoder, counted together.
LEMMA ToEncodeType == LeftOK => ToFilter \in Nat /\ \A e \in Outputs : ToEncode(e) \in Nat
<1> SUFFICES ASSUME LeftOK PROVE ToFilter \in Nat /\ \A e \in Outputs : ToEncode(e) \in Nat
  OBVIOUS
<1>1. ToFilter \in Nat
  BY InFlightTypes
<1> SUFFICES ASSUME NEW e \in Outputs PROVE ToEncode(e) \in Nat
  BY <1>1
<1>2. Len(filtering) \in Nat /\ Len(frameQ[e]) \in Nat
  BY DEF LeftOK
<1> DEFINE w == IF Waiting(e) THEN 1 ELSE 0
           h == IF epc[e] = "encode" THEN 1 ELSE 0
<1>3. w \in Nat /\ h \in Nat /\ ToEncode(e) = ToFilter + Len(filtering) + w + Len(frameQ[e]) + h
  BY DEF ToEncode
<1>4. w \in Nat /\ h \in Nat
  BY <1>3
<1> HIDE DEF w, h
<1>5. ToFilter + Len(filtering) \in Nat
  BY <1>1, <1>2
<1>6. (ToFilter + Len(filtering)) + w \in Nat
  BY <1>4, <1>5
<1>7. (ToFilter + Len(filtering) + w) + Len(frameQ[e]) \in Nat
  BY <1>2, <1>6
<1>8. (ToFilter + Len(filtering) + w + Len(frameQ[e])) + h \in Nat
  BY <1>4, <1>7
<1> QED
  BY <1>1, <1>3, <1>8

LEMMA ToEncodeTypeNext == LeftOK' => ToFilter' \in Nat /\ \A e \in Outputs : ToEncode(e)' \in Nat
<1>1. LeftOK' => (ToFilter \in Nat /\ \A e \in Outputs : ToEncode(e) \in Nat)'
  BY ToEncodeType, PTL
<1> QED
  BY <1>1

\* What a thread has left when it is where it was and may be given no more.
LEMMA DecoderRests ==
    ASSUME LeftOK, LeftOK', ToDecode' <= ToDecode, decoding' = decoding, dpc' = dpc
    PROVE  NotHigher(DecoderLeft', DecoderLeft)
<1>1. ToDecode \in Nat /\ ToDecode' \in Nat
  BY InFlightTypes, InFlightTypesNext
<1>2. DecoderTurns' = DecoderTurns
  BY DEF DecoderTurns
<1>3. ToDecode' < ToDecode \/ ToDecode' = ToDecode
  BY <1>1
<1> QED
  BY <1>2, <1>3, LowerThree DEF DecoderLeft, NotHigher

LEMMA FilterRests ==
    ASSUME LeftOK, LeftOK', ToFilter' <= ToFilter, filtering' = filtering, fpc' = fpc, todo' = todo
    PROVE  NotHigher(FilterLeft', FilterLeft)
<1>1. ToFilter \in Nat /\ ToFilter' \in Nat
  BY InFlightTypes, InFlightTypesNext
<1>2. FilterTurns' = FilterTurns
  BY DEF FilterTurns
<1>3. ToFilter' < ToFilter \/ ToFilter' = ToFilter
  BY <1>1
<1> QED
  BY <1>2, <1>3, LowerFour DEF FilterLeft, NotHigher

LEMMA EncoderRests ==
    ASSUME LeftOK, LeftOK', NEW e \in Outputs, ToEncode(e)' <= ToEncode(e),
           coding'[e] = coding[e], epc'[e] = epc[e]
    PROVE  NotHigher(EncoderLeft(e)', EncoderLeft(e))
<1>1. ToEncode(e) \in Nat /\ ToEncode(e)' \in Nat
  BY ToEncodeType, ToEncodeTypeNext
<1>2. EncoderTurns(e)' = EncoderTurns(e)
  BY DEF EncoderTurns
<1>3. ToEncode(e)' < ToEncode(e) \/ ToEncode(e)' = ToEncode(e)
  BY <1>1
<1> QED
  BY <1>2, <1>3, LowerThree DEF EncoderLeft, NotHigher

\* A step in front of the filter brings an encoder nothing the filter does not get.
LEMMA FilterFeeds ==
    ASSUME LeftOK, LeftOK', ToFilter' <= ToFilter,
           UNCHANGED <<filtering, fpc, todo, frameQ, coding, epc>>
    PROVE  /\ NotHigher(FilterLeft', FilterLeft)
           /\ \A e \in Outputs : NotHigher(EncoderLeft(e)', EncoderLeft(e))
<1>1. ASSUME NEW e \in Outputs PROVE ToEncode(e)' <= ToEncode(e)
  <2>1. ToFilter \in Nat /\ ToFilter' \in Nat
    BY <1>1, ToEncodeType, ToEncodeTypeNext
  <2>2. Len(filtering)' = Len(filtering) /\ Len(frameQ[e])' = Len(frameQ[e])
        /\ Len(filtering) \in Nat /\ Len(frameQ[e]) \in Nat
    BY <1>1 DEF LeftOK
  <2> DEFINE w == IF Waiting(e) THEN 1 ELSE 0
             h == IF epc[e] = "encode" THEN 1 ELSE 0
  <2>3. w' = w /\ h' = h /\ w \in Nat /\ h \in Nat
    BY DEF Waiting
  <2>4. ToEncode(e) = ToFilter + Len(filtering) + w + Len(frameQ[e]) + h
        /\ ToEncode(e)' = ToFilter' + Len(filtering) + w + Len(frameQ[e]) + h
    BY <2>2, <2>3 DEF ToEncode
  <2> HIDE DEF w, h
  <2>5. \A i, j, k \in Nat : i <= j => i + k \in Nat /\ j + k \in Nat /\ i + k <= j + k
    OBVIOUS
  <2>6. ToFilter' + Len(filtering) \in Nat /\ ToFilter + Len(filtering) \in Nat
        /\ ToFilter' + Len(filtering) <= ToFilter + Len(filtering)
    BY <2>1, <2>2, <2>5
  <2> DEFINE A == ToFilter' + Len(filtering)
             B == ToFilter + Len(filtering)
  <2>7. A + w \in Nat /\ B + w \in Nat /\ A + w <= B + w
    BY <2>3, <2>5, <2>6
  <2>8. A + w + Len(frameQ[e]) \in Nat /\ B + w + Len(frameQ[e]) \in Nat
        /\ A + w + Len(frameQ[e]) <= B + w + Len(frameQ[e])
    BY <2>2, <2>5, <2>7
  <2>9. A + w + Len(frameQ[e]) + h <= B + w + Len(frameQ[e]) + h
    BY <2>3, <2>5, <2>8
  <2> QED
    BY <2>4, <2>9
<1> QED
  BY <1>1, FilterRests, EncoderRests

LEMMA MainWork ==
    ASSUME TypeOK, TypeOK', Main
    PROVE  /\ Lower(MainLeft', MainLeft) /\ ReaderLeft' = ReaderLeft
           /\ DecoderLeft' = DecoderLeft /\ FilterLeft' = FilterLeft
           /\ \A e \in Outputs : EncoderLeft(e)' = EncoderLeft(e)
<1>1. UNCHANGED <<rpc, packets, packetQ, dpc, decoding, decodeQ, fpc, filtering, todo, frameQ, epc, coding>>
  BY MainSteps
<1>2. MainTurns' < MainTurns
  BY DEF Main, InitializeDecoder, InitializeEncoders, InitializeFilter, JoinAndReport, MainTurns
<1>3. ToFilter' = ToFilter /\ ToDecode' = ToDecode /\ ToRead' = ToRead
  BY <1>1 DEF ToFilter, ToDecode, ToRead
<1>4. ASSUME NEW e \in Outputs PROVE EncoderLeft(e)' = EncoderLeft(e)
  BY <1>1, <1>3 DEF EncoderLeft, ToEncode, Waiting, EncoderTurns
<1> QED
  BY <1>1, <1>2, <1>3, <1>4, LowerOne DEF MainLeft, ReaderLeft, ReaderTurns, DecoderLeft, DecoderTurns,
     FilterLeft, FilterTurns

LEMMA ReaderWork ==
    ASSUME TypeOK, TypeOK', Reader
    PROVE  /\ MainLeft' = MainLeft /\ Lower(ReaderLeft', ReaderLeft)
           /\ NotHigher(DecoderLeft', DecoderLeft) /\ NotHigher(FilterLeft', FilterLeft)
           /\ \A e \in Outputs : NotHigher(EncoderLeft(e)', EncoderLeft(e))
<1>0. LeftOK /\ LeftOK'
  BY LeftTypes, LeftTypesNext
<1>1. UNCHANGED <<mpc, dpc, decoding, decodeQ, fpc, filtering, todo, frameQ, epc, coding>>
  BY ReaderSteps
<1>2. \/ UNCHANGED <<packets, packetQ>> /\ ReaderTurns' < ReaderTurns
      \/ packets' = packets + 1 /\ Len(packetQ)' = Len(packetQ) + 1
  <2>1. CASE ReaderStart \/ ReadEnds \/ ReaderFinishes
    BY <2>1 DEF ReaderStart, ReadEnds, ReaderFinishes, ReaderTurns
  <2>2. CASE ReadPacket
    BY <2>2, <1>0 DEF ReadPacket, TypeOK, LeftOK
  <2> QED
    BY <2>1, <2>2 DEF Reader
<1>3. packets \in Nat /\ MaxPackets \in Nat
  BY VideoProcessingAssumption DEF TypeOK
<1>4. Lower(ReaderLeft', ReaderLeft) /\ ToDecode' <= ToDecode
  <2>1. CASE UNCHANGED <<packets, packetQ>> /\ ReaderTurns' < ReaderTurns
    <3>1. ToRead' = ToRead /\ ToDecode' = ToDecode /\ ToDecode \in Nat
      BY <1>0, <2>1 DEF ToRead, ToDecode, LeftOK
    <3> QED
      BY <2>1, <3>1, LowerTwo DEF ReaderLeft
  <2>2. CASE packets' = packets + 1 /\ Len(packetQ)' = Len(packetQ) + 1
    <3>1. ToRead' < ToRead /\ ToDecode' <= ToDecode
      BY <1>0, <1>3, <2>2 DEF ToRead, ToDecode, LeftOK
    <3> QED
      BY <3>1, LowerTwo DEF ReaderLeft
  <2> QED
    BY <1>2, <2>1, <2>2
<1>5. ToFilter' <= ToFilter
  <2>1. ToDecode \in Nat /\ ToDecode' \in Nat /\ Len(decoding) \in Nat /\ Len(decodeQ) \in Nat
    BY SMTT(30), <1>0 DEF LeftOK, ToDecode
  <2> QED
    BY <1>1, <1>4, <2>1 DEF ToFilter
<1>6. MainLeft' = MainLeft
  BY <1>1 DEF MainLeft, MainTurns
<1> QED
  BY <1>0, <1>1, <1>4, <1>5, <1>6, DecoderRests, FilterFeeds

LEMMA DecoderWork ==
    ASSUME TypeOK, TypeOK', Decoder
    PROVE  /\ MainLeft' = MainLeft /\ ReaderLeft' = ReaderLeft
           /\ Lower(DecoderLeft', DecoderLeft) /\ NotHigher(FilterLeft', FilterLeft)
           /\ \A e \in Outputs : NotHigher(EncoderLeft(e)', EncoderLeft(e))
<1>0. LeftOK /\ LeftOK'
  BY LeftTypes, LeftTypesNext
<1>1. UNCHANGED <<mpc, rpc, packets, fpc, filtering, todo, frameQ, epc, coding>>
  BY DecoderSteps
<1>2. MainLeft' = MainLeft /\ ReaderLeft' = ReaderLeft /\ ToRead' = ToRead
  BY <1>1 DEF MainLeft, MainTurns, ReaderLeft, ReaderTurns, ToRead
<1>3. /\ ToRead \in Nat /\ Len(packetQ) \in Nat /\ Len(packetQ)' \in Nat /\ Len(decoding) \in Nat
      /\ Len(decoding)' \in Nat /\ Len(decodeQ) \in Nat /\ Len(decodeQ)' \in Nat
  BY <1>0 DEF LeftOK
<1>4. Lower(DecoderLeft', DecoderLeft) /\ ToFilter' <= ToFilter
  <2>1. CASE DecoderStart \/ PacketsEnd \/ ReceiveEnds \/ DecoderFinishes
    <3>1. UNCHANGED <<packetQ, decoding, decodeQ>>
      BY <2>1 DEF DecoderStart, PacketsEnd, ReceiveEnds, DecoderFinishes, readerVars
    <3>2. DecoderTurns' < DecoderTurns
      BY <2>1 DEF DecoderStart, PacketsEnd, ReceiveEnds, DecoderFinishes, DecoderTurns
    <3>3. ToDecode' = ToDecode /\ ToFilter' = ToFilter /\ ToFilter \in Nat
      BY <1>2, <1>3, <3>1 DEF ToDecode, ToFilter
    <3> QED
      BY <3>1, <3>2, <3>3, LowerThree DEF DecoderLeft
  <2>2. CASE PopPacket
    <3>1. packetQ # <<>> /\ packetQ' = Tail(packetQ) /\ decodeQ' = decodeQ
          /\ (decoding' = decoding \/ decoding' = Append(decoding, Head(packetQ)))
      BY <2>2 DEF PopPacket
    <3>2. Len(packetQ)' = Len(packetQ) - 1 /\ Len(decoding)' <= Len(decoding) + 1
      BY <3>1, <1>3 DEF TypeOK
    <3>3. ToDecode' < ToDecode /\ ToFilter' <= ToFilter
      BY <1>2, <1>3, <3>1, <3>2 DEF ToDecode, ToFilter
    <3> QED
      BY <3>3, LowerThree DEF DecoderLeft
  <2>3. CASE ReceiveFrame
    <3>1. /\ decoding # <<>> /\ decoding' = Tail(decoding) /\ packetQ' = packetQ
          /\ \/ decodeQ' = Append(decodeQ, Head(decoding))
             \/ decodeQ' = Append(decodeQ, NoFrame)
      BY <2>3 DEF ReceiveFrame, readerVars
    <3>2. Len(decoding)' = Len(decoding) - 1 /\ Len(decodeQ)' = Len(decodeQ) + 1
      BY <3>1 DEF TypeOK
    <3>3. ToDecode' = ToDecode /\ ToFilter' <= ToFilter /\ Len(decoding)' < Len(decoding)
      BY <1>2, <1>3, <3>1, <3>2 DEF ToDecode, ToFilter
    <3> QED
      BY <3>3, LowerThree DEF DecoderLeft
  <2> QED
    BY <2>1, <2>2, <2>3 DEF Decoder
<1> QED
  BY <1>0, <1>1, <1>2, <1>4, FilterFeeds

\* The frames on their way to an encoder's queue, and in it.
Waits(e)  == IF Waiting(e) THEN 1 ELSE 0
Coming(e) == ToFilter + Len(filtering) + Waits(e) + Len(frameQ[e])

LEMMA ComingType ==
    ASSUME LeftOK, NEW e \in Outputs
    PROVE  /\ ToFilter \in Nat /\ Len(filtering) \in Nat /\ Waits(e) \in Nat /\ Len(frameQ[e]) \in Nat
           /\ Coming(e) \in Nat
<1>1. ToFilter \in Nat /\ Len(filtering) \in Nat /\ Waits(e) \in Nat /\ Len(frameQ[e]) \in Nat
  BY ToEncodeType DEF LeftOK, Waits
<1>2. ToFilter + Len(filtering) \in Nat
  BY <1>1
<1>3. (ToFilter + Len(filtering)) + Waits(e) \in Nat
  BY <1>1, <1>2
<1>4. (ToFilter + Len(filtering) + Waits(e)) + Len(frameQ[e]) \in Nat
  BY <1>1, <1>3
<1> QED
  BY <1>1, <1>4 DEF Coming

LEMMA ComingTyped ==
    LeftOK => \A e \in Outputs :
        /\ ToFilter \in Nat /\ Len(filtering) \in Nat /\ Waits(e) \in Nat /\ Len(frameQ[e]) \in Nat
        /\ Coming(e) \in Nat
  BY ComingType

LEMMA ComingTypeNext ==
    LeftOK' => \A e \in Outputs :
        /\ ToFilter' \in Nat /\ Len(filtering)' \in Nat /\ Waits(e)' \in Nat
        /\ Len(frameQ[e])' \in Nat /\ Coming(e)' \in Nat
<1>1. (LeftOK => \A e \in Outputs :
        /\ ToFilter \in Nat /\ Len(filtering) \in Nat /\ Waits(e) \in Nat /\ Len(frameQ[e]) \in Nat
        /\ Coming(e) \in Nat)'
  BY ComingTyped, PTL
<1> QED
  BY <1>1

LEMMA ComingFalls ==
    ASSUME LeftOK, LeftOK', NEW e \in Outputs, Coming(e)' <= Coming(e), epc' = epc, coding' = coding
    PROVE  NotHigher(EncoderLeft(e)', EncoderLeft(e))
<1>1. Coming(e) \in Nat /\ Coming(e)' \in Nat
  BY ComingType, ComingTypeNext
<1>2. /\ ToEncode(e) = Coming(e) + (IF epc[e] = "encode" THEN 1 ELSE 0)
      /\ ToEncode(e)' = Coming(e)' + (IF epc[e] = "encode" THEN 1 ELSE 0)
  BY DEF ToEncode, Coming, Waits
<1>3. ToEncode(e)' <= ToEncode(e)
  BY <1>1, <1>2
<1> QED
  BY <1>3, EncoderRests

\* The filter thread's steps but its loops over the outputs.
LEMMA PullingWork ==
    ASSUME TypeOK, TypeOK', Filter, PopDecoded \/ FramesEnd \/ PullFiltered \/ PullEnds
    PROVE  Lower(FilterLeft', FilterLeft) /\ \A e \in Outputs : NotHigher(EncoderLeft(e)', EncoderLeft(e))
<1>0. LeftOK /\ LeftOK'
  BY LeftTypes, LeftTypesNext
<1>1. UNCHANGED <<packets, packetQ, decoding, epc, coding>>
  BY FilterSteps
<1>2. ToDecode' = ToDecode /\ ToDecode \in Nat
  BY <1>0, <1>1 DEF ToDecode, ToRead, LeftOK
<1>3. /\ Len(decoding) \in Nat /\ Len(decodeQ) \in Nat /\ Len(decodeQ)' \in Nat
      /\ Len(filtering) \in Nat /\ Len(filtering)' \in Nat
  BY <1>0 DEF LeftOK
<1>4. frameQ' = frameQ
  BY DEF PopDecoded, FramesEnd, PullFiltered, PullEnds
<1>5. ASSUME NEW e \in Outputs PROVE Waits(e) = 0
  BY DEF PopDecoded, FramesEnd, PullFiltered, PullEnds, Waits, Waiting
<1>6. CASE FramesEnd \/ PullEnds
  <2>1. UNCHANGED <<decodeQ, filtering>>
    BY <1>6 DEF FramesEnd, PullEnds, decoderVars
  <2>2. FilterTurns' < FilterTurns
    BY <1>6 DEF FramesEnd, PullEnds, FilterTurns
  <2>3. ToFilter' = ToFilter
    BY <1>1, <1>2, <2>1 DEF ToFilter
  <2>4. Lower(FilterLeft', FilterLeft)
    BY <2>1, <2>2, <2>3, LowerFour DEF FilterLeft
  <2>5. ASSUME NEW e \in Outputs PROVE NotHigher(EncoderLeft(e)', EncoderLeft(e))
    <3>1. Waits(e)' = 0
      BY <1>6 DEF FramesEnd, PullEnds, Waits, Waiting
    <3>2. Coming(e)' = Coming(e)
      BY <1>4, <1>5, <2>1, <2>3, <2>5, <3>1 DEF Coming
    <3> QED
      BY <1>0, <1>1, <2>5, <3>2, ComingType, ComingFalls
  <2> QED
    BY <2>4, <2>5
<1>7. CASE PopDecoded
  <2>1. /\ decodeQ # <<>> /\ decodeQ' = Tail(decodeQ)
        /\ filtering' = filtering \/ (Head(decodeQ) # NoFrame /\ filtering' = Append(filtering, Head(decodeQ)))
    BY <1>7 DEF PopDecoded
  <2>2. Len(decodeQ)' = Len(decodeQ) - 1 /\ Len(filtering)' <= Len(filtering) + 1
    BY <2>1, <1>3 DEF TypeOK
  <2>3. ToFilter' + 1 = ToFilter /\ ToFilter \in Nat /\ ToFilter' \in Nat /\ ToFilter' < ToFilter
    BY <1>1, <1>2, <1>3, <2>2 DEF ToFilter
  <2>4. Lower(FilterLeft', FilterLeft)
    BY <2>3, LowerFour DEF FilterLeft
  <2>5. ASSUME NEW e \in Outputs PROVE NotHigher(EncoderLeft(e)', EncoderLeft(e))
    <3>1. Waits(e)' = 0
      BY <1>7 DEF PopDecoded, Waits, Waiting
    <3>2. Len(frameQ[e]) \in Nat /\ Len(frameQ[e])' = Len(frameQ[e])
      BY <1>0, <1>4, <2>5, ComingType
    <3>3. Coming(e)' <= Coming(e)
      <4>1. ToFilter' + Len(filtering)' \in Nat /\ ToFilter + Len(filtering) \in Nat
            /\ ToFilter' + Len(filtering)' <= ToFilter + Len(filtering)
        BY <1>3, <2>2, <2>3
      <4>2. /\ Coming(e) = ToFilter + Len(filtering) + 0 + Len(frameQ[e])
            /\ Coming(e)' = ToFilter' + Len(filtering)' + 0 + Len(frameQ[e])
        BY <1>5, <2>5, <3>1, <3>2 DEF Coming
      <4> QED
        BY <3>2, <4>1, <4>2
    <3> QED
      BY <1>0, <1>1, <2>5, <3>3, ComingFalls
  <2> QED
    BY <2>4, <2>5
<1>8. CASE PullFiltered
  <2>1. filtering # <<>> /\ filtering' = Tail(filtering) /\ decodeQ' = decodeQ
    BY <1>8 DEF PullFiltered, decoderVars
  <2>2. Len(filtering)' = Len(filtering) - 1
    BY <2>1 DEF TypeOK
  <2>3. ToFilter' = ToFilter /\ ToFilter \in Nat
    BY <1>1, <1>2, <1>3, <2>1 DEF ToFilter
  <2>4. Lower(FilterLeft', FilterLeft)
    BY <1>3, <2>2, <2>3, LowerFour DEF FilterLeft
  <2>5. ASSUME NEW e \in Outputs PROVE NotHigher(EncoderLeft(e)', EncoderLeft(e))
    <3>1. Waits(e)' \in {0, 1}
      BY DEF Waits
    <3>2. Len(frameQ[e]) \in Nat /\ Len(frameQ[e])' = Len(frameQ[e])
      BY <1>0, <1>4, <2>5, ComingType
    <3>3. Coming(e)' <= Coming(e)
      BY <1>3, <1>5, <2>2, <2>3, <2>5, <3>1, <3>2 DEF Coming
    <3> QED
      BY <1>0, <1>1, <2>5, <3>3, ComingFalls
  <2> QED
    BY <2>4, <2>5
<1> QED
  BY <1>6, <1>7, <1>8

\* A turn of one of its loops over the outputs.
LEMMA TurnWork ==
    ASSUME TypeOK, TypeOK', Filter, NEW d \in Outputs, Distribute(d) \/ Share(d) \/ FinishQueue(d)
    PROVE  Lower(FilterLeft', FilterLeft) /\ \A e \in Outputs : NotHigher(EncoderLeft(e)', EncoderLeft(e))
<1>0. LeftOK /\ LeftOK'
  BY LeftTypes, LeftTypesNext
<1>1. UNCHANGED <<packets, packetQ, decoding, epc, coding>>
  BY FilterSteps
<1>2. UNCHANGED <<decodeQ, filtering>> /\ d \in todo /\ todo' = todo \ {d}
  BY DEF Distribute, Share, FinishQueue, NextOutput, decoderVars
<1>3. ToFilter' = ToFilter
  BY <1>1, <1>2 DEF ToFilter, ToDecode, ToRead
<1>4. FilterTurns' < FilterTurns \/ fpc' = fpc
  BY DEF Distribute, Share, FinishQueue, FilterTurns
<1>5. Cardinality(todo') < Cardinality(todo)
  <2>1. IsFiniteSet(todo) /\ Cardinality(todo) \in Nat
    BY TodoFinite, FS_CardinalityType
  <2>2. Cardinality(todo \ {d}) = Cardinality(todo) - 1
    BY <1>2, <2>1, FS_RemoveElement
  <2> QED
    BY <1>2, <2>1, <2>2
<1>6. Lower(FilterLeft', FilterLeft)
  <2>1. CASE FilterTurns' < FilterTurns
    BY <1>2, <1>3, <2>1, LowerFour DEF FilterLeft
  <2>2. CASE fpc' = fpc
    <3>1. FilterTurns' = FilterTurns
      BY <2>2 DEF FilterTurns
    <3> QED
      BY <1>2, <1>3, <1>5, <3>1, LowerFour DEF FilterLeft
  <2> QED
    BY <1>4, <2>1, <2>2
<1>7. ASSUME NEW e \in Outputs PROVE NotHigher(EncoderLeft(e)', EncoderLeft(e))
  <2>1. /\ ToFilter \in Nat /\ Len(filtering) \in Nat /\ Waits(e) \in Nat /\ Len(frameQ[e]) \in Nat
        /\ Waits(e)' \in Nat /\ Len(frameQ[e])' \in Nat
    BY <1>0, <1>7, ComingType, ComingTypeNext
  <2>2. Waits(e)' + Len(frameQ[e])' <= Waits(e) + Len(frameQ[e])
    <3>1. CASE FinishQueue(d)
      BY <2>1, <3>1 DEF FinishQueue, Waits, Waiting
    <3>2. CASE (Distribute(d) \/ Share(d)) /\ e # d
      <4>1. frameQ'[e] = frameQ[e]
        BY <1>7, <3>2 DEF Distribute, Share, TypeOK
      <4>2. Waits(e)' <= Waits(e)
        BY <1>2, <3>2 DEF Distribute, Share, Waits, Waiting
      <4> QED
        BY <2>1, <4>1, <4>2
    <3>3. CASE (Distribute(d) \/ Share(d)) /\ e = d
      <4>1. Waits(e) = 1 /\ Waits(e)' = 0
        BY <1>2, <3>3 DEF Distribute, Share, Waits, Waiting
      <4>2. frameQ' = frameQ \/ (\E f \in Handles : frameQ' = [frameQ EXCEPT ![d] = Append(@, f)])
        <5>1. fpc \in {"distribute", "share"}
          BY <3>3 DEF Distribute, Share
        <5>2. filtered \in Frames
          BY <5>1 DEF TypeOK
        <5>3. [frame |-> filtered, clone |-> d] \in Handles /\ [frame |-> filtered, clone |-> 0] \in Handles
          BY <5>2, VideoProcessingAssumption DEF Handles, Outputs
        <5> QED
          BY <3>3, <5>3 DEF Distribute, Share
      <4>3. Len(frameQ[e])' <= Len(frameQ[e]) + 1
        <5>1. frameQ \in [Outputs -> Seq(Handles)]
          BY DEF TypeOK
        <5>2. CASE frameQ' = frameQ
          BY <2>1, <5>2
        <5>3. ASSUME NEW f \in Handles, frameQ' = [frameQ EXCEPT ![d] = Append(@, f)]
              PROVE  Len(frameQ[e])' <= Len(frameQ[e]) + 1
          <6>1. frameQ'[e] = Append(frameQ[e], f) /\ frameQ[e] \in Seq(Handles)
            BY <3>3, <5>1, <5>3
          <6>2. Len(frameQ'[e]) = Len(frameQ[e]) + 1
            BY <6>1
          <6> QED
            BY <2>1, <6>2
        <5> QED
          BY <4>2, <5>2, <5>3
      <4> QED
        BY <2>1, <4>1, <4>3
    <3> QED
      BY <3>1, <3>2, <3>3
  <2>3. Coming(e)' <= Coming(e)
    <3>1. \A i, j, k, l, m, n \in Nat : k + l <= m + n => i + j + k + l <= i + j + m + n
      OBVIOUS
    <3>2. /\ Coming(e) = ToFilter + Len(filtering) + Waits(e) + Len(frameQ[e])
          /\ Coming(e)' = ToFilter + Len(filtering) + Waits(e)' + Len(frameQ[e])'
      BY <1>2, <1>3 DEF Coming
    <3> QED
      BY <2>1, <2>2, <3>1, <3>2
  <2> QED
    BY <1>0, <1>1, <1>7, <2>3, ComingFalls
<1> QED
  BY <1>6, <1>7

LEMMA FilterWork ==
    ASSUME TypeOK, TypeOK', Filter
    PROVE  /\ MainLeft' = MainLeft /\ ReaderLeft' = ReaderLeft /\ DecoderLeft' = DecoderLeft
           /\ Lower(FilterLeft', FilterLeft)
           /\ \A e \in Outputs : NotHigher(EncoderLeft(e)', EncoderLeft(e))
<1>1. MainLeft' = MainLeft /\ ReaderLeft' = ReaderLeft /\ DecoderLeft' = DecoderLeft
  BY FilterSteps DEF MainLeft, MainTurns, ReaderLeft, ReaderTurns, ToRead, DecoderLeft, DecoderTurns, ToDecode
<1>2. CASE PopDecoded \/ FramesEnd \/ PullFiltered \/ PullEnds
  BY <1>1, <1>2, PullingWork
<1>3. CASE \E d \in Outputs : Distribute(d) \/ Share(d) \/ FinishQueue(d)
  BY <1>1, <1>3, TurnWork
<1> QED
  BY <1>2, <1>3 DEF Filter

LEMMA EncoderWork ==
    ASSUME TypeOK, TypeOK', NEW d \in Outputs, Encoder(d)
    PROVE  /\ NotHigher(MainLeft', MainLeft) /\ ReaderLeft' = ReaderLeft
           /\ DecoderLeft' = DecoderLeft /\ FilterLeft' = FilterLeft
           /\ \A e \in Outputs : NotHigher(EncoderLeft(e)', EncoderLeft(e))
           /\ Lower(MainLeft', MainLeft) \/ Lower(EncoderLeft(d)', EncoderLeft(d))
<1>0. LeftOK /\ LeftOK'
  BY LeftTypes, LeftTypesNext
<1>1. /\ UNCHANGED <<opened, rpc, packets, packetQ, dpc, decoding, decodeQ, fpc, filtering, todo>>
      /\ mpc = "join" /\ mpc' \in {"join", "crashed"}
  BY EncoderSteps
<1>2. /\ ReaderLeft' = ReaderLeft /\ DecoderLeft' = DecoderLeft /\ FilterLeft' = FilterLeft
      /\ ToFilter' = ToFilter /\ \A e \in Outputs : Waits(e)' = Waits(e)
  BY <1>1 DEF ReaderLeft, ReaderTurns, ToRead, DecoderLeft, DecoderTurns, ToDecode, FilterLeft, FilterTurns,
     ToFilter, Waits, Waiting
<1>3. IF mpc' = "crashed" THEN Lower(MainLeft', MainLeft) ELSE MainLeft' = MainLeft
  <2>1. CASE mpc' = "crashed"
    <3>1. MainTurns' < MainTurns
      BY <1>1, <2>1 DEF MainTurns
    <3> QED
      BY <2>1, <3>1, LowerOne DEF MainLeft
  <2>2. CASE mpc' = "join"
    BY <1>1, <2>2 DEF MainLeft, MainTurns
  <2> QED
    BY <1>1, <2>1, <2>2
<1>4. ASSUME NEW e \in Outputs, frameQ'[e] = frameQ[e] PROVE Coming(e)' = Coming(e)
  BY <1>1, <1>2, <1>4 DEF Coming
<1>5. ASSUME NEW e \in Outputs, e # d PROVE EncoderLeft(e)' = EncoderLeft(e)
  <2>1. frameQ'[e] = frameQ[e] /\ coding'[e] = coding[e] /\ epc'[e] = epc[e]
    BY <1>5 DEF Encoder, PopFrame, QueueEnds, SkipFrame, SendFrame, UseFreed, WritePacket, WriteFails,
       PacketsDry, FlushEnds, FreeTaken, TypeOK, filterVars, encoderVars
  <2>2. Coming(e)' = Coming(e)
    BY <1>4, <1>5, <2>1
  <2>3. ToEncode(e) = Coming(e) + (IF epc[e] = "encode" THEN 1 ELSE 0)
        /\ ToEncode(e)' = Coming(e)' + (IF epc'[e] = "encode" THEN 1 ELSE 0)
    BY DEF ToEncode, Coming, Waits
  <2> QED
    BY <2>1, <2>2, <2>3 DEF EncoderLeft, EncoderTurns
<1>6. /\ ToEncode(d) = Coming(d) + (IF epc[d] = "encode" THEN 1 ELSE 0)
      /\ ToEncode(d)' = Coming(d)' + (IF epc'[d] = "encode" THEN 1 ELSE 0)
  BY DEF ToEncode, Coming, Waits
<1>7. Coming(d) \in Nat /\ Coming(d)' \in Nat /\ Len(coding[d]) \in Nat
  BY <1>0, ComingType, ComingTypeNext DEF LeftOK
<1>8. CASE UseFreed(d)
  <2>1. UNCHANGED <<frameQ, coding, epc>> /\ mpc' = "crashed"
    BY <1>8 DEF UseFreed, filterVars, encoderVars
  <2>2. EncoderLeft(d)' = EncoderLeft(d)
    BY <1>4, <1>6, <2>1 DEF EncoderLeft, EncoderTurns
  <2> QED
    BY <1>2, <1>3, <1>5, <2>1, <2>2 DEF NotHigher
<1>9. CASE ~UseFreed(d)
  <2>1. mpc' = "join"
    BY <1>1, <1>9 DEF Encoder, PopFrame, QueueEnds, SkipFrame, SendFrame, WritePacket, WriteFails,
       PacketsDry, FlushEnds, mainVars
  <2>2. Lower(EncoderLeft(d)', EncoderLeft(d))
    <3>1. CASE PopFrame(d)
      <4>1. /\ epc[d] = "pop" /\ epc'[d] = "encode" /\ coding'[d] = coding[d]
            /\ frameQ[d] # <<>> /\ frameQ'[d] = Tail(frameQ[d]) /\ frameQ[d] \in Seq(Handles)
        BY <3>1 DEF PopFrame, TypeOK
      <4>2. Len(frameQ[d])' = Len(frameQ[d]) - 1 /\ Len(frameQ[d]) \in Nat /\ Len(frameQ[d])' \in Nat
        <5>1. \A q \in Seq(Handles) : q # <<>> => Len(Tail(q)) = Len(q) - 1
          OBVIOUS
        <5> QED
          BY <4>1, <5>1, <1>0 DEF LeftOK
      <4>3. Coming(d)' + 1 = Coming(d)
        <5>1. ToFilter + Len(filtering) + Waits(d) \in Nat
          BY <1>0, ComingType
        <5>2. Coming(d) = (ToFilter + Len(filtering) + Waits(d)) + Len(frameQ[d])
              /\ Coming(d)' = (ToFilter + Len(filtering) + Waits(d)) + Len(frameQ[d])'
          BY <1>1, <1>2 DEF Coming
        <5> QED
          BY <4>2, <5>1, <5>2
      <4>4. ToEncode(d)' = ToEncode(d)
        BY <1>6, <1>7, <4>1, <4>3
      <4>5. EncoderTurns(d)' < EncoderTurns(d)
        BY <4>1 DEF EncoderTurns
      <4> QED
        BY <4>1, <4>4, <4>5, LowerThree DEF EncoderLeft
    <3>2. CASE QueueEnds(d) \/ PacketsDry(d) \/ FlushEnds(d)
      <4>1. frameQ'[d] = frameQ[d] /\ coding'[d] = coding[d]
        BY <3>2 DEF QueueEnds, PacketsDry, FlushEnds, filterVars
      <4>2. \/ epc[d] = "pop" /\ epc'[d] = "flush"
            \/ epc[d] = "receive" /\ epc'[d] = "pop"
            \/ epc[d] = "flush" /\ epc'[d] = "done"
        BY <3>2 DEF QueueEnds, PacketsDry, FlushEnds, FreeTaken, TypeOK
      <4>3. ToEncode(d)' = ToEncode(d)
        BY <1>4, <1>6, <4>1, <4>2
      <4>4. EncoderTurns(d)' < EncoderTurns(d)
        BY <4>2 DEF EncoderTurns
      <4> QED
        BY <4>1, <4>3, <4>4, LowerThree DEF EncoderLeft
    <3>3. CASE SkipFrame(d) \/ SendFrame(d)
      <4>1. frameQ'[d] = frameQ[d] /\ epc[d] = "encode" /\ epc'[d] \in {"pop", "receive"}
        BY <3>3 DEF SkipFrame, SendFrame, FreeTaken, filterVars, TypeOK
      <4>2. ToEncode(d)' < ToEncode(d)
        BY <1>4, <1>6, <1>7, <4>1
      <4> QED
        BY <4>2, LowerThree DEF EncoderLeft
    <3>4. CASE WritePacket(d) \/ WriteFails(d)
      <4>1. /\ frameQ'[d] = frameQ[d] /\ coding[d] # <<>> /\ coding'[d] = Tail(coding[d])
            /\ coding[d] \in Seq(Frames)
        BY <3>4 DEF WritePacket, WriteFails, filterVars, TypeOK
      <4>2. epc[d] # "encode" /\ epc'[d] # "encode"
        <5>1. epc[d] # "encode"
          BY <3>4 DEF WritePacket, WriteFails
        <5>2. \A c : epc' = [epc EXCEPT ![d] = c] => epc'[d] = c
          BY DEF TypeOK
        <5>3. epc' = epc \/ epc' = [epc EXCEPT ![d] = "pop"] \/ epc' = [epc EXCEPT ![d] = "done"]
          BY <3>4 DEF WritePacket, WriteFails, FreeTaken
        <5> QED
          BY <5>1, <5>2, <5>3
      <4>3. ToEncode(d)' = ToEncode(d)
        BY <1>4, <1>6, <4>1, <4>2
      <4>4. Len(coding[d])' < Len(coding[d])
        <5>1. \A q \in Seq(Frames) : q # <<>> => Len(Tail(q)) = Len(q) - 1
          OBVIOUS
        <5> QED
          BY <1>7, <4>1, <5>1
      <4> QED
        BY <4>3, <4>4, LowerThree DEF EncoderLeft
    <3> QED
      BY <1>9, <3>1, <3>2, <3>3, <3>4 DEF Encoder
  <2> QED
    BY <1>2, <1>3, <1>5, <2>1, <2>2 DEF NotHigher
<1> QED
  BY <1>8, <1>9

LEMMA StepLeaves ==
    ASSUME TypeOK, TypeOK', [Next]_vars, ~UNCHANGED vars
    PROVE  LeavesLess
<1>1. CASE Main
  BY <1>1, MainWork DEF NotHigher, LeavesLess
<1>2. CASE Reader
  BY <1>2, ReaderWork DEF NotHigher, LeavesLess
<1>3. CASE Decoder
  BY <1>3, DecoderWork DEF NotHigher, LeavesLess
<1>4. CASE Filter
  BY <1>4, FilterWork DEF NotHigher, LeavesLess
<1>5. CASE \E d \in Outputs : Encoder(d)
  <2>1. PICK d \in Outputs : Encoder(d)
    BY <1>5
  <2> QED
    BY <2>1, EncoderWork DEF NotHigher, LeavesLess
<1> QED
  BY <1>1, <1>2, <1>3, <1>4, <1>5 DEF Next, Terminated

\* Every step of the server brings one of its threads closer to its end and takes
\* none further from it, in a dictionary order on natural numbers that has no
\* endless descent: whatever fails, is lost or flushed, it makes a bounded number
\* of steps.
THEOREM VideoProcessingWorkRunsOut == Spec => [](LeftOK) /\ WorkRunsOut
<1>1. TypeOK /\ TypeOK' /\ [Next]_vars => [LeavesLess]_vars
  BY StepLeaves
<1> QED
  BY <1>1, VideoProcessingType, LeftTypes, PTL DEF Spec, WorkRunsOut

\* The half of termination that needs no scheduling: no thread waits in vain, and each
\* step leaves less to do.
THEOREM VideoProcessingProgress == Spec => Progress
  BY VideoProcessingWaits, VideoProcessingWorkRunsOut, PTL DEF Progress, WorkRunsOut
=============================================================================
