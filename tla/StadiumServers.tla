--------------------------- MODULE StadiumServers ----------------------------
(***************************************************************************)
(* The servers of smart-stadium-transcoding that decode once and encode    *)
(* for several outputs, and simple-transcode, which has one output and     *)
(* decodes in the thread that reads.  The frames keep the timestamps of    *)
(* the decoded ones, in all of them.                                       *)
(***************************************************************************)
EXTENDS ServerThreads

-----------------------------------------------------------------------------
(* multiple-transcode-tcp. *)

MultiTcpInitializes == InitializeDecoder

MultiTcpReader == Reader

MultiTcpPackets == PopPacket \/ PacketsEnd

MultiTcpDecoder == DecoderStart \/ MultiTcpPackets \/ DecodeTurn \/ FinishQueue

MultiTcpFrames(e) == PopFrame(e) \/ FramesEnd(e)

MultiTcpSetup(e) == EncoderSetup(e)

MultiTcpEncodes(e) == MultiTcpFrames(e) \/ EncodeTurn(e, Rescaled(Head(taken[e]), IntRate), FALSE, 1)

MultiTcpFlushes(e) == FlushPacket(e, CodecStamp(e)) \/ FlushEnds(e)

MultiTcpEncoder(e) == MultiTcpSetup(e) \/ MultiTcpEncodes(e) \/ MultiTcpFlushes(e)

MultiTcpMain == MultiTcpInitializes \/ JoinAndReport(Encoders)

-----------------------------------------------------------------------------
(* multiple-transcode-srt: six outputs of one resolution, over SRT. *)

MultiSrtInitializes == InitializeDecoder

MultiSrtReader == Reader

MultiSrtPackets == PopPacket \/ PacketsEnd

MultiSrtDecoder == DecoderStart \/ MultiSrtPackets \/ DecodeTurn \/ FinishQueue

MultiSrtFrames(e) == PopFrame(e) \/ FramesEnd(e)

MultiSrtSetup(e) == EncoderSetup(e)

MultiSrtEncodes(e) == MultiSrtFrames(e) \/ EncodeTurn(e, Rescaled(Head(taken[e]), IntRate), FALSE, 1)

MultiSrtFlushes(e) == FlushPacket(e, CodecStamp(e)) \/ FlushEnds(e)

MultiSrtEncoder(e) == MultiSrtSetup(e) \/ MultiSrtEncodes(e) \/ MultiSrtFlushes(e)

MultiSrtMain == MultiSrtInitializes \/ JoinAndReport(Encoders)

-----------------------------------------------------------------------------
(* multiple-transcode-gpu-tcp: frames pass a filter graph on the GPU, which is
   built after the output is open.  A frame the encoder refuses ends only its own
   turn of the loop. *)

GpuTcpInitializes == InitializeDecoder

GpuTcpReader == Reader

GpuTcpPackets == PopPacket \/ PacketsEnd

GpuTcpDecoder == DecoderStart \/ GpuTcpPackets \/ DecodeTurn \/ FinishQueue

GpuTcpFrames(e) == PopFrame(e) \/ FramesEnd(e)

GpuTcpOpens(e) == OpenOutput(e)

GpuTcpFilter(e) == FinishSetup(e)

GpuTcpEncodes(e) ==
    \/ GpuTcpFrames(e)
    \/ ConvertFails(e) \/ FrameRefused(e) \/ SendFrame(e, Rescaled(Head(taken[e]), IntRate))
    \/ WritePacket(e, FALSE, 1) \/ PacketsDry(e, 1)

GpuTcpFlushes(e) == FlushPacket(e, CodecStamp(e)) \/ FlushEnds(e)

GpuTcpEncoder(e) == GpuTcpOpens(e) \/ GpuTcpFilter(e) \/ GpuTcpEncodes(e) \/ GpuTcpFlushes(e)

GpuTcpMain == GpuTcpInitializes \/ JoinAndReport(Encoders)

-----------------------------------------------------------------------------
(* multiple-transcode-gpu-srt: the same over SRT. *)

GpuSrtInitializes == InitializeDecoder

GpuSrtReader == Reader

GpuSrtPackets == PopPacket \/ PacketsEnd

GpuSrtDecoder == DecoderStart \/ GpuSrtPackets \/ DecodeTurn \/ FinishQueue

GpuSrtFrames(e) == PopFrame(e) \/ FramesEnd(e)

GpuSrtOpens(e) == OpenOutput(e)

GpuSrtFilter(e) == FinishSetup(e)

GpuSrtEncodes(e) ==
    \/ GpuSrtFrames(e)
    \/ ConvertFails(e) \/ FrameRefused(e) \/ SendFrame(e, Rescaled(Head(taken[e]), IntRate))
    \/ WritePacket(e, FALSE, 1) \/ PacketsDry(e, 1)

GpuSrtFlushes(e) == FlushPacket(e, CodecStamp(e)) \/ FlushEnds(e)

GpuSrtEncoder(e) == GpuSrtOpens(e) \/ GpuSrtFilter(e) \/ GpuSrtEncodes(e) \/ GpuSrtFlushes(e)

GpuSrtMain == GpuSrtInitializes \/ JoinAndReport(Encoders)

-----------------------------------------------------------------------------
(* simple-transcode: no packet queue and no reader thread.  Time counts from the
   first frame decoded, but not for those the flush gives. *)

SimpleInitializes == InitializeDecoder

\* Without a packet or a frame the thread returns, its queue not finished.
SimpleStart ==
    /\ mpc = "join" /\ initialized
    /\ dpc = "alloc"
    /\ rpc' = "done"
    /\ \/ dpc' = "pop"
       \/ "alloc" \in Faults /\ dpc' = "done"
    /\ UNCHANGED <<requestCount, video, packetQ, packetsDone, flushing, decoding, cur, nextEnc, frameQ,
                   finished, originVars, encoderVars, mainVars>>

\* A packet of the video stream goes to the codec; if the codec refuses it the
\* reading loop is left for the flush.
SimpleReadVideo ==
    /\ dpc = "pop"
    /\ requestCount < MaxPackets
    /\ requestCount' = requestCount + 1
    /\ video' = Append(video, requestCount)
    /\ dpc' = "receive"
    /\ \/ decoding' = Append(decoding, requestCount) /\ UNCHANGED flushing
       \/ "codec" \in Faults /\ flushing' = TRUE /\ UNCHANGED decoding
    /\ UNCHANGED <<rpc, packetQ, packetsDone, cur, nextEnc, frameQ, finished, originVars,
                   encoderVars, mainVars>>

SimpleReadOther ==
    /\ dpc = "pop"
    /\ requestCount < MaxPackets
    /\ requestCount' = requestCount + 1
    /\ UNCHANGED <<rpc, video, packetQ, packetsDone, decoderVars, frameQ, finished, encoderVars,
                   mainVars>>

\* Mutant: the codec is not flushed.
MutSimpleNoFlush ==
    /\ dpc = "pop"
    /\ dpc' = "close"
    /\ UNCHANGED <<readerVars, packetQ, packetsDone, flushing, decoding, cur, nextEnc, frameQ,
                   finished, originVars, encoderVars, mainVars>>

SimpleReadEnds ==
    /\ dpc = "pop"
    /\ flushing' = TRUE
    /\ dpc' = "receive"
    /\ UNCHANGED <<readerVars, packetQ, packetsDone, decoding, cur, nextEnc, frameQ, finished,
                   originVars, encoderVars, mainVars>>

NoPts == MaxPackets

\* A decoded frame is cloned and pushed.  When the clone fails the frame is lost,
\* and before the flush that ends the receive loop.
SimpleReceive ==
    /\ dpc = "receive"
    /\ decoding # <<>>
    /\ decoding' = Tail(decoding)
    /\ firstPts' = IF ~flushing /\ firstPts = NoPts THEN Head(decoding) ELSE firstPts
    /\ fromFlush' = IF flushing /\ fromFlush = NoPts THEN Head(decoding) ELSE fromFlush
    /\ \/ frameQ' = [frameQ EXCEPT ![1] = Append(@, Head(decoding))] /\ UNCHANGED dpc
       \/ /\ "alloc" \in Faults
          /\ dpc' = IF flushing THEN "receive" ELSE "pop"
          /\ UNCHANGED frameQ
    /\ UNCHANGED <<readerVars, packetQ, packetsDone, flushing, cur, nextEnc, finished, encoderVars,
                   mainVars>>

\* set_finished on the only queue.
SimpleFinish ==
    /\ dpc = "close"
    /\ finished' = [finished EXCEPT ![1] = TRUE]
    /\ dpc' = "done"
    /\ UNCHANGED <<readerVars, packetQ, packetsDone, flushing, decoding, cur, nextEnc, frameQ,
                   originVars, encoderVars, mainVars>>

SimpleDecoder ==
    \/ SimpleStart \/ SimpleReadVideo \/ SimpleReadOther \/ SimpleReadEnds
    \/ SimpleReceive \/ ReceiveEnds \/ SimpleFinish

SimpleFrames == PopFrame(1) \/ FramesEnd(1)

SimpleSetup == EncoderSetup(1)

\* The time of a frame as decode_frames has left it.
SimplePts(f) == IF f < fromFlush THEN f - firstPts ELSE f

\* The encoder's time base is 1 / 30 whatever the input's frame rate.
SimpleEncodes == SimpleFrames \/ EncodeTurn(1, Rescaled(SimplePts(Head(taken[1])), 30), FALSE, 1)

SimpleFlushes == FlushPacket(1, CodecStamp(1)) \/ FlushEnds(1)

SimpleEncoder == SimpleSetup \/ SimpleEncodes \/ SimpleFlushes

SimpleMain == SimpleInitializes \/ JoinAndReport({1})
=============================================================================
