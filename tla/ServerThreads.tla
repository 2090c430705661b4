---------------------------- MODULE ServerThreads -----------------------------
(***************************************************************************)
(* What the transcoding servers of the repository share.  A reader thread  *)
(* feeds a PacketQueue, a decoding thread hands a clone of every decoded   *)
(* frame to the FrameQueue of each output, one encoder thread per output   *)
(* encodes and sends, and main joins them all and reports success.         *)
(*                                                                         *)
(* Twelve programs are copies of this with small differences.  The actions *)
(* here are the steps the copies have in common, with what differs as a    *)
(* parameter; the modules TranscodingServers and StadiumServers say of     *)
(* each program which steps it takes and with which parameters, and        *)
(* Transcoder puts them together.                                          *)
(*                                                                         *)
(* The queues are the closable queues FrameQueue is shown to implement: a  *)
(* pop is enabled when there is a frame or the queue is finished.  A codec *)
(* is external: it is fed frames and gives them back in order, may keep    *)
(* some until it is flushed, and may fail.                                 *)
(***************************************************************************)
EXTENDS OrderedSequences, Integers

CONSTANTS Programs,     \* the programs considered
          NumOutputs,   \* outputs on the command line, at most 6 in main
          MaxPackets,   \* bound: packets the input delivers
          CodecDepth,   \* bound: frames a codec keeps before giving one back
          RateNum,      \* the input's frame rate is RateNum / RateDen
          RateDen,
          Faults        \* the kinds of failure that may happen

FaultKinds == {"init", "alloc", "codec", "convert", "write"}

ASSUME TranscoderAssumption ==
    /\ NumOutputs \in 1..6
    /\ MaxPackets \in Nat
    /\ CodecDepth \in Nat
    /\ RateNum \in Nat \ {0}
    /\ RateDen \in Nat \ {0}
    /\ Faults \subseteq FaultKinds

Encoders == 1..NumOutputs

\* The programs of TranscodingServers, then those of StadiumServers.
AllPrograms == {"tcp-udp", "tcp-modified", "udp-modified", "rtsp", "tcp", "udp", "rtp",
                "multi-tcp", "multi-srt", "gpu-tcp", "gpu-srt", "simple"}

VARIABLES
    program,       \* which of the programs runs
    rpc,           \* packet_reading_thread: where it is
    requestCount,  \* packets read; request_count in the programs that report them
    video,         \* history: the packets that belonged to the video stream
    packetQ,       \* the PacketQueue
    packetsDone,   \* its finished_ flag
    dpc,           \* decoding_thread: where it is
    flushing,      \* it is in the flush loop
    decoding,      \* packets inside the decoder's codec
    cur,           \* the decoded frame being cloned to the outputs
    nextEnc,       \* the next output of the loop over encoder_queues
    firstPts,      \* simple-transcode: the first frame decoded, from which it counts
    fromFlush,     \* and the first it got from the flush, whose time is its own again
    frameQ,        \* the FrameQueue of each output
    finished,      \* their finished_ flags
    epc,           \* encode_frames of each output: where it is
    taken,         \* the frame popped and not yet given to the encoder
    coding,        \* frames inside the encoder's codec
    codingPts,     \* their presentation timestamps
    refused,       \* history: the encoder refused a frame, and its thread left the loop
    frameCount,    \* frame_count
    responseId,    \* response_id, in the programs that number their responses
    output,        \* frames written to the network
    stamps,        \* the timestamps they were written with
    mpc,           \* main
    initialized    \* the decoder's contexts are there for the threads to use

readerVars  == <<rpc, requestCount, video>>
originVars  == <<firstPts, fromFlush>>
decoderVars == <<dpc, flushing, decoding, cur, nextEnc, originVars>>
encoderVars == <<epc, taken, coding, codingPts, refused, frameCount, responseId, output, stamps>>
mainVars    == <<program, mpc, initialized>>
vars == <<readerVars, packetQ, packetsDone, decoderVars, frameQ, finished, encoderVars, mainVars>>

Frames == 0..(MaxPackets - 1)

ReaderType ==
    /\ rpc \in {"alloc", "read", "close", "done"}
    /\ requestCount \in 0..MaxPackets
    /\ video \in Seq(Frames)
    /\ packetQ \in Seq(Frames)
    /\ program = "simple" => packetQ = <<>>
    /\ packetsDone \in BOOLEAN

\* During a loop over the outputs nextEnc is one of them, and the frame being
\* delivered is a frame.
DecoderType ==
    /\ dpc \in {"alloc", "pop", "receive", "deliver", "close", "done"}
    /\ flushing \in BOOLEAN
    /\ decoding \in Seq(Frames)
    /\ cur \in Frames \cup {MaxPackets}
    /\ nextEnc \in 1..(NumOutputs + 1)
    /\ firstPts \in 0..MaxPackets /\ fromFlush \in 0..MaxPackets
    /\ dpc \in {"alloc", "deliver", "close"} => nextEnc \in Encoders
    /\ dpc = "deliver" => cur \in Frames
    /\ frameQ \in [Encoders -> Seq(Frames)]
    /\ finished \in [Encoders -> BOOLEAN]

\* A popped frame is held exactly until it is given to the codec or dropped, and
\* every frame in the codec has its timestamp.
EncoderType ==
    /\ epc \in [Encoders -> {"setup", "open", "pop", "encode", "receive", "flush", "done", "failed"}]
    /\ taken \in [Encoders -> Seq(Frames)]
    /\ \A e \in Encoders : Len(taken[e]) = IF epc[e] = "encode" THEN 1 ELSE 0
    /\ coding \in [Encoders -> Seq(Frames)]
    /\ codingPts \in [Encoders -> Seq(Int)]
    /\ \A e \in Encoders : Len(codingPts[e]) = Len(coding[e])
    /\ frameCount \in [Encoders -> Nat]
    /\ responseId \in [Encoders -> Nat]
    /\ output \in [Encoders -> Seq(Frames)]
    /\ stamps \in [Encoders -> Seq(Int)]
    /\ refused \in [Encoders -> BOOLEAN]

TypeOK ==
    /\ ReaderType
    /\ DecoderType
    /\ EncoderType
    /\ program \in Programs
    /\ mpc \in {"init", "join", "success", "errors", "exit"}
    /\ initialized \in BOOLEAN

Init ==
    /\ program \in Programs
    /\ rpc = "alloc"
    /\ requestCount = 0
    /\ video = <<>>
    /\ packetQ = <<>>
    /\ packetsDone = FALSE
    /\ dpc = "alloc"
    /\ flushing = FALSE
    /\ decoding = <<>>
    /\ cur = MaxPackets
    /\ nextEnc = 1
    /\ firstPts = MaxPackets
    /\ fromFlush = MaxPackets
    /\ frameQ = [e \in Encoders |-> <<>>]
    /\ finished = [e \in Encoders |-> FALSE]
    /\ epc = [e \in Encoders |-> "setup"]
    /\ taken = [e \in Encoders |-> <<>>]
    /\ coding = [e \in Encoders |-> <<>>]
    /\ codingPts = [e \in Encoders |-> <<>>]
    /\ refused = [e \in Encoders |-> FALSE]
    /\ frameCount = [e \in Encoders |-> 0]
    /\ responseId = [e \in Encoders |-> 0]
    /\ output = [e \in Encoders |-> <<>>]
    /\ stamps = [e \in Encoders |-> <<>>]
    /\ mpc = "init"
    /\ initialized = FALSE

-----------------------------------------------------------------------------
(* main *)

\* initialize_decoder succeeds, the threads are started; or it fails and main
\* returns 1 before there is a thread.
InitializeDecoder ==
    /\ mpc = "init"
    /\ \/ mpc' = "join" /\ initialized' = TRUE
       \/ "init" \in Faults /\ mpc' = "exit" /\ UNCHANGED initialized
    /\ UNCHANGED <<program, readerVars, packetQ, packetsDone, decoderVars, frameQ, finished,
                   encoderVars>>

\* In three programs main starts its threads before there is a decoder.
StartThreads ==
    /\ mpc = "init"
    /\ mpc' = "join"
    /\ UNCHANGED <<program, initialized, readerVars, packetQ, packetsDone, decoderVars, frameQ,
                   finished, encoderVars>>

\* There the decoding thread makes the decoder itself, and announces it to the
\* encoders that wait for it.  If it cannot it finishes the queues and returns,
\* and announces nothing.
DecoderInitializes ==
    /\ mpc = "join" /\ rpc = "alloc" /\ dpc = "alloc" /\ ~initialized
    /\ \/ initialized' = TRUE /\ UNCHANGED <<rpc, dpc, finished>>
       \/ /\ "init" \in Faults
          /\ finished' = [e \in Encoders |-> TRUE]
          /\ rpc' = "done" /\ dpc' = "done"
          /\ UNCHANGED initialized
    /\ UNCHANGED <<program, mpc, requestCount, video, packetQ, packetsDone, flushing, decoding, cur,
                   nextEnc, frameQ, originVars, encoderVars>>

\* decode_frames joins its two threads, main joins that and the encoders of its
\* outputs, then looks at enc_finished_flags, which an encoder sets just before
\* returning true.
JoinAndReport(outputs) ==
    /\ mpc = "join"
    /\ rpc = "done"
    /\ dpc = "done"
    /\ \A e \in outputs : epc[e] \in {"done", "failed"}
    /\ mpc' = IF \A e \in outputs : epc[e] = "done" THEN "success" ELSE "errors"
    /\ UNCHANGED <<program, initialized, readerVars, packetQ, packetsDone, decoderVars, frameQ,
                   finished, encoderVars>>

-----------------------------------------------------------------------------
(* packet_reading_thread *)

\* Mutant: without a packet the reader returns and leaves its queue unfinished.
MutReaderLeavesQueue ==
    /\ mpc = "join" /\ initialized
    /\ rpc = "alloc"
    /\ \/ rpc' = "read"
       \/ "alloc" \in Faults /\ rpc' = "done"
    /\ UNCHANGED <<requestCount, video, packetQ, packetsDone, decoderVars, frameQ, finished,
                   encoderVars, mainVars>>

ReaderStart ==
    /\ mpc = "join" /\ initialized
    /\ rpc = "alloc"
    /\ \/ rpc' = "read"
       \/ "alloc" \in Faults /\ rpc' = "close"
    /\ UNCHANGED <<requestCount, video, packetQ, packetsDone, decoderVars, frameQ, finished,
                   encoderVars, mainVars>>

\* A packet of the video stream: its request is reported, it goes to the queue,
\* and a new packet is allocated for the next read.
ReadVideoPacket ==
    /\ rpc = "read"
    /\ requestCount < MaxPackets
    /\ requestCount' = requestCount + 1
    /\ video' = Append(video, requestCount)
    /\ packetQ' = Append(packetQ, requestCount)
    /\ \/ rpc' = "read"
       \/ "alloc" \in Faults /\ rpc' = "close"
    /\ UNCHANGED <<packetsDone, decoderVars, frameQ, finished, encoderVars, mainVars>>

\* A packet of another stream is reported as a request too, then released.
ReadOtherPacket ==
    /\ rpc = "read"
    /\ requestCount < MaxPackets
    /\ requestCount' = requestCount + 1
    /\ UNCHANGED <<rpc, video, packetQ, packetsDone, decoderVars, frameQ, finished,
                   encoderVars, mainVars>>

\* End of the input, or an error of av_read_frame: the loop ends either way.
ReadEnds ==
    /\ rpc = "read"
    /\ rpc' = "close"
    /\ UNCHANGED <<requestCount, video, packetQ, packetsDone, decoderVars, frameQ, finished,
                   encoderVars, mainVars>>

ReaderFinishes ==
    /\ rpc = "close"
    /\ packetsDone' = TRUE
    /\ rpc' = "done"
    /\ UNCHANGED <<requestCount, video, packetQ, decoderVars, frameQ, finished,
                   encoderVars, mainVars>>

Reader == ReaderStart \/ ReadVideoPacket \/ ReadOtherPacket \/ ReadEnds \/ ReaderFinishes

-----------------------------------------------------------------------------
(* decoding_thread *)

\* Without a frame buffer the thread only marks the outputs finished.
DecoderStart ==
    /\ mpc = "join" /\ initialized
    /\ dpc = "alloc"
    /\ \/ dpc' = "pop"
       \/ "alloc" \in Faults /\ dpc' = "close"
    /\ UNCHANGED <<readerVars, packetQ, packetsDone, flushing, decoding, cur, nextEnc, frameQ,
                   finished, originVars, encoderVars, mainVars>>

\* pop a packet and send it to the codec; a packet the codec refuses is lost.
PopPacket ==
    /\ dpc = "pop"
    /\ packetQ # <<>>
    /\ packetQ' = Tail(packetQ)
    /\ \/ decoding' = Append(decoding, Head(packetQ)) /\ dpc' = "receive"
       \/ "codec" \in Faults /\ UNCHANGED <<decoding, dpc>>
    /\ UNCHANGED <<readerVars, packetsDone, flushing, cur, nextEnc, frameQ, finished,
                   originVars, encoderVars, mainVars>>

\* Mutant: the outputs are finished as soon as the packets end, then flushed.
MutFinishBeforeFlush ==
    /\ dpc = "pop"
    /\ packetQ = <<>>
    /\ packetsDone
    /\ finished' = [e \in Encoders |-> TRUE]
    /\ flushing' = TRUE
    /\ dpc' = "receive"
    /\ UNCHANGED <<readerVars, packetQ, packetsDone, decoding, cur, nextEnc, frameQ, originVars,
                   encoderVars, mainVars>>

\* pop returns false: the codec is flushed.
PacketsEnd ==
    /\ dpc = "pop"
    /\ packetQ = <<>>
    /\ packetsDone
    /\ flushing' = TRUE
    /\ dpc' = "receive"
    /\ UNCHANGED <<readerVars, packetQ, packetsDone, decoding, cur, nextEnc, frameQ, finished,
                   originVars, encoderVars, mainVars>>

\* avcodec_receive_frame gives a frame.
ReceiveFrame ==
    /\ dpc = "receive"
    /\ decoding # <<>>
    /\ cur' = Head(decoding)
    /\ decoding' = Tail(decoding)
    /\ nextEnc' = 1
    /\ dpc' = "deliver"
    /\ UNCHANGED <<readerVars, packetQ, packetsDone, flushing, frameQ, finished, originVars,
                   encoderVars, mainVars>>

\* EAGAIN while there may be more packets, EOF once the codec is empty, or an
\* error, which may cost the frame being decoded: the receive loop ends.
ReceiveEnds ==
    /\ dpc = "receive"
    /\ \/ (IF flushing THEN decoding = <<>> ELSE Len(decoding) <= CodecDepth)
          /\ UNCHANGED decoding
       \/ "codec" \in Faults /\ decoding # <<>> /\ decoding' \in {decoding, Tail(decoding)}
    /\ dpc' = IF flushing THEN "close" ELSE "pop"
    /\ nextEnc' = 1
    /\ UNCHANGED <<readerVars, packetQ, packetsDone, flushing, cur, frameQ, finished, originVars,
                   encoderVars,
                   mainVars>>

\* One turn of the loop over encoder_queues: clone and push, or skip this output
\* when the clone fails.  After the last output the frame is released.
DeliverFrame ==
    /\ dpc = "deliver"
    /\ \/ frameQ' = [frameQ EXCEPT ![nextEnc] = Append(@, cur)]
       \/ "alloc" \in Faults /\ UNCHANGED frameQ
    /\ nextEnc' = nextEnc + 1
    /\ dpc' = IF nextEnc = NumOutputs THEN "receive" ELSE "deliver"
    /\ cur' = IF nextEnc = NumOutputs THEN MaxPackets ELSE cur
    /\ UNCHANGED <<readerVars, packetQ, packetsDone, flushing, decoding, finished, originVars,
                   encoderVars, mainVars>>

\* One turn of the final loop: set_finished on the next output's queue.
FinishQueue ==
    /\ dpc = "close"
    /\ finished' = [finished EXCEPT ![nextEnc] = TRUE]
    /\ nextEnc' = nextEnc + 1
    /\ dpc' = IF nextEnc = NumOutputs THEN "done" ELSE "close"
    /\ UNCHANGED <<readerVars, packetQ, packetsDone, flushing, decoding, cur, frameQ, originVars,
                   encoderVars,
                   mainVars>>

Decoder ==
    \/ DecoderStart \/ PopPacket \/ PacketsEnd \/ ReceiveFrame \/ ReceiveEnds
    \/ DeliverFrame \/ FinishQueue

-----------------------------------------------------------------------------
(* encode_frames, one thread for each output *)

\* The muxer, the encoder, the socket, the header and the frame buffer: any
\* of them may fail, and the thread returns false without touching its queue.
EncoderSetup(e) ==
    /\ mpc = "join"
    /\ epc[e] = "setup"
    /\ \/ epc' = [epc EXCEPT ![e] = "pop"]
       \/ "init" \in Faults /\ epc' = [epc EXCEPT ![e] = "failed"]
    /\ UNCHANGED <<readerVars, packetQ, packetsDone, decoderVars, frameQ, finished, taken, coding,
                   codingPts, frameCount, responseId, output, stamps, refused, mainVars>>

\* The same in two steps: the output first, then, once there is a decoder to take
\* the frame rate from, the rest.
OpenOutput(e) ==
    /\ mpc = "join"
    /\ epc[e] = "setup"
    /\ \/ epc' = [epc EXCEPT ![e] = "open"]
       \/ "init" \in Faults /\ epc' = [epc EXCEPT ![e] = "failed"]
    /\ UNCHANGED <<readerVars, packetQ, packetsDone, decoderVars, frameQ, finished, taken, coding,
                   codingPts, frameCount, responseId, output, stamps, refused, mainVars>>

FinishSetup(e) ==
    /\ epc[e] = "open"
    /\ initialized
    /\ \/ epc' = [epc EXCEPT ![e] = "pop"]
       \/ "init" \in Faults /\ epc' = [epc EXCEPT ![e] = "failed"]
    /\ UNCHANGED <<readerVars, packetQ, packetsDone, decoderVars, frameQ, finished, taken, coding,
                   codingPts, frameCount, responseId, output, stamps, refused, mainVars>>

PopFrame(e) ==
    /\ epc[e] = "pop"
    /\ frameQ[e] # <<>>
    /\ taken' = [taken EXCEPT ![e] = <<Head(frameQ[e])>>]
    /\ frameQ' = [frameQ EXCEPT ![e] = Tail(@)]
    /\ epc' = [epc EXCEPT ![e] = "encode"]
    /\ UNCHANGED <<readerVars, packetQ, packetsDone, decoderVars, finished, coding, codingPts,
                   frameCount, responseId, output, stamps, refused, mainVars>>

\* Mutant: a finished queue ends the loop whatever it still holds.
MutEndUndrained(e) ==
    /\ epc[e] = "pop"
    /\ finished[e]
    /\ epc' = [epc EXCEPT ![e] = "flush"]
    /\ UNCHANGED <<readerVars, packetQ, packetsDone, decoderVars, frameQ, finished, taken, coding,
                   codingPts, frameCount, responseId, output, stamps, refused, mainVars>>

\* Mutant: is_finished() is never seen true, the loop polls for ever.
MutPollForEver(e) ==
    /\ epc[e] = "pop"
    /\ frameQ[e] = <<>>
    /\ finished[e]
    /\ UNCHANGED vars

FramesEnd(e) ==
    /\ epc[e] = "pop"
    /\ frameQ[e] = <<>>
    /\ finished[e]
    /\ epc' = [epc EXCEPT ![e] = "flush"]
    /\ UNCHANGED <<readerVars, packetQ, packetsDone, decoderVars, frameQ, finished, taken, coding,
                   codingPts, frameCount, responseId, output, stamps, refused, mainVars>>

\* The scaler cannot be made or cannot convert: the frame is skipped.
ConvertFails(e) ==
    /\ epc[e] = "encode"
    /\ "convert" \in Faults
    /\ taken' = [taken EXCEPT ![e] = <<>>]
    /\ epc' = [epc EXCEPT ![e] = "pop"]
    /\ UNCHANGED <<readerVars, packetQ, packetsDone, decoderVars, frameQ, finished, coding,
                   codingPts, frameCount, responseId, output, stamps, refused, mainVars>>

\* avcodec_send_frame, with the presentation timestamp pts.
SendFrame(e, pts) ==
    /\ epc[e] = "encode"
    /\ coding' = [coding EXCEPT ![e] = @ \o taken[e]]
    /\ codingPts' = [codingPts EXCEPT ![e] = Append(@, pts)]
    /\ taken' = [taken EXCEPT ![e] = <<>>]
    /\ epc' = [epc EXCEPT ![e] = "receive"]
    /\ UNCHANGED <<readerVars, packetQ, packetsDone, decoderVars, frameQ, finished, frameCount,
                   responseId, output, stamps, refused, mainVars>>

\* The encoder refuses the frame: the whole encoding loop is left, with the
\* frames still queued behind it.
SendFrameFails(e) ==
    /\ epc[e] = "encode"
    /\ "codec" \in Faults
    /\ taken' = [taken EXCEPT ![e] = <<>>]
    /\ refused' = [refused EXCEPT ![e] = TRUE]
    /\ epc' = [epc EXCEPT ![e] = "flush"]
    /\ UNCHANGED <<readerVars, packetQ, packetsDone, decoderVars, frameQ, finished, coding,
                   codingPts, frameCount, responseId, output, stamps, mainVars>>

\* The programs that filter: the filter or the encoder gives up on one frame, and
\* the loop goes on to the next.
FrameRefused(e) ==
    /\ epc[e] = "encode"
    /\ Faults \cap {"alloc", "codec", "convert"} # {}
    /\ taken' = [taken EXCEPT ![e] = <<>>]
    /\ frameCount' = [frameCount EXCEPT ![e] = @ + 1]
    /\ epc' = [epc EXCEPT ![e] = "pop"]
    /\ UNCHANGED <<readerVars, packetQ, packetsDone, decoderVars, frameQ, finished, coding,
                   codingPts, responseId, output, stamps, refused, mainVars>>

\* Mutant: a packet whose write failed stays and takes another response number.
MutWriteRetried(e, numbered, step) ==
    /\ epc[e] = "receive"
    /\ coding[e] # <<>>
    /\ responseId' = IF numbered THEN [responseId EXCEPT ![e] = @ + 1] ELSE responseId
    /\ \/ /\ output' = [output EXCEPT ![e] = Append(@, Head(coding[e]))]
          /\ stamps' = [stamps EXCEPT ![e] = Append(@, Head(codingPts[e]))]
          /\ coding' = [coding EXCEPT ![e] = Tail(@)]
          /\ codingPts' = [codingPts EXCEPT ![e] = Tail(@)]
          /\ UNCHANGED <<epc, frameCount>>
       \/ /\ "write" \in Faults
          /\ epc' = [epc EXCEPT ![e] = "pop"]
          /\ frameCount' = [frameCount EXCEPT ![e] = @ + step]
          /\ UNCHANGED <<coding, codingPts, output, stamps>>
    /\ UNCHANGED <<readerVars, packetQ, packetsDone, decoderVars, frameQ, finished, taken, refused, mainVars>>

\* Mutant: a packet is stamped with the count its turn will end with.
MutStampNextCount(e, numbered, step) ==
    /\ epc[e] = "receive"
    /\ coding[e] # <<>>
    /\ coding' = [coding EXCEPT ![e] = Tail(@)]
    /\ codingPts' = [codingPts EXCEPT ![e] = Tail(@)]
    /\ responseId' = IF numbered THEN [responseId EXCEPT ![e] = @ + 1] ELSE responseId
    /\ \/ /\ output' = [output EXCEPT ![e] = Append(@, Head(coding[e]))]
          /\ stamps' = [stamps EXCEPT ![e] = Append(@, frameCount[e] + step)]
          /\ UNCHANGED <<epc, frameCount>>
       \/ /\ "write" \in Faults
          /\ epc' = [epc EXCEPT ![e] = "pop"]
          /\ frameCount' = [frameCount EXCEPT ![e] = @ + step]
          /\ UNCHANGED <<output, stamps>>
    /\ UNCHANGED <<readerVars, packetQ, packetsDone, decoderVars, frameQ, finished, taken, refused, mainVars>>

\* A packet comes out: it takes the next response number, where responses are
\* numbered, and is written; or the write fails, which ends the receive loop and
\* this frame's turn.
WritePacket(e, numbered, step) ==
    /\ epc[e] = "receive"
    /\ coding[e] # <<>>
    /\ coding' = [coding EXCEPT ![e] = Tail(@)]
    /\ codingPts' = [codingPts EXCEPT ![e] = Tail(@)]
    /\ responseId' = IF numbered THEN [responseId EXCEPT ![e] = @ + 1] ELSE responseId
    /\ \/ /\ output' = [output EXCEPT ![e] = Append(@, Head(coding[e]))]
          /\ stamps' = [stamps EXCEPT ![e] = Append(@, Head(codingPts[e]))]
          /\ UNCHANGED <<epc, frameCount>>
       \/ /\ "write" \in Faults
          /\ epc' = [epc EXCEPT ![e] = "pop"]
          /\ frameCount' = [frameCount EXCEPT ![e] = @ + step]
          /\ UNCHANGED <<output, stamps>>
    /\ UNCHANGED <<readerVars, packetQ, packetsDone, decoderVars, frameQ, finished, taken, refused, mainVars>>

\* EAGAIN, an encoder error or no memory for a packet: the frame's turn ends and
\* frame_count advances by the program's step, whether or not a packet was written.
PacketsDry(e, step) ==
    /\ epc[e] = "receive"
    /\ Len(coding[e]) <= CodecDepth \/ Faults \cap {"alloc", "codec"} # {}
    /\ frameCount' = [frameCount EXCEPT ![e] = @ + step]
    /\ epc' = [epc EXCEPT ![e] = "pop"]
    /\ UNCHANGED <<readerVars, packetQ, packetsDone, decoderVars, frameQ, finished, taken, coding,
                   codingPts, responseId, output, stamps, refused, mainVars>>

\* The flush loop: a packet without a response, with the timestamp stamp, or
\* lost by a failed write, which ends the loop.
FlushPacket(e, stamp) ==
    /\ epc[e] = "flush"
    /\ coding[e] # <<>>
    /\ coding' = [coding EXCEPT ![e] = Tail(@)]
    /\ codingPts' = [codingPts EXCEPT ![e] = Tail(@)]
    /\ \/ /\ output' = [output EXCEPT ![e] = Append(@, Head(coding[e]))]
          /\ stamps' = [stamps EXCEPT ![e] = Append(@, stamp)]
          /\ UNCHANGED epc
       \/ /\ "write" \in Faults
          /\ epc' = [epc EXCEPT ![e] = "done"]
          /\ UNCHANGED <<output, stamps>>
    /\ UNCHANGED <<readerVars, packetQ, packetsDone, decoderVars, frameQ, finished, taken,
                   frameCount, responseId, refused, mainVars>>

\* The codec is empty, or fails; the trailer, the log, the clean-up, and
\* encode_finished = true: this output counts as successful.
FlushEnds(e) ==
    /\ epc[e] = "flush"
    /\ coding[e] = <<>> \/ Faults \cap {"alloc", "codec"} # {}
    /\ epc' = [epc EXCEPT ![e] = "done"]
    /\ UNCHANGED <<readerVars, packetQ, packetsDone, decoderVars, frameQ, finished, taken, coding,
                   codingPts, frameCount, responseId, output, stamps, refused, mainVars>>

-----------------------------------------------------------------------------
(* The threads as most programs have them *)

\* The two ways a presentation timestamp is made: by counting, or from the
\* decoded frame's own.  Frame f is shown RateDen * f / RateNum seconds into the
\* input, which av_rescale_q rounds to the encoder's time base of 1 / fps; most
\* programs take for fps the input's frame rate cast to an int.
Counted(e)       == frameCount[e]
Rescaled(f, fps) == (2 * f * RateDen * fps + RateNum) \div (2 * RateNum)
IntRate          == RateNum \div RateDen

\* The codec's own timestamp of the packet it gives next.
CodecStamp(e) == Head(codingPts[e])

\* What decoding_thread does with a packet it has, in every program but one.
DecodeTurn == ReceiveFrame \/ ReceiveEnds \/ DeliverFrame

\* What encode_frames does with a frame it popped.
EncodeTurn(e, pts, numbered, step) ==
    \/ ConvertFails(e) \/ SendFrame(e, pts) \/ SendFrameFails(e)
    \/ WritePacket(e, numbered, step) \/ PacketsDry(e, step)

\* main has returned.
Terminated ==
    /\ mpc \in {"success", "errors", "exit"}
    /\ UNCHANGED vars
=============================================================================
