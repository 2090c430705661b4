----------------------------- MODULE Transcoder ------------------------------
(***************************************************************************)
(* The transcoding servers as one specification: the program is chosen in  *)
(* the initial state and never changes, and its module says which steps it *)
(* takes.  The properties are about what all of them promise: each output  *)
(* is an ordered stream that may lose frames, and the threads end.         *)
(***************************************************************************)
EXTENDS TranscodingServers, StadiumServers

ASSUME ProgramsAssumption == Programs \subseteq AllPrograms

LateInit == {"tcp", "udp", "rtp"}
Filtering == {"gpu-tcp", "gpu-srt"}

Main ==
    \/ program = "tcp-udp" /\ TcpUdpMain
    \/ program = "tcp-modified" /\ TcpModMain
    \/ program = "udp-modified" /\ UdpModMain
    \/ program = "rtsp" /\ RtspMain
    \/ program = "tcp" /\ TcpMain
    \/ program = "udp" /\ UdpMain
    \/ program = "rtp" /\ RtpMain
    \/ program = "multi-tcp" /\ MultiTcpMain
    \/ program = "multi-srt" /\ MultiSrtMain
    \/ program = "gpu-tcp" /\ GpuTcpMain
    \/ program = "gpu-srt" /\ GpuSrtMain
    \/ program = "simple" /\ SimpleMain

\* The threads that read and decode; in some programs they make the decoder first.
Source ==
    \/ program = "tcp-udp" /\ (TcpUdpReader \/ TcpUdpDecoder)
    \/ program = "tcp-modified" /\ (TcpModReader \/ TcpModDecoder)
    \/ program = "udp-modified" /\ (UdpModReader \/ UdpModDecoder)
    \/ program = "rtsp" /\ (RtspReader \/ RtspDecoder)
    \/ program = "tcp" /\ (TcpInitializes \/ TcpReader \/ TcpDecoder)
    \/ program = "udp" /\ (UdpInitializes \/ UdpReader \/ UdpDecoder)
    \/ program = "rtp" /\ (RtpInitializes \/ RtpReader \/ RtpDecoder)
    \/ program = "multi-tcp" /\ (MultiTcpReader \/ MultiTcpDecoder)
    \/ program = "multi-srt" /\ (MultiSrtReader \/ MultiSrtDecoder)
    \/ program = "gpu-tcp" /\ (GpuTcpReader \/ GpuTcpDecoder)
    \/ program = "gpu-srt" /\ (GpuSrtReader \/ GpuSrtDecoder)
    \/ program = "simple" /\ SimpleDecoder

Encoder(e) ==
    \/ program = "tcp-udp" /\ TcpUdpEncoder(e)
    \/ program = "tcp-modified" /\ TcpModEncoder(e)
    \/ program = "udp-modified" /\ UdpModEncoder(e)
    \/ program = "rtsp" /\ RtspEncoder(e)
    \/ program = "tcp" /\ TcpEncoder(e)
    \/ program = "udp" /\ UdpEncoder(e)
    \/ program = "rtp" /\ RtpEncoder(e)
    \/ program = "multi-tcp" /\ MultiTcpEncoder(e)
    \/ program = "multi-srt" /\ MultiSrtEncoder(e)
    \/ program = "gpu-tcp" /\ GpuTcpEncoder(e)
    \/ program = "gpu-srt" /\ GpuSrtEncoder(e)
    \/ program = "simple" /\ e = 1 /\ SimpleEncoder

Next ==
    \/ Main
    \/ Source
    \/ \E e \in Encoders : Encoder(e)
    \/ Terminated

\* Every thread keeps running; the input ends (a bounded number of packets).  The
\* reader and the decoder are two threads, so each is treated fairly.
Fairness ==
    /\ WF_vars(Main)
    /\ WF_vars(Source)
    /\ WF_vars(Reader)
    /\ WF_vars(Decoder)
    /\ \A e \in Encoders : WF_vars(Encoder(e))

Spec     == Init /\ [][Next]_vars
FairSpec == Spec /\ Fairness

-----------------------------------------------------------------------------
(* Properties *)

\* The frame being cloned has not been pushed to this output yet.
Undelivered(e) == IF dpc = "deliver" /\ nextEnc <= e THEN <<cur>> ELSE <<>>

\* Every frame inside the server that output e may still write, oldest first.
Pipe(e) ==
    coding[e] \o taken[e] \o frameQ[e] \o Undelivered(e) \o decoding \o packetQ

Stream(e) == INSTANCE LossyStream
             WITH next <- requestCount, pipe <- Pipe(e), output <- output[e],
                  answered <- responseId[e]

\* Each output is a lossy stream: three threads, two kinds of queue and two
\* codecs may lose frames, never reorder, repeat or invent one.
Streams ==
    /\ \A e \in Encoders : Stream(e)!Init
    /\ [][\A e \in Encoders : [Stream(e)!Next]_(Stream(e)!vars)]_vars

\* Frames are written in the order of their requests, none of them twice, and
\* every frame inside the server belongs to a request that was reported.
OutputsInOrder == \A e \in Encoders : Stream(e)!InOrder

\* A response never claims a later request than its frame's own: response_id
\* lags behind the requests by the frames lost ahead of it and never overtakes.
ResponsesFollowRequests == \A e \in Encoders : Stream(e)!ResponsesFollowRequests

\* decoding_thread finishes a queue after its last push to it, flush included:
\* a finished queue only shrinks.
NoPushAfterFinished ==
    [][\A e \in Encoders : finished[e] => Len(frameQ'[e]) <= Len(frameQ[e])]_vars

\* encode_frames returns true only after the decoder finished the queue and every
\* frame in it was taken, unless the encoder refused a frame of this very output.
ReturnsAfterDrained ==
    \A e \in Encoders : epc[e] = "done" /\ ~refused[e] =>
        finished[e] /\ frameQ[e] = <<>> /\ taken[e] = <<>>

\* Timestamps never go backwards on the wire, lost writes and the flush included; the
\* packets of a flush may carry the same.
StampsNeverDecrease ==
    \A e \in Encoders : \A i, j \in DOMAIN stamps[e] : i < j => stamps[e][i] <= stamps[e][j]

\* Without failures every video frame reaches every output before main reports.
CleanRunComplete ==
    Faults = {} /\ mpc = "success" =>
        \A e \in IF program = "simple" THEN {1} ELSE Encoders : output[e] = video

Ended == mpc \in {"success", "errors", "exit"}

\* The decoding thread could not make what it needs and left: in the programs that
\* make the decoder late without announcing one, in simple-transcode without
\* finishing the queue.
DecoderGaveUp ==
    /\ rpc = "done" /\ dpc = "done"
    /\ \/ program \in LateInit /\ ~initialized
       \/ program = "simple" /\ ~finished[1]

\* No thread waits for one that has returned: while a pop or the wait for the decoder
\* can still be answered, the thread that answers it runs, but for those two cases.
WaitsAreAnswered ==
    ~DecoderGaveUp =>
        /\ program # "simple" /\ dpc = "pop" /\ packetQ = <<>> /\ ~packetsDone => rpc # "done"
        /\ \A e \in Encoders :
             /\ epc[e] = "pop" /\ frameQ[e] = <<>> /\ ~finished[e] => dpc # "done"
             /\ epc[e] = "open" /\ ~initialized => dpc # "done"

\* What each thread still has to do, the most significant number first: the packets
\* or frames that may still reach it, what its codec holds, and where it is.
ToRead == MaxPackets - requestCount

MainLeft ==
    <<CASE mpc = "init" -> 2 [] mpc = "join" -> 1 [] OTHER -> 0>>

ReaderTurns == CASE rpc = "alloc" -> 3 [] rpc = "read" -> 2 [] rpc = "close" -> 1 [] OTHER -> 0

ReaderLeft == <<ToRead, ReaderTurns>>

ToDecode ==
    ToRead + Len(packetQ) + (IF initialized THEN 0 ELSE 1) + (IF flushing THEN 0 ELSE 1)

DecoderTurns ==
    CASE dpc = "alloc"   -> NumOutputs + 3
      [] dpc = "deliver" -> (NumOutputs + 2) + (NumOutputs + 1 - nextEnc)
      [] dpc = "receive" -> NumOutputs + 2
      [] dpc = "pop"     -> NumOutputs + 1
      [] dpc = "close"   -> NumOutputs + 1 - nextEnc
      [] OTHER           -> 0

DecoderLeft == <<ToDecode, Len(decoding), DecoderTurns>>

ToEncode(e) ==
    ToRead + Len(packetQ) + Len(decoding) + Len(Undelivered(e)) + Len(frameQ[e]) + Len(taken[e])

EncoderTurns(e) ==
    CASE epc[e] = "setup"   -> 6
      [] epc[e] = "open"    -> 5
      [] epc[e] = "receive" -> 4
      [] epc[e] = "pop"     -> 3
      [] epc[e] \in {"encode", "flush"} -> 2
      [] OTHER              -> 0

EncoderLeft(e) == <<ToEncode(e), Len(coding[e]), EncoderTurns(e)>>

\* No server runs for ever: a step of any thread leaves one of them less to do and
\* none of them more, retried writes, lost frames and the flushes included.
LeavesLess ==
    /\ NotHigher(MainLeft', MainLeft)
    /\ NotHigher(ReaderLeft', ReaderLeft)
    /\ NotHigher(DecoderLeft', DecoderLeft)
    /\ \A e \in Encoders : NotHigher(EncoderLeft(e)', EncoderLeft(e))
    /\ \/ Lower(MainLeft', MainLeft)
       \/ Lower(ReaderLeft', ReaderLeft)
       \/ Lower(DecoderLeft', DecoderLeft)
       \/ \E e \in Encoders : Lower(EncoderLeft(e)', EncoderLeft(e))

\* Every step of a server does, so it can make a bounded number of them only.
WorkRunsOut == [][LeavesLess]_vars

\* What Terminates rests on besides scheduling: after every step no thread
\* waits for one that has returned, and there is less left to do.
Progress == [][WaitsAreAnswered' /\ LeavesLess]_vars

\* Once the input ends the server ends: no thread is left waiting on a queue,
\* whichever threads failed or gave up early, but for the two cases above.
Terminates == <>(Ended \/ DecoderGaveUp)

\* "Wait for threads to finish": the server ends whichever threads fail.
EndsWhateverFails == <>Ended

\* "Check if all encoders finished successfully": main's report of success means
\* that no output left decoded frames behind.
SuccessMeansEncoded ==
    mpc = "success" => \A e \in Encoders : frameQ[e] = <<>>
=============================================================================
