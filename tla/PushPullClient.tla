--------------------------- MODULE PushPullClient ----------------------------
(***************************************************************************)
(* The clients as one specification, the program chosen in the initial     *)
(* state.  What they are for is the log: frame by frame, when it was       *)
(* pushed and when it came back.                                           *)
(***************************************************************************)
EXTENDS StreamingClients, StadiumClients

ASSUME ProgramsAssumption == Programs \subseteq AllPrograms

Main ==
    \/ program = "tcp-udp" /\ TcpUdpMain
    \/ program = "tcp-modified" /\ TcpModMain
    \/ program = "udp-modified" /\ UdpModMain
    \/ program = "rtsp" /\ RtspMain
    \/ program = "tcp" /\ TcpMain
    \/ program = "udp" /\ UdpMain
    \/ program = "rtp" /\ RtpMain
    \/ program = "wo-decode-tcp" /\ WoTcpMain
    \/ program = "wo-decode-srt" /\ WoSrtMain
    \/ program = "gpu-tcp" /\ GpuTcpMain
    \/ program = "gpu-srt" /\ GpuSrtMain
    \/ program = "ue-tcp" /\ UeTcpMain
    \/ program = "ue-srt" /\ UeSrtMain
    \/ program = "push-pull" /\ PushPullMain

Push ==
    \/ program = "tcp-udp" /\ (TcpUdpPushOpens \/ TcpUdpPushes)
    \/ program = "tcp-modified" /\ (TcpModPushOpens \/ TcpModPushes)
    \/ program = "udp-modified" /\ (UdpModPushOpens \/ UdpModPushes)
    \/ program = "rtsp" /\ (RtspPushOpens \/ RtspPushes)
    \/ program = "tcp" /\ (TcpPushOpens \/ TcpPushes)
    \/ program = "udp" /\ (UdpPushOpens \/ UdpPushes)
    \/ program = "rtp" /\ (RtpPushOpens \/ RtpPushes)
    \/ program = "wo-decode-tcp" /\ (WoTcpPushOpens \/ WoTcpPushes)
    \/ program = "wo-decode-srt" /\ (WoSrtPushOpens \/ WoSrtPushes)
    \/ program = "gpu-tcp" /\ (GpuTcpPushOpens \/ GpuTcpPushes)
    \/ program = "gpu-srt" /\ (GpuSrtPushOpens \/ GpuSrtPushes)
    \/ program = "ue-tcp" /\ (UeTcpPushOpens \/ UeTcpPushes)
    \/ program = "ue-srt" /\ (UeSrtPushOpens \/ UeSrtPushes)
    \/ program = "push-pull" /\ (PushPullPushOpens \/ PushPullPushes)

Pull(i) ==
    \/ program = "tcp-udp" /\ TcpUdpPullThread(i)
    \/ program = "tcp-modified" /\ TcpModPullThread(i)
    \/ program = "udp-modified" /\ UdpModPullThread(i)
    \/ program = "rtsp" /\ RtspPullThread(i)
    \/ program = "tcp" /\ TcpPullThread(i)
    \/ program = "udp" /\ UdpPullThread(i)
    \/ program = "rtp" /\ RtpPullThread(i)
    \/ program = "wo-decode-tcp" /\ WoTcpPullThread(i)
    \/ program = "wo-decode-srt" /\ WoSrtPullThread(i)
    \/ program = "gpu-tcp" /\ GpuTcpPullThread(i)
    \/ program = "gpu-srt" /\ GpuSrtPullThread(i)
    \/ program = "ue-tcp" /\ UeTcpPullThread(i)
    \/ program = "ue-srt" /\ UeSrtPullThread(i)
    \/ program = "push-pull" /\ PushPullPullThread(i)

Next ==
    \/ Main
    \/ Push
    \/ \E i \in Pulls : Pull(i) \/ Server(i)
    \/ Terminated

\* Every thread keeps running, the input file ends, and the server serves.
Fairness ==
    /\ WF_vars(Main)
    /\ WF_vars(Push)
    /\ \A i \in Pulls : WF_vars(Pull(i)) /\ WF_vars(Server(i))

Spec     == Init /\ [][Next]_vars
FairSpec == Spec /\ Fairness

-----------------------------------------------------------------------------
(* Properties *)

\* All clients but one count the responses and look a push time up by position; what
\* the other logs rests on the numbers the server writes.
Counts == program # "rtp"

\* operator[] is used to read the map, and inserts what it does not find: a client
\* that counts always finds, because the push thread records a frame's time before
\* it writes the frame, and no frame is counted that was not pushed.
TimeIsRecorded == Counts => \A i \in Pulls : ppc[i] = "lookup" => ByPosition(i) \in times

\* A latency logged by a client that counts is that of the frame it is logged for, as
\* long as no frame of the stream was lost, unless the time was lost to a search that
\* raced an insertion (it is then 0).
LatencyIsItsFrames ==
    Counts => \A i \in Pulls : ~missed[i] =>
        \A n \in DOMAIN log[i] : log[i][n].time \in {0, log[i][n].frame}

\* The entries of a log are of frames in the order they were pushed, none twice,
\* whatever is lost, refused or late, and so are the numbers of a client that counts.
LogIsOrdered ==
    \A i \in Pulls : \A m, n \in DOMAIN log[i] : m < n =>
        /\ log[i][m].frame < log[i][n].frame
        /\ Counts => log[i][m].number < log[i][n].number

\* When main returns, every frame written is in every log from whose stream nothing
\* was lost, but for those a decoder still held when the stream ended.
LogIsComplete ==
    mpc = "done" => \A i \in Pulls : ~missed[i] =>
        Len(log[i]) >= Len(sent) - (IF program = "push-pull" THEN HeldFrames ELSE 0)

\* A client that waits for a pong streams only to a server that knows where to
\* send its own stream.
ServerKnowsTheClient ==
    FirstStep(program) = "ping" /\ mpc \notin {"ping", "pong", "exit"} => address

\* main waits for a thread that listens for a server that is not coming.
Stranded ==
    /\ mpc = "join" /\ program \notin Timed
    /\ \E i \in Pulls : ppc[i] = "open" /\ conn[i] = "never"

\* The client ends: its process exits, or main joins every thread, or it waits for
\* ever for a stream the server never opened.
Terminates == <>[](~Running \/ Stranded)

\* "Wait for all pull threads to finish": they do.
EndsWithoutServer == <>~Running

\* "Mutex for accessing push_timestamps and related maps": no thread searches the
\* map while another inserts.
MapIsGuarded == ~(spc = "insert" /\ \E i \in Pulls : ppc[i] = "lookup")
=============================================================================
