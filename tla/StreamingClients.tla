--------------------------- MODULE StreamingClients ---------------------------
(***************************************************************************)
(* The seven clients of transcoding-apps/streaming.                        *)
(***************************************************************************)
EXTENDS ClientThreads

-----------------------------------------------------------------------------
(* streaming-tcp-udp: pushes over TCP, pulls over UDP; a packet too small for the
   response it should carry is passed over before it is counted. *)

TcpUdpOpens(i) == PullOpens(i) \/ PullTimesOut(i, "open")

TcpUdpPrepares(i) == PullPrepares(i)

TcpUdpRefuses(i) == PullRefuses(i)

TcpUdpPulls(i) == TimedLoop(i) \/ TcpUdpRefuses(i)

TcpUdpLogs(i) == Logs(i)

TcpUdpPullThread(i) == TcpUdpOpens(i) \/ TcpUdpPrepares(i) \/ TcpUdpPulls(i) \/ TcpUdpLogs(i)

TcpUdpPushOpens == PushOpens

TcpUdpPushes == PushLoop

TcpUdpMain == MainSteps

-----------------------------------------------------------------------------
(* streaming-tcp (modified): each packet must carry a response. *)

TcpModOpens(i) == PullOpens(i)

TcpModPrepares(i) == PullPrepares(i)

TcpModRefuses(i) == PullRefuses(i)

TcpModPulls(i) == PullLoop(i) \/ TcpModRefuses(i)

TcpModLogs(i) == Logs(i)

TcpModPullThread(i) == TcpModOpens(i) \/ TcpModPrepares(i) \/ TcpModPulls(i) \/ TcpModLogs(i)

TcpModPushOpens == PushOpens

TcpModPushes == PushLoop

TcpModMain == MainSteps

-----------------------------------------------------------------------------
(* streaming-udp (modified). *)

UdpModOpens(i) == PullOpens(i) \/ PullTimesOut(i, "open")

UdpModPrepares(i) == PullPrepares(i)

UdpModPulls(i) == TimedLoop(i)

UdpModLogs(i) == Logs(i)

UdpModPullThread(i) == UdpModOpens(i) \/ UdpModPrepares(i) \/ UdpModPulls(i) \/ UdpModLogs(i)

UdpModPushOpens == PushOpens

UdpModPushes == PushLoop

UdpModMain == MainSteps

-----------------------------------------------------------------------------
(* streaming-rtsp: the server can also end the stream. *)

RtspOpens(i) == PullOpens(i) \/ PullTimesOut(i, "open")

RtspPrepares(i) == PullPrepares(i)

RtspPulls(i) == PullLoop(i) \/ PullTimesOut(i, "read")

RtspLogs(i) == Logs(i)

RtspPullThread(i) == RtspOpens(i) \/ RtspPrepares(i) \/ RtspPulls(i) \/ RtspLogs(i)

RtspPushOpens == PushOpens

RtspPushes == PushLoop

RtspMain == MainSteps

-----------------------------------------------------------------------------
(* streaming-tcp. *)

TcpOpens(i) == PullOpens(i)

TcpPrepares(i) == PullPrepares(i)

TcpPulls(i) == PullLoop(i)

TcpLogs(i) == Logs(i)

TcpPullThread(i) == TcpOpens(i) \/ TcpPrepares(i) \/ TcpPulls(i) \/ TcpLogs(i)

TcpPushOpens == PushOpens

TcpPushes == PushLoop

TcpMain == MainSteps

-----------------------------------------------------------------------------
(* streaming-udp: pulls from behind an address the server learns from a ping. *)

UdpHandshake == SendPing \/ AwaitPong

UdpOpens(i) == PullOpens(i) \/ PullTimesOut(i, "open")

UdpPrepares(i) == PullPrepares(i)

UdpPulls(i) == TimedLoop(i)

UdpLogs(i) == Logs(i)

UdpPullThread(i) == UdpOpens(i) \/ UdpPrepares(i) \/ UdpPulls(i) \/ UdpLogs(i)

UdpPushOpens == PushOpens

UdpPushes == PushLoop

UdpMain == UdpHandshake \/ MainSteps

-----------------------------------------------------------------------------
(* streaming-rtp: the server writes a number into each packet; one without, or with
   0 or too great a one, is not logged. *)

RtpHandshake == SendPing \/ AwaitPong

RtpOpens(i) == PullOpens(i) \/ PullTimesOut(i, "open")

RtpPrepares(i) == PullPrepares(i)

RtpPulls(i) == TimedLoop(i) \/ PassesOver(i)

RtpLogs(i) == (\E n \in Numbers \ {0} : PullLogs(i, n - 1, "read")) \/ PullCrashes(i)

RtpPullThread(i) == RtpOpens(i) \/ RtpPrepares(i) \/ RtpPulls(i) \/ RtpLogs(i)

RtpPushOpens == PushOpens

RtpPushes == PushLoop

RtpMain == RtpHandshake \/ MainSteps
=============================================================================
