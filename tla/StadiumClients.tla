---------------------------- MODULE StadiumClients ----------------------------
(***************************************************************************)
(* The seven clients of smart-stadium-transcoding.                         *)
(***************************************************************************)
EXTENDS ClientThreads

-----------------------------------------------------------------------------
(* video-push-pull-wo-decode-tcp. *)

WoTcpOpens(i) == PullOpens(i)

WoTcpPrepares(i) == PullPrepares(i)

WoTcpPulls(i) == PullLoop(i)

WoTcpLogs(i) == Logs(i)

WoTcpPullThread(i) == WoTcpOpens(i) \/ WoTcpPrepares(i) \/ WoTcpPulls(i) \/ WoTcpLogs(i)

WoTcpPushOpens == PushOpens

WoTcpPushes == PushLoop

WoTcpMain == MainSteps

-----------------------------------------------------------------------------
(* video-push-pull-wo-decode-srt. *)

WoSrtOpens(i) == PullOpens(i)

WoSrtPrepares(i) == PullPrepares(i)

WoSrtPulls(i) == PullLoop(i)

WoSrtLogs(i) == Logs(i)

WoSrtPullThread(i) == WoSrtOpens(i) \/ WoSrtPrepares(i) \/ WoSrtPulls(i) \/ WoSrtLogs(i)

WoSrtPushOpens == PushOpens

WoSrtPushes == PushLoop

WoSrtMain == MainSteps

-----------------------------------------------------------------------------
(* video-push-pull-wo-decode-gpu-tcp. *)

GpuTcpOpens(i) == PullOpens(i)

GpuTcpPrepares(i) == PullPrepares(i)

GpuTcpPulls(i) == PullLoop(i)

GpuTcpLogs(i) == Logs(i)

GpuTcpPullThread(i) == GpuTcpOpens(i) \/ GpuTcpPrepares(i) \/ GpuTcpPulls(i) \/ GpuTcpLogs(i)

GpuTcpPushOpens == PushOpens

GpuTcpPushes == PushLoop

GpuTcpMain == MainSteps

-----------------------------------------------------------------------------
(* video-push-pull-wo-decode-gpu-srt. *)

GpuSrtOpens(i) == PullOpens(i)

GpuSrtPrepares(i) == PullPrepares(i)

GpuSrtPulls(i) == PullLoop(i)

GpuSrtLogs(i) == Logs(i)

GpuSrtPullThread(i) == GpuSrtOpens(i) \/ GpuSrtPrepares(i) \/ GpuSrtPulls(i) \/ GpuSrtLogs(i)

GpuSrtPushOpens == PushOpens

GpuSrtPushes == PushLoop

GpuSrtMain == MainSteps

-----------------------------------------------------------------------------
(* video-push-pull-wo-dec-ue-tcp: each thread enters the network namespace of a
   user equipment first. *)

UeTcpNamespace(i) == PullNamespaceFails(i)

UeTcpOpens(i) == PullOpens(i)

UeTcpPrepares(i) == PullPrepares(i)

UeTcpPulls(i) == PullLoop(i)

UeTcpLogs(i) == Logs(i)

UeTcpPullThread(i) == UeTcpNamespace(i) \/ UeTcpOpens(i) \/ UeTcpPrepares(i) \/ UeTcpPulls(i) \/ UeTcpLogs(i)

UeTcpPushOpens == PushOpens \/ PushNamespaceFails

UeTcpPushes == PushLoop

UeTcpMain == MainSteps

-----------------------------------------------------------------------------
(* video-push-pull-wo-dec-ue-srt. *)

UeSrtNamespace(i) == PullNamespaceFails(i)

UeSrtOpens(i) == PullOpens(i)

UeSrtPrepares(i) == PullPrepares(i)

UeSrtPulls(i) == PullLoop(i)

UeSrtLogs(i) == Logs(i)

UeSrtPullThread(i) == UeSrtNamespace(i) \/ UeSrtOpens(i) \/ UeSrtPrepares(i) \/ UeSrtPulls(i) \/ UeSrtLogs(i)

UeSrtPushOpens == PushOpens \/ PushNamespaceFails

UeSrtPushes == PushLoop

UeSrtMain == MainSteps

-----------------------------------------------------------------------------
(* video-push-pull: the pulled packets are decoded, and frames are logged. *)

PushPullOpens(i) == PullOpens(i)

PushPullPrepares(i) == PullPrepares(i)

PushPullPulls(i) ==
    \/ PullReads(i, "decode") \/ PullRefuses(i) \/ PullDecodes(i)
    \/ PullReadEnds(i)

PushPullLogs(i) == PullLogs(i, ByPosition(i), "decode") \/ PullCrashes(i)

PushPullPullThread(i) == PushPullOpens(i) \/ PushPullPrepares(i) \/ PushPullPulls(i) \/ PushPullLogs(i)

PushPullPushOpens == PushOpens

PushPullPushes == PushLoop

PushPullMain == MainSteps
=============================================================================
