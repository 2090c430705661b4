------------------------ MODULE PushPullClient_proofs ------------------------
(* The fourteen clients, for any number of streams and frames, any delay of a   *)
(* decoder and any set of failures: the log of each stream is in order, and     *)
(* complete as long as nothing of the stream was lost; and the clients that     *)
(* count their frames find the times they look up, each its own frame's as long *)
(* as nothing was lost.                                                         *)
EXTENDS PushPullClient, Integers, SequenceTheorems, TLAPS

-----------------------------------------------------------------------------
(* The invariant *)

\* The frames written are numbered through, and the time of each was noted first.
PushInv ==
    /\ Len(sent) = pushed /\ \A n \in 1..pushed : sent[n] = n
    /\ \A n \in Nat : n < pushed => n \in times
    /\ spc = "write" => pushed \in times
    /\ spc \in {"insert", "write"} => pushed < taken

\* The order in which main starts its threads and waits for them.
MainInv ==
    /\ mpc \in {"ping", "pong", "start"} => \A i \in Pulls : ppc[i] = "idle"
    /\ mpc \in {"ping", "pong", "start", "sleep"} => spc = "idle"
    /\ mpc = "done" => \A i \in Pulls : ppc[i] = "done"

\* The pong is an answer to a ping that came through.
PingInv ==
    /\ reply => address
    /\ ServerKnowsTheClient

\* What the decoder of a pull thread, or the thread itself, has in its hands.
Depth == IF program = "push-pull" THEN HeldFrames ELSE 0

HeldInv(i) ==
    /\ ppc[i] \in {"idle", "open", "prepare"} => held[i] = <<>>
    /\ ppc[i] = "read" => Len(held[i]) <= Depth
    /\ ppc[i] = "decode" => program = "push-pull" /\ Len(held[i]) <= Depth + 1
    /\ ppc[i] = "lookup" => Len(held[i]) = Depth + 1

\* A frame is logged, held, on its way or lost: those counted are no more than those
\* the server has dealt with.
CountInv(i) ==
    /\ served[i] <= pushed
    /\ counted[i] + Len(held[i]) + Len(net[i]) <= served[i]
    /\ Len(log[i]) <= counted[i]
    /\ ppc[i] # "done" => Len(log[i]) = counted[i]

\* And what is logged, held and on its way is in the order of the pushes.
OrderInv(i) ==
    /\ \A m, n \in 1..Len(net[i]) : m < n => net[i][m] < net[i][n]
    /\ \A m, n \in 1..Len(held[i]) : m < n => held[i][m] < held[i][n]
    /\ \A m, n \in 1..Len(log[i]) : m < n => log[i][m].frame < log[i][n].frame
    /\ \A m \in 1..Len(held[i]), n \in 1..Len(net[i]) : held[i][m] < net[i][n]
    /\ \A m \in 1..Len(log[i]), n \in 1..Len(net[i]) : log[i][m].frame < net[i][n]
    /\ \A m \in 1..Len(log[i]), n \in 1..Len(held[i]) : log[i][m].frame < held[i][n]
    /\ \A n \in 1..Len(net[i]) : net[i][n] <= served[i]
    /\ \A n \in 1..Len(held[i]) : held[i][n] <= served[i]
    /\ \A n \in 1..Len(log[i]) : log[i][n].frame <= served[i]
    /\ Counts => \A n \in 1..Len(log[i]) : log[i][n].number = n

TimesInv(i) ==
    Counts /\ ~missed[i] => \A n \in 1..Len(log[i]) : log[i][n].time \in {0, log[i][n].frame}

\* While nothing of a stream was lost it is numbered through.
WholeInv(i) ==
    ~missed[i] =>
        /\ \A n \in 1..Len(log[i]) : log[i][n].frame = n
        /\ \A n \in 1..Len(held[i]) : held[i][n] = counted[i] + n
        /\ \A n \in 1..Len(net[i]) : net[i][n] = counted[i] + Len(held[i]) + n
        /\ counted[i] + Len(held[i]) + Len(net[i]) = served[i]
        /\ conn[i] = "closed" => spc = "done" /\ served[i] = pushed
        /\ ppc[i] = "done" => conn[i] = "closed" /\ Len(log[i]) + Depth >= served[i]

StreamInv(i) == HeldInv(i) /\ CountInv(i) /\ OrderInv(i) /\ TimesInv(i) /\ WholeInv(i)

IInv == TypeOK /\ PushInv /\ MainInv /\ PingInv /\ \A i \in Pulls : StreamInv(i)

-----------------------------------------------------------------------------
(* The steps of all programs *)

MainStep == SendPing \/ AwaitPong \/ MainSteps
PushStep == PushOpens \/ PushNamespaceFails \/ PushLoop

Opening(i) == PullOpens(i) \/ PullPrepares(i) \/ PullTimesOut(i, "open") \/ PullNamespaceFails(i)

Reading(i) ==
    \/ program # "push-pull" /\ PullReads(i, "lookup")
    \/ program = "push-pull" /\ PullReads(i, "decode")

Logging(i) ==
    \/ program \notin {"rtp", "push-pull"} /\ PullLogs(i, ByPosition(i), "read")
    \/ program = "push-pull" /\ PullLogs(i, ByPosition(i), "decode")
    \/ program = "rtp" /\ \E n \in Numbers \ {0} : PullLogs(i, n - 1, "read")

Decoding(i) == program = "push-pull" /\ PullDecodes(i)

Ending(i) == PullReadEnds(i) \/ (program # "push-pull" /\ PullTimesOut(i, "read"))

PullStep(i) ==
    Opening(i) \/ Reading(i) \/ PassesOver(i) \/ Decoding(i) \/ Logging(i) \/ PullCrashes(i) \/ Ending(i)

LEMMA MainIsShared == Main => MainStep
  BY DEF Main, MainStep, TcpUdpMain, TcpModMain, UdpModMain, RtspMain, TcpMain, UdpMain, RtpMain, WoTcpMain,
     WoSrtMain, GpuTcpMain, GpuSrtMain, UeTcpMain, UeSrtMain, PushPullMain, UdpHandshake, RtpHandshake

LEMMA PushIsShared == Push => PushStep
  BY DEF Push, PushStep, TcpUdpPushOpens, TcpUdpPushes, TcpModPushOpens, TcpModPushes, UdpModPushOpens, UdpModPushes,
     RtspPushOpens, RtspPushes, TcpPushOpens, TcpPushes, UdpPushOpens, UdpPushes, RtpPushOpens, RtpPushes,
     WoTcpPushOpens, WoTcpPushes, WoSrtPushOpens, WoSrtPushes, GpuTcpPushOpens, GpuTcpPushes, GpuSrtPushOpens,
     GpuSrtPushes, UeTcpPushOpens, UeTcpPushes, UeSrtPushOpens, UeSrtPushes, PushPullPushOpens, PushPullPushes

\* The pull threads of the programs that read packets and log by position.
LEMMA PositionPulls ==
    ASSUME NEW i, program \notin {"rtp", "push-pull"},
           PullSetup(i) \/ PullNamespaceFails(i) \/ PullTimesOut(i, "open") \/ PullLoop(i) \/ PullTimesOut(i, "read")
             \/ PullRefuses(i) \/ Logs(i)
    PROVE  PullStep(i)
  BY DEF PullSetup, PullLoop, PullRefuses, Logs, PullStep, Opening, Reading, Logging, Ending

LEMMA PullIsShared == ASSUME NEW i, Pull(i) PROVE PullStep(i)
<1>1. CASE program = "rtp"
  <2>1. RtpPullThread(i)
    BY <1>1 DEF Pull
  <2> QED
    BY <1>1, <2>1 DEF RtpPullThread, RtpOpens, RtpPrepares, RtpPulls, RtpLogs, PullSetup, TimedLoop,
       PullStep, Opening, Reading, Logging, Ending
<1>2. CASE program = "push-pull"
  <2>1. PushPullPullThread(i)
    BY <1>2 DEF Pull
  <2> QED
    BY <1>2, <2>1 DEF PushPullPullThread, PushPullOpens, PushPullPrepares, PushPullPulls, PushPullLogs, PullRefuses,
       PullStep, Opening, Reading, Decoding, Logging, Ending
<1>3. CASE program \notin {"rtp", "push-pull"}
  <2> SUFFICES PullSetup(i) \/ PullNamespaceFails(i) \/ PullTimesOut(i, "open") \/ PullLoop(i)
                 \/ PullTimesOut(i, "read") \/ PullRefuses(i) \/ Logs(i)
    BY <1>3, PositionPulls
  <2> USE DEF PullSetup, PullLoop, TimedLoop
  <2>1. CASE TcpUdpPullThread(i) \/ TcpModPullThread(i) \/ UdpModPullThread(i) \/ RtspPullThread(i)
    BY <2>1 DEF TcpUdpPullThread, TcpUdpOpens, TcpUdpPrepares, TcpUdpPulls, TcpUdpRefuses, TcpUdpLogs,
       TcpModPullThread, TcpModOpens, TcpModPrepares, TcpModPulls, TcpModRefuses, TcpModLogs,
       UdpModPullThread, UdpModOpens, UdpModPrepares, UdpModPulls, UdpModLogs,
       RtspPullThread, RtspOpens, RtspPrepares, RtspPulls, RtspLogs
  <2>2. CASE TcpPullThread(i) \/ UdpPullThread(i) \/ WoTcpPullThread(i) \/ WoSrtPullThread(i)
    BY <2>2 DEF TcpPullThread, TcpOpens, TcpPrepares, TcpPulls, TcpLogs,
       UdpPullThread, UdpOpens, UdpPrepares, UdpPulls, UdpLogs,
       WoTcpPullThread, WoTcpOpens, WoTcpPrepares, WoTcpPulls, WoTcpLogs,
       WoSrtPullThread, WoSrtOpens, WoSrtPrepares, WoSrtPulls, WoSrtLogs
  <2>3. CASE GpuTcpPullThread(i) \/ GpuSrtPullThread(i) \/ UeTcpPullThread(i) \/ UeSrtPullThread(i)
    BY <2>3 DEF GpuTcpPullThread, GpuTcpOpens, GpuTcpPrepares, GpuTcpPulls, GpuTcpLogs,
       GpuSrtPullThread, GpuSrtOpens, GpuSrtPrepares, GpuSrtPulls, GpuSrtLogs,
       UeTcpPullThread, UeTcpNamespace, UeTcpOpens, UeTcpPrepares, UeTcpPulls, UeTcpLogs,
       UeSrtPullThread, UeSrtNamespace, UeSrtOpens, UeSrtPrepares, UeSrtPulls, UeSrtLogs
  <2> QED
    BY <1>3, <2>1, <2>2, <2>3 DEF Pull
<1> QED
  BY <1>1, <1>2, <1>3

LEMMA StepsAreShared ==
    ASSUME [Next]_vars
    PROVE  \/ UNCHANGED vars \/ MainStep \/ PushStep
           \/ \E i \in Pulls : PullStep(i) \/ Server(i)
  BY MainIsShared, PushIsShared, PullIsShared DEF Next, Terminated

-----------------------------------------------------------------------------
(* Sequences, and what a step leaves alone *)

LEMMA AppendSeq ==
    ASSUME NEW S, NEW s \in Seq(S), NEW x \in S
    PROVE  /\ Append(s, x) \in Seq(S) /\ Len(s) \in Nat /\ Len(Append(s, x)) = Len(s) + 1
           /\ \A n \in 1..Len(s) : Append(s, x)[n] = s[n]
           /\ Append(s, x)[Len(s) + 1] = x
  OBVIOUS

LEMMA TailSeq ==
    ASSUME NEW S, NEW s \in Seq(S), s # <<>>
    PROVE  /\ Len(s) \in Nat /\ Len(s) >= 1 /\ Head(s) = s[1] /\ Head(s) \in S
           /\ Tail(s) \in Seq(S) /\ Len(Tail(s)) = Len(s) - 1
           /\ \A n \in 1..Len(Tail(s)) : n + 1 \in 1..Len(s) /\ Tail(s)[n] = s[n + 1]
  OBVIOUS

\* A count of what was counted, is held and is on its way, when one of them grows.
LEMMA OneMore ==
    ASSUME NEW c \in Nat, NEW h \in Nat, NEW n \in Nat
    PROVE  /\ c + (h + 1) + n = c + h + (n + 1)
           /\ c + h + (n + 1) = (c + h + n) + 1
           /\ c + (h + 1) = c + h + 1
  OBVIOUS

LEMMA EmptyIds == <<>> \in Seq(Ids) /\ <<>> \in Seq(Entries) /\ Len(<<>>) = 0
  OBVIOUS

\* The types of what a stream is made of.
LEMMA StreamTypes ==
    ASSUME TypeOK, NEW i \in Pulls
    PROVE  /\ net[i] \in Seq(Ids) /\ held[i] \in Seq(Ids) /\ log[i] \in Seq(Entries)
           /\ Len(net[i]) \in Nat /\ Len(held[i]) \in Nat /\ Len(log[i]) \in Nat
           /\ counted[i] \in Nat /\ served[i] \in Nat /\ pushed \in Nat /\ taken \in Nat
           /\ pushed <= taken /\ taken <= MaxFrames /\ MaxFrames \in Nat /\ Depth \in Nat
           /\ \A n \in 1..Len(net[i]) : net[i][n] \in Nat
           /\ \A n \in 1..Len(held[i]) : held[i][n] \in Nat
           /\ \A n \in 1..Len(log[i]) : log[i][n] \in Entries /\ log[i][n].frame \in Nat
                                        /\ log[i][n].number \in Nat
<1>1. net[i] \in Seq(Ids) /\ held[i] \in Seq(Ids) /\ log[i] \in Seq(Entries)
  BY DEF TypeOK
<1>2. Len(net[i]) \in Nat /\ Len(held[i]) \in Nat /\ Len(log[i]) \in Nat
  BY <1>1, LenProperties
<1>3. counted[i] \in 0..MaxFrames /\ served[i] \in 0..MaxFrames /\ taken \in 0..MaxFrames /\ pushed \in 0..taken
      /\ MaxFrames \in Nat /\ HeldFrames \in Nat
  BY ClientAssumption DEF TypeOK
<1>4. Depth \in Nat
  BY <1>3 DEF Depth
<1>5. \A n \in 1..Len(net[i]) : net[i][n] \in Ids
  BY <1>1, ElementOfSeq
<1>6. \A n \in 1..Len(held[i]) : held[i][n] \in Ids
  BY <1>1, ElementOfSeq
<1>7. Ids \subseteq Nat /\ 1..(MaxFrames + 1) \subseteq Nat
  BY <1>3 DEF Ids
<1>8. \A e \in Entries : e.frame \in Nat /\ e.number \in Nat
  BY <1>7 DEF Entries
<1>9. ASSUME NEW n \in 1..Len(log[i])
      PROVE  log[i][n] \in Entries /\ log[i][n].frame \in Nat /\ log[i][n].number \in Nat
  <2>1. log[i][n] \in Entries
    BY <1>1, ElementOfSeq
  <2> QED
    BY <2>1, <1>8
<1>10. counted[i] \in Nat /\ served[i] \in Nat /\ pushed \in Nat /\ taken \in Nat
       /\ pushed <= taken /\ taken <= MaxFrames /\ MaxFrames \in Nat
  BY <1>3
<1>11. /\ \A n \in 1..Len(net[i]) : net[i][n] \in Nat
       /\ \A n \in 1..Len(held[i]) : held[i][n] \in Nat
  BY <1>5, <1>6, <1>7
<1> QED
  BY <1>1, <1>2, <1>4, <1>9, <1>10, <1>11

\* What the invariant says of a stream stays true when the stream stays as it is and
\* frames are only added to those written.
LEMMA StreamKept ==
    ASSUME TypeOK, NEW i \in Pulls, StreamInv(i), pushed' \in Nat, pushed <= pushed',
           spc = "done" => spc' = "done" /\ pushed' = pushed,
           program' = program, ppc'[i] = ppc[i], held'[i] = held[i], net'[i] = net[i], log'[i] = log[i],
           counted'[i] = counted[i], served'[i] = served[i], conn'[i] = conn[i], missed'[i] = missed[i]
    PROVE  StreamInv(i)'
<1>1. served[i] \in Nat /\ pushed \in Nat
  BY StreamTypes
<1>2. HeldInv(i)'
  BY DEF StreamInv, HeldInv, Depth
<1>3. CountInv(i)'
  BY <1>1 DEF StreamInv, CountInv
<1>4. OrderInv(i)'
  BY DEF StreamInv, OrderInv, Counts
<1>5. TimesInv(i)'
  BY DEF StreamInv, TimesInv, Counts
<1>6. WholeInv(i)'
  BY DEF StreamInv, WholeInv, Depth
<1> QED
  BY <1>2, <1>3, <1>4, <1>5, <1>6 DEF StreamInv

\* A step of stream i, or of its pull thread, leaves the others alone.
Elsewhere(i) ==
    /\ UNCHANGED <<program, spc, pushed>>
    /\ \A j \in Pulls \ {i} :
          /\ ppc'[j] = ppc[j] /\ held'[j] = held[j] /\ net'[j] = net[j] /\ log'[j] = log[j]
          /\ counted'[j] = counted[j] /\ served'[j] = served[j] /\ conn'[j] = conn[j] /\ missed'[j] = missed[j]

LEMMA OthersKept ==
    ASSUME TypeOK, NEW i \in Pulls, Elsewhere(i), \A j \in Pulls : StreamInv(j), StreamInv(i)'
    PROVE  \A j \in Pulls : StreamInv(j)'
<1> SUFFICES ASSUME NEW j \in Pulls, j # i PROVE StreamInv(j)'
  OBVIOUS
<1>1. pushed \in Nat
  BY StreamTypes
<1> QED
  BY <1>1, StreamKept DEF Elsewhere

-----------------------------------------------------------------------------
(* What each step of a pull thread does to its stream *)

SameStream(i) ==
    /\ held'[i] = held[i] /\ net'[i] = net[i] /\ log'[i] = log[i] /\ counted'[i] = counted[i]
    /\ served'[i] = served[i] /\ conn'[i] = conn[i]

LEMMA OpeningEffect ==
    ASSUME TypeOK, NEW i \in Pulls, Opening(i)
    PROVE  /\ Running /\ ppc[i] \in {"open", "prepare"} /\ SameStream(i) /\ Elsewhere(i)
           /\ \/ ppc'[i] \in {"prepare", "read"} /\ missed'[i] = missed[i]
              \/ ppc'[i] = "done" /\ missed'[i]
<1> USE DEF TypeOK, SameStream, Elsewhere, Ends, mainVars, pushVars
<1>1. CASE PullOpens(i)
  BY <1>1 DEF PullOpens
<1>2. CASE PullPrepares(i)
  BY <1>2 DEF PullPrepares
<1>3. CASE PullTimesOut(i, "open")
  BY <1>3 DEF PullTimesOut
<1>4. CASE PullNamespaceFails(i)
  BY <1>4 DEF PullNamespaceFails
<1> QED
  BY <1>1, <1>2, <1>3, <1>4 DEF Opening

LEMMA ReadingEffect ==
    ASSUME TypeOK, NEW i \in Pulls, Reading(i)
    PROVE  /\ Running /\ ppc[i] = "read" /\ net[i] # <<>> /\ Elsewhere(i)
           /\ ppc'[i] = IF program = "push-pull" THEN "decode" ELSE "lookup"
           /\ held'[i] = Append(held[i], Head(net[i])) /\ net'[i] = Tail(net[i])
           /\ log'[i] = log[i] /\ counted'[i] = counted[i] /\ served'[i] = served[i] /\ conn'[i] = conn[i]
           /\ missed'[i] = missed[i]
<1> USE DEF TypeOK, Elsewhere, mainVars, pushVars
<1>1. CASE program # "push-pull" /\ PullReads(i, "lookup")
  BY <1>1 DEF PullReads
<1>2. CASE program = "push-pull" /\ PullReads(i, "decode")
  BY <1>2 DEF PullReads
<1> QED
  BY <1>1, <1>2 DEF Reading

LEMMA RefusingEffect ==
    ASSUME TypeOK, NEW i \in Pulls, PassesOver(i)
    PROVE  /\ Running /\ ppc[i] = "read" /\ net[i] # <<>> /\ Elsewhere(i)
           /\ ppc'[i] = ppc[i] /\ held'[i] = held[i] /\ net'[i] = Tail(net[i])
           /\ log'[i] = log[i] /\ counted'[i] = counted[i] /\ served'[i] = served[i] /\ conn'[i] = conn[i]
           /\ missed'[i]
  BY DEF PassesOver, TypeOK, Elsewhere, mainVars, pushVars, pullVars

LEMMA DecodingEffect ==
    ASSUME TypeOK, NEW i \in Pulls, Decoding(i)
    PROVE  /\ Running /\ ppc[i] = "decode" /\ program = "push-pull" /\ Elsewhere(i) /\ SameStream(i)
           /\ missed'[i] = missed[i]
           /\ ppc'[i] = IF Len(held[i]) > HeldFrames THEN "lookup" ELSE "read"
  BY DEF Decoding, PullDecodes, TypeOK, Elsewhere, SameStream, mainVars, pushVars, serverVars

LEMMA CrashEffect ==
    ASSUME TypeOK, NEW i \in Pulls, PullCrashes(i)
    PROVE  /\ Running /\ ppc[i] = "lookup" /\ Elsewhere(i) /\ SameStream(i)
           /\ ppc'[i] = ppc[i] /\ missed'[i] = missed[i]
  BY DEF PullCrashes, Elsewhere, SameStream, pushVars, pullVars, serverVars

LEMMA EndingEffect ==
    ASSUME TypeOK, NEW i \in Pulls, HeldInv(i), Ending(i)
    PROVE  /\ Running /\ ppc[i] = "read" /\ net[i] = <<>> /\ ppc'[i] = "done" /\ Elsewhere(i)
           /\ held'[i] = <<>> /\ counted'[i] = counted[i] + Len(held[i])
           /\ net'[i] = net[i] /\ log'[i] = log[i] /\ served'[i] = served[i] /\ conn'[i] = conn[i]
           /\ missed'[i] \/ (~missed[i] /\ conn[i] = "closed")
<1> USE DEF TypeOK, Elsewhere, Ends, mainVars, pushVars
<1>1. CASE PullReadEnds(i)
  BY <1>1 DEF PullReadEnds, serverVars
<1>2. CASE program # "push-pull" /\ PullTimesOut(i, "read")
  <2>1. Len(held[i]) = 0 /\ held[i] = <<>> /\ counted[i] \in Nat
    <3>1. ppc[i] = "read"
      BY <1>2 DEF PullTimesOut
    <3>2. Len(held[i]) <= 0 /\ Len(held[i]) \in Nat /\ held[i] \in Seq(Ids) /\ counted[i] \in Nat
      BY <1>2, <3>1, StreamTypes DEF HeldInv, Depth
    <3> QED
      BY <3>2, EmptySeq
  <2> QED
    <3>1. held'[i] = <<>> /\ counted'[i] = counted[i] + Len(held[i])
      BY <1>2, <2>1 DEF PullTimesOut
    <3>2. missed'[i] \/ (~missed[i] /\ conn[i] = "closed")
      BY <1>2 DEF PullTimesOut
    <3>3. /\ Running /\ ppc[i] = "read" /\ net[i] = <<>> /\ ppc'[i] = "done" /\ Elsewhere(i)
          /\ net'[i] = net[i] /\ log'[i] = log[i] /\ served'[i] = served[i] /\ conn'[i] = conn[i]
      BY <1>2 DEF PullTimesOut
    <3> QED
      BY <3>1, <3>2, <3>3
<1> QED
  BY <1>1, <1>2 DEF Ending

\* The index under which a client that counts looks up is one the push thread has
\* passed.
LEMMA IndexPushed ==
    ASSUME TypeOK, NEW i \in Pulls, StreamInv(i), ppc[i] = "lookup"
    PROVE  ByPosition(i) \in Nat /\ ByPosition(i) < pushed
<1>1. Len(held[i]) = Depth + 1 /\ Depth \in Nat /\ counted[i] \in Nat
      /\ served[i] \in Nat /\ pushed \in Nat /\ Len(held[i]) \in Nat /\ Len(net[i]) \in Nat
  BY StreamTypes DEF StreamInv, HeldInv
<1>2. served[i] <= pushed /\ counted[i] + Len(held[i]) + Len(net[i]) <= served[i] /\ Len(held[i]) >= 1
  BY <1>1 DEF StreamInv, CountInv
<1>3. \A c, h, n, s, p \in Nat : h >= 1 /\ c + h + n <= s /\ s <= p => c < p
  OBVIOUS
<1> QED
  BY <1>1, <1>2, <1>3 DEF ByPosition

\* The entry logged is that of the frame held longest, under the index looked up: the
\* next one and with its own time in a client that counts.
LEMMA LoggingEffect ==
    ASSUME TypeOK, PushInv, NEW i \in Pulls, StreamInv(i), Logging(i)
    PROVE  /\ Running /\ ppc[i] = "lookup" /\ held[i] # <<>> /\ Elsewhere(i)
           /\ ppc'[i] = IF program = "push-pull" THEN "decode" ELSE "read"
           /\ held'[i] = Tail(held[i]) /\ counted'[i] = counted[i] + 1
           /\ net'[i] = net[i] /\ served'[i] = served[i] /\ conn'[i] = conn[i] /\ missed'[i] = missed[i]
           /\ \E e \in Entries :
                 /\ log'[i] = Append(log[i], e) /\ e.frame = Head(held[i])
                 /\ Counts => e.number = counted[i] + 1 /\ e.time \in {0, e.number}
                 /\ log' = [log EXCEPT ![i] = Append(log[i], e)]
<1> DEFINE next  == IF program = "push-pull" THEN "decode" ELSE "read"
<1>0. Running /\ ppc[i] = "lookup"
  BY DEF Logging, PullLogs
<1>1. PICK index : PullLogs(i, index, next) /\ index \in 0..MaxFrames /\ (Counts => index = counted[i])
  <2>1. counted[i] \in 0..MaxFrames
    BY DEF TypeOK
  <2>2. MaxFrames \in Nat
    BY ClientAssumption
  <2>3. CASE program = "rtp"
    <3>1. PICK n \in Numbers \ {0} : PullLogs(i, n - 1, "read")
      BY <2>3 DEF Logging
    <3>2. n - 1 \in 0..MaxFrames
      BY <2>2 DEF Numbers
    <3> QED
      BY <2>3, <3>1, <3>2 DEF Counts
  <2>4. CASE program # "rtp"
    <3>1. PullLogs(i, counted[i], next)
      BY <2>4 DEF Logging, ByPosition
    <3> QED
      BY <2>1, <3>1
  <2> QED
    BY <2>3, <2>4
<1>3. Len(held[i]) = Depth + 1 /\ Depth \in Nat /\ held[i] \in Seq(Ids) /\ counted[i] \in Nat /\ MaxFrames \in Nat
  BY <1>0, StreamTypes DEF StreamInv, HeldInv
<1>4. held[i] # <<>>
  BY <1>3, EmptySeq
<1>5. Head(held[i]) \in Ids
  BY <1>3, <1>4, TailSeq
<1>6. Counts => index \in times
  BY <1>0, <1>1, IndexPushed DEF ByPosition, PushInv
<1> HIDE DEF next
<1>10. PICK time \in {index + 1, 0} :
          log' = [log EXCEPT ![i] = Append(@, [number |-> index + 1, frame |-> Head(held[i]), time |-> time])]
  BY <1>1 DEF PullLogs
<1> DEFINE e == [number |-> index + 1, frame |-> Head(held[i]), time |-> time]
<1>11. e \in Entries
  <2>1. index + 1 \in 1..(MaxFrames + 1) /\ time \in 0..(MaxFrames + 1)
    BY <1>1, <1>3
  <2> QED
    BY <1>5, <2>1 DEF Entries
<1>12. e.frame = Head(held[i]) /\ e.number = index + 1 /\ e.time \in {0, e.number}
  OBVIOUS
<1>13. log' = [log EXCEPT ![i] = Append(log[i], e)]
  BY <1>10
<1> HIDE DEF e
<1>14. /\ log'[i] = Append(log[i], e) /\ \A j \in Pulls \ {i} : log'[j] = log[j]
  BY <1>13 DEF TypeOK
<1>15. /\ ppc'[i] = next /\ held'[i] = Tail(held[i]) /\ counted'[i] = counted[i] + 1
       /\ net'[i] = net[i] /\ served'[i] = served[i] /\ conn'[i] = conn[i] /\ missed'[i] = missed[i]
  BY <1>1 DEF PullLogs, TypeOK, serverVars
<1>16. Elsewhere(i)
  BY <1>1, <1>14 DEF PullLogs, Elsewhere, TypeOK, mainVars, pushVars, serverVars
<1> QED
  BY <1>0, <1>1, <1>4, <1>11, <1>12, <1>13, <1>14, <1>15, <1>16 DEF next

\* And what the server and the network do to it.
LEMMA ServerEffect ==
    ASSUME TypeOK, NEW i \in Pulls, Server(i)
    PROVE  /\ Elsewhere(i) /\ ppc' = ppc /\ mpc' = mpc
           /\ held'[i] = held[i] /\ log'[i] = log[i] /\ counted'[i] = counted[i]
           /\ \/ /\ net'[i] = net[i] /\ served'[i] = served[i] /\ missed'[i] = missed[i]
                 /\ conn'[i] = "up" /\ conn[i] = "none"
              \/ net'[i] = net[i] /\ served'[i] = served[i] /\ missed'[i]
              \/ /\ net'[i] = net[i] /\ served'[i] = served[i] /\ missed'[i] = missed[i]
                 /\ conn[i] = "up" /\ spc = "done" /\ served[i] = Len(sent)
              \/ /\ served[i] < Len(sent) /\ served'[i] = served[i] + 1 /\ conn[i] = "up" /\ conn'[i] = conn[i]
                 /\ \/ net'[i] = Append(net[i], sent[served[i] + 1]) /\ missed'[i] = missed[i]
                    \/ net'[i] = net[i] /\ missed'[i]
<1> USE DEF TypeOK, Elsewhere, mainVars, pushVars, pullVars
<1>1. CASE ServerConnects(i)
  BY <1>1 DEF ServerConnects
<1>2. CASE ServerNeverConnects(i)
  BY <1>2 DEF ServerNeverConnects
<1>3. CASE ServerForwards(i)
  BY <1>3 DEF ServerForwards
<1>4. CASE ServerCloses(i)
  BY <1>4 DEF ServerCloses
<1> QED
  BY <1>1, <1>2, <1>3, <1>4 DEF Server

-----------------------------------------------------------------------------
(* The invariant of a stream is kept *)

LEMMA OpeningKeeps ==
    ASSUME TypeOK, NEW i \in Pulls, StreamInv(i), Opening(i)
    PROVE  StreamInv(i)'
<1>1. /\ ppc[i] \in {"open", "prepare"} /\ SameStream(i) /\ UNCHANGED <<program, spc, pushed>>
      /\ \/ ppc'[i] \in {"prepare", "read"} /\ missed'[i] = missed[i]
         \/ ppc'[i] = "done" /\ missed'[i]
  BY OpeningEffect DEF Elsewhere
<1>2. held[i] = <<>> /\ Depth \in Nat /\ Len(<<>>) = 0
  BY <1>1, StreamTypes, EmptyIds DEF StreamInv, HeldInv
<1>3. HeldInv(i)'
  BY <1>1, <1>2 DEF HeldInv, SameStream, Depth
<1>4. CountInv(i)'
  BY <1>1 DEF StreamInv, CountInv, SameStream
<1>5. OrderInv(i)'
  BY <1>1 DEF StreamInv, OrderInv, SameStream, Counts
<1>6. TimesInv(i)'
  BY <1>1 DEF StreamInv, TimesInv, SameStream, Counts
<1>7. WholeInv(i)'
  BY <1>1 DEF StreamInv, WholeInv, SameStream, Depth
<1> QED
  BY <1>3, <1>4, <1>5, <1>6, <1>7 DEF StreamInv

LEMMA ReadingKeeps ==
    ASSUME TypeOK, NEW i \in Pulls, StreamInv(i), Reading(i)
    PROVE  StreamInv(i)'
<1> DEFINE h == held[i]
           x == Head(net[i])
           a == Append(h, x)
           t == Tail(net[i])
<1>1. /\ ppc[i] = "read" /\ net[i] # <<>> /\ UNCHANGED <<program, spc, pushed>>
      /\ ppc'[i] = IF program = "push-pull" THEN "decode" ELSE "lookup"
      /\ held'[i] = a /\ net'[i] = t
      /\ log'[i] = log[i] /\ counted'[i] = counted[i] /\ served'[i] = served[i] /\ conn'[i] = conn[i]
      /\ missed'[i] = missed[i]
  BY ReadingEffect DEF Elsewhere
<1>2. /\ Len(h) \in Nat /\ Len(net[i]) \in Nat /\ Len(log[i]) \in Nat /\ Depth \in Nat /\ counted[i] \in Nat
      /\ served[i] \in Nat /\ net[i] \in Seq(Ids) /\ h \in Seq(Ids)
      /\ \A n \in 1..Len(log[i]) : log[i][n].frame \in Nat
      /\ \A n \in 1..Len(h) : h[n] \in Nat
      /\ \A n \in 1..Len(net[i]) : net[i][n] \in Nat
  BY StreamTypes
<1>3. /\ Len(net[i]) >= 1 /\ x = net[i][1] /\ x \in Ids /\ Len(t) = Len(net[i]) - 1 /\ Len(t) \in Nat
      /\ \A n \in 1..Len(t) : n + 1 \in 1..Len(net[i]) /\ t[n] = net[i][n + 1]
  BY <1>1, <1>2, TailSeq
<1>4. Len(a) = Len(h) + 1 /\ a[Len(h) + 1] = x /\ \A n \in 1..Len(h) : a[n] = h[n]
  BY <1>2, <1>3, AppendSeq
<1>5. 1 \in 1..Len(net[i])
  BY <1>2, <1>3
<1>n. Len(h) \in Nat /\ Len(net[i]) \in Nat /\ Len(t) \in Nat /\ counted[i] \in Nat /\ served[i] \in Nat
      /\ Len(net[i]) = Len(t) + 1 /\ Len(a) = Len(h) + 1
  BY <1>2, <1>3, <1>4
<1> HIDE DEF h, x, a, t
<1>6. HeldInv(i)'
  <2>1. Len(h) <= Depth /\ Depth' = Depth
    BY <1>1 DEF StreamInv, HeldInv, Depth, h
  <2>2. program # "push-pull" => Depth = 0
    BY DEF Depth
  <2> QED
    BY <1>1, <1>2, <1>4, <2>1, <2>2 DEF HeldInv
<1>7. CountInv(i)'
  BY SMTT(30), <1>1, <1>2, <1>3, <1>4 DEF StreamInv, CountInv, h
<1>8. OrderInv(i)'
  <2>1. \A n \in 1..Len(a) : n \in 1..Len(h) \/ n = Len(h) + 1
    BY <1>2, <1>4
  <2>2. \A m, n \in 1..Len(t) : m < n => t[m] < t[n]
    <3> SUFFICES ASSUME NEW m \in 1..Len(t), NEW n \in 1..Len(t), m < n PROVE t[m] < t[n]
      OBVIOUS
    <3>1. m + 1 < n + 1
      OBVIOUS
    <3> QED
      BY <1>3, <3>1 DEF StreamInv, OrderInv
  <2>3. \A n \in 1..Len(t) : x < t[n] /\ t[n] <= served[i]
    <3> SUFFICES ASSUME NEW n \in 1..Len(t) PROVE x < t[n] /\ t[n] <= served[i]
      OBVIOUS
    <3>1. 1 < n + 1
      OBVIOUS
    <3> QED
      BY <1>3, <1>5, <3>1 DEF StreamInv, OrderInv
  <2>4. \A m \in 1..Len(h) : h[m] < x
    BY <1>3, <1>5 DEF StreamInv, OrderInv, h
  <2>5. \A m \in 1..Len(h), n \in 1..Len(t) : h[m] < t[n]
    BY <1>3 DEF StreamInv, OrderInv, h
  <2>6. \A m, n \in 1..Len(a) : m < n => a[m] < a[n]
    <3> SUFFICES ASSUME NEW m \in 1..Len(a), NEW n \in 1..Len(a), m < n PROVE a[m] < a[n]
      OBVIOUS
    <3>1. m \in 1..Len(h)
      BY <1>2, <1>4
    <3>2. CASE n \in 1..Len(h)
      BY <1>4, <3>1, <3>2 DEF StreamInv, OrderInv, h
    <3>3. CASE n = Len(h) + 1
      BY <1>4, <2>4, <3>1, <3>3
    <3> QED
      BY <2>1, <3>2, <3>3
  <2>7. \A m \in 1..Len(a), n \in 1..Len(t) : a[m] < t[n]
    BY <1>4, <2>1, <2>3, <2>5
  <2>8. \A m \in 1..Len(log[i]), n \in 1..Len(t) : log[i][m].frame < t[n]
    BY <1>3 DEF StreamInv, OrderInv
  <2>9. \A m \in 1..Len(log[i]), n \in 1..Len(a) : log[i][m].frame < a[n]
    BY <1>3, <1>4, <1>5, <2>1 DEF StreamInv, OrderInv, h
  <2>10. \A n \in 1..Len(a) : a[n] <= served[i]
    BY <1>3, <1>4, <1>5, <2>1 DEF StreamInv, OrderInv, h
  <2> QED
    BY <1>1, <2>2, <2>3, <2>6, <2>7, <2>8, <2>9, <2>10 DEF StreamInv, OrderInv, Counts
<1>9. TimesInv(i)'
  BY <1>1 DEF StreamInv, TimesInv, Counts
<1>10. WholeInv(i)'
  <2> SUFFICES ASSUME ~missed[i] PROVE WholeInv(i)'
    BY <1>1 DEF WholeInv
  <2>0. /\ \A n \in 1..Len(h) : h[n] = counted[i] + n
        /\ \A n \in 1..Len(net[i]) : net[i][n] = counted[i] + Len(h) + n
        /\ counted[i] + Len(h) + Len(net[i]) = served[i]
    BY DEF StreamInv, WholeInv, h
  <2>1. \A n \in 1..Len(a) : a[n] = counted[i] + n
    <3>0. x = counted[i] + Len(h) + 1
      BY <1>3, <1>5, <2>0
    <3>1. x = counted[i] + (Len(h) + 1)
      BY <1>n, <3>0, OneMore
    <3>2. \A n \in 1..Len(a) : n \in 1..Len(h) \/ n = Len(h) + 1
      BY <1>2, <1>4
    <3> QED
      BY <1>4, <2>0, <3>1, <3>2
  <2>2. ASSUME NEW n \in 1..Len(t) PROVE t[n] = counted[i] + Len(a) + n
    <3>1. t[n] = counted[i] + Len(h) + (n + 1)
      BY <1>3, <2>0
    <3>2. n \in Nat
      OBVIOUS
    <3> QED
      BY SMTT(30), <1>n, <3>1, <3>2
  <2>3. counted[i] + Len(a) + Len(t) = served[i]
    <3>1. counted[i] + (Len(h) + 1) + Len(t) = counted[i] + Len(h) + (Len(t) + 1)
      BY <1>n, OneMore
    <3> QED
      BY <1>n, <2>0, <3>1
  <2> QED
    BY <1>1, <2>1, <2>2, <2>3 DEF StreamInv, WholeInv, Depth
<1> QED
  BY <1>6, <1>7, <1>8, <1>9, <1>10 DEF StreamInv

LEMMA RefusingKeeps ==
    ASSUME TypeOK, NEW i \in Pulls, StreamInv(i), PassesOver(i)
    PROVE  StreamInv(i)'
<1> DEFINE t == Tail(net[i])
<1>1. /\ ppc[i] = "read" /\ net[i] # <<>> /\ UNCHANGED <<program, spc, pushed>>
      /\ ppc'[i] = ppc[i] /\ held'[i] = held[i] /\ net'[i] = t
      /\ log'[i] = log[i] /\ counted'[i] = counted[i] /\ served'[i] = served[i] /\ conn'[i] = conn[i]
      /\ missed'[i]
  BY RefusingEffect DEF Elsewhere
<1>2. /\ Len(held[i]) \in Nat /\ Len(net[i]) \in Nat /\ Len(log[i]) \in Nat /\ counted[i] \in Nat
      /\ served[i] \in Nat /\ net[i] \in Seq(Ids)
  BY StreamTypes
<1>3. /\ Len(net[i]) >= 1 /\ Len(t) = Len(net[i]) - 1 /\ Len(t) \in Nat
      /\ \A n \in 1..Len(t) : n + 1 \in 1..Len(net[i]) /\ t[n] = net[i][n + 1]
  BY <1>1, <1>2, TailSeq
<1> HIDE DEF t
<1>4. HeldInv(i)'
  BY <1>1 DEF StreamInv, HeldInv, Depth
<1>5. CountInv(i)'
  BY <1>1, <1>2, <1>3 DEF StreamInv, CountInv
<1>6. OrderInv(i)'
  <2>1. \A m, n \in 1..Len(t) : m < n => t[m] < t[n]
    <3> SUFFICES ASSUME NEW m \in 1..Len(t), NEW n \in 1..Len(t), m < n PROVE t[m] < t[n]
      OBVIOUS
    <3>1. m + 1 < n + 1
      OBVIOUS
    <3> QED
      BY <1>3, <3>1 DEF StreamInv, OrderInv
  <2>2. \A m \in 1..Len(held[i]), n \in 1..Len(t) : held[i][m] < t[n]
    BY <1>3 DEF StreamInv, OrderInv
  <2>3. \A m \in 1..Len(log[i]), n \in 1..Len(t) : log[i][m].frame < t[n]
    BY <1>3 DEF StreamInv, OrderInv
  <2>4. \A n \in 1..Len(t) : t[n] <= served[i]
    BY <1>3 DEF StreamInv, OrderInv
  <2> QED
    BY <1>1, <2>1, <2>2, <2>3, <2>4 DEF StreamInv, OrderInv, Counts
<1>7. TimesInv(i)'
  BY <1>1 DEF StreamInv, TimesInv
<1>8. WholeInv(i)'
  BY <1>1 DEF WholeInv
<1> QED
  BY <1>4, <1>5, <1>6, <1>7, <1>8 DEF StreamInv

LEMMA DecodingKeeps ==
    ASSUME TypeOK, NEW i \in Pulls, StreamInv(i), Decoding(i)
    PROVE  StreamInv(i)'
<1>1. /\ ppc[i] = "decode" /\ program = "push-pull" /\ SameStream(i) /\ UNCHANGED <<program, spc, pushed>>
      /\ missed'[i] = missed[i] /\ ppc'[i] = IF Len(held[i]) > HeldFrames THEN "lookup" ELSE "read"
  BY DecodingEffect DEF Elsewhere
<1>2. Len(held[i]) \in Nat /\ Depth \in Nat /\ Depth = HeldFrames /\ Len(held[i]) <= Depth + 1
  BY <1>1, StreamTypes DEF StreamInv, HeldInv, Depth
<1>3. HeldInv(i)'
  <2>1. Depth' = Depth /\ held'[i] = held[i]
    BY <1>1 DEF Depth, SameStream
  <2> QED
    BY <1>1, <1>2, <2>1 DEF HeldInv
<1>4. CountInv(i)'
  BY <1>1 DEF StreamInv, CountInv, SameStream
<1>5. OrderInv(i)'
  BY <1>1 DEF StreamInv, OrderInv, SameStream, Counts
<1>6. TimesInv(i)'
  BY <1>1 DEF StreamInv, TimesInv, SameStream, Counts
<1>7. WholeInv(i)'
  BY <1>1 DEF StreamInv, WholeInv, SameStream, Depth
<1> QED
  BY <1>3, <1>4, <1>5, <1>6, <1>7 DEF StreamInv

LEMMA LoggingKeeps ==
    ASSUME TypeOK, PushInv, NEW i \in Pulls, StreamInv(i), Logging(i)
    PROVE  StreamInv(i)'
<1> DEFINE h == held[i]
           l == log[i]
           t == Tail(h)
<1>1. /\ ppc[i] = "lookup" /\ h # <<>> /\ UNCHANGED <<program, spc, pushed>>
      /\ ppc'[i] = IF program = "push-pull" THEN "decode" ELSE "read"
      /\ held'[i] = t /\ counted'[i] = counted[i] + 1
      /\ net'[i] = net[i] /\ served'[i] = served[i] /\ conn'[i] = conn[i] /\ missed'[i] = missed[i]
  BY LoggingEffect DEF Elsewhere
<1>2. PICK e \in Entries :
         /\ log'[i] = Append(l, e) /\ e.frame = Head(h)
         /\ Counts => e.number = counted[i] + 1 /\ e.time \in {0, e.number}
  BY LoggingEffect
<1> DEFINE a == Append(l, e)
<1>3. /\ Len(h) \in Nat /\ Len(net[i]) \in Nat /\ Len(l) \in Nat /\ Depth \in Nat /\ counted[i] \in Nat
      /\ served[i] \in Nat /\ h \in Seq(Ids) /\ l \in Seq(Entries)
      /\ \A n \in 1..Len(l) : l[n].frame \in Nat
      /\ \A n \in 1..Len(h) : h[n] \in Nat
      /\ \A n \in 1..Len(net[i]) : net[i][n] \in Nat
  BY StreamTypes
<1>4. /\ Len(h) >= 1 /\ Head(h) = h[1] /\ Len(t) = Len(h) - 1 /\ Len(t) \in Nat /\ 1 \in 1..Len(h)
      /\ \A n \in 1..Len(t) : n + 1 \in 1..Len(h) /\ t[n] = h[n + 1]
  BY <1>1, <1>3, TailSeq
<1>5. Len(a) = Len(l) + 1 /\ a[Len(l) + 1] = e /\ \A n \in 1..Len(l) : a[n] = l[n]
  BY <1>3, AppendSeq
<1>6. Len(h) = Depth + 1 /\ Len(l) = counted[i] /\ log'[i] = a
  BY <1>1, <1>2 DEF StreamInv, HeldInv, CountInv
<1>n. Len(h) \in Nat /\ Len(net[i]) \in Nat /\ Len(t) \in Nat /\ counted[i] \in Nat /\ served[i] \in Nat
      /\ Len(h) = Len(t) + 1
  BY <1>3, <1>4
<1> HIDE DEF h, l, t, a
<1>7. \A n \in 1..Len(a) : n \in 1..Len(l) \/ n = Len(l) + 1
  BY <1>3, <1>5
<1>8. HeldInv(i)'
  <2>1. Depth' = Depth
    BY <1>1 DEF Depth
  <2>2. program # "push-pull" => Depth = 0
    BY DEF Depth
  <2> QED
    BY <1>1, <1>3, <1>4, <1>6, <2>1, <2>2 DEF HeldInv
<1>9. CountInv(i)'
  BY SMTT(30), <1>1, <1>3, <1>4, <1>5, <1>6 DEF StreamInv, CountInv, h, l
<1>10. OrderInv(i)'
  <2>1. \A m, n \in 1..Len(t) : m < n => t[m] < t[n]
    <3> SUFFICES ASSUME NEW m \in 1..Len(t), NEW n \in 1..Len(t), m < n PROVE t[m] < t[n]
      OBVIOUS
    <3>1. m + 1 < n + 1
      OBVIOUS
    <3> QED
      BY <1>4, <3>1 DEF StreamInv, OrderInv, h
  <2>2. \A n \in 1..Len(t) : h[1] < t[n]
    <3> SUFFICES ASSUME NEW n \in 1..Len(t) PROVE h[1] < t[n]
      OBVIOUS
    <3>1. 1 < n + 1
      OBVIOUS
    <3> QED
      BY <1>4, <3>1 DEF StreamInv, OrderInv, h
  <2>3. \A n \in 1..Len(l) : l[n].frame < h[1]
    BY <1>4 DEF StreamInv, OrderInv, h, l
  <2>4. \A m, n \in 1..Len(a) : m < n => a[m].frame < a[n].frame
    <3> SUFFICES ASSUME NEW m \in 1..Len(a), NEW n \in 1..Len(a), m < n PROVE a[m].frame < a[n].frame
      OBVIOUS
    <3>1. m \in 1..Len(l)
      BY <1>3, <1>5
    <3>2. CASE n \in 1..Len(l)
      BY <1>5, <3>1, <3>2 DEF StreamInv, OrderInv, l
    <3>3. CASE n = Len(l) + 1
      BY <1>2, <1>4, <1>5, <2>3, <3>1, <3>3 DEF h
    <3> QED
      BY <1>7, <3>2, <3>3
  <2>5. \A m \in 1..Len(t), n \in 1..Len(net[i]) : t[m] < net[i][n]
    BY <1>4 DEF StreamInv, OrderInv, h
  <2>6. \A n \in 1..Len(net[i]) : h[1] < net[i][n]
    BY <1>4 DEF StreamInv, OrderInv, h
  <2>7. e.frame = h[1]
    BY <1>2, <1>4 DEF h
  <2>8. \A m \in 1..Len(a), n \in 1..Len(net[i]) : a[m].frame < net[i][n]
    BY <1>5, <1>7, <2>6, <2>7 DEF StreamInv, OrderInv, l
  <2>9. \A m \in 1..Len(l), n \in 1..Len(t) : l[m].frame < t[n]
    BY <1>4 DEF StreamInv, OrderInv, h, l
  <2>10. \A m \in 1..Len(a), n \in 1..Len(t) : a[m].frame < t[n]
    BY <1>5, <1>7, <2>2, <2>7, <2>9
  <2>11. \A n \in 1..Len(t) : t[n] <= served[i]
    BY <1>4 DEF StreamInv, OrderInv, h
  <2>12. \A n \in 1..Len(a) : a[n].frame <= served[i]
    BY <1>4, <1>5, <1>7, <2>7 DEF StreamInv, OrderInv, h, l
  <2>13. ASSUME Counts PROVE \A n \in 1..Len(a) : a[n].number = n
    <3>1. \A n \in 1..Len(l) : l[n].number = n
      BY <2>13 DEF StreamInv, OrderInv, l
    <3>2. e.number = Len(l) + 1
      BY <1>2, <1>6, <2>13
    <3> QED
      BY <1>5, <1>7, <3>1, <3>2
  <2>14. Counts' = Counts
    BY <1>1 DEF Counts
  <2> QED
    BY <1>1, <1>6, <2>1, <2>4, <2>5, <2>8, <2>10, <2>11, <2>12, <2>13, <2>14 DEF StreamInv, OrderInv
<1>11. ~missed[i] => h[1] = counted[i] + 1
  BY <1>4 DEF StreamInv, WholeInv, h
<1>12. TimesInv(i)'
  <2> SUFFICES ASSUME Counts, ~missed[i]
               PROVE  \A n \in 1..Len(a) : a[n].time \in {0, a[n].frame}
    BY <1>1, <1>6 DEF TimesInv, Counts
  <2>1. e.number = e.frame
    BY <1>2, <1>4, <1>11 DEF h
  <2>2. \A n \in 1..Len(l) : l[n].time \in {0, l[n].frame}
    BY DEF StreamInv, TimesInv, l
  <2> QED
    BY <1>2, <1>5, <1>7, <2>1, <2>2
<1>13. WholeInv(i)'
  <2> SUFFICES ASSUME ~missed[i] PROVE WholeInv(i)'
    BY <1>1 DEF WholeInv
  <2>0. /\ \A n \in 1..Len(h) : h[n] = counted[i] + n
        /\ \A n \in 1..Len(net[i]) : net[i][n] = counted[i] + Len(h) + n
        /\ counted[i] + Len(h) + Len(net[i]) = served[i]
    BY DEF StreamInv, WholeInv, h
  <2>1. \A n \in 1..Len(a) : a[n].frame = n
    <3>1. e.frame = Len(l) + 1
      BY <1>2, <1>4, <1>6, <1>11 DEF h
    <3>2. \A n \in 1..Len(l) : l[n].frame = n
      BY DEF StreamInv, WholeInv, l
    <3> QED
      BY <1>5, <1>7, <3>1, <3>2
  <2>2. \A n \in 1..Len(t) : t[n] = (counted[i] + 1) + n
    <3> SUFFICES ASSUME NEW n \in 1..Len(t) PROVE t[n] = (counted[i] + 1) + n
      OBVIOUS
    <3>1. t[n] = h[n + 1] /\ h[n + 1] = counted[i] + (n + 1) /\ n \in Nat
      BY <1>4, <2>0
    <3> QED
      BY <1>n, <3>1
  <2>3. ASSUME NEW n \in 1..Len(net[i]) PROVE net[i][n] = (counted[i] + 1) + Len(t) + n
    <3>1. net[i][n] = counted[i] + Len(h) + n /\ n \in Nat
      BY <2>0
    <3> QED
      BY <1>3, <1>4, <3>1
  <2>4. (counted[i] + 1) + Len(t) + Len(net[i]) = served[i]
    BY <1>3, <1>4, <2>0
  <2> QED
    BY <1>1, <1>6, <2>1, <2>2, <2>3, <2>4 DEF StreamInv, WholeInv, Depth
<1> QED
  BY <1>8, <1>9, <1>10, <1>12, <1>13 DEF StreamInv

LEMMA EndingKeeps ==
    ASSUME TypeOK, NEW i \in Pulls, StreamInv(i), Ending(i)
    PROVE  StreamInv(i)'
<1>1. /\ ppc[i] = "read" /\ net[i] = <<>> /\ ppc'[i] = "done" /\ UNCHANGED <<program, spc, pushed>>
      /\ held'[i] = <<>> /\ counted'[i] = counted[i] + Len(held[i])
      /\ net'[i] = net[i] /\ log'[i] = log[i] /\ served'[i] = served[i] /\ conn'[i] = conn[i]
      /\ missed'[i] \/ (~missed[i] /\ conn[i] = "closed")
  BY EndingEffect DEF Elsewhere, StreamInv
<1>2. /\ Len(held[i]) \in Nat /\ Len(log[i]) \in Nat /\ Depth \in Nat /\ counted[i] \in Nat
      /\ served[i] \in Nat /\ Len(<<>>) = 0
  BY StreamTypes, EmptyIds
<1>3. Len(log[i]) = counted[i] /\ Len(held[i]) <= Depth /\ counted[i] + Len(held[i]) <= served[i]
  BY <1>1, <1>2 DEF StreamInv, CountInv, HeldInv
<1>4. HeldInv(i)'
  BY <1>1 DEF HeldInv
<1>5. CountInv(i)'
  BY <1>1, <1>2, <1>3 DEF StreamInv, CountInv
<1>6. OrderInv(i)'
  <2>1. 1..Len(<<>>) = {}
    BY <1>2
  <2> QED
    BY <1>1, <2>1 DEF StreamInv, OrderInv, Counts
<1>7. TimesInv(i)'
  BY <1>1 DEF StreamInv, TimesInv, Counts
<1>8. WholeInv(i)'
  <2> SUFFICES ASSUME ~missed'[i] PROVE WholeInv(i)'
    BY DEF WholeInv
  <2>1. ~missed[i] /\ conn[i] = "closed"
    BY <1>1
  <2>2. /\ \A n \in 1..Len(log[i]) : log[i][n].frame = n
        /\ counted[i] + Len(held[i]) = served[i] /\ spc = "done" /\ served[i] = pushed
    BY <1>1, <1>2, <2>1 DEF StreamInv, WholeInv
  <2>3. Len(log[i]) + Depth >= served[i] /\ (counted[i] + Len(held[i])) + 0 + 0 = served[i] /\ 1..0 = {}
        /\ Depth' = Depth
    BY <1>1, <1>2, <1>3, <2>2 DEF Depth
  <2> QED
    BY <1>1, <1>2, <2>1, <2>2, <2>3 DEF WholeInv
<1> QED
  BY <1>4, <1>5, <1>6, <1>7, <1>8 DEF StreamInv

LEMMA PullKeeps ==
    ASSUME TypeOK, PushInv, NEW i \in Pulls, \A j \in Pulls : StreamInv(j), PullStep(i)
    PROVE  \A j \in Pulls : StreamInv(j)'
<1>1. Elsewhere(i)
  BY OpeningEffect, ReadingEffect, RefusingEffect, DecodingEffect, CrashEffect, EndingEffect, LoggingEffect
     DEF PullStep, StreamInv
<1>2. CASE PullCrashes(i)
  <2>1. pushed \in Nat
    BY StreamTypes
  <2> QED
    BY <1>1, <1>2, <2>1, CrashEffect, OthersKept, StreamKept DEF Elsewhere, SameStream
<1>3. CASE ~PullCrashes(i)
  BY <1>1, <1>3, OthersKept, OpeningKeeps, ReadingKeeps, RefusingKeeps, DecodingKeeps, EndingKeeps, LoggingKeeps
     DEF PullStep
<1> QED
  BY <1>2, <1>3

LEMMA ForwardKeeps ==
    ASSUME TypeOK, PushInv, NEW i \in Pulls, StreamInv(i), UNCHANGED <<program, spc, pushed>>,
           ppc'[i] = ppc[i], held'[i] = held[i], log'[i] = log[i], counted'[i] = counted[i],
           served[i] < Len(sent), served'[i] = served[i] + 1, conn[i] = "up", conn'[i] = conn[i],
           \/ net'[i] = Append(net[i], sent[served[i] + 1]) /\ missed'[i] = missed[i]
           \/ net'[i] = net[i] /\ missed'[i]
    PROVE  StreamInv(i)'
<1> DEFINE s == served[i]
           a == Append(net[i], s + 1)
<1>1. /\ Len(held[i]) \in Nat /\ Len(net[i]) \in Nat /\ Len(log[i]) \in Nat /\ counted[i] \in Nat
      /\ s \in Nat /\ net[i] \in Seq(Ids) /\ pushed \in Nat /\ pushed <= MaxFrames /\ MaxFrames \in Nat
      /\ \A n \in 1..Len(log[i]) : log[i][n].frame \in Nat
      /\ \A n \in 1..Len(held[i]) : held[i][n] \in Nat
      /\ \A n \in 1..Len(net[i]) : net[i][n] \in Nat
  BY StreamTypes
<1>2. s < pushed /\ sent[s + 1] = s + 1 /\ s + 1 \in Ids
  BY <1>1 DEF PushInv, Ids
<1>3. Len(a) = Len(net[i]) + 1 /\ a[Len(net[i]) + 1] = s + 1 /\ \A n \in 1..Len(net[i]) : a[n] = net[i][n]
  BY <1>1, <1>2, AppendSeq
<1>4. (net'[i] = a /\ missed'[i] = missed[i]) \/ (net'[i] = net[i] /\ missed'[i])
  BY <1>2
<1>5. served'[i] = s + 1
  OBVIOUS
<1>n. Len(held[i]) \in Nat /\ Len(net[i]) \in Nat /\ Len(log[i]) \in Nat /\ counted[i] \in Nat /\ s \in Nat
      /\ pushed \in Nat /\ s < pushed /\ Len(a) = Len(net[i]) + 1 /\ a[Len(net[i]) + 1] = s + 1
  BY <1>1, <1>2, <1>3
<1> HIDE DEF a, s
<1>6. \A n \in 1..Len(a) : n \in 1..Len(net[i]) \/ n = Len(net[i]) + 1
  BY <1>1, <1>3
<1>7. HeldInv(i)'
  BY DEF StreamInv, HeldInv, Depth
<1>8. CountInv(i)'
  <2>1. counted[i] + Len(held[i]) + Len(net[i]) <= s
    BY DEF StreamInv, CountInv, s
  <2>2. /\ s + 1 <= pushed /\ counted[i] + Len(held[i]) + Len(a) <= s + 1
        /\ counted[i] + Len(held[i]) + Len(net[i]) <= s + 1
    BY <1>n, <2>1
  <2> QED
    BY <1>4, <1>5, <2>2 DEF StreamInv, CountInv
<1>9. /\ \A n \in 1..Len(net[i]) : net[i][n] <= s /\ net[i][n] <= s + 1
      /\ \A n \in 1..Len(held[i]) : held[i][n] <= s /\ held[i][n] <= s + 1
      /\ \A n \in 1..Len(log[i]) : log[i][n].frame <= s /\ log[i][n].frame <= s + 1
  BY <1>1 DEF StreamInv, OrderInv, s
<1>10. OrderInv(i)'
  <2>1. CASE net'[i] = net[i]
    BY <1>5, <1>9, <2>1 DEF StreamInv, OrderInv, Counts
  <2>2. CASE net'[i] = a
    <3>1. \A m, n \in 1..Len(a) : m < n => a[m] < a[n]
      <4> SUFFICES ASSUME NEW m \in 1..Len(a), NEW n \in 1..Len(a), m < n PROVE a[m] < a[n]
        OBVIOUS
      <4>1. m \in 1..Len(net[i])
        BY <1>1, <1>3
      <4>2. CASE n \in 1..Len(net[i])
        BY <1>3, <4>1, <4>2 DEF StreamInv, OrderInv
      <4>3. CASE n = Len(net[i]) + 1
        BY SMTT(30), <1>n, <1>1, <1>3, <1>9, <4>1, <4>3
      <4> QED
        BY <1>6, <4>2, <4>3
    <3>2. \A m \in 1..Len(held[i]), n \in 1..Len(a) : held[i][m] < a[n]
      <4>1. \A m \in 1..Len(held[i]) : held[i][m] < s + 1
        <5> SUFFICES ASSUME NEW m \in 1..Len(held[i]) PROVE held[i][m] < s + 1
          OBVIOUS
        <5>1. held[i][m] \in Nat /\ held[i][m] <= s
          BY <1>1, <1>9
        <5> QED
          BY <1>n, <5>1
      <4> QED
        BY <1>3, <1>6, <4>1 DEF StreamInv, OrderInv
    <3>3. \A m \in 1..Len(log[i]), n \in 1..Len(a) : log[i][m].frame < a[n]
      <4>1. \A m \in 1..Len(log[i]) : log[i][m].frame < s + 1
        <5> SUFFICES ASSUME NEW m \in 1..Len(log[i]) PROVE log[i][m].frame < s + 1
          OBVIOUS
        <5>1. log[i][m].frame \in Nat /\ log[i][m].frame <= s
          BY <1>1, <1>9
        <5> QED
          BY <1>n, <5>1
      <4> QED
        BY <1>3, <1>6, <4>1 DEF StreamInv, OrderInv
    <3>4. \A n \in 1..Len(a) : a[n] <= s + 1
      BY <1>1, <1>3, <1>6, <1>9
    <3> QED
      BY <1>5, <1>9, <2>2, <3>1, <3>2, <3>3, <3>4 DEF StreamInv, OrderInv, Counts
  <2> QED
    BY <1>4, <2>1, <2>2
<1>11. TimesInv(i)'
  BY <1>4 DEF StreamInv, TimesInv, Counts
<1>12. WholeInv(i)'
  <2> SUFFICES ASSUME ~missed'[i] PROVE WholeInv(i)'
    BY DEF WholeInv
  <2>1. net'[i] = a /\ ~missed[i]
    BY <1>4
  <2>2. counted[i] + Len(held[i]) + Len(net[i]) = s /\ ppc[i] # "done"
    BY <2>1 DEF StreamInv, WholeInv, s
  <2>3. \A n \in 1..Len(net[i]) : net[i][n] = counted[i] + Len(held[i]) + n
    BY <2>1 DEF StreamInv, WholeInv
  <2>4. \A n \in 1..Len(a) : a[n] = counted[i] + Len(held[i]) + n
    <3>1. s + 1 = counted[i] + Len(held[i]) + (Len(net[i]) + 1)
      <4>1. counted[i] + Len(held[i]) + (Len(net[i]) + 1) = (counted[i] + Len(held[i]) + Len(net[i])) + 1
        BY ZenonT(40), <1>n, OneMore
      <4> QED
        BY <2>2, <4>1
    <3> QED
      BY <1>3, <1>6, <1>n, <2>3, <3>1
  <2>5. counted[i] + Len(held[i]) + Len(a) = s + 1
    <3>1. counted[i] + Len(held[i]) + (Len(net[i]) + 1) = (counted[i] + Len(held[i]) + Len(net[i])) + 1
      BY ZenonT(40), <1>n, OneMore
    <3> QED
      BY <1>n, <2>2, <3>1
  <2> QED
    BY <1>5, <2>1, <2>2, <2>4, <2>5 DEF StreamInv, WholeInv
<1> QED
  BY <1>7, <1>8, <1>10, <1>11, <1>12 DEF StreamInv

LEMMA ServerKeeps ==
    ASSUME TypeOK, PushInv, NEW i \in Pulls, \A j \in Pulls : StreamInv(j), Server(i)
    PROVE  \A j \in Pulls : StreamInv(j)'
<1>1. /\ Elsewhere(i) /\ ppc'[i] = ppc[i] /\ UNCHANGED <<program, spc, pushed>>
      /\ held'[i] = held[i] /\ log'[i] = log[i] /\ counted'[i] = counted[i]
  BY ServerEffect DEF Elsewhere
<1> SUFFICES StreamInv(i)'
  BY <1>1, OthersKept
<1>2. CASE /\ served[i] < Len(sent) /\ served'[i] = served[i] + 1 /\ conn[i] = "up" /\ conn'[i] = conn[i]
           /\ \/ net'[i] = Append(net[i], sent[served[i] + 1]) /\ missed'[i] = missed[i]
              \/ net'[i] = net[i] /\ missed'[i]
  BY <1>1, <1>2, ForwardKeeps
<1>3. CASE net'[i] = net[i] /\ served'[i] = served[i]
  <2>1. HeldInv(i)' /\ CountInv(i)' /\ OrderInv(i)'
    BY ZenonT(40), <1>1, <1>3 DEF StreamInv, HeldInv, CountInv, OrderInv, Depth, Counts
  <2>2. missed'[i] = missed[i] \/ missed'[i]
    BY <1>3, ServerEffect
  <2>3. TimesInv(i)'
    BY <1>1, <2>2 DEF StreamInv, TimesInv, Counts
  <2>4. WholeInv(i)'
    <3> SUFFICES ASSUME ~missed'[i] PROVE WholeInv(i)'
      BY DEF WholeInv
    <3>1. ~missed[i] /\ conn[i] # "closed" /\ (conn'[i] = "closed" => spc = "done" /\ served[i] = Len(sent))
          /\ served[i] \in Nat
      BY <1>3, ServerEffect, StreamTypes
    <3>2. Len(sent) = pushed /\ ppc[i] # "done"
      BY <3>1 DEF PushInv, StreamInv, WholeInv
    <3> QED
      BY <1>1, <1>3, <3>1, <3>2 DEF StreamInv, WholeInv
  <2> QED
    BY <2>1, <2>3, <2>4 DEF StreamInv
<1> QED
  BY <1>2, <1>3, ServerEffect

LEMMA StreamsKept ==
    ASSUME TypeOK, PushInv, MainInv, \A j \in Pulls : StreamInv(j), TypeOK', [Next]_vars
    PROVE  \A j \in Pulls : StreamInv(j)'
<1>0. /\ pushed \in Nat /\ pushed' \in Nat
  BY ClientAssumption DEF TypeOK
<1>1. CASE UNCHANGED <<program, spc, pushed, ppc, held, net, log, counted, served, conn, missed>>
  BY <1>0, <1>1, StreamKept
<1>2. CASE UNCHANGED vars
  BY <1>1, <1>2 DEF vars, mainVars, pushVars, pullVars, serverVars
<1>3. CASE MainStep
  <2>1. CASE SendPing \/ AwaitPong \/ JoinAll
    BY <1>1, <2>1 DEF SendPing, AwaitPong, JoinAll, pushVars, pullVars, serverVars
  <2>2. CASE StartPush
    <3>1. spc # "done" /\ UNCHANGED <<program, pushed, ppc, held, net, log, counted, served, conn, missed>>
      BY <2>2 DEF StartPush, MainInv, pullVars, serverVars
    <3> QED
      BY <1>0, <3>1, StreamKept
  <2>3. CASE StartPulls
    <3> SUFFICES ASSUME NEW j \in Pulls PROVE StreamInv(j)'
      OBVIOUS
    <3>1. ppc[j] = "idle" /\ ppc'[j] = "open"
          /\ UNCHANGED <<program, spc, pushed, held, net, log, counted, served, conn, missed>>
      BY <2>3 DEF StartPulls, MainInv, pushVars, serverVars
    <3>2. HeldInv(j)'
      BY <3>1 DEF StreamInv, HeldInv
    <3>3. CountInv(j)' /\ OrderInv(j)' /\ TimesInv(j)'
      BY ZenonT(40), <3>1 DEF StreamInv, CountInv, OrderInv, TimesInv, Counts
    <3>4. WholeInv(j)'
      BY <3>1 DEF StreamInv, WholeInv, Depth
    <3> QED
      BY <3>2, <3>3, <3>4 DEF StreamInv
  <2> QED
    BY <1>3, <2>1, <2>2, <2>3 DEF MainStep, MainSteps
<1>4. CASE PushStep
  <2>1. spc # "done" /\ pushed <= pushed'
        /\ UNCHANGED <<program, ppc, held, net, log, counted, served, conn, missed>>
    BY <1>0, <1>4 DEF PushStep, PushLoop, PushOpens, PushNamespaceFails, PushReads, PushStamps, PushWrites,
       PushReadEnds, PushCloses, mainVars, pullVars, serverVars
  <2> QED
    BY <1>0, <2>1, StreamKept
<1>5. CASE \E i \in Pulls : PullStep(i)
  BY <1>5, PullKeeps
<1>6. CASE \E i \in Pulls : Server(i)
  BY <1>6, ServerKeeps
<1> QED
  BY <1>2, <1>3, <1>4, <1>5, <1>6, StepsAreShared

-----------------------------------------------------------------------------
(* Main, the push thread and the types *)

LEMMA PushKept ==
    ASSUME TypeOK, PushInv, MainInv, [Next]_vars
    PROVE  PushInv'
<1>0. pushed \in Nat /\ taken \in Nat /\ sent \in Seq(Ids) /\ pushed <= taken
  BY ClientAssumption DEF TypeOK
<1>1. CASE UNCHANGED <<spc, taken, pushed, times, sent>>
  BY <1>1 DEF PushInv
<1>2. CASE UNCHANGED vars
  BY <1>1, <1>2 DEF vars, pushVars
<1>3. CASE MainStep
  <2>1. CASE SendPing \/ AwaitPong \/ JoinAll \/ StartPulls
    BY <1>1, <2>1 DEF SendPing, AwaitPong, JoinAll, StartPulls, pushVars
  <2>2. CASE StartPush
    BY <2>2 DEF StartPush, PushInv
  <2> QED
    BY <1>3, <2>1, <2>2 DEF MainStep, MainSteps
<1>4. CASE PushStep
  <2>1. CASE PushOpens \/ PushNamespaceFails \/ PushReadEnds \/ PushCloses
    BY <2>1 DEF PushOpens, PushNamespaceFails, PushReadEnds, PushCloses, PushInv
  <2>2. CASE PushReads
    BY <1>0, <2>2 DEF PushReads, PushInv
  <2>3. CASE PushStamps
    BY <2>3 DEF PushStamps, PushInv
  <2>4. CASE PushWrites
    <3>1. CASE spc' = "trailer" /\ UNCHANGED <<pushed, sent, times>>
      BY <3>1 DEF PushInv
    <3>2. CASE pushed' = pushed + 1 /\ sent' = Append(sent, pushed + 1) /\ spc' = "read"
      <4>1. spc = "write" /\ times' = times
        BY <2>4 DEF PushWrites
      <4>2. pushed + 1 \in Ids
        BY <1>0, <4>1, ClientAssumption DEF PushInv, TypeOK, Ids
      <4>3. Len(sent') = pushed + 1 /\ \A n \in 1..(pushed + 1) : sent'[n] = n
        BY <1>0, <3>2, <4>2, AppendSeq DEF PushInv
      <4>4. \A n \in Nat : n < pushed + 1 => n \in times
        BY <1>0, <4>1 DEF PushInv
      <4> QED
        BY <3>2, <4>1, <4>3, <4>4 DEF PushInv
    <3> QED
      BY <2>4, <3>1, <3>2 DEF PushWrites
  <2> QED
    BY <1>4, <2>1, <2>2, <2>3, <2>4 DEF PushStep, PushLoop
<1>5. ASSUME NEW i \in Pulls, PullStep(i) PROVE UNCHANGED <<spc, taken, pushed, times, sent>>
  BY <1>5 DEF PullStep, Opening, Reading, Decoding, Logging, Ending, PullOpens, PullPrepares, PullTimesOut,
     PullNamespaceFails, PullReads, PassesOver, PullDecodes, PullLogs, PullCrashes, PullReadEnds, pushVars
<1>6. ASSUME NEW i \in Pulls, Server(i) PROVE UNCHANGED <<spc, taken, pushed, times, sent>>
  BY <1>6 DEF Server, ServerConnects, ServerNeverConnects, ServerForwards, ServerCloses, pushVars
<1> QED
  BY <1>1, <1>2, <1>3, <1>4, <1>5, <1>6, StepsAreShared

\* A pull thread steps only while the process runs and it has been started.
LEMMA PullRuns ==
    ASSUME TypeOK, PushInv, NEW i \in Pulls, StreamInv(i), PullStep(i)
    PROVE  /\ Running /\ ppc[i] # "idle" /\ \A j \in Pulls \ {i} : ppc'[j] = ppc[j]
           /\ UNCHANGED <<program, address, reply, spc>>
           /\ mpc' = mpc \/ mpc' = "crash"
<1>1. Running /\ ppc[i] # "idle" /\ Elsewhere(i)
  BY OpeningEffect, ReadingEffect, RefusingEffect, DecodingEffect, CrashEffect, EndingEffect, LoggingEffect
     DEF PullStep, StreamInv
<1>2. UNCHANGED <<address, reply>> /\ (mpc' = mpc \/ mpc' = "crash")
  BY DEF PullStep, Opening, Reading, Decoding, Logging, Ending, PullOpens, PullPrepares, PullTimesOut,
     PullNamespaceFails, PullReads, PassesOver, PullDecodes, PullLogs, PullCrashes, PullReadEnds, mainVars
<1> QED
  BY <1>1, <1>2 DEF Elsewhere

LEMMA MainKept ==
    ASSUME TypeOK, PushInv, MainInv, PingInv, \A i \in Pulls : StreamInv(i), [Next]_vars
    PROVE  MainInv' /\ PingInv'
<1>1. CASE UNCHANGED <<program, mpc, address, reply, spc, ppc>>
  BY <1>1 DEF MainInv, PingInv, ServerKnowsTheClient
<1>2. CASE UNCHANGED vars
  BY <1>1, <1>2 DEF vars, mainVars, pushVars, pullVars
<1>3. CASE MainStep
  <2>1. MainInv'
    BY <1>3 DEF MainStep, MainSteps, SendPing, AwaitPong, StartPulls, StartPush, JoinAll, MainInv, pushVars, pullVars
  <2>2. PingInv'
    BY <1>3 DEF MainStep, MainSteps, SendPing, AwaitPong, StartPulls, StartPush, JoinAll, PingInv,
       ServerKnowsTheClient, FirstStep
  <2> QED
    BY <2>1, <2>2
<1>4. CASE PushStep
  <2>1. Running /\ spc \notin {"idle", "done"} /\ UNCHANGED <<program, address, reply, ppc>>
        /\ (mpc' = mpc \/ mpc' = "exit")
    BY <1>4 DEF PushStep, PushLoop, PushOpens, PushNamespaceFails, PushReads, PushStamps, PushWrites,
       PushReadEnds, PushCloses, mainVars, pullVars
  <2> QED
    BY <2>1 DEF MainInv, PingInv, ServerKnowsTheClient, Running
<1>5. ASSUME NEW i \in Pulls, PullStep(i) PROVE MainInv' /\ PingInv'
  <2>1. /\ Running /\ ppc[i] # "idle" /\ \A j \in Pulls \ {i} : ppc'[j] = ppc[j]
        /\ UNCHANGED <<program, address, reply, spc>> /\ (mpc' = mpc \/ mpc' = "crash")
    BY <1>5, PullRuns
  <2>2. mpc \notin {"ping", "pong", "start", "done"}
    BY <2>1 DEF Running, MainInv
  <2>3. MainInv'
    BY <2>1, <2>2 DEF MainInv
  <2>4. PingInv'
    BY <2>1, <2>2 DEF PingInv, ServerKnowsTheClient, Running
  <2> QED
    BY <2>3, <2>4
<1>6. ASSUME NEW i \in Pulls, Server(i) PROVE UNCHANGED <<program, mpc, address, reply, spc, ppc>>
  BY <1>6 DEF Server, ServerConnects, ServerNeverConnects, ServerForwards, ServerCloses, mainVars, pushVars, pullVars
<1> QED
  BY <1>1, <1>2, <1>3, <1>4, <1>5, <1>6, StepsAreShared

LEMMA MainTypes ==
    ASSUME TypeOK, PushInv, MainStep \/ PushStep
    PROVE  TypeOK'
<1>0. /\ pushed \in Nat /\ taken \in Nat /\ pushed <= taken /\ taken <= MaxFrames /\ MaxFrames \in Nat
      /\ sent \in Seq(Ids)
  BY ClientAssumption DEF TypeOK
<1>1. CASE MainStep
  BY <1>1 DEF MainStep, MainSteps, SendPing, AwaitPong, StartPulls, StartPush, JoinAll, TypeOK, pushVars, pullVars,
     serverVars
<1>2. CASE PushOpens \/ PushNamespaceFails \/ PushReadEnds \/ PushCloses
  BY <1>2 DEF PushOpens, PushNamespaceFails, PushReadEnds, PushCloses, TypeOK, mainVars, pullVars, serverVars
<1>3. CASE PushReads
  <2>1. taken' \in 0..MaxFrames /\ pushed' \in 0..taken'
    BY <1>0, <1>3 DEF PushReads
  <2> QED
    BY <1>3, <2>1 DEF PushReads, TypeOK, mainVars, pullVars, serverVars
<1>4. CASE PushStamps
  <2>1. times' \subseteq 0..MaxFrames
    BY <1>0, <1>4 DEF PushStamps, TypeOK
  <2>2. raced' \in [Pulls -> BOOLEAN]
    BY <1>4 DEF PushStamps, TypeOK
  <2> QED
    BY <1>4, <2>1, <2>2 DEF PushStamps, TypeOK, mainVars, serverVars
<1>5. CASE PushWrites
  <2>1. pushed + 1 \in Ids /\ pushed + 1 \in 0..taken
    BY <1>0, <1>5 DEF PushWrites, PushInv, Ids
  <2>2. pushed' \in 0..taken /\ sent' \in Seq(Ids)
    <3>1. Append(sent, pushed + 1) \in Seq(Ids)
      BY <1>0, <2>1, AppendSeq
    <3>2. (pushed' = pushed + 1 /\ sent' = Append(sent, pushed + 1)) \/ (pushed' = pushed /\ sent' = sent)
      BY <1>5 DEF PushWrites
    <3> QED
      BY <1>0, <2>1, <3>1, <3>2
  <2> QED
    BY <1>5, <2>2 DEF PushWrites, TypeOK, mainVars, pullVars, serverVars
<1> QED
  BY <1>1, <1>2, <1>3, <1>4, <1>5 DEF PushStep, PushLoop

LEMMA ServerTypes ==
    ASSUME TypeOK, PushInv, NEW i \in Pulls, Server(i)
    PROVE  TypeOK'
<1>1. CASE ServerConnects(i)
  BY <1>1 DEF ServerConnects, TypeOK, mainVars, pushVars, pullVars
<1>2. CASE ServerNeverConnects(i)
  BY <1>2 DEF ServerNeverConnects, TypeOK, mainVars, pushVars, pullVars
<1>3. CASE ServerForwards(i)
  <2>1. /\ served[i] \in Nat /\ pushed \in Nat /\ pushed <= MaxFrames /\ MaxFrames \in Nat
        /\ net[i] \in Seq(Ids) /\ served[i] < pushed /\ sent[served[i] + 1] = served[i] + 1
    BY <1>3, StreamTypes DEF ServerForwards, PushInv
  <2>2. served[i] + 1 \in 0..MaxFrames /\ sent[served[i] + 1] \in Ids
    BY <2>1 DEF Ids
  <2>3. Append(net[i], sent[served[i] + 1]) \in Seq(Ids)
    BY <2>1, <2>2, AppendSeq
  <2>4. served' \in [Pulls -> 0..MaxFrames]
    BY <1>3, <2>2 DEF ServerForwards, TypeOK
  <2>5. net' \in [Pulls -> Seq(Ids)] /\ missed' \in [Pulls -> BOOLEAN]
    BY <1>3, <2>3 DEF ServerForwards, TypeOK
  <2> QED
    BY <1>3, <2>4, <2>5 DEF ServerForwards, TypeOK, mainVars, pushVars, pullVars
<1>4. CASE ServerCloses(i)
  BY <1>4 DEF ServerCloses, TypeOK, mainVars, pushVars, pullVars
<1> QED
  BY <1>1, <1>2, <1>3, <1>4 DEF Server

LEMMA PullTypes ==
    ASSUME TypeOK, PushInv, NEW i \in Pulls, StreamInv(i), PullStep(i)
    PROVE  TypeOK'
<1>0. /\ net[i] \in Seq(Ids) /\ held[i] \in Seq(Ids) /\ log[i] \in Seq(Entries)
      /\ Len(net[i]) \in Nat /\ Len(held[i]) \in Nat /\ counted[i] \in Nat /\ served[i] \in Nat
      /\ pushed \in Nat /\ pushed <= MaxFrames /\ MaxFrames \in Nat
  BY StreamTypes
<1>1. counted[i] + Len(held[i]) <= MaxFrames
  BY <1>0 DEF StreamInv, CountInv
<1>2. CASE Opening(i) \/ (Ending(i) /\ ~PullReadEnds(i))
  <2>1. CASE PullOpens(i) \/ PullPrepares(i)
    BY ZenonT(40), <2>1 DEF PullOpens, PullPrepares, Ends, TypeOK, mainVars, pushVars
  <2>2. ASSUME NEW at \in {"open", "read"}, PullTimesOut(i, at) PROVE TypeOK'
    BY <2>2 DEF PullTimesOut, Ends, TypeOK, mainVars, pushVars
  <2>3. CASE PullNamespaceFails(i)
    BY <2>3 DEF PullNamespaceFails, Ends, TypeOK, mainVars, pushVars
  <2> QED
    BY <1>2, <2>1, <2>2, <2>3 DEF Opening, Ending
<1>3. CASE Reading(i)
  <2>1. PICK next \in {"decode", "lookup"} : PullReads(i, next)
    BY <1>3 DEF Reading
  <2>2. Append(held[i], Head(net[i])) \in Seq(Ids) /\ Tail(net[i]) \in Seq(Ids)
    <3>1. net[i] # <<>>
      BY <2>1 DEF PullReads
    <3>2. Head(net[i]) \in Ids /\ Tail(net[i]) \in Seq(Ids)
      BY <1>0, <3>1, TailSeq
    <3> QED
      BY <1>0, <3>2, AppendSeq
  <2>3. held' \in [Pulls -> Seq(Ids)] /\ net' \in [Pulls -> Seq(Ids)]
    BY <2>1, <2>2 DEF PullReads, TypeOK
  <2>4. raced' \in [Pulls -> BOOLEAN]
    BY <2>1 DEF PullReads, TypeOK
  <2> QED
    BY <2>1, <2>3, <2>4 DEF PullReads, TypeOK, mainVars, pushVars
<1>4. CASE PassesOver(i)
  <2>1. Tail(net[i]) \in Seq(Ids)
    BY <1>0, <1>4, TailSeq DEF PassesOver
  <2> QED
    BY <1>4, <2>1 DEF PassesOver, TypeOK, mainVars, pushVars, pullVars
<1>5. CASE Decoding(i)
  BY <1>5 DEF Decoding, PullDecodes, TypeOK, mainVars, pushVars, serverVars
<1>6. CASE Logging(i)
  <2>1. PICK index, next : next \in {"read", "decode"} /\ PullLogs(i, index, next)
    <3>1. CASE \E n \in Numbers \ {0} : PullLogs(i, n - 1, "read")
      BY <3>1
    <3> QED
      BY <1>6, <3>1 DEF Logging
  <2>2. held[i] # <<>>
    BY <1>6, LoggingEffect
  <2>3. PICK e \in Entries : log' = [log EXCEPT ![i] = Append(log[i], e)]
    BY <1>6, LoggingEffect
  <2>4. Append(log[i], e) \in Seq(Entries)
    BY <1>0, AppendSeq
  <2>5. Tail(held[i]) \in Seq(Ids) /\ counted[i] + 1 \in 0..MaxFrames
    <3>1. Tail(held[i]) \in Seq(Ids) /\ Len(held[i]) >= 1
      BY <1>0, <2>2, TailSeq
    <3> QED
      BY <1>0, <1>1, <3>1
  <2>6. log' \in [Pulls -> Seq(Entries)]
    BY <2>3, <2>4 DEF TypeOK
  <2>7. held' \in [Pulls -> Seq(Ids)] /\ counted' \in [Pulls -> 0..MaxFrames]
    BY <2>1, <2>5 DEF PullLogs, TypeOK
  <2>8. raced' \in [Pulls -> BOOLEAN]
    BY <2>1 DEF PullLogs, TypeOK
  <2> QED
    BY <2>1, <2>6, <2>7, <2>8 DEF PullLogs, TypeOK, mainVars, pushVars, serverVars
<1>7. CASE PullCrashes(i)
  BY <1>7 DEF PullCrashes, TypeOK, pushVars, pullVars, serverVars
<1>8. CASE PullReadEnds(i)
  <2>1. counted[i] + Len(held[i]) \in 0..MaxFrames /\ <<>> \in Seq(Ids)
    BY <1>0, <1>1, EmptyIds
  <2> QED
    BY <1>8, <2>1 DEF PullReadEnds, Ends, TypeOK, mainVars, pushVars, serverVars
<1> QED
  BY <1>2, <1>3, <1>4, <1>5, <1>6, <1>7, <1>8 DEF PullStep

LEMMA TypesKept == ASSUME IInv, [Next]_vars PROVE TypeOK'
<1>1. CASE UNCHANGED vars
  BY <1>1 DEF IInv, TypeOK, vars, mainVars, pushVars, pullVars, serverVars
<1> QED
  BY <1>1, StepsAreShared, MainTypes, PullTypes, ServerTypes DEF IInv

-----------------------------------------------------------------------------
(* The invariant holds, and what follows from it *)

LEMMA InvInit == Init => IInv
<1> SUFFICES ASSUME Init PROVE IInv
  OBVIOUS
<1>1. <<>> \in Seq(Ids) /\ <<>> \in Seq(Entries) /\ Len(<<>>) = 0 /\ MaxFrames \in Nat /\ HeldFrames \in Nat /\ 1..0 = {}
  BY EmptyIds, ClientAssumption
<1>2. TypeOK
  <2>1. sent \in Seq(Ids) /\ held \in [Pulls -> Seq(Ids)] /\ net \in [Pulls -> Seq(Ids)]
        /\ log \in [Pulls -> Seq(Entries)]
    BY <1>1 DEF Init
  <2>2. counted \in [Pulls -> 0..MaxFrames] /\ served \in [Pulls -> 0..MaxFrames]
        /\ taken \in 0..MaxFrames /\ pushed \in 0..taken /\ times \subseteq 0..MaxFrames
    BY <1>1 DEF Init
  <2> QED
    BY <2>1, <2>2 DEF Init, TypeOK, FirstStep
<1>3. PushInv /\ MainInv /\ PingInv
  BY <1>1 DEF Init, PushInv, MainInv, PingInv, ServerKnowsTheClient, FirstStep
<1>4. ASSUME NEW i \in Pulls PROVE StreamInv(i)
  BY <1>1 DEF Init, StreamInv, HeldInv, CountInv, OrderInv, TimesInv, WholeInv, Depth
<1> QED
  BY <1>2, <1>3, <1>4 DEF IInv

LEMMA InvNext == IInv /\ [Next]_vars => IInv'
<1> SUFFICES ASSUME IInv, [Next]_vars PROVE IInv'
  OBVIOUS
<1>1. TypeOK'
  BY TypesKept
<1>2. PushInv' /\ MainInv' /\ PingInv'
  BY PushKept, MainKept DEF IInv
<1>3. \A i \in Pulls : StreamInv(i)'
  BY <1>1, StreamsKept DEF IInv
<1> QED
  BY <1>1, <1>2, <1>3 DEF IInv

LEMMA InvHolds == Spec => []IInv
  BY InvInit, InvNext, PTL DEF Spec

\* Every variable of a client keeps to its type, whichever of the fourteen programs it
\* is: the counts stay within the file, and a frame is always one of those read.
THEOREM ClientTypes == Spec => []TypeOK
<1>1. IInv => TypeOK
  BY DEF IInv
<1> QED
  BY <1>1, InvHolds, PTL

\* operator[] never inserts in a client that counts: a time was noted by the push thread
\* under the index a pull thread is about to look up (push_timestamps in
\* push_stream_directly and pull_stream), whatever was lost, refused or late.
THEOREM ClientTimes == Spec => []TimeIsRecorded
<1>1. ASSUME IInv PROVE TimeIsRecorded
  <2> SUFFICES ASSUME NEW i \in Pulls, ppc[i] = "lookup" PROVE ByPosition(i) \in times
    BY DEF TimeIsRecorded
  <2>1. TypeOK /\ PushInv /\ StreamInv(i)
    BY <1>1 DEF IInv
  <2>2. ByPosition(i) \in Nat /\ ByPosition(i) < pushed
    BY <2>1, IndexPushed
  <2> QED
    BY <2>1, <2>2 DEF PushInv
<1> QED
  BY <1>1, InvHolds, PTL

\* In a client that counts, a latency is logged for the frame it was measured on while
\* nothing of the stream was lost, refused or late (timing_logger.add_entry in
\* pull_stream).
THEOREM ClientLatencies == Spec => []LatencyIsItsFrames
<1>1. ASSUME IInv PROVE LatencyIsItsFrames
  <2> SUFFICES ASSUME Counts, NEW i \in Pulls, ~missed[i], NEW n \in DOMAIN log[i]
               PROVE  log[i][n].time \in {0, log[i][n].frame}
    BY DEF LatencyIsItsFrames
  <2>1. n \in 1..Len(log[i]) /\ TimesInv(i)
    <3>1. log[i] \in Seq(Entries)
      BY <1>1, StreamTypes DEF IInv
    <3> QED
      BY <1>1, <3>1, LenProperties DEF IInv, StreamInv
  <2> QED
    BY <2>1 DEF TimesInv
<1> QED
  BY <1>1, InvHolds, PTL

\* The log of a stream is of frames in the order they were pushed, none twice, and the
\* numbers of a client that counts rise with them, whatever the network loses, a packet
\* check refuses or a timeout cuts short.
THEOREM ClientLogOrder == Spec => []LogIsOrdered
<1>1. ASSUME IInv PROVE LogIsOrdered
  <2> SUFFICES ASSUME NEW i \in Pulls, NEW m \in DOMAIN log[i], NEW n \in DOMAIN log[i], m < n
               PROVE  (Counts => log[i][m].number < log[i][n].number) /\ log[i][m].frame < log[i][n].frame
    BY DEF LogIsOrdered
  <2>1. m \in 1..Len(log[i]) /\ n \in 1..Len(log[i]) /\ OrderInv(i)
    <3>1. log[i] \in Seq(Entries)
      BY <1>1, StreamTypes DEF IInv
    <3> QED
      BY <1>1, <3>1, LenProperties DEF IInv, StreamInv
  <2>2. /\ log[i][m].frame < log[i][n].frame
        /\ Counts => log[i][m].number = m /\ log[i][n].number = n
    BY <2>1 DEF OrderInv
  <2> QED
    BY <2>2
<1> QED
  BY <1>1, InvHolds, PTL

\* When main has joined its threads, the log of a stream from which nothing was lost
\* holds every frame written, but for those the decoder of video-push-pull kept back.
THEOREM ClientLogWhole == Spec => []LogIsComplete
<1>1. ASSUME IInv PROVE LogIsComplete
  <2> SUFFICES ASSUME mpc = "done", NEW i \in Pulls, ~missed[i]
               PROVE  Len(log[i]) >= Len(sent) - Depth
    BY DEF LogIsComplete, Depth
  <2>1. ppc[i] = "done" /\ Len(sent) = pushed /\ WholeInv(i)
    BY <1>1 DEF IInv, MainInv, PushInv, StreamInv
  <2>2. served[i] = pushed /\ Len(log[i]) + Depth >= served[i]
    BY <2>1 DEF WholeInv
  <2>3. Len(log[i]) \in Nat /\ pushed \in Nat /\ Depth \in Nat
    BY <1>1, StreamTypes DEF IInv
  <2> QED
    BY <2>1, <2>2, <2>3
<1> QED
  BY <1>1, InvHolds, PTL

\* A client that pings first (streaming-udp, streaming-rtp) streams only once the
\* server knows its address: a lost ping or pong ends it before any thread is made.
THEOREM ClientIsKnown == Spec => []ServerKnowsTheClient
<1>1. IInv => ServerKnowsTheClient
  BY DEF IInv, PingInv
<1> QED
  BY <1>1, InvHolds, PTL
=============================================================================
