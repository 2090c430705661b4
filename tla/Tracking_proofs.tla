---------------------------- MODULE Tracking_proofs ----------------------------
(* The tracking pair, for any number of frames, checker threads left behind and   *)
(* kinds of failure: results are kept while nothing disturbs the server, they go  *)
(* out in order whatever does, and latencies belong to their frames until one is  *)
(* lost before it is numbered.  The log is in order, and a client that ends by    *)
(* its count has all answers in it.                                               *)
EXTENDS Tracking, SequenceTheorems, FiniteSetTheorems, FunctionTheorems, TLAPS

\* Every frame numbered or still on its way was sent, and the frame being sent is
\* one of the input.
Counts ==
    /\ ppc = "write" => frameCount < MaxFrames
    /\ counter + Len(stream) <= frameCount

\* A wait that was given a result while its own checker still runs was given it by
\* an older checker, and that one is gone.
StaleBound == spc = "wait" /\ checker /\ slot # <<>> => stale < MaxStale

TypeInv == TypeOK /\ Counts /\ StaleBound

LEMMA AppendType ==
    ASSUME NEW S, NEW s \in Seq(S), NEW x \in S
    PROVE  /\ Append(s, x) \in Seq(S) /\ Len(Append(s, x)) = Len(s) + 1
           /\ \A i \in 1..Len(s) : Append(s, x)[i] = s[i]
           /\ Append(s, x)[Len(s) + 1] = x
  OBVIOUS

LEMMA TailType ==
    ASSUME NEW S, NEW s \in Seq(S), s # <<>>
    PROVE  /\ Head(s) \in S /\ Head(s) = s[1]
           /\ Tail(s) \in Seq(S) /\ Len(Tail(s)) = Len(s) - 1 /\ Len(s) >= 1
           /\ \A i \in 1..(Len(s) - 1) : Tail(s)[i] = s[i + 1]
  OBVIOUS

LEMMA SingleType ==
    ASSUME NEW S, NEW x \in S
    PROVE  <<x>> \in Seq(S) /\ Len(<<x>>) = 1 /\ <<x>> # <<>> /\ <<>> \in Seq(S) /\ Len(<<>>) = 0
  OBVIOUS

LEMMA EmptyType == <<>> \in Seq(Results) /\ <<>> \in Seq(Frames) /\ Len(<<>>) = 0
  OBVIOUS

\* The parts of the type a step leaves alone.
LEMMA Kept ==
    ASSUME TypeInv
    PROVE  /\ UNCHANGED <<program>> => (program \in Programs)'
           /\ UNCHANGED <<cmain, pushVars>> => PushType'
           /\ UNCHANGED <<timestamps, recvVars>> => RecvType'
           /\ UNCHANGED netVars => NetType'
           /\ UNCHANGED detectVars => DetectType'
           /\ UNCHANGED serverVars => ServerType' /\ StaleBound'
           /\ UNCHANGED <<pushVars, stream, counter>> => Counts'
<1>1. UNCHANGED <<program>> => (program \in Programs)'
  BY DEF TypeInv, TypeOK
<1>2. UNCHANGED <<cmain, pushVars>> => PushType'
  BY DEF TypeInv, TypeOK, PushType, pushVars
<1>3. UNCHANGED <<timestamps, recvVars>> => RecvType'
  BY DEF TypeInv, TypeOK, RecvType, recvVars
<1>4. UNCHANGED netVars => NetType'
  BY DEF TypeInv, TypeOK, NetType, netVars
<1>5. UNCHANGED detectVars => DetectType'
  BY DEF TypeInv, TypeOK, DetectType, detectVars
<1>6. UNCHANGED serverVars => ServerType' /\ StaleBound'
  BY DEF TypeInv, TypeOK, ServerType, StaleBound, serverVars
<1>7. UNCHANGED <<pushVars, stream, counter>> => Counts'
  BY DEF TypeInv, Counts, pushVars
<1> QED
  BY <1>1, <1>2, <1>3, <1>4, <1>5, <1>6, <1>7

LEMMA InitType == Init => TypeInv
<1> SUFFICES ASSUME Init PROVE TypeInv
  OBVIOUS
<1>1. /\ allSent \in BOOLEAN /\ desync \in BOOLEAN /\ streamEnd \in BOOLEAN /\ shifted \in BOOLEAN
      /\ running \in BOOLEAN /\ checker \in BOOLEAN /\ disturbed \in BOOLEAN
      /\ cmain \in {"detect", "push", "join", "done", "aborted"}
      /\ ppc \in {"open", "read", "write", "close", "done"}
      /\ vpc \in {"connect", "check", "recv", "done"}
      /\ exitedBy \in {"", "count", "timeout", "server", "error"}
      /\ conn \in {"none", "pending", "open", "closed"}
      /\ dmain \in {"init", "run", "lower", "join", "done", "aborted"}
      /\ spc \in {"open", "raise", "top", "wait", "send", "done"}
      /\ ppc # "write" /\ spc # "send" /\ spc # "wait"
      /\ program \in Programs /\ timestamps \subseteq Frames
  BY ZenonT(60) DEF Init
<1>2. /\ frameCount \in 0..MaxFrames /\ totalSent \in 0..MaxFrames /\ counter \in 0..MaxFrames
      /\ stale \in 0..MaxStale /\ (checker => stale < MaxStale)
  <2>1. frameCount = 0 /\ totalSent = 0 /\ counter = 0 /\ stale = 0 /\ ~checker
    BY DEF Init
  <2> QED
    BY <2>1, TrackingAssumption
<1>3. /\ stream = <<>> /\ wire = <<>> /\ log = <<>> /\ results = <<>> /\ produced = <<>>
      /\ sent = <<>> /\ slot = <<>> /\ counter = 0 /\ frameCount = 0
  BY DEF Init
<1>4. PushType /\ RecvType /\ NetType /\ DetectType
  BY <1>1, <1>2, <1>3, EmptyType DEF PushType, RecvType, NetType, DetectType
<1>5. ServerType /\ StaleBound
  <2>1. Len(slot) <= 1 /\ slot \in Seq(Results) /\ sent \in Seq(Results)
    BY <1>3, EmptyType
  <2> QED
    BY <2>1, <1>1, <1>2 DEF ServerType, StaleBound
<1>6. Counts
  <2>1. Len(stream) = 0 /\ counter + 0 <= frameCount
    BY <1>3, EmptyType
  <2> QED
    BY <2>1, <1>1 DEF Counts
<1> QED
  BY <1>1, <1>4, <1>5, <1>6 DEF TypeInv, TypeOK

\* A step of the client's main or push thread.
LEMMA PushStepType ==
    ASSUME TypeInv, StartPush \/ JoinThreads \/ Push \/ RaceCrashes
    PROVE  TypeInv'
<1> USE TrackingAssumption DEF TypeInv, TypeOK
<1>1. UNCHANGED <<program, recvVars, detectVars, serverVars, wire>>
  BY DEF StartPush, JoinThreads, Push, PushOpens, PushFails, PushStamps, PushWrites, PushReadEnds,
     PushCloses, RaceCrashes, Exit, netVars
<1>2. timestamps' \subseteq Frames
  <2>1. CASE PushStamps
    <3>1. timestamps \subseteq Frames /\ frameCount \in 0..MaxFrames
      BY DEF RecvType, PushType
    <3>2. frameCount < MaxFrames /\ timestamps' = timestamps \cup {frameCount}
      BY <2>1 DEF PushStamps
    <3>3. frameCount \in Frames
      BY <3>1, <3>2 DEF Frames
    <3> QED
      BY <3>1, <3>2, <3>3
  <2>2. CASE UNCHANGED timestamps
    BY <2>2 DEF RecvType
  <2> QED
    BY <2>1, <2>2 DEF StartPush, JoinThreads, Push, PushOpens, PushFails, PushWrites, PushReadEnds,
       PushCloses, RaceCrashes, Exit
<1>3. RecvType'
  BY <1>1, <1>2 DEF RecvType, recvVars
<1>4. PushType' /\ Counts' /\ stream' \in Seq(Frames)
  <2>1. CASE PushWrites
    <3>1. frameCount \in Frames /\ frameCount < MaxFrames /\ stream \in Seq(Frames)
      BY <2>1 DEF PushWrites, PushType, NetType, Counts, Frames
    <3>2. stream' \in Seq(Frames) /\ Len(stream') = Len(stream) + (frameCount' - frameCount)
      <4>1. /\ Append(stream, frameCount) \in Seq(Frames)
            /\ Len(Append(stream, frameCount)) = Len(stream) + 1
        BY <3>1, AppendType
      <4>2. \/ stream' = Append(stream, frameCount) /\ frameCount' = frameCount + 1
            \/ stream' = stream /\ frameCount' = frameCount
        BY <2>1 DEF PushWrites
      <4>3. frameCount \in Nat /\ Len(stream) \in Nat
        BY <3>1 DEF Frames
      <4>4. CASE stream' = Append(stream, frameCount) /\ frameCount' = frameCount + 1
        BY <4>1, <4>3, <4>4
      <4>5. CASE stream' = stream /\ frameCount' = frameCount
        BY <3>1, <4>3, <4>5
      <4> QED
        BY <4>2, <4>4, <4>5
    <3>3. counter' = counter /\ counter \in Nat /\ Len(stream) \in Nat
      BY <1>1, <3>1 DEF DetectType, detectVars
    <3>4. PushType' /\ ppc' # "write"
      BY <2>1, <3>1 DEF PushWrites, PushType
    <3> QED
      BY <3>1, <3>2, <3>3, <3>4 DEF Counts, PushType
  <2>2. CASE PushStamps
    BY <2>2, <1>1 DEF PushStamps, PushType, Counts, NetType, netVars, detectVars
  <2>3. CASE StartPush \/ JoinThreads
    BY <2>3 DEF StartPush, JoinThreads, pushVars, PushType, Counts, NetType, netVars, detectVars
  <2>4. CASE PushOpens \/ PushReadEnds
    BY <2>4 DEF PushOpens, PushReadEnds, PushType, Counts, NetType, netVars, detectVars
  <2>5. CASE PushCloses
    BY <2>5 DEF PushCloses, PushType, Counts, NetType, detectVars
  <2>6. CASE PushFails \/ RaceCrashes
    BY <2>6 DEF PushFails, RaceCrashes, Exit, pushVars, PushType, Counts, NetType, detectVars
  <2> QED
    BY <2>1, <2>2, <2>3, <2>4, <2>5, <2>6 DEF Push
<1>5. streamEnd' \in BOOLEAN /\ conn' = conn
  BY DEF StartPush, JoinThreads, Push, PushOpens, PushFails, PushStamps, PushWrites, PushReadEnds,
     PushCloses, RaceCrashes, Exit, netVars, NetType
<1>6. NetType'
  BY <1>1, <1>4, <1>5 DEF NetType
<1> QED
  BY <1>1, <1>3, <1>4, <1>6, Kept

LEMMA MatchType ==
    ASSUME RecvType, NEW num, NEW frame \in Frames, Match(num, frame)
    PROVE  log' \in Seq(Results) /\ timestamps' \subseteq Frames
<1>1. CASE num \in timestamps
  <2>1. [num |-> num, frame |-> frame] \in Results
    BY <1>1 DEF Results, RecvType
  <2> QED
    BY ZenonT(40), <1>1, <2>1, AppendType DEF Match, RecvType
<1>2. CASE num \notin timestamps
  BY <1>2 DEF Match, RecvType
<1> QED
  BY <1>1, <1>2

\* A step of the client's receiver.
LEMMA ReceiverStepType ==
    ASSUME TypeInv, Receiver
    PROVE  TypeInv'
<1> USE TrackingAssumption DEF TypeInv, TypeOK
<1>1. UNCHANGED <<program, cmain, pushVars, detectVars, serverVars, stream, streamEnd>>
  BY DEF Receiver, ReceiverConnects, ReceiverChecks, ReceiveResult, ReceiveRaces, ReceiveShort,
     ReceiveGarbage, ReceiveClosed, netVars
<1>2. wire' \in Seq(Results)
  <2>1. CASE ReceiveResult \/ ReceiveRaces \/ ReceiveGarbage
    <3>1. wire # <<>> /\ wire' = Tail(wire)
      BY <2>1 DEF ReceiveResult, ReceiveRaces, ReceiveGarbage
    <3> QED
      BY <3>1, TailType DEF NetType
  <2>2. CASE ReceiverConnects \/ ReceiverChecks \/ ReceiveShort \/ ReceiveClosed
    <3>1. wire' = wire
      BY <2>2 DEF ReceiverConnects, ReceiverChecks, ReceiveShort, ReceiveClosed, netVars
    <3> QED
      BY <3>1 DEF NetType
  <2> QED
    BY <2>1, <2>2 DEF Receiver
<1>3. conn' \in {"none", "pending", "open", "closed"}
  BY DEF Receiver, ReceiverConnects, ReceiverChecks, ReceiveResult, ReceiveRaces, ReceiveShort,
     ReceiveGarbage, ReceiveClosed, netVars, NetType
<1>4. NetType'
  BY <1>1, <1>2, <1>3 DEF NetType
<1>5. log' \in Seq(Results) /\ timestamps' \subseteq Frames
  <2>1. CASE ReceiveResult \/ ReceiveShort
    <3>1. wire # <<>> /\ Match(Head(wire).num, Head(wire).frame)
      BY <2>1 DEF ReceiveResult, ReceiveShort
    <3>2. Head(wire) \in Results
      BY <3>1, TailType DEF NetType
    <3>3. Head(wire).frame \in Frames
      BY <3>2 DEF Results
    <3> QED
      BY <3>1, <3>3, MatchType
  <2>2. CASE ReceiveGarbage
    <3>1. CASE \E num \in Frames : Match(num, MaxFrames - 1)
      <4>1. PICK num \in Frames : Match(num, MaxFrames - 1)
        BY <3>1
      <4>2. MaxFrames - 1 \in Frames
        BY <4>1 DEF Frames
      <4> QED
        BY <4>1, <4>2, MatchType
    <3>2. CASE UNCHANGED <<log, timestamps>>
      BY <3>2 DEF RecvType
    <3> QED
      BY <2>2, <3>1, <3>2 DEF ReceiveGarbage
  <2>3. CASE UNCHANGED <<log, timestamps>>
    BY <2>3 DEF RecvType
  <2> QED
    BY <2>1, <2>2, <2>3 DEF Receiver, ReceiverConnects, ReceiverChecks, ReceiveRaces, ReceiveClosed
<1>6. /\ vpc' \in {"connect", "check", "recv", "done"}
      /\ exitedBy' \in {"", "count", "timeout", "server", "error"}
      /\ desync' \in BOOLEAN
  BY DEF Receiver, ReceiverConnects, ReceiverChecks, ReceiveResult, ReceiveRaces, ReceiveShort,
     ReceiveGarbage, ReceiveClosed, RecvType
<1>7. RecvType'
  BY <1>5, <1>6 DEF RecvType
<1>8. counter' = counter
  BY <1>1 DEF detectVars
<1> QED
  BY <1>1, <1>4, <1>7, <1>8, Kept

\* A step of the detector's main, decoder and processing threads.
LEMMA DetectorStepType ==
    ASSUME TypeInv, Detector \/ StaleCrashes \/ SendKills
    PROVE  TypeInv'
<1> USE TrackingAssumption DEF TypeInv, TypeOK
<1>1. UNCHANGED <<program, cmain, pushVars, timestamps, recvVars, streamEnd, wire, spc, checker, stale,
                  slot, sent, disturbed>>
  BY DEF Detector, DetectorOpens, DetectFrame, VideoEnds, LowerFlags, DetectorEnds, StaleCrashes,
     SendKills, netVars, serverVars
<1>2. ServerType' /\ StaleBound'
  BY <1>1 DEF Detector, DetectorOpens, DetectFrame, VideoEnds, LowerFlags, DetectorEnds, StaleCrashes,
     SendKills, serverVars, ServerType, StaleBound
<1>3. conn' \in {"none", "pending", "open", "closed"} /\ dmain' \in {"init", "run", "lower", "join", "done", "aborted"}
  BY DEF Detector, DetectorOpens, DetectFrame, VideoEnds, LowerFlags, DetectorEnds, StaleCrashes,
     SendKills, Closed, netVars, NetType, DetectType
<1>4. CASE DetectFrame
  <2> DEFINE r == [num |-> counter, frame |-> Head(stream)]
  <2>1. /\ stream \in Seq(Frames) /\ stream # <<>> /\ stream' = Tail(stream)
        /\ results \in Seq(Results) /\ produced \in Seq(Results)
        /\ counter \in Nat /\ frameCount \in 0..MaxFrames /\ counter + Len(stream) <= frameCount
    BY <1>4 DEF DetectFrame, NetType, DetectType, PushType, Counts
  <2>2. /\ Head(stream) \in Frames /\ stream' \in Seq(Frames)
        /\ Len(stream') = Len(stream) - 1 /\ Len(stream) >= 1
    BY <2>1, TailType
  <2>3. r \in Results
    BY <2>1, <2>2 DEF Results, Frames
  <2>4. Append(results, r) \in Seq(Results) /\ Append(produced, r) \in Seq(Results)
    BY <2>1, <2>3, AppendType
  <2>5. /\ results' \in {results, Append(results, r)}
        /\ produced' \in {produced, Append(produced, r)}
        /\ counter' \in {counter, counter + 1}
        /\ shifted' \in {shifted, TRUE}
    BY <1>4 DEF DetectFrame
  <2>6. counter' \in 0..MaxFrames /\ counter' + Len(stream') <= frameCount
    BY <2>1, <2>2, <2>5
  <2> HIDE DEF r
  <2>7. DetectType'
    BY <2>1, <2>4, <2>5, <2>6, <1>3 DEF DetectType
  <2>8. Counts'
    BY <2>6, <1>1 DEF Counts, pushVars
  <2>9. NetType'
    BY <2>2, <1>1, <1>3 DEF NetType
  <2> QED
    BY <2>7, <2>8, <2>9, <1>1, <1>2, Kept
<1>5. CASE UNCHANGED <<stream, counter, results, produced, shifted>>
  <2>1. NetType'
    BY <1>1, <1>3, <1>5 DEF NetType
  <2>2. DetectType'
    BY <1>3, <1>5 DEF DetectType
  <2> QED
    BY <2>1, <2>2, <1>1, <1>2, <1>5, Kept
<1> QED
  BY <1>4, <1>5 DEF Detector, DetectorOpens, VideoEnds, LowerFlags, DetectorEnds, StaleCrashes,
     SendKills, netVars

\* A step of the result server or of a checker thread.
LEMMA ServerStepType ==
    ASSUME TypeInv, Server \/ Checkers
    PROVE  TypeInv'
<1> USE TrackingAssumption DEF TypeInv, TypeOK
<1>1. UNCHANGED <<program, cmain, pushVars, timestamps, recvVars, stream, streamEnd, dmain, counter,
                  produced, shifted>>
  BY DEF Server, Checkers, ServerOpens, ServerRaises, ServerLeaves, ServerAccepts, ServerWaits, WaitEnds,
     WaitTimesOut, SendResult, CheckerPops, StalePops, netVars, detectVars
<1>2. conn' \in {"none", "pending", "open", "closed"}
  BY DEF Server, Checkers, ServerOpens, ServerRaises, ServerLeaves, ServerAccepts, ServerWaits, WaitEnds,
     WaitTimesOut, SendResult, CheckerPops, StalePops, Closed, netVars, NetType
<1>3. CASE CheckerPops \/ StalePops
  <2>1. /\ results # <<>> /\ results' = Tail(results) /\ slot' \in {slot, <<Head(results)>>}
        /\ spc' = spc /\ sent' = sent /\ disturbed' = disturbed /\ running' = running
        /\ slot' = slot \/ spc = "wait"
    BY <1>3 DEF CheckerPops, StalePops
  <2>2. Head(results) \in Results /\ results' \in Seq(Results)
    BY <2>1, TailType DEF DetectType
  <2>3. slot' \in Seq(Results) /\ Len(slot') <= 1 /\ (spc' = "send" => slot' # <<>>)
    <3>1. CASE slot' = slot
      BY <3>1, <2>1 DEF ServerType
    <3>2. CASE slot' = <<Head(results)>>
      BY <3>2, <2>1, <2>2, SingleType
    <3> QED
      BY <3>1, <3>2, <2>1
  <2>4. stale' \in 0..MaxStale /\ (checker' => stale' < MaxStale) /\ checker' \in BOOLEAN
    <3>1. checker \in BOOLEAN /\ stale \in 0..MaxStale
      BY DEF ServerType
    <3>2. CASE CheckerPops
      <4>1. stale' = stale /\ ~checker' /\ checker' \in BOOLEAN
        BY <3>2 DEF CheckerPops
      <4> QED
        BY <3>1, <4>1
    <3>3. CASE StalePops
      <4>1. stale > 0 /\ stale' = stale - 1 /\ checker' = checker
        BY <3>3 DEF StalePops
      <4>2. stale' \in 0..MaxStale /\ stale' < MaxStale
        BY <3>1, <4>1
      <4> QED
        BY <3>1, <4>1, <4>2
    <3> QED
      BY <1>3, <3>2, <3>3
  <2>5. ServerType' /\ StaleBound'
    BY <2>1, <2>3, <2>4 DEF ServerType, StaleBound
  <2>6. DetectType'
    BY <2>2, <1>1 DEF DetectType
  <2>7. UNCHANGED netVars
    BY <1>3 DEF CheckerPops, StalePops
  <2> QED
    BY <2>5, <2>6, <2>7, <1>1, Kept DEF netVars
<1>4. CASE SendResult
  <2>1. slot \in Seq(Results) /\ slot # <<>> /\ sent \in Seq(Results) /\ wire \in Seq(Results)
    BY <1>4 DEF SendResult, ServerType, NetType
  <2>2. Head(slot) \in Results
    BY <2>1, TailType
  <2>3. Append(sent, Head(slot)) \in Seq(Results) /\ Append(wire, Head(slot)) \in Seq(Results)
    BY <2>1, <2>2, AppendType
  <2>4. /\ sent' \in {sent, Append(sent, Head(slot))} /\ wire' \in {wire, Append(wire, Head(slot))}
        /\ slot' = <<>> /\ spc' = "top" /\ UNCHANGED <<running, checker, stale, detectVars>>
        /\ disturbed' \in {disturbed, TRUE}
    BY <1>4 DEF SendResult
  <2>5. sent' \in Seq(Results) /\ wire' \in Seq(Results)
    BY <2>1, <2>3, <2>4
  <2>6. ServerType' /\ StaleBound'
    <3>1. Len(slot') <= 1 /\ slot' \in Seq(Results)
      BY <2>4, EmptyType
    <3>2. spc' # "send" /\ spc' # "wait" /\ spc' \in {"open", "raise", "top", "wait", "send", "done"}
      BY <2>4
    <3>3. disturbed' \in BOOLEAN /\ running' \in BOOLEAN /\ checker' \in BOOLEAN /\ stale' \in 0..MaxStale
      BY <2>4 DEF ServerType
    <3> QED
      BY <2>5, <3>1, <3>2, <3>3 DEF ServerType, StaleBound
  <2>7. NetType'
    BY <2>5, <1>1, <1>2 DEF NetType
  <2> QED
    BY <2>4, <2>6, <2>7, <1>1, Kept
<1>5. CASE ServerWaits
  <2>1. ServerType' /\ StaleBound'
    BY <1>5, EmptyType DEF ServerWaits, ServerType, StaleBound
  <2> QED
    BY <1>5, <2>1, <1>1, Kept DEF ServerWaits, netVars
<1>6. CASE WaitEnds \/ WaitTimesOut \/ ServerOpens \/ ServerRaises \/ ServerLeaves \/ ServerAccepts
  <2>1. UNCHANGED <<wire, detectVars>>
    BY <1>6 DEF WaitEnds, WaitTimesOut, ServerOpens, ServerRaises, ServerLeaves, ServerAccepts, netVars
  <2>2. NetType'
    BY <2>1, <1>1, <1>2 DEF NetType
  <2>3. ServerType' /\ StaleBound'
    <3>1. CASE WaitEnds
      <4>1. /\ spc = "wait" /\ slot # <<>> /\ slot' = slot /\ spc' = "send"
            /\ sent' = sent /\ disturbed' = disturbed /\ running' = running /\ ~checker'
            /\ checker' \in BOOLEAN
            /\ (checker => stale' = stale + 1) /\ (~checker => stale' = stale)
        BY <3>1 DEF WaitEnds
      <4>2. stale' \in 0..MaxStale
        <5>1. stale \in 0..MaxStale /\ (checker => stale < MaxStale)
          BY <4>1 DEF ServerType, StaleBound
        <5> QED
          BY <5>1, <4>1
      <4> QED
        BY <4>1, <4>2 DEF ServerType, StaleBound
    <3>2. CASE WaitTimesOut
      <4>1. /\ slot' = slot /\ spc' = "top" /\ sent' = sent /\ disturbed' \in BOOLEAN /\ running' = running
            /\ checker' \in BOOLEAN
            /\ (stale < MaxStale /\ stale' = stale + 1) \/ stale' = stale
        BY <3>2 DEF WaitTimesOut
      <4>2. stale' \in 0..MaxStale
        BY <4>1 DEF ServerType
      <4> QED
        BY <4>1, <4>2 DEF ServerType, StaleBound
    <3>3. CASE ServerOpens \/ ServerRaises
      BY <3>3 DEF ServerOpens, ServerRaises, ServerType, StaleBound
    <3>4. CASE ServerLeaves \/ ServerAccepts
      BY <3>4 DEF ServerLeaves, ServerAccepts, ServerType, StaleBound, serverVars
    <3> QED
      BY <1>6, <3>1, <3>2, <3>3, <3>4
  <2> QED
    BY <2>1, <2>2, <2>3, <1>1, Kept
<1> QED
  BY <1>3, <1>4, <1>5, <1>6 DEF Server, Checkers

LEMMA StepType == TypeInv /\ [Next]_vars => TypeInv'
<1> SUFFICES ASSUME TypeInv, [Next]_vars PROVE TypeInv'
  OBVIOUS
<1>1. CASE UNCHANGED vars
  BY <1>1, Kept DEF vars, pushVars, netVars, detectVars, TypeInv, TypeOK
<1>2. CASE Next
  BY <1>2, PushStepType, ReceiverStepType, DetectorStepType, ServerStepType DEF Next
<1> QED
  BY <1>1, <1>2

\* The variables keep their types: numbers stay below the frames of the input, and
\* checker threads left behind within their bound.
THEOREM TrackingType == Spec => []TypeOK
<1>1. TypeInv => TypeOK
  BY DEF TypeInv
<1> QED
  BY <1>1, InitType, StepType, PTL DEF Spec

-----------------------------------------------------------------------------
(* The results on their way: sent, handed to the wait, and still queued. *)

Chain == (sent \o slot) \o results

\* While nothing is disturbed no checker outlives its wait, and what a wait was
\* given is there from the end of its checker to the send.
KeptInv ==
    ~disturbed =>
        /\ stale = 0
        /\ spc \notin {"wait", "send"} => slot = <<>>
        /\ spc = "wait" /\ checker => slot = <<>>
        /\ produced = Chain

LEMMA Types ==
    ASSUME TypeInv
    PROVE  /\ sent \in Seq(Results) /\ slot \in Seq(Results) /\ results \in Seq(Results)
           /\ produced \in Seq(Results) /\ wire \in Seq(Results) /\ log \in Seq(Results)
           /\ counter \in Nat /\ frameCount \in Nat /\ Chain \in Seq(Results)
<1>1. /\ sent \in Seq(Results) /\ slot \in Seq(Results) /\ results \in Seq(Results)
      /\ produced \in Seq(Results) /\ wire \in Seq(Results) /\ log \in Seq(Results)
  BY DEF TypeInv, TypeOK, ServerType, DetectType, NetType, RecvType
<1>2. counter \in Nat /\ frameCount \in Nat
  BY DEF TypeInv, TypeOK, DetectType, PushType
<1>3. Chain \in Seq(Results)
  BY <1>1, ConcatProperties DEF Chain
<1> QED
  BY <1>1, <1>2, <1>3

\* A sequence of at most one member.
LEMMA OneMember ==
    ASSUME NEW S, NEW s \in Seq(S), Len(s) <= 1, s # <<>>
    PROVE  s = <<Head(s)>> /\ Head(s) \in S
<1>1. Head(s) \in S /\ Head(s) = s[1] /\ Len(s) = 1
  BY TailType
<1>2. <<Head(s)>> \in Seq(S) /\ Len(<<Head(s)>>) = 1 /\ <<Head(s)>>[1] = s[1]
  BY <1>1
<1> QED
  BY <1>1, <1>2, SeqEqual

LEMMA AppendIsOne ==
    ASSUME NEW S, NEW x \in S
    PROVE  Append(<<>>, x) = <<x>>
  OBVIOUS

\* What the wait's checker pops takes the place of the empty slot.
LEMMA PopsToSlot ==
    ASSUME NEW s \in Seq(Results), NEW u \in Seq(Results), u # <<>>
    PROVE  (s \o <<Head(u)>>) \o Tail(u) = (s \o <<>>) \o u
<1>1. Head(u) \in Results /\ <<Head(u)>> \in Seq(Results) /\ Tail(u) \in Seq(Results)
  BY TailType, SingleType
<1>2. u = <<Head(u)>> \o Tail(u)
  BY <1>1, HeadTailProperties, ConcatProperties, SeqEqual
<1>3. (s \o <<Head(u)>>) \o Tail(u) = s \o (<<Head(u)>> \o Tail(u))
  BY <1>1, ConcatAssociative
<1> QED
  BY <1>2, <1>3, ConcatEmptySeq

\* What is queued comes behind everything on its way.
LEMMA QueuedLast ==
    ASSUME NEW s \in Seq(Results), NEW u \in Seq(Results), NEW x \in Results
    PROVE  s \o Append(u, x) = Append(s \o u, x)
  BY AppendIsConcat, ConcatAssociative, ConcatProperties

\* What was in the slot is sent.
LEMMA SlotToSent ==
    ASSUME NEW s \in Seq(Results), NEW t \in Seq(Results), NEW u \in Seq(Results),
           Len(t) <= 1, t # <<>>
    PROVE  (Append(s, Head(t)) \o <<>>) \o u = (s \o t) \o u
<1>1. t = <<Head(t)>> /\ Head(t) \in Results
  BY OneMember
<1>2. Append(s, Head(t)) = s \o <<Head(t)>> /\ Append(s, Head(t)) \in Seq(Results)
  BY <1>1, AppendIsConcat, AppendType
<1> QED
  BY <1>1, <1>2, ConcatEmptySeq

LEMMA InitKept == Init => KeptInv
<1> SUFFICES ASSUME Init PROVE KeptInv
  OBVIOUS
<1>1. stale = 0 /\ slot = <<>> /\ sent = <<>> /\ results = <<>> /\ produced = <<>>
  BY DEF Init
<1>2. Chain = <<>>
  BY <1>1, EmptyType, ConcatEmptySeq DEF Chain
<1> QED
  BY <1>1, <1>2 DEF KeptInv

\* A step of the detector's threads: a result is queued or none is.
LEMMA DetectorKept ==
    ASSUME TypeInv, KeptInv, Detector \/ StaleCrashes \/ SendKills
    PROVE  KeptInv'
<1>1. UNCHANGED <<spc, checker, stale, slot, sent, disturbed>>
  BY DEF Detector, DetectorOpens, DetectFrame, VideoEnds, LowerFlags, DetectorEnds, StaleCrashes,
     SendKills, serverVars
<1>2. CASE UNCHANGED <<results, produced>>
  BY <1>1, <1>2 DEF KeptInv, Chain
<1>3. CASE \E x \in Results : results' = Append(results, x) /\ produced' = Append(produced, x)
  <2>1. PICK x \in Results : results' = Append(results, x) /\ produced' = Append(produced, x)
    BY <1>3
  <2>2. /\ sent \in Seq(Results) /\ slot \in Seq(Results) /\ results \in Seq(Results)
        /\ sent \o slot \in Seq(Results)
    BY Types, ConcatProperties
  <2>3. (sent \o slot) \o Append(results, x) = Append((sent \o slot) \o results, x)
    BY <2>2, QueuedLast
  <2>4. Chain' = Append(Chain, x)
    BY <2>1, <2>3, <1>1 DEF Chain
  <2> QED
    BY <2>1, <2>4, <1>1 DEF KeptInv
<1>4. CASE DetectFrame
  <2> DEFINE x == [num |-> counter, frame |-> Head(stream)]
  <2>1. \/ results' = Append(results, x) /\ produced' = Append(produced, x) /\ counter' = counter + 1
        \/ UNCHANGED <<results, produced>>
    BY <1>4 DEF DetectFrame
  <2>2. stream \in Seq(Frames) /\ stream # <<>> /\ counter + Len(stream) <= frameCount
        /\ frameCount \in 0..MaxFrames /\ counter \in Nat
    BY <1>4 DEF DetectFrame, TypeInv, TypeOK, NetType, PushType, DetectType, Counts
  <2>3. Head(stream) \in Frames /\ Len(stream) >= 1 /\ Len(stream) \in Nat
    BY <2>2, TailType
  <2>4. x \in Results
    BY <2>2, <2>3, TrackingAssumption DEF Frames, Results
  <2> HIDE DEF x
  <2> QED
    BY <2>1, <2>4, <1>2, <1>3
<1> QED
  BY <1>2, <1>4 DEF Detector, DetectorOpens, VideoEnds, LowerFlags, DetectorEnds, StaleCrashes,
     SendKills

\* A step of the result server or of a checker.
LEMMA ServerKept ==
    ASSUME TypeInv, KeptInv, Server \/ Checkers
    PROVE  KeptInv'
<1> SUFFICES ASSUME ~disturbed' PROVE KeptInv'
  BY DEF KeptInv
<1>0. /\ ~disturbed /\ produced' = produced
      /\ sent \in Seq(Results) /\ slot \in Seq(Results) /\ results \in Seq(Results)
      /\ Len(slot) <= 1 /\ spc \in {"open", "raise", "top", "wait", "send", "done"}
  <2>1. ~disturbed
    <3>1. disturbed' = disturbed \/ disturbed' = TRUE
      BY DEF Server, Checkers, ServerOpens, ServerRaises, ServerLeaves, ServerAccepts, ServerWaits,
         WaitEnds, WaitTimesOut, SendResult, CheckerPops, StalePops, serverVars
    <3> QED
      BY <3>1
  <2>2. produced' = produced
    BY DEF Server, Checkers, ServerOpens, ServerRaises, ServerLeaves, ServerAccepts, ServerWaits,
       WaitEnds, WaitTimesOut, SendResult, CheckerPops, StalePops, detectVars
  <2>3. Len(slot) <= 1 /\ spc \in {"open", "raise", "top", "wait", "send", "done"}
    BY DEF TypeInv, TypeOK, ServerType
  <2> QED
    BY <2>1, <2>2, <2>3, Types
<1>1. /\ stale = 0 /\ produced = Chain
      /\ spc \notin {"wait", "send"} => slot = <<>>
      /\ spc = "wait" /\ checker => slot = <<>>
  BY <1>0 DEF KeptInv
<1>2. CASE CheckerPops
  <2>1. /\ slot = <<>> /\ results # <<>> /\ sent' = sent /\ slot' = <<Head(results)>>
        /\ results' = Tail(results) /\ spc' = "wait" /\ ~checker' /\ stale' = stale
    BY <1>1, <1>2 DEF CheckerPops
  <2>2. (sent \o <<Head(results)>>) \o Tail(results) = (sent \o <<>>) \o results
    BY <1>0, <2>1, PopsToSlot
  <2> QED
    BY <1>0, <1>1, <2>1, <2>2 DEF KeptInv, Chain
<1>3. CASE StalePops
  <2>1. stale > 0
    BY <1>3 DEF StalePops
  <2> QED
    BY <1>1, <2>1
<1>4. CASE SendResult
  <2>1. /\ slot # <<>> /\ sent' = Append(sent, Head(slot)) /\ slot' = <<>> /\ results' = results
        /\ spc' = "top" /\ stale' = stale
    <3>1. slot # <<>>
      BY <1>4 DEF SendResult, TypeInv, TypeOK, ServerType
    <3>2. CASE disturbed' = TRUE
      BY <3>2
    <3>3. CASE sent' = Append(sent, Head(slot))
      BY <1>4, <3>1, <3>3 DEF SendResult, detectVars
    <3>4. sent' = Append(sent, Head(slot)) \/ disturbed' = TRUE
      BY <1>4, Zenon DEF SendResult
    <3> QED
      BY <3>2, <3>3, <3>4
  <2>2. (Append(sent, Head(slot)) \o <<>>) \o results = (sent \o slot) \o results
    BY <1>0, <2>1, SlotToSent
  <2> QED
    BY <1>0, <1>1, <2>1, <2>2 DEF KeptInv, Chain
<1>5. CASE ServerWaits
  <2>1. slot' = slot /\ spc' = "wait" /\ slot' = <<>> /\ UNCHANGED <<sent, results, stale>>
    BY <1>1, <1>5 DEF ServerWaits, detectVars
  <2> QED
    BY <1>0, <1>1, <2>1 DEF KeptInv, Chain
<1>6. CASE WaitEnds
  <2>1. ~checker /\ spc' = "send" /\ stale' = stale /\ UNCHANGED <<sent, slot, results>>
    BY <1>1, <1>6 DEF WaitEnds, detectVars
  <2> QED
    BY <1>0, <1>1, <2>1 DEF KeptInv, Chain
<1>7. CASE WaitTimesOut
  BY <1>7 DEF WaitTimesOut
<1>8. CASE ServerOpens \/ ServerRaises \/ ServerLeaves \/ ServerAccepts
  <2>1. /\ UNCHANGED <<sent, slot, results, stale, checker>>
        /\ (spc' = spc) \/ (spc \in {"open", "raise", "top"} /\ spc' \in {"raise", "top", "done"})
    BY <1>8 DEF ServerOpens, ServerRaises, ServerLeaves, ServerAccepts, detectVars, serverVars
  <2>2. slot' = <<>> \/ spc' = spc
    BY <1>1, <2>1
  <2> QED
    BY <1>0, <1>1, <2>1, <2>2 DEF KeptInv, Chain
<1> QED
  BY <1>2, <1>3, <1>4, <1>5, <1>6, <1>7, <1>8 DEF Server, Checkers

LEMMA StepKept == TypeInv /\ KeptInv /\ [Next]_vars => KeptInv'
<1> SUFFICES ASSUME TypeInv, KeptInv, [Next]_vars PROVE KeptInv'
  OBVIOUS
<1>1. CASE UNCHANGED <<detectVars, serverVars>>
  BY <1>1 DEF KeptInv, Chain, detectVars, serverVars
<1>2. CASE UNCHANGED vars
  BY <1>1, <1>2 DEF vars
<1>3. CASE StartPush \/ JoinThreads \/ Push \/ RaceCrashes
  BY <1>1, <1>3 DEF StartPush, JoinThreads, Push, PushOpens, PushFails, PushStamps, PushWrites,
     PushReadEnds, PushCloses, RaceCrashes, Exit
<1>4. CASE Receiver
  BY <1>1, <1>4 DEF Receiver, ReceiverConnects, ReceiverChecks, ReceiveResult, ReceiveRaces,
     ReceiveShort, ReceiveGarbage, ReceiveClosed
<1> QED
  BY <1>2, <1>3, <1>4, DetectorKept, ServerKept DEF Next

\* Unless a wait timed out or a send failed, every result queued is sent, held by the
\* wait that was given it, or still queued.
THEOREM TrackingKeepsResults == Spec => []ResultsAreKept
<1>1. TypeInv /\ KeptInv => ResultsAreKept
  <2> SUFFICES ASSUME TypeInv, KeptInv, ~disturbed PROVE produced = sent \o slot \o results
    BY DEF ResultsAreKept
  <2> QED
    BY DEF KeptInv, Chain
<1> QED
  BY <1>1, InitType, StepType, InitKept, StepKept, PTL DEF Spec

-----------------------------------------------------------------------------
(* The order of the results *)

NumsBelow(s, n) ==
    /\ \A i, j \in 1..Len(s) : i < j => s[i].num < s[j].num
    /\ \A i \in 1..Len(s) : s[i].num < n

\* Whatever the checkers do, what was sent, is held and is queued is in the order
\* of the numbers given, and below the next.
OrderInv == NumsBelow(Chain, counter)

LEMMA NumIsNat ==
    ASSUME NEW s \in Seq(Results), NEW i \in 1..Len(s)
    PROVE  s[i].num \in Frames /\ s[i].num \in Nat
<1>1. s[i] \in Results
  BY ElementOfSeq
<1>2. s[i].num \in Frames
  BY <1>1 DEF Results
<1> QED
  BY <1>2, TrackingAssumption DEF Frames

\* Two parts in order, one behind the other.
Behind(s, u) == \A i \in 1..Len(s), j \in 1..Len(u) : s[i].num < u[j].num

LEMMA BelowConcat ==
    ASSUME NEW s \in Seq(Results), NEW u \in Seq(Results), NEW n \in Nat
    PROVE  NumsBelow(s \o u, n) <=> NumsBelow(s, n) /\ NumsBelow(u, n) /\ Behind(s, u)
<1> DEFINE w == s \o u
<1>1. /\ Len(w) = Len(s) + Len(u) /\ Len(s) \in Nat /\ Len(u) \in Nat
      /\ \A i \in 1..Len(s) : i \in 1..Len(w) /\ w[i] = s[i]
      /\ \A j \in 1..Len(u) : Len(s) + j \in 1..Len(w) /\ w[Len(s) + j] = u[j]
  BY ConcatProperties, LenProperties
<1>2. \A k \in 1..Len(w) : k \in 1..Len(s) \/ \E j \in 1..Len(u) : k = Len(s) + j
  <2>1. ASSUME NEW k \in 1..Len(w), k \notin 1..Len(s)
        PROVE  k - Len(s) \in 1..Len(u) /\ k = Len(s) + (k - Len(s))
    BY <1>1, <2>1
  <2> QED
    BY <2>1
<1> HIDE DEF w
<1>3. ASSUME NumsBelow(w, n) PROVE NumsBelow(s, n) /\ NumsBelow(u, n) /\ Behind(s, u)
  <2>1. NumsBelow(s, n)
    BY <1>1, <1>3 DEF NumsBelow
  <2>2. NumsBelow(u, n)
    <3>1. ASSUME NEW i \in 1..Len(u), NEW j \in 1..Len(u), i < j PROVE u[i].num < u[j].num
      <4>1. Len(s) + i < Len(s) + j
        BY <1>1, <3>1
      <4> QED
        BY <1>1, <1>3, <4>1 DEF NumsBelow
    <3> QED
      BY <1>1, <1>3, <3>1 DEF NumsBelow
  <2>3. ASSUME NEW i \in 1..Len(s), NEW j \in 1..Len(u) PROVE s[i].num < u[j].num
    <3>1. i < Len(s) + j
      BY <1>1
    <3> QED
      BY <1>1, <1>3, <3>1 DEF NumsBelow
  <2> QED
    BY <2>1, <2>2, <2>3 DEF Behind
<1>4. ASSUME NumsBelow(s, n), NumsBelow(u, n), Behind(s, u) PROVE NumsBelow(w, n)
  <2>1. ASSUME NEW k \in 1..Len(w) PROVE w[k].num < n
    BY <1>1, <1>2, <1>4 DEF NumsBelow
  <2>2. ASSUME NEW k \in 1..Len(w), NEW m \in 1..Len(w), k < m PROVE w[k].num < w[m].num
    <3>1. CASE k \in 1..Len(s) /\ m \in 1..Len(s)
      BY <1>1, <1>4, <2>2, <3>1 DEF NumsBelow
    <3>2. CASE k \in 1..Len(s) /\ m \notin 1..Len(s)
      BY <1>1, <1>2, <1>4, <3>2 DEF Behind
    <3>3. CASE k \notin 1..Len(s)
      <4>1. PICK i \in 1..Len(u) : k = Len(s) + i
        BY <1>2, <3>3
      <4>2. m \notin 1..Len(s)
        BY <1>1, <2>2, <4>1
      <4>3. PICK j \in 1..Len(u) : m = Len(s) + j
        BY <1>2, <4>2
      <4>4. i < j
        BY <1>1, <2>2, <4>1, <4>3
      <4> QED
        BY <1>1, <1>4, <4>1, <4>3, <4>4 DEF NumsBelow
    <3> QED
      BY <3>1, <3>2, <3>3
  <2> QED
    BY <2>1, <2>2 DEF NumsBelow
<1> QED
  BY <1>3, <1>4 DEF w

\* What is left when the first of the queue, or what was held, is dropped.
LEMMA BelowDrops ==
    ASSUME NEW s \in Seq(Results), NEW t \in Seq(Results), NEW u \in Seq(Results), NEW n \in Nat,
           NumsBelow((s \o t) \o u, n)
    PROVE  /\ NumsBelow((s \o <<>>) \o u, n)
           /\ u # <<>> => NumsBelow((s \o t) \o Tail(u), n)
<1>1. s \o t \in Seq(Results) /\ s \o <<>> = s
  BY ConcatProperties, ConcatEmptySeq
<1>2. NumsBelow(s \o t, n) /\ NumsBelow(u, n) /\ Behind(s \o t, u)
  BY <1>1, BelowConcat
<1>3. NumsBelow(s, n) /\ Behind(s, u)
  <2>1. NumsBelow(s, n)
    BY <1>2, BelowConcat
  <2>2. \A i \in 1..Len(s) : i \in 1..Len(s \o t) /\ (s \o t)[i] = s[i]
    BY ConcatProperties, LenProperties
  <2> QED
    BY <1>2, <2>1, <2>2 DEF Behind
<1>4. ASSUME u # <<>> PROVE NumsBelow((s \o t) \o Tail(u), n)
  <2>1. /\ Tail(u) \in Seq(Results) /\ Len(Tail(u)) = Len(u) - 1 /\ Len(u) \in Nat
        /\ \A i \in 1..Len(Tail(u)) : i + 1 \in 1..Len(u) /\ Tail(u)[i] = u[i + 1]
    BY <1>4, TailType, LenProperties
  <2>2. Behind(s \o t, Tail(u))
    BY <1>2, <2>1 DEF Behind
  <2>3. NumsBelow(Tail(u), n)
    <3>1. ASSUME NEW i \in 1..Len(Tail(u)), NEW j \in 1..Len(Tail(u)), i < j
          PROVE  Tail(u)[i].num < Tail(u)[j].num
      <4>1. i + 1 < j + 1
        BY <3>1
      <4> QED
        BY <1>2, <2>1, <4>1 DEF NumsBelow
    <3> QED
      BY <1>2, <2>1, <3>1 DEF NumsBelow
  <2> QED
    BY <1>1, <1>2, <2>1, <2>2, <2>3, BelowConcat
<1> QED
  BY <1>1, <1>2, <1>3, <1>4, BelowConcat

LEMMA BelowAppend ==
    ASSUME NEW s \in Seq(Results), NEW n \in Nat, NEW x \in Results, x.num = n, NumsBelow(s, n)
    PROVE  NumsBelow(Append(s, x), n + 1)
<1> DEFINE w == Append(s, x)
<1>1. /\ Len(w) = Len(s) + 1 /\ Len(s) \in Nat /\ w[Len(s) + 1] = x
      /\ \A i \in 1..Len(s) : w[i] = s[i]
  BY AppendType
<1> HIDE DEF w
<1>2. \A i \in 1..Len(s) : s[i].num < n /\ s[i].num \in Nat
  BY NumIsNat DEF NumsBelow
<1>3. ASSUME NEW i \in 1..Len(w)
      PROVE  w[i].num < n + 1
  <2>1. CASE i = Len(s) + 1
    BY <1>1, <2>1
  <2>2. CASE i \in 1..Len(s)
    BY <1>1, <1>2, <2>2
  <2> QED
    BY <1>1, <2>1, <2>2
<1>4. ASSUME NEW i \in 1..Len(w), NEW j \in 1..Len(w), i < j
      PROVE  w[i].num < w[j].num
  <2>1. CASE j = Len(s) + 1
    BY <1>1, <1>2, <1>4, <2>1
  <2>2. CASE j \in 1..Len(s)
    <3>1. i \in 1..Len(s)
      BY <1>1, <1>4, <2>2
    <3> QED
      BY <1>1, <1>4, <2>2, <3>1 DEF NumsBelow
  <2> QED
    BY <1>1, <2>1, <2>2
<1>5. NumsBelow(w, n + 1)
  BY <1>3, <1>4 DEF NumsBelow
<1> QED
  BY <1>5 DEF w

LEMMA BelowMore ==
    ASSUME NEW s \in Seq(Results), NEW n \in Nat, NumsBelow(s, n)
    PROVE  NumsBelow(s, n + 1)
<1>1. \A i \in 1..Len(s) : s[i].num < n /\ s[i].num \in Nat
  BY NumIsNat DEF NumsBelow
<1> QED
  BY <1>1 DEF NumsBelow

LEMMA ServerOrder ==
    ASSUME TypeInv, NEW n \in Nat, NumsBelow(Chain, n), Server \/ Checkers
    PROVE  NumsBelow(Chain', n)
<1>1. /\ sent \in Seq(Results) /\ slot \in Seq(Results) /\ results \in Seq(Results)
      /\ Len(slot) <= 1 /\ (spc = "send" => slot # <<>>)
  BY Types DEF TypeInv, TypeOK, ServerType
<1>0. /\ NumsBelow((sent \o <<>>) \o results, n)
      /\ results # <<>> => NumsBelow((sent \o slot) \o Tail(results), n)
  BY <1>1, BelowDrops DEF Chain
<1>2. CASE UNCHANGED sent /\ slot' = <<>> /\ UNCHANGED results
  BY <1>0, <1>2 DEF Chain
<1>3. CASE UNCHANGED <<sent, slot, results>>
  BY <1>3 DEF Chain
<1>4. CASE results # <<>> /\ results' = Tail(results) /\ slot' = <<Head(results)>> /\ UNCHANGED sent
  <2>1. (sent \o <<Head(results)>>) \o Tail(results) = (sent \o <<>>) \o results
    BY <1>1, <1>4, PopsToSlot
  <2>2. Chain' = (sent \o <<>>) \o results
    BY <1>4, <2>1 DEF Chain
  <2> QED
    BY <1>0, <2>2
<1>5. CASE results # <<>> /\ results' = Tail(results) /\ UNCHANGED <<sent, slot>>
  BY <1>0, <1>5 DEF Chain
<1>6. CASE sent' = Append(sent, Head(slot)) /\ slot # <<>> /\ slot' = <<>> /\ UNCHANGED results
  <2>1. (Append(sent, Head(slot)) \o <<>>) \o results = Chain
    BY <1>1, <1>6, SlotToSent DEF Chain
  <2>2. Chain' = Chain
    BY <1>6, <2>1 DEF Chain
  <2> QED
    BY <2>2
<1>7. CASE CheckerPops
  BY <1>4, <1>7 DEF CheckerPops
<1>8. CASE StalePops
  BY <1>4, <1>5, <1>8 DEF StalePops
<1>9. CASE SendResult
  BY <1>1, <1>2, <1>6, <1>9 DEF SendResult, detectVars
<1>10. CASE ServerWaits
  BY <1>2, <1>10 DEF ServerWaits, detectVars
<1>11. CASE WaitEnds \/ WaitTimesOut \/ ServerOpens \/ ServerRaises \/ ServerLeaves \/ ServerAccepts
  BY <1>3, <1>11 DEF WaitEnds, WaitTimesOut, ServerOpens, ServerRaises, ServerLeaves, ServerAccepts,
     detectVars, serverVars
<1> QED
  BY <1>7, <1>8, <1>9, <1>10, <1>11 DEF Server, Checkers

LEMMA InitOrder == Init => OrderInv
<1> SUFFICES ASSUME Init PROVE OrderInv
  OBVIOUS
<1>1. slot = <<>> /\ sent = <<>> /\ results = <<>>
  BY DEF Init
<1>2. Chain = <<>>
  BY <1>1, EmptyType, ConcatEmptySeq DEF Chain
<1> QED
  BY <1>2, EmptyType DEF OrderInv, NumsBelow

LEMMA StepOrder == TypeInv /\ OrderInv /\ [Next]_vars => OrderInv'
<1> SUFFICES ASSUME TypeInv, OrderInv, [Next]_vars PROVE OrderInv'
  OBVIOUS
<1>0. Chain \in Seq(Results) /\ counter \in Nat
  BY Types
<1>1. CASE UNCHANGED <<counter, sent, slot, results>>
  BY <1>1 DEF OrderInv, Chain
<1>2. CASE UNCHANGED vars
  BY <1>1, <1>2 DEF vars, detectVars, serverVars
<1>3. CASE StartPush \/ JoinThreads \/ Push \/ RaceCrashes
  BY <1>1, <1>3 DEF StartPush, JoinThreads, Push, PushOpens, PushFails, PushStamps, PushWrites,
     PushReadEnds, PushCloses, RaceCrashes, Exit, detectVars, serverVars
<1>4. CASE Receiver
  BY <1>1, <1>4 DEF Receiver, ReceiverConnects, ReceiverChecks, ReceiveResult, ReceiveRaces,
     ReceiveShort, ReceiveGarbage, ReceiveClosed, detectVars, serverVars
<1>5. CASE Server \/ Checkers
  <2>1. counter' = counter
    BY <1>5 DEF Server, Checkers, ServerOpens, ServerRaises, ServerLeaves, ServerAccepts, ServerWaits,
       WaitEnds, WaitTimesOut, SendResult, CheckerPops, StalePops, detectVars
  <2>2. NumsBelow(Chain', counter)
    BY <1>0, <1>5, ServerOrder DEF OrderInv
  <2> QED
    BY <2>1, <2>2 DEF OrderInv
<1>6. CASE DetectFrame
  <2> DEFINE x == [num |-> counter, frame |-> Head(stream)]
  <2>1. /\ UNCHANGED <<sent, slot>>
        /\ \/ results' = Append(results, x) /\ counter' = counter + 1
           \/ UNCHANGED <<results, counter>>
           \/ UNCHANGED results /\ counter' = counter + 1
    BY <1>6 DEF DetectFrame, serverVars
  <2>2. stream \in Seq(Frames) /\ stream # <<>> /\ counter + Len(stream) <= frameCount
        /\ frameCount \in 0..MaxFrames /\ counter \in Nat
    BY <1>6 DEF DetectFrame, TypeInv, TypeOK, NetType, PushType, DetectType, Counts
  <2>3. Head(stream) \in Frames /\ Len(stream) >= 1 /\ Len(stream) \in Nat
    BY <2>2, TailType
  <2>4. x \in Results /\ x.num = counter
    BY <2>2, <2>3, TrackingAssumption DEF Frames, Results
  <2> HIDE DEF x
  <2>5. /\ sent \in Seq(Results) /\ slot \in Seq(Results) /\ results \in Seq(Results)
        /\ sent \o slot \in Seq(Results)
    BY Types, ConcatProperties
  <2>6. CASE results' = Append(results, x) /\ counter' = counter + 1
    <3>1. Chain' = Append(Chain, x)
      BY <2>1, <2>4, <2>5, <2>6, QueuedLast DEF Chain
    <3> QED
      BY <1>0, <2>4, <2>6, <3>1, BelowAppend DEF OrderInv
  <2>7. CASE UNCHANGED results /\ counter' = counter + 1
    <3>1. Chain' = Chain
      BY <2>1, <2>7 DEF Chain
    <3> QED
      BY <1>0, <2>7, <3>1, BelowMore DEF OrderInv
  <2> QED
    BY <1>1, <2>1, <2>6, <2>7
<1>7. CASE DetectorOpens \/ VideoEnds \/ LowerFlags \/ DetectorEnds \/ StaleCrashes \/ SendKills
  BY <1>1, <1>7 DEF DetectorOpens, VideoEnds, LowerFlags, DetectorEnds, StaleCrashes,
     SendKills, serverVars
<1> QED
  BY <1>2, <1>3, <1>4, <1>5, <1>6, <1>7 DEF Next, Detector

LEMMA NumsType ==
    ASSUME NEW s \in Seq(Results)
    PROVE  Len(Nums(s)) = Len(s) /\ \A i \in 1..Len(s) : Nums(s)[i] = s[i].num
<1>1. DOMAIN s = 1..Len(s) /\ Len(s) \in Nat
  BY LenProperties
<1>2. Nums(s) = [i \in 1..Len(s) |-> s[i].num]
  BY <1>1 DEF Nums
<1>3. \A i \in 1..Len(s) : s[i].num \in Frames
  BY NumIsNat
<1>4. Nums(s) \in Seq(Frames) /\ DOMAIN Nums(s) = 1..Len(s)
  BY <1>1, <1>2, <1>3
<1> QED
  BY <1>1, <1>2, <1>4, LenProperties

LEMMA SentBelow ==
    ASSUME TypeInv, OrderInv
    PROVE  NumsBelow(sent, counter)
<1>1. sent \in Seq(Results) /\ slot \in Seq(Results) /\ results \in Seq(Results)
  BY Types
<1>2. /\ sent \o slot \in Seq(Results) /\ Len(sent) <= Len(sent \o slot)
      /\ \A i \in 1..Len(sent) : (sent \o slot)[i] = sent[i]
  BY <1>1, ConcatProperties
<1>3. /\ Len(sent \o slot) <= Len(Chain) /\ Len(Chain) \in Nat /\ Len(sent) \in Nat
      /\ \A i \in 1..Len(sent \o slot) : Chain[i] = (sent \o slot)[i]
  BY <1>1, <1>2, ConcatProperties DEF Chain
<1>4. \A i \in 1..Len(sent) : i \in 1..Len(Chain) /\ Chain[i] = sent[i]
  BY <1>2, <1>3
<1> QED
  BY <1>4 DEF OrderInv, NumsBelow

\* Results are sent in the order of detection, and none twice, however many checker
\* threads outlive their waits and pop the queue of others.
THEOREM TrackingInOrder == Spec => []ResultsInOrder
<1>1. TypeInv /\ OrderInv => ResultsInOrder
  <2> SUFFICES ASSUME TypeInv, OrderInv PROVE Increasing(Nums(sent))
    BY DEF ResultsInOrder
  <2> QED
    BY Types, SentBelow, NumsType DEF Increasing, NumsBelow
<1> QED
  BY <1>1, InitType, StepType, InitOrder, StepOrder, PTL DEF Spec

-----------------------------------------------------------------------------
(* Whose latency is logged *)

Own(s) == \A i \in 1..Len(s) : s[i].num = s[i].frame

\* Until a frame is lost before it is numbered, the frames on their way are those
\* between the number to be given next and the frame to be sent next, and every
\* number is its frame's; in the log too, while whole messages are read.
OwnInv ==
    ~shifted =>
        /\ counter + Len(stream) = frameCount
        /\ \A i \in 1..Len(stream) : stream[i] = counter + i - 1
        /\ Own(results) /\ Own(slot) /\ Own(wire)
        /\ ~desync => Own(log)

LEMMA OwnTail ==
    ASSUME NEW s \in Seq(Results), s # <<>>, Own(s)
    PROVE  Own(Tail(s)) /\ Head(s) \in Results /\ Head(s).num = Head(s).frame /\ Own(<<Head(s)>>)
<1>1. /\ Head(s) \in Results /\ Head(s) = s[1]
      /\ Len(Tail(s)) = Len(s) - 1 /\ Len(s) >= 1
      /\ \A i \in 1..(Len(s) - 1) : Tail(s)[i] = s[i + 1]
  BY TailType
<1>2. Len(s) \in Nat
  BY LenProperties
<1>3. Own(Tail(s)) /\ Head(s).num = Head(s).frame
  BY <1>1, <1>2 DEF Own
<1>4. Len(<<Head(s)>>) = 1 /\ <<Head(s)>>[1] = Head(s)
  OBVIOUS
<1> QED
  BY <1>1, <1>3, <1>4 DEF Own

LEMMA OwnAppend ==
    ASSUME NEW s \in Seq(Results), NEW x \in Results, Own(s), x.num = x.frame
    PROVE  Own(Append(s, x))
<1>1. /\ Len(Append(s, x)) = Len(s) + 1 /\ Append(s, x)[Len(s) + 1] = x
      /\ \A i \in 1..Len(s) : Append(s, x)[i] = s[i]
  BY AppendType
<1>2. Len(s) \in Nat
  BY LenProperties
<1>3. ASSUME NEW i \in 1..Len(Append(s, x))
      PROVE  Append(s, x)[i].num = Append(s, x)[i].frame
  <2>1. i = Len(s) + 1 \/ i \in 1..Len(s)
    BY <1>1, <1>2
  <2> QED
    BY <1>1, <2>1 DEF Own
<1> QED
  BY <1>3 DEF Own

LEMMA OwnEmpty == Own(<<>>)
  BY EmptyType DEF Own

LEMMA InitOwn == Init => OwnInv
<1> SUFFICES ASSUME Init PROVE OwnInv
  OBVIOUS
<1>1. /\ results = <<>> /\ slot = <<>> /\ wire = <<>> /\ log = <<>> /\ stream = <<>>
      /\ counter = 0 /\ frameCount = 0
  BY DEF Init
<1>2. Len(stream) = 0 /\ counter + Len(stream) = frameCount
  BY <1>1, EmptyType
<1>3. \A i \in 1..Len(stream) : stream[i] = counter + i - 1
  BY <1>2
<1> QED
  BY <1>1, <1>2, <1>3, OwnEmpty DEF OwnInv

LEMMA PushOwn ==
    ASSUME TypeInv, OwnInv, StartPush \/ JoinThreads \/ Push \/ RaceCrashes
    PROVE  OwnInv'
<1>1. UNCHANGED <<shifted, counter, results, slot, wire, desync, log>>
  BY DEF StartPush, JoinThreads, Push, PushOpens, PushFails, PushStamps, PushWrites, PushReadEnds,
     PushCloses, RaceCrashes, Exit, detectVars, serverVars, recvVars, netVars
<1> SUFFICES ASSUME ~shifted
             PROVE  /\ counter + Len(stream') = frameCount'
                    /\ \A i \in 1..Len(stream') : stream'[i] = counter + i - 1
  BY <1>1 DEF OwnInv
<1>2. /\ counter + Len(stream) = frameCount
      /\ \A i \in 1..Len(stream) : stream[i] = counter + i - 1
  BY DEF OwnInv
<1>3. CASE UNCHANGED <<stream, frameCount>>
  BY <1>2, <1>3
<1>4. CASE PushWrites
  <2>1. /\ stream \in Seq(Frames) /\ frameCount \in Frames /\ counter \in Nat
        /\ Len(stream) \in Nat
    <3>1. stream \in Seq(Frames) /\ frameCount \in 0..MaxFrames /\ frameCount < MaxFrames
      BY <1>4 DEF PushWrites, TypeInv, TypeOK, NetType, PushType, Counts
    <3> QED
      BY <3>1, Types, LenProperties, TrackingAssumption DEF Frames
  <2>2. CASE stream' = Append(stream, frameCount) /\ frameCount' = frameCount + 1
    <3>1. /\ Len(stream') = Len(stream) + 1 /\ stream'[Len(stream) + 1] = frameCount
          /\ \A i \in 1..Len(stream) : stream'[i] = stream[i]
      BY <2>1, <2>2, AppendType
    <3> QED
      BY <1>2, <2>1, <2>2, <3>1
  <2> QED
    BY <1>3, <1>4, <2>2 DEF PushWrites
<1>5. CASE StartPush \/ JoinThreads \/ PushOpens \/ PushFails \/ PushStamps \/ PushReadEnds
           \/ PushCloses \/ RaceCrashes
  BY <1>3, <1>5 DEF StartPush, JoinThreads, PushOpens, PushFails, PushStamps, PushReadEnds,
     PushCloses, RaceCrashes, Exit, pushVars, netVars
<1> QED
  BY <1>4, <1>5 DEF Push

LEMMA MatchOwn ==
    ASSUME log \in Seq(Results), Own(log), NEW r \in Results, r.num = r.frame, Match(r.num, r.frame)
    PROVE  Own(log')
<1>1. CASE log' = log
  BY <1>1
<1>2. CASE log' = Append(log, [num |-> r.num, frame |-> r.frame])
  <2>1. r = [num |-> r.num, frame |-> r.frame]
    BY DEF Results
  <2> QED
    BY <1>2, <2>1, OwnAppend
<1> QED
  BY <1>1, <1>2 DEF Match

LEMMA ReceiverOwn ==
    ASSUME TypeInv, OwnInv, Receiver
    PROVE  OwnInv'
<1>1. UNCHANGED <<shifted, counter, results, slot, stream, frameCount>>
  BY DEF Receiver, ReceiverConnects, ReceiverChecks, ReceiveResult, ReceiveRaces, ReceiveShort,
     ReceiveGarbage, ReceiveClosed, detectVars, serverVars, pushVars, netVars
<1> SUFFICES ASSUME ~shifted
             PROVE  Own(wire') /\ (~desync' => Own(log'))
  BY <1>1 DEF OwnInv
<1>2. Own(wire) /\ (~desync => Own(log)) /\ wire \in Seq(Results) /\ log \in Seq(Results)
  BY Types DEF OwnInv
<1>3. CASE ReceiveResult
  <2>1. wire # <<>> /\ ~desync /\ wire' = Tail(wire) /\ Match(Head(wire).num, Head(wire).frame)
    BY <1>3 DEF ReceiveResult
  <2>2. Own(wire') /\ Head(wire) \in Results /\ Head(wire).num = Head(wire).frame
    BY <1>2, <2>1, OwnTail
  <2> QED
    BY <1>2, <2>1, <2>2, MatchOwn
<1>4. CASE ReceiveShort
  BY <1>2, <1>4 DEF ReceiveShort, netVars
<1>5. CASE ReceiveRaces \/ ReceiveGarbage
  <2>1. wire # <<>> /\ wire' = Tail(wire) /\ desync' = desync /\ (desync \/ log' = log)
    BY <1>5 DEF ReceiveRaces, ReceiveGarbage
  <2> QED
    BY <1>2, <2>1, OwnTail
<1>6. CASE ReceiverConnects \/ ReceiverChecks \/ ReceiveClosed
  BY <1>2, <1>6 DEF ReceiverConnects, ReceiverChecks, ReceiveClosed, netVars
<1> QED
  BY <1>3, <1>4, <1>5, <1>6 DEF Receiver

LEMMA DetectorOwn ==
    ASSUME TypeInv, OwnInv, Detector \/ StaleCrashes \/ SendKills
    PROVE  OwnInv'
<1>1. UNCHANGED <<slot, wire, desync, log, frameCount>>
  BY DEF Detector, DetectorOpens, DetectFrame, VideoEnds, LowerFlags, DetectorEnds, StaleCrashes,
     SendKills, serverVars, recvVars, netVars, pushVars
<1>2. CASE UNCHANGED <<shifted, counter, stream, results>>
  BY <1>1, <1>2 DEF OwnInv
<1>3. CASE DetectFrame
  <2> DEFINE x == [num |-> counter, frame |-> Head(stream)]
  <2> SUFFICES ASSUME ~shifted' PROVE OwnInv'
    BY DEF OwnInv
  <2>1. /\ stream # <<>> /\ stream' = Tail(stream) /\ ~shifted /\ counter' = counter + 1
        /\ results' = results \/ results' = Append(results, x)
    <3>1. \/ results' = Append(results, x) /\ counter' = counter + 1 /\ shifted' = shifted
          \/ shifted' = TRUE
          \/ results' = results /\ counter' = counter + 1 /\ shifted' = shifted
      BY <1>3 DEF DetectFrame
    <3>2. stream # <<>> /\ stream' = Tail(stream)
      BY <1>3 DEF DetectFrame
    <3> QED
      BY <3>1, <3>2
  <2>2. /\ counter + Len(stream) = frameCount
        /\ \A i \in 1..Len(stream) : stream[i] = counter + i - 1
        /\ Own(results) /\ Own(slot) /\ Own(wire) /\ (~desync => Own(log))
    BY <2>1 DEF OwnInv
  <2>3. stream \in Seq(Frames) /\ counter \in Nat /\ results \in Seq(Results) /\ Len(stream) \in Nat
    <3>1. stream \in Seq(Frames)
      BY DEF TypeInv, TypeOK, NetType
    <3> QED
      BY <3>1, Types, LenProperties
  <2>4. /\ Head(stream) \in Frames /\ Head(stream) = stream[1] /\ Len(stream) >= 1
        /\ Len(stream') = Len(stream) - 1
        /\ \A i \in 1..(Len(stream) - 1) : stream'[i] = stream[i + 1]
    BY <2>1, <2>3, TailType
  <2>5. /\ counter' + Len(stream') = frameCount
        /\ \A i \in 1..Len(stream') : stream'[i] = counter' + i - 1
    BY <2>1, <2>2, <2>3, <2>4
  <2>6. Head(stream) = counter
    BY <2>2, <2>3, <2>4
  <2>7. x \in Results /\ x.num = x.frame
    BY <2>4, <2>6 DEF Results
  <2> HIDE DEF x
  <2>8. Own(results')
    BY <2>1, <2>2, <2>3, <2>7, OwnAppend
  <2> QED
    BY <1>1, <2>2, <2>5, <2>8 DEF OwnInv
<1> QED
  BY <1>2, <1>3 DEF Detector, DetectorOpens, VideoEnds, LowerFlags, DetectorEnds, StaleCrashes,
     SendKills, netVars

LEMMA ServerOwn ==
    ASSUME TypeInv, OwnInv, Server \/ Checkers
    PROVE  OwnInv'
<1>1. UNCHANGED <<shifted, counter, stream, desync, log, frameCount>>
  BY DEF Server, Checkers, ServerOpens, ServerRaises, ServerLeaves, ServerAccepts, ServerWaits, WaitEnds,
     WaitTimesOut, SendResult, CheckerPops, StalePops, detectVars, recvVars, netVars, pushVars
<1> SUFFICES ASSUME ~shifted
             PROVE  Own(results') /\ Own(slot') /\ Own(wire')
  BY <1>1 DEF OwnInv
<1>2. /\ Own(results) /\ Own(slot) /\ Own(wire)
      /\ results \in Seq(Results) /\ slot \in Seq(Results) /\ wire \in Seq(Results)
  BY Types DEF OwnInv
<1>3. CASE UNCHANGED <<results, slot, wire>>
  BY <1>2, <1>3
<1>4. CASE CheckerPops \/ StalePops
  <2>1. /\ results # <<>> /\ results' = Tail(results) /\ wire' = wire
        /\ slot' = slot \/ slot' = <<Head(results)>>
    BY <1>4 DEF CheckerPops, StalePops, netVars
  <2> QED
    BY <1>2, <2>1, OwnTail
<1>5. CASE SendResult
  <2>1. /\ slot # <<>> /\ slot' = <<>> /\ results' = results
    BY <1>5 DEF SendResult, detectVars, TypeInv, TypeOK, ServerType
  <2>2. wire' = wire \/ wire' = Append(wire, Head(slot))
    BY <1>5, Zenon DEF SendResult
  <2>3. Own(wire')
    BY <1>2, <2>1, <2>2, OwnTail, OwnAppend
  <2> QED
    BY <1>2, <2>1, <2>3, OwnEmpty
<1>6. CASE ServerWaits
  BY <1>2, <1>6, OwnEmpty DEF ServerWaits, detectVars, netVars
<1>7. CASE WaitEnds \/ WaitTimesOut \/ ServerOpens \/ ServerRaises \/ ServerLeaves \/ ServerAccepts
  BY <1>3, <1>7 DEF WaitEnds, WaitTimesOut, ServerOpens, ServerRaises, ServerLeaves, ServerAccepts,
     detectVars, serverVars, netVars
<1> QED
  BY <1>4, <1>5, <1>6, <1>7 DEF Server, Checkers

LEMMA StepOwn == TypeInv /\ OwnInv /\ [Next]_vars => OwnInv'
<1> SUFFICES ASSUME TypeInv, OwnInv, [Next]_vars PROVE OwnInv'
  OBVIOUS
<1>1. CASE UNCHANGED vars
  BY <1>1 DEF OwnInv, vars, pushVars, recvVars, netVars, detectVars, serverVars
<1>2. CASE Next
  BY <1>2, PushOwn, ReceiverOwn, DetectorOwn, ServerOwn DEF Next
<1> QED
  BY <1>1, <1>2

\* Unless a frame was lost before it was numbered, or a message was read in part, the
\* latency logged for a result is that of the frame it came from: over either pair and
\* whatever else fails.
THEOREM TrackingLatencies == Spec => []LatencyIsItsFrames
<1>1. TypeInv /\ OwnInv => LatencyIsItsFrames
  <2> SUFFICES ASSUME TypeInv, OwnInv, ~shifted, ~desync
               PROVE  \A i \in DOMAIN log : log[i].num = log[i].frame
    BY DEF LatencyIsItsFrames
  <2>1. DOMAIN log = 1..Len(log)
    BY Types, LenProperties
  <2> QED
    BY <2>1 DEF OwnInv, Own
<1> QED
  BY <1>1, InitType, StepType, InitOwn, StepOwn, PTL DEF Spec

-----------------------------------------------------------------------------
(* What is logged, and when the receiver has all of it *)

\* A frame's time is noted before it is counted; an entry takes it out.
StampInv ==
    /\ \A t \in timestamps : t <= frameCount
    /\ \A i \in 1..Len(log) : log[i].num <= frameCount /\ log[i].num \notin timestamps
    /\ ppc \in {"open", "read"} =>
         frameCount \notin timestamps /\ \A i \in 1..Len(log) : log[i].num # frameCount
    /\ \A i, j \in 1..Len(log) : i < j => log[i].num # log[j].num

\* The results on their way are the last that were sent.
WireInv ==
    /\ Len(wire) <= Len(sent)
    /\ \A i \in 1..Len(wire) : wire[i] = sent[(Len(sent) - Len(wire)) + i]

\* While whole messages are read, the entries are for results that have arrived.
ArrivedInv ==
    ~desync =>
        /\ \A i \in 1..Len(log) : \E k \in 1..(Len(sent) - Len(wire)) : log[i].num = sent[k].num
        /\ \A i, j \in 1..Len(log) : i < j => log[i].num < log[j].num

\* Only the TCP client says that all frames are sent, and it has counted them all.
SentAll ==
    /\ program = "tcp" => totalSent = frameCount
    /\ allSent => program = "tcp" /\ ppc = "done"
    /\ exitedBy = "count" => vpc = "done"
    /\ exitedBy = "count" /\ ~desync =>
         ppc = "done" /\ {log[i].num : i \in 1..Len(log)} = 0..(frameCount - 1)

Entries == StampInv /\ WireInv /\ ArrivedInv /\ SentAll

\* The entries of a receiver that reads whole messages are of frames sent.
LEMMA EntriesOfFrames ==
    ASSUME TypeInv, OrderInv, WireInv, ArrivedInv, ~desync
    PROVE  \A i \in 1..Len(log) : log[i].num \in 0..(frameCount - 1)
<1>1. /\ log \in Seq(Results) /\ sent \in Seq(Results) /\ wire \in Seq(Results) /\ stream \in Seq(Frames)
      /\ counter \in Nat /\ frameCount \in Nat /\ counter + Len(stream) <= frameCount
  BY Types DEF TypeInv, TypeOK, NetType, Counts
<1>2. Len(stream) \in Nat /\ Len(sent) \in Nat /\ Len(wire) \in Nat
  BY <1>1, LenProperties
<1> SUFFICES ASSUME NEW i \in 1..Len(log) PROVE log[i].num \in 0..(frameCount - 1)
  OBVIOUS
<1>3. log[i].num \in Nat
  BY <1>1, NumIsNat
<1>4. PICK k \in 1..(Len(sent) - Len(wire)) : log[i].num = sent[k].num
  BY DEF ArrivedInv
<1>5. sent[k].num < counter
  BY <1>2, <1>4, SentBelow DEF NumsBelow
<1> QED
  BY <1>1, <1>2, <1>3, <1>4, <1>5

\* As many different numbers below n as there are: all of them.
LEMMA AllNumbers ==
    ASSUME NEW n \in Nat, NEW s \in Seq(Results), n <= Len(s),
           \A i \in 1..Len(s) : s[i].num \in 0..(n - 1),
           \A i, j \in 1..Len(s) : i < j => s[i].num # s[j].num
    PROVE  {s[i].num : i \in 1..Len(s)} = 0..(n - 1)
<1> DEFINE N == {s[i].num : i \in 1..Len(s)}
           g == [i \in 1..Len(s) |-> s[i].num]
<1>0. Len(s) \in Nat
  BY LenProperties
<1>1. /\ IsFiniteSet(1..Len(s)) /\ Cardinality(1..Len(s)) = Len(s)
  <2>1. 1 \in Int /\ Len(s) \in Int
    BY <1>0
  <2>2. /\ IsFiniteSet(1..Len(s))
        /\ Cardinality(1..Len(s)) = IF 1 > Len(s) THEN 0 ELSE Len(s) - 1 + 1
    BY <2>1, FS_Interval
  <2> QED
    BY <1>0, <2>2
<1>2. /\ IsFiniteSet(0..(n - 1)) /\ Cardinality(0..(n - 1)) = n
  <2>1. 0 \in Int /\ n - 1 \in Int
    OBVIOUS
  <2>2. /\ IsFiniteSet(0..(n - 1))
        /\ Cardinality(0..(n - 1)) = IF 0 > n - 1 THEN 0 ELSE (n - 1) - 0 + 1
    BY <2>1, FS_Interval
  <2> QED
    BY <2>2
<1>3. g \in Bijection(1..Len(s), N)
  <2>1. g \in [1..Len(s) -> N]
    OBVIOUS
  <2>2. ASSUME NEW a \in 1..Len(s), NEW b \in 1..Len(s), g[a] = g[b]
        PROVE  a = b
    <3>1. s[a].num = s[b].num
      BY <2>2
    <3>2. ~(a < b) /\ ~(b < a)
      BY <3>1
    <3> QED
      BY <1>0, <3>2
  <2>3. \A m \in N : \E i \in 1..Len(s) : g[i] = m
    OBVIOUS
  <2> HIDE DEF g, N
  <2> QED
    BY <2>1, <2>2, <2>3, Fun_IsBij DEF IsInjective
<1>4. N \subseteq 0..(n - 1)
  OBVIOUS
<1> HIDE DEF N, g
<1>5. IsFiniteSet(N) /\ Cardinality(N) = Len(s)
  <2>1. ExistsBijection(1..Len(s), N)
    BY <1>3 DEF ExistsBijection
  <2> QED
    BY <1>1, <2>1, FS_Bijection
<1>6. Cardinality(N) <= n
  <2>1. Cardinality(N) <= Cardinality(0..(n - 1))
    BY <1>2, <1>4, FS_Subset
  <2> QED
    BY <1>2, <2>1
<1>7. Cardinality(N) = Cardinality(0..(n - 1))
  BY <1>0, <1>2, <1>5, <1>6
<1>8. N = 0..(n - 1)
  BY <1>2, <1>4, <1>7, FS_Subset
<1> QED
  BY <1>8 DEF N

LEMMA NatTypes ==
    ASSUME TypeInv
    PROVE  /\ frameCount \in Nat /\ totalSent \in Nat
           /\ log \in Seq(Results) /\ timestamps \subseteq Nat
<1>1. frameCount \in Nat /\ log \in Seq(Results)
  BY Types
<1>2. totalSent \in Nat
  BY DEF TypeInv, TypeOK, PushType
<1>3. timestamps \subseteq Frames
  BY DEF TypeInv, TypeOK, RecvType
<1>4. Frames \subseteq Nat
  BY TrackingAssumption DEF Frames
<1> QED
  BY <1>1, <1>2, <1>3, <1>4

LEMMA InitEntries == Init => Entries
<1> SUFFICES ASSUME Init PROVE Entries
  OBVIOUS
<1>1. /\ log = <<>> /\ wire = <<>> /\ sent = <<>> /\ timestamps = {} /\ ppc = "open" /\ ~allSent
      /\ frameCount = 0 /\ totalSent = 0 /\ exitedBy = ""
  BY DEF Init
<1>2. Len(log) = 0 /\ Len(wire) = 0 /\ Len(sent) = 0
  BY <1>1, EmptyType
<1>3. StampInv /\ WireInv /\ ArrivedInv
  <2>1. StampInv
    <3>1. timestamps = {}
      BY <1>1
    <3>2. \A i \in 1..Len(log) : FALSE
      BY <1>2
    <3> QED
      BY <3>1, <3>2 DEF StampInv
  <2>2. WireInv
    BY <1>2 DEF WireInv
  <2>3. ArrivedInv
    BY <1>2 DEF ArrivedInv
  <2> QED
    BY <2>1, <2>2, <2>3
<1>4. SentAll
  BY <1>1 DEF SentAll
<1> QED
  BY <1>3, <1>4 DEF Entries

LEMMA KeptEntries ==
    ASSUME Entries
    PROVE  /\ UNCHANGED <<timestamps, log, frameCount, ppc>> => StampInv'
           /\ UNCHANGED <<wire, sent>> => WireInv'
           /\ UNCHANGED <<wire, sent, log, desync>> => ArrivedInv'
           /\ UNCHANGED <<program, totalSent, frameCount, allSent, ppc, exitedBy, vpc, desync, log>> =>
                SentAll'
<1>1. UNCHANGED <<timestamps, log, frameCount, ppc>> => StampInv'
  BY DEF Entries, StampInv
<1>2. UNCHANGED <<wire, sent>> => WireInv'
  BY DEF Entries, WireInv
<1>3. UNCHANGED <<wire, sent, log, desync>> => ArrivedInv'
  BY DEF Entries, ArrivedInv
<1>4. UNCHANGED <<program, totalSent, frameCount, allSent, ppc, exitedBy, vpc, desync, log>> =>
        SentAll'
  BY DEF Entries, SentAll
<1> QED
  BY <1>1, <1>2, <1>3, <1>4

\* The push thread notes the time of the frame it counts next.
LEMMA PushEntries ==
    ASSUME TypeInv, Entries, StartPush \/ JoinThreads \/ Push \/ RaceCrashes
    PROVE  Entries'
<1>1. UNCHANGED <<program, log, desync, exitedBy, vpc, wire, sent>>
  BY DEF StartPush, JoinThreads, Push, PushOpens, PushFails, PushStamps, PushWrites, PushReadEnds,
     PushCloses, RaceCrashes, Exit, recvVars, netVars, serverVars
<1>2. WireInv' /\ ArrivedInv'
  BY <1>1 DEF Entries, WireInv, ArrivedInv
<1>3. /\ frameCount \in Nat /\ totalSent \in Nat
      /\ log \in Seq(Results) /\ timestamps \subseteq Nat
  BY NatTypes
<1>4. \A i \in 1..Len(log) : log[i].num \in Nat
  BY <1>3, NumIsNat
<1>5. CASE PushStamps
  <2>1. /\ ppc = "read" /\ ppc' = "write" /\ timestamps' = timestamps \cup {frameCount}
        /\ UNCHANGED <<frameCount, totalSent, allSent>>
    BY <1>5 DEF PushStamps
  <2>2. StampInv'
    BY <1>1, <1>3, <1>4, <2>1 DEF Entries, StampInv
  <2>3. SentAll'
    BY <1>1, <2>1 DEF Entries, SentAll
  <2> QED
    BY <1>2, <2>2, <2>3 DEF Entries
<1>6. CASE PushWrites
  <2>1. /\ ppc = "write" /\ UNCHANGED <<timestamps, allSent>>
        /\ \/ /\ frameCount' = frameCount + 1 /\ ppc' = "read"
              /\ totalSent' = IF program = "tcp" THEN frameCount + 1 ELSE totalSent
           \/ ppc' = "close" /\ UNCHANGED <<frameCount, totalSent>>
    BY <1>6 DEF PushWrites
  <2>2. StampInv'
    BY <1>1, <1>3, <1>4, <2>1 DEF Entries, StampInv
  <2>3. ~allSent /\ (exitedBy = "count" => desync)
    BY <2>1 DEF Entries, SentAll
  <2>4. SentAll'
    <3>1. CASE /\ frameCount' = frameCount + 1
               /\ totalSent' = IF program = "tcp" THEN frameCount + 1 ELSE totalSent
      BY <1>1, <2>1, <2>3, <3>1 DEF Entries, SentAll
    <3>2. CASE UNCHANGED <<frameCount, totalSent>>
      BY <1>1, <2>1, <2>3, <3>2 DEF Entries, SentAll
    <3> QED
      BY <2>1, <3>1, <3>2
  <2> QED
    BY <1>2, <2>2, <2>4 DEF Entries
<1>7. CASE PushReadEnds \/ PushCloses \/ PushOpens
  <2>1. /\ UNCHANGED <<timestamps, frameCount, totalSent>>
        /\ \/ ppc = "read" /\ ppc' = "close" /\ UNCHANGED allSent
           \/ ppc = "close" /\ ppc' = "done" /\ allSent' = (program = "tcp")
           \/ ppc = "open" /\ ppc' = "read" /\ UNCHANGED allSent
    BY <1>7 DEF PushReadEnds, PushCloses, PushOpens
  <2>2. StampInv'
    BY <1>1, <2>1 DEF Entries, StampInv
  <2>3. ~allSent /\ (exitedBy = "count" => desync)
    BY <2>1 DEF Entries, SentAll
  <2>4. allSent' => program = "tcp" /\ ppc' = "done"
    BY <2>1, <2>3
  <2>5. SentAll'
    BY <1>1, <2>1, <2>3, <2>4 DEF Entries, SentAll
  <2> QED
    BY <1>2, <2>2, <2>5 DEF Entries
<1>8. CASE UNCHANGED <<pushVars, timestamps>>
  BY <1>1, <1>2, <1>8, KeptEntries DEF Entries, pushVars
<1> QED
  BY <1>5, <1>6, <1>7, <1>8 DEF StartPush, JoinThreads, Push, PushFails, RaceCrashes, Exit

\* Looking a number up takes its time out, so that it is not found again.
LEMMA MatchStamp ==
    ASSUME TypeInv, StampInv, NEW num \in Frames, NEW frame \in Frames, Match(num, frame),
           UNCHANGED pushVars
    PROVE  StampInv'
<1>1. /\ frameCount \in Nat /\ log \in Seq(Results) /\ timestamps \subseteq Nat
      /\ UNCHANGED <<frameCount, ppc>>
  BY NatTypes DEF pushVars
<1>2. CASE UNCHANGED <<log, timestamps>>
  BY <1>1, <1>2 DEF StampInv
<1>3. CASE /\ num \in timestamps /\ timestamps' = timestamps \ {num}
           /\ log' = Append(log, [num |-> num, frame |-> frame])
  <2> PICK r \in Results : r = [num |-> num, frame |-> frame]
    BY DEF Results
  <2>1. r.num = num /\ log' = Append(log, r)
    BY <1>3
  <2>2. /\ Len(log') = Len(log) + 1 /\ Len(log) \in Nat /\ log'[Len(log) + 1] = r
        /\ \A i \in 1..Len(log) : log'[i] = log[i]
    BY <1>1, <2>1, AppendType
  <2>3. \A i \in 1..Len(log') : (i \in 1..Len(log) /\ log'[i] = log[i])
                               \/ (i = Len(log) + 1 /\ log'[i].num = num)
    <3>1. \A i \in 1..Len(log') : i \in 1..Len(log) \/ i = Len(log) + 1
      BY <2>2
    <3> QED
      BY <2>1, <2>2, <3>1
  <2>4. /\ num <= frameCount /\ (ppc \in {"open", "read"} => num # frameCount)
        /\ num \notin timestamps' /\ timestamps' \subseteq timestamps
        /\ \A i \in 1..Len(log) : log[i].num # num
    BY <1>3 DEF StampInv
  <2>5. \A i, j \in 1..Len(log') : i < j => log'[i].num # log'[j].num
    <3> SUFFICES ASSUME NEW i \in 1..Len(log'), NEW j \in 1..Len(log'), i < j
                 PROVE  log'[i].num # log'[j].num
      OBVIOUS
    <3>1. i \in 1..Len(log) /\ log'[i] = log[i]
      BY <2>2, <2>3
    <3>2. CASE j \in 1..Len(log) /\ log'[j] = log[j]
      BY <3>1, <3>2 DEF StampInv
    <3>3. CASE j = Len(log) + 1 /\ log'[j].num = num
      BY <2>4, <3>1, <3>3
    <3> QED
      BY <2>3, <3>2, <3>3
  <2>6. \A i \in 1..Len(log') : log'[i].num <= frameCount /\ log'[i].num \notin timestamps'
    BY <2>3, <2>4 DEF StampInv
  <2>7. ppc \in {"open", "read"} =>
          frameCount \notin timestamps' /\ \A i \in 1..Len(log') : log'[i].num # frameCount
    BY <2>3, <2>4 DEF StampInv
  <2> QED
    BY <1>1, <2>4, <2>5, <2>6, <2>7 DEF StampInv
<1> QED
  BY <1>2, <1>3 DEF Match

LEMMA WireTail ==
    ASSUME TypeInv, WireInv, wire # <<>>, wire' = Tail(wire), UNCHANGED sent
    PROVE  /\ WireInv'
           /\ (Len(sent) - Len(wire)) + 1 \in 1..(Len(sent') - Len(wire'))
           /\ Head(wire) = sent[(Len(sent) - Len(wire)) + 1]
           /\ Len(sent') - Len(wire') = (Len(sent) - Len(wire)) + 1
<1>1. wire \in Seq(Results) /\ sent \in Seq(Results)
  BY Types
<1>2. /\ Head(wire) = wire[1] /\ Len(wire') = Len(wire) - 1 /\ Len(wire) >= 1
      /\ \A i \in 1..(Len(wire) - 1) : wire'[i] = wire[i + 1]
  BY <1>1, TailType
<1>3. Len(sent) \in Nat /\ Len(wire) \in Nat
  BY <1>1, LenProperties
<1>4. ASSUME NEW i \in 1..Len(wire')
      PROVE  wire'[i] = sent'[(Len(sent') - Len(wire')) + i]
  <2>1. wire'[i] = wire[i + 1] /\ i + 1 \in 1..Len(wire)
    BY <1>2, <1>3
  <2>2. (Len(sent') - Len(wire')) + i = (Len(sent) - Len(wire)) + (i + 1)
    BY <1>2, <1>3
  <2> QED
    BY <2>1, <2>2 DEF WireInv
<1> QED
  BY <1>2, <1>3, <1>4 DEF WireInv

LEMMA ReceiveResultEntries ==
    ASSUME TypeInv, OrderInv, Entries, ReceiveResult
    PROVE  WireInv' /\ ArrivedInv'
<1>1. /\ wire # <<>> /\ wire' = Tail(wire) /\ ~desync /\ UNCHANGED <<desync, sent>>
      /\ Match(Head(wire).num, Head(wire).frame)
  BY DEF ReceiveResult, serverVars
<1>2. /\ wire \in Seq(Results) /\ sent \in Seq(Results) /\ log \in Seq(Results)
      /\ Len(sent) \in Nat /\ Len(wire) \in Nat
  BY Types, LenProperties
<1> PICK k : k = (Len(sent) - Len(wire)) + 1
  OBVIOUS
<1>3. /\ WireInv' /\ Head(wire) = sent[k] /\ Len(sent') - Len(wire') = k
      /\ k \in 1..Len(sent) /\ k - 1 = Len(sent) - Len(wire)
  <2>1. WireInv' /\ Head(wire) = sent[k] /\ Len(sent') - Len(wire') = k
    BY <1>1, WireTail DEF Entries
  <2>2. Len(wire) >= 1 /\ Len(wire) <= Len(sent)
    BY <1>1, <1>2, TailType DEF Entries, WireInv
  <2> QED
    BY <1>2, <2>1, <2>2
<1>4. \A i \in 1..Len(log) : \E m \in 1..(k - 1) : log[i].num = sent[m].num
  BY <1>1, <1>3 DEF Entries, ArrivedInv
<1>5. \A i \in 1..Len(log) : log[i].num < sent[k].num
  <2>1. \A i, j \in 1..Len(sent) : i < j => sent[i].num < sent[j].num
    BY SentBelow DEF NumsBelow
  <2>2. ASSUME NEW i \in 1..Len(log)
        PROVE  log[i].num < sent[k].num
    <3>1. PICK m \in 1..(k - 1) : log[i].num = sent[m].num
      BY <1>4
    <3>2. m \in 1..Len(sent) /\ m < k
      BY <1>2, <1>3
    <3> QED
      BY <1>3, <2>1, <3>1, <3>2
  <2> QED
    BY <2>2
<1>6. CASE UNCHANGED log
  <2>1. \A i \in 1..Len(log) : \E m \in 1..k : log[i].num = sent[m].num
    BY <1>2, <1>3, <1>4
  <2> QED
    BY <1>1, <1>3, <1>6, <2>1 DEF Entries, ArrivedInv
<1>7. CASE log' = Append(log, [num |-> Head(wire).num, frame |-> Head(wire).frame])
  <2> PICK r \in Results : r = [num |-> Head(wire).num, frame |-> Head(wire).frame]
    BY <1>1, <1>2, TailType DEF Results
  <2>1. r.num = sent[k].num /\ log' = Append(log, r)
    BY <1>3, <1>7
  <2>2. /\ Len(log') = Len(log) + 1 /\ Len(log) \in Nat /\ log'[Len(log) + 1] = r
        /\ \A i \in 1..Len(log) : log'[i] = log[i]
    BY <1>2, <2>1, AppendType
  <2>3. \A i \in 1..Len(log') : (i \in 1..Len(log) /\ log'[i] = log[i])
                               \/ (i = Len(log) + 1 /\ log'[i].num = sent[k].num)
    <3>1. \A i \in 1..Len(log') : i \in 1..Len(log) \/ i = Len(log) + 1
      BY <2>2
    <3> QED
      BY <2>1, <2>2, <3>1
  <2>4. \A i \in 1..Len(log') : \E m \in 1..k : log'[i].num = sent[m].num
    <3>1. k \in 1..k /\ \A m \in 1..(k - 1) : m \in 1..k
      BY <1>2, <1>3
    <3> QED
      BY <1>4, <2>3, <3>1
  <2>5. \A i, j \in 1..Len(log') : i < j => log'[i].num < log'[j].num
    <3> SUFFICES ASSUME NEW i \in 1..Len(log'), NEW j \in 1..Len(log'), i < j
                 PROVE  log'[i].num < log'[j].num
      OBVIOUS
    <3>1. i \in 1..Len(log) /\ log'[i] = log[i]
      BY <2>2, <2>3
    <3>2. CASE j \in 1..Len(log) /\ log'[j] = log[j]
      BY <1>1, <3>1, <3>2 DEF Entries, ArrivedInv
    <3>3. CASE j = Len(log) + 1 /\ log'[j].num = sent[k].num
      BY <1>5, <3>1, <3>3
    <3> QED
      BY <2>3, <3>2, <3>3
  <2> QED
    BY <1>1, <1>3, <2>4, <2>5 DEF ArrivedInv
<1> QED
  BY <1>1, <1>3, <1>6, <1>7 DEF Match

\* With all frames sent, as many entries as frames are one for each.
LEMMA ChecksEntries ==
    ASSUME TypeInv, OrderInv, Entries, ReceiverChecks
    PROVE  SentAll'
<1>1. /\ vpc = "check"
      /\ UNCHANGED <<program, totalSent, frameCount, allSent, ppc, log, desync>>
      /\ \/ allSent /\ Len(log) >= totalSent /\ vpc' = "done" /\ exitedBy' = "count"
         \/ vpc' = "done" /\ exitedBy' = "timeout"
         \/ vpc' = "recv" /\ UNCHANGED exitedBy
  BY DEF ReceiverChecks, pushVars
<1>2. exitedBy # "count"
  BY <1>1 DEF Entries, SentAll
<1>3. CASE allSent /\ Len(log) >= totalSent /\ vpc' = "done" /\ exitedBy' = "count" /\ ~desync
  <2>1. log \in Seq(Results) /\ frameCount \in Nat
    BY Types
  <2>2. totalSent = frameCount /\ ppc = "done" /\ frameCount <= Len(log)
    BY <1>3, <2>1, LenProperties DEF Entries, SentAll
  <2>3. {log[i].num : i \in 1..Len(log)} = 0..(frameCount - 1)
    <3>1. \A i \in 1..Len(log) : log[i].num \in 0..(frameCount - 1)
      BY <1>3, EntriesOfFrames DEF Entries
    <3>2. \A i, j \in 1..Len(log) : i < j => log[i].num # log[j].num
      BY DEF Entries, StampInv
    <3> QED
      BY <2>1, <2>2, <3>1, <3>2, AllNumbers
  <2> QED
    BY <1>1, <1>3, <2>2, <2>3 DEF Entries, SentAll
<1>4. CASE exitedBy' # "count" \/ desync
  BY <1>1, <1>2, <1>4 DEF Entries, SentAll
<1> QED
  BY <1>1, <1>2, <1>3, <1>4

LEMMA ReceiverEntries ==
    ASSUME TypeInv, OrderInv, Entries, Receiver
    PROVE  Entries'
<1>1. UNCHANGED <<program, frameCount, totalSent, allSent, ppc, sent>> /\ UNCHANGED pushVars
  BY DEF Receiver, ReceiverConnects, ReceiverChecks, ReceiveResult, ReceiveRaces,
     ReceiveShort, ReceiveGarbage, ReceiveClosed, serverVars, pushVars
<1>2. CASE ReceiverChecks
  <2>1. UNCHANGED <<log, timestamps, desync, wire>>
    BY <1>2 DEF ReceiverChecks, netVars
  <2> QED
    BY <1>1, <1>2, <2>1, ChecksEntries, KeptEntries DEF Entries
<1>3. ASSUME ~ReceiverChecks
      PROVE  SentAll'
  <2>1. /\ vpc # "done" /\ exitedBy' \in {exitedBy, "error", "server"}
    BY <1>3 DEF Receiver, ReceiverConnects, ReceiveResult, ReceiveRaces,
     ReceiveShort, ReceiveGarbage, ReceiveClosed
  <2>2. exitedBy # "count" /\ exitedBy' # "count"
    BY <2>1 DEF Entries, SentAll
  <2> QED
    BY <1>1, <2>2 DEF Entries, SentAll
<1>4. CASE ReceiveResult
  <2>1. Head(wire) \in Results /\ Match(Head(wire).num, Head(wire).frame)
    BY <1>4, Types, TailType DEF ReceiveResult
  <2>2. StampInv'
    BY <1>1, <2>1, MatchStamp DEF Entries, Results
  <2>3. ~ReceiverChecks
    BY <1>4 DEF ReceiveResult, ReceiverChecks
  <2> QED
    BY <1>3, <1>4, <2>2, <2>3, ReceiveResultEntries DEF Entries
<1>5. CASE ReceiveShort
  <2>1. /\ Head(wire) \in Results /\ Match(Head(wire).num, Head(wire).frame)
        /\ desync' = TRUE /\ UNCHANGED wire
    BY <1>5, Types, TailType DEF ReceiveShort, netVars
  <2>2. StampInv'
    BY <1>1, <2>1, MatchStamp DEF Entries, Results
  <2>3. ~ReceiverChecks
    BY <1>5 DEF ReceiveShort, ReceiverChecks
  <2>4. WireInv' /\ ArrivedInv'
    BY <1>1, <2>1 DEF Entries, WireInv, ArrivedInv
  <2> QED
    BY <1>3, <2>2, <2>3, <2>4 DEF Entries
<1>6. CASE ReceiveGarbage
  <2>1. /\ desync /\ desync' /\ wire # <<>> /\ wire' = Tail(wire) /\ vpc = "recv"
        /\ (\E num \in Frames : Match(num, MaxFrames - 1)) \/ UNCHANGED <<log, timestamps>>
    BY <1>6 DEF ReceiveGarbage
  <2>2. StampInv'
    <3>1. CASE UNCHANGED <<log, timestamps>>
      BY <1>1, <3>1 DEF Entries, StampInv
    <3>2. CASE \E num \in Frames : Match(num, MaxFrames - 1)
      <4>1. MaxFrames - 1 \in Frames
        BY <3>2, TrackingAssumption DEF Frames
      <4> QED
        BY <1>1, <3>2, <4>1, MatchStamp DEF Entries
    <3> QED
      BY <2>1, <3>1, <3>2
  <2>3. ~ReceiverChecks
    BY <2>1 DEF ReceiverChecks
  <2>4. WireInv' /\ ArrivedInv'
    BY <1>1, <2>1, WireTail DEF Entries, ArrivedInv
  <2> QED
    BY <1>3, <2>2, <2>3, <2>4 DEF Entries
<1>7. CASE ReceiveRaces
  <2>1. /\ UNCHANGED <<log, timestamps, desync>> /\ wire # <<>> /\ wire' = Tail(wire) /\ vpc = "recv"
    BY <1>7 DEF ReceiveRaces
  <2>2. StampInv'
    BY <1>1, <2>1 DEF Entries, StampInv
  <2>3. ~ReceiverChecks
    BY <2>1 DEF ReceiverChecks
  <2>4. WireInv' /\ Len(sent') - Len(wire') = (Len(sent) - Len(wire)) + 1
    BY <1>1, <2>1, WireTail DEF Entries
  <2>5. Len(sent) \in Nat /\ Len(wire) \in Nat
    BY Types, LenProperties
  <2>6. ArrivedInv'
    <3>1. 1..(Len(sent) - Len(wire)) \subseteq 1..(Len(sent') - Len(wire'))
      BY <2>4, <2>5
    <3> QED
      BY <1>1, <2>1, <3>1 DEF Entries, ArrivedInv
  <2> QED
    BY <1>3, <2>2, <2>3, <2>4, <2>6 DEF Entries
<1>8. CASE ReceiverConnects \/ ReceiveClosed
  <2>1. UNCHANGED <<log, timestamps, desync, wire>> /\ vpc # "check"
    BY <1>8 DEF ReceiverConnects, ReceiveClosed, netVars
  <2>2. ~ReceiverChecks
    BY <2>1 DEF ReceiverChecks
  <2> QED
    BY <1>1, <1>3, <2>1, <2>2, KeptEntries DEF Entries
<1> QED
  BY <1>2, <1>4, <1>5, <1>6, <1>7, <1>8 DEF Receiver

\* What the server sends goes to the end of what is on its way.
LEMMA ServerEntries ==
    ASSUME TypeInv, Entries, Server \/ Checkers
    PROVE  Entries'
<1>1. UNCHANGED <<program, frameCount, totalSent, allSent, ppc, timestamps, log, desync, exitedBy, vpc>>
  BY DEF Server, Checkers, ServerOpens, ServerRaises, ServerLeaves, ServerAccepts, ServerWaits,
     WaitEnds, WaitTimesOut, SendResult, CheckerPops, StalePops, pushVars, recvVars
<1>2. StampInv' /\ SentAll'
  BY <1>1, KeptEntries
<1>3. CASE UNCHANGED <<sent, wire>>
  BY <1>1, <1>2, <1>3, KeptEntries DEF Entries
<1>4. CASE slot # <<>> /\ sent' = Append(sent, Head(slot)) /\ wire' = Append(wire, Head(slot))
  <2>1. sent \in Seq(Results) /\ wire \in Seq(Results) /\ Head(slot) \in Results
    BY <1>4, Types, TailType
  <2>2. /\ Len(sent) \in Nat /\ Len(wire) \in Nat /\ Len(wire) <= Len(sent)
        /\ Len(sent') = Len(sent) + 1 /\ Len(wire') = Len(wire) + 1
        /\ sent'[Len(sent) + 1] = Head(slot) /\ wire'[Len(wire) + 1] = Head(slot)
        /\ \A i \in 1..Len(sent) : sent'[i] = sent[i]
        /\ \A i \in 1..Len(wire) : wire'[i] = wire[i]
    BY <1>4, <2>1, AppendType, LenProperties DEF Entries, WireInv
  <2>3. Len(sent') - Len(wire') = Len(sent) - Len(wire)
    BY <2>2
  <2>4. ASSUME NEW i \in 1..Len(wire')
        PROVE  wire'[i] = sent'[(Len(sent') - Len(wire')) + i]
    <3>1. CASE i = Len(wire) + 1
      <4>1. (Len(sent) - Len(wire)) + i = Len(sent) + 1
        BY <2>2, <3>1
      <4> QED
        BY <2>2, <2>3, <3>1, <4>1
    <3>2. CASE i \in 1..Len(wire)
      <4>1. (Len(sent) - Len(wire)) + i \in 1..Len(sent)
        BY <2>2, <3>2
      <4>2. wire[i] = sent[(Len(sent) - Len(wire)) + i]
        BY <3>2 DEF Entries, WireInv
      <4> QED
        BY <2>2, <2>3, <3>2, <4>1, <4>2
    <3> QED
      BY <2>2, <3>1, <3>2
  <2>5. \A k \in 1..(Len(sent) - Len(wire)) : sent'[k] = sent[k]
    BY <2>2
  <2>6. WireInv'
    BY <2>2, <2>4 DEF WireInv
  <2>7. ArrivedInv'
    <3>1. ~desync => \A i \in 1..Len(log) :
                      \E k \in 1..(Len(sent) - Len(wire)) : log[i].num = sent'[k].num
      BY <2>5 DEF Entries, ArrivedInv
    <3> QED
      BY <1>1, <2>3, <3>1 DEF Entries, ArrivedInv
  <2> QED
    BY <1>2, <2>6, <2>7 DEF Entries
<1>5. CASE SendResult
  <2>1. slot # <<>>
    BY <1>5 DEF SendResult, TypeInv, TypeOK, ServerType
  <2> QED
    BY <1>3, <1>4, <1>5, <2>1 DEF SendResult
<1>6. CASE UNCHANGED sent /\ UNCHANGED wire
  BY <1>3, <1>6
<1> QED
  BY <1>5, <1>6 DEF Server, Checkers, ServerOpens, ServerRaises, ServerLeaves, ServerAccepts,
     ServerWaits, WaitEnds, WaitTimesOut, CheckerPops, StalePops, netVars, serverVars

LEMMA StepEntries == TypeInv /\ OrderInv /\ Entries /\ [Next]_vars => Entries'
<1> SUFFICES ASSUME TypeInv, OrderInv, Entries, [Next]_vars PROVE Entries'
  OBVIOUS
<1>1. CASE UNCHANGED vars
  BY <1>1, KeptEntries DEF Entries, vars, pushVars, recvVars, netVars, serverVars
<1>2. CASE Detector \/ StaleCrashes \/ SendKills
  <2>1. UNCHANGED <<program, pushVars, timestamps, recvVars, wire, sent>>
    BY <1>2 DEF Detector, DetectorOpens, DetectFrame, VideoEnds, LowerFlags, DetectorEnds,
       StaleCrashes, SendKills, netVars, serverVars
  <2> QED
    BY <2>1, KeptEntries DEF Entries, pushVars, recvVars
<1> QED
  BY <1>1, <1>2, PushEntries, ReceiverEntries, ServerEntries DEF Next

\* No frame is logged twice, whatever fails and however the lookups race; entries are
\* in the order of detection while whole messages are read, and never for a frame that
\* was not sent (receive_yolo_results and push_stream_directly).
THEOREM TrackingLogs == Spec => []LogIsOrdered
<1>1. TypeInv /\ Entries => LogIsOrdered
  <2> SUFFICES ASSUME TypeInv, Entries PROVE LogIsOrdered
    OBVIOUS
  <2>1. log \in Seq(Results) /\ DOMAIN log = 1..Len(log) /\ Len(log) \in Nat
    BY Types, LenProperties
  <2>2. ~desync => Increasing(Nums(log))
    BY <2>1, NumsType DEF Entries, ArrivedInv, Increasing
  <2>3. ASSUME NEW i \in 1..Len(log), NEW j \in 1..Len(log), log[i].num = log[j].num
        PROVE  i = j
    <3>1. ~(i < j) /\ ~(j < i)
      BY <2>3 DEF Entries, StampInv
    <3> QED
      BY <2>1, <3>1
  <2> QED
    BY <2>1, <2>2, <2>3 DEF LogIsOrdered, Entries, StampInv
<1> QED
  BY <1>1, InitType, StepType, InitOrder, StepOrder, InitEntries, StepEntries, PTL DEF Spec

\* When the TCP client leaves because it has as many entries as it sent frames, every
\* frame has been sent and has its entry: counting is enough, since no frame is logged
\* twice and none that was not sent.
THEOREM TrackingCounts == Spec => []CountMeansAnswered
<1>1. TypeInv /\ Entries => CountMeansAnswered
  <2> SUFFICES ASSUME TypeInv, Entries PROVE CountMeansAnswered
    OBVIOUS
  <2>1. DOMAIN log = 1..Len(log)
    BY Types, LenProperties
  <2> QED
    BY <2>1 DEF CountMeansAnswered, Entries, SentAll
<1> QED
  BY <1>1, InitType, StepType, InitOrder, StepOrder, InitEntries, StepEntries, PTL DEF Spec
=============================================================================
