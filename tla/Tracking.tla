------------------------------ MODULE Tracking --------------------------------
(***************************************************************************)
(* The video-tracking pair.  The client's push thread sends a video and    *)
(* notes when each frame left; the detector decodes it, detects, numbers   *)
(* what it detected and queues the results; its TCP result server sends    *)
(* them back; the client's detection thread matches each number with the   *)
(* time noted and logs a latency, until all frames are answered, the       *)
(* server leaves, or it has waited too long.                               *)
(*                                                                         *)
(* There are two pairs, over TCP and over RTP.  The detectors are the same *)
(* code; the RTP client counts no frames and says to nobody that all were  *)
(* sent.  What happens to a frame between the detector's decoder and its   *)
(* result queue is in YoloShm, and is one step here.                       *)
(***************************************************************************)
EXTENDS Integers, Sequences, OrderedSequences

CONSTANTS Programs,   \* the pairs considered
          MaxFrames,  \* bound: frames of the input
          MaxStale,   \* bound: checker threads left behind by waits that timed out
          Faults      \* the kinds of failure that may happen

FaultKinds == {"client", "connect", "write", "frames", "race", "partial",
               "detector", "server", "send", "end"}

ASSUME TrackingAssumption ==
    /\ Programs \subseteq {"tcp", "rtp"}
    /\ MaxFrames \in Nat
    /\ MaxStale \in Nat
    /\ Faults \subseteq FaultKinds

VARIABLES
    program,      \* the pair that runs
    \* the client
    cmain,        \* main: where it is
    ppc,          \* push_stream_directly: where it is
    frameCount,   \* frame_count
    totalSent,    \* total_frames_sent
    allSent,      \* all_frames_sent
    timestamps,   \* frame_timestamps: the frames whose time is noted
    vpc,          \* receive_yolo_results: where it is
    log,          \* entries logged: the number looked up, the frame it was for
    exitedBy,     \* history: what ended the receiving loop
    desync,       \* the receiver reads the middle of a message as its start
    \* between them
    stream,       \* frames on their way to the detector
    streamEnd,    \* the detector is told there are no more
    conn,         \* the TCP connection for the results
    wire,         \* results on their way to the client
    \* the detector
    dmain,        \* main: where it is
    counter,      \* frame_counter: the number the next frame gets
    results,      \* yolo_result_queue
    running,      \* tcp_server_running
    spc,          \* tcp_result_server_thread: where it is
    checker,      \* the checker thread of this wait has not popped yet
    stale,        \* checker threads of earlier waits that have not popped yet
    slot,         \* the result the wait was given
    produced,     \* history: results queued
    sent,         \* history: results sent
    shifted,      \* history: a frame was lost before it was numbered
    disturbed     \* history: a wait timed out or a send failed

pushVars   == <<ppc, frameCount, totalSent, allSent>>
recvVars   == <<vpc, log, exitedBy, desync>>
netVars    == <<stream, streamEnd, conn, wire>>
serverVars == <<running, spc, checker, stale, slot, sent, disturbed>>
detectVars == <<dmain, counter, results, produced, shifted>>
vars == <<program, cmain, pushVars, timestamps, recvVars, netVars, detectVars, serverVars>>

Frames  == 0..(MaxFrames - 1)
Results == [num : Frames, frame : Frames]

PushType ==
    /\ cmain \in {"detect", "push", "join", "done", "aborted"}
    /\ ppc \in {"open", "read", "write", "close", "done"}
    /\ frameCount \in 0..MaxFrames
    /\ totalSent \in 0..MaxFrames
    /\ allSent \in BOOLEAN

RecvType ==
    /\ timestamps \subseteq Frames
    /\ vpc \in {"connect", "check", "recv", "done"}
    /\ log \in Seq(Results)
    /\ exitedBy \in {"", "count", "timeout", "server", "error"}
    /\ desync \in BOOLEAN

NetType ==
    /\ stream \in Seq(Frames)
    /\ streamEnd \in BOOLEAN
    /\ conn \in {"none", "pending", "open", "closed"}
    /\ wire \in Seq(Results)

DetectType ==
    /\ dmain \in {"init", "run", "lower", "join", "done", "aborted"}
    /\ counter \in 0..MaxFrames
    /\ results \in Seq(Results)
    /\ produced \in Seq(Results)
    /\ shifted \in BOOLEAN

\* A result is held when there is one to send, and never two.
ServerType ==
    /\ running \in BOOLEAN
    /\ spc \in {"open", "raise", "top", "wait", "send", "done"}
    /\ checker \in BOOLEAN
    /\ stale \in 0..MaxStale
    /\ slot \in Seq(Results)
    /\ Len(slot) <= 1
    /\ spc = "send" => slot # <<>>
    /\ sent \in Seq(Results)
    /\ disturbed \in BOOLEAN

TypeOK == program \in Programs /\ PushType /\ RecvType /\ NetType /\ DetectType /\ ServerType

Init ==
    /\ program \in Programs
    /\ cmain = "detect" /\ ppc = "open" /\ frameCount = 0 /\ totalSent = 0 /\ allSent = FALSE
    /\ timestamps = {} /\ vpc = "connect" /\ log = <<>> /\ exitedBy = "" /\ desync = FALSE
    /\ stream = <<>> /\ streamEnd = FALSE /\ conn = "none" /\ wire = <<>>
    /\ dmain = "init" /\ counter = 0 /\ results = <<>> /\ produced = <<>> /\ shifted = FALSE
    /\ running = FALSE /\ spc = "open" /\ checker = FALSE /\ stale = 0 /\ slot = <<>>
    /\ sent = <<>> /\ disturbed = FALSE

ClientRuns   == cmain \notin {"done", "aborted"}
DetectorRuns == dmain \notin {"done", "aborted"}

\* The client has closed its end of the results' connection.
HungUp == vpc = "done" \/ cmain = "aborted"

-----------------------------------------------------------------------------
(* The client: main *)

\* The detection thread is created first; main sleeps before it creates the push
\* thread.
StartPush ==
    /\ cmain = "detect"
    /\ cmain' = "push"
    /\ UNCHANGED <<program, pushVars, timestamps, recvVars, netVars, detectVars, serverVars>>

\* exit(1), from the set-up of the push thread or where a race has corrupted
\* memory; the sockets are closed.
Exit ==
    /\ cmain' = "aborted"
    /\ streamEnd' = (streamEnd \/ program = "tcp")
    /\ UNCHANGED <<program, pushVars, timestamps, recvVars, stream, conn, wire, detectVars, serverVars>>

\* main joins the push thread, then the detection thread.
JoinThreads ==
    /\ \/ cmain = "push" /\ ppc = "done" /\ cmain' = "join"
       \/ cmain = "join" /\ vpc = "done" /\ cmain' = "done"
    /\ UNCHANGED <<program, pushVars, timestamps, recvVars, netVars, detectVars, serverVars>>

-----------------------------------------------------------------------------
(* The client: push_stream_directly *)

PushOpens ==
    /\ cmain = "push" /\ ppc = "open"
    /\ ppc' = "read"
    /\ UNCHANGED <<program, cmain, frameCount, totalSent, allSent, timestamps, recvVars, netVars,
                   detectVars, serverVars>>

PushFails ==
    /\ cmain = "push" /\ ppc = "open"
    /\ "client" \in Faults
    /\ Exit

\* A frame is read and, when it is due, the time it leaves is noted.
PushStamps ==
    /\ ClientRuns /\ ppc = "read"
    /\ frameCount < MaxFrames
    /\ timestamps' = timestamps \cup {frameCount}
    /\ ppc' = "write"
    /\ UNCHANGED <<program, cmain, frameCount, totalSent, allSent, recvVars, netVars, detectVars,
                   serverVars>>

\* The frame is sent, and counted: in the TCP client in total_frames_sent too.
\* A failed write ends the loop.
PushWrites ==
    /\ ClientRuns /\ ppc = "write"
    /\ \/ /\ stream' = Append(stream, frameCount)
          /\ frameCount' = frameCount + 1
          /\ totalSent' = IF program = "tcp" THEN frameCount + 1 ELSE totalSent
          /\ ppc' = "read"
       \/ "write" \in Faults /\ ppc' = "close" /\ UNCHANGED <<stream, frameCount, totalSent>>
    /\ UNCHANGED <<program, cmain, allSent, timestamps, recvVars, streamEnd, conn, wire,
                   detectVars, serverVars>>

PushReadEnds ==
    /\ ClientRuns /\ ppc = "read"
    /\ ppc' = "close"
    /\ UNCHANGED <<program, cmain, frameCount, totalSent, allSent, timestamps, recvVars, netVars,
                   detectVars, serverVars>>

\* The trailer ends the stream, unless over RTP it is lost; only the TCP client
\* then says that all frames are sent.
PushCloses ==
    /\ ClientRuns /\ ppc = "close"
    /\ ppc' = "done"
    /\ \/ streamEnd' = TRUE
       \/ program = "rtp" /\ "end" \in Faults /\ UNCHANGED streamEnd
    /\ allSent' = (program = "tcp")
    /\ UNCHANGED <<program, cmain, frameCount, totalSent, timestamps, recvVars, stream, conn, wire,
                   detectVars, serverVars>>

Push ==
    PushOpens \/ PushFails \/ PushStamps \/ PushWrites \/ PushReadEnds \/ PushCloses

-----------------------------------------------------------------------------
(* The client: receive_yolo_results *)

\* The server listens from the end of its set-up until its thread or the
\* detector ends.
Listening == DetectorRuns /\ spc \notin {"open", "done"}

\* connect with a timeout of five seconds, once.
ReceiverConnects ==
    /\ ClientRuns /\ vpc = "connect"
    /\ \/ Listening /\ conn' = "pending" /\ vpc' = "check" /\ UNCHANGED exitedBy
       \/ ~Listening /\ vpc' = "done" /\ exitedBy' = "error" /\ UNCHANGED conn
       \/ "connect" \in Faults /\ vpc' = "done" /\ exitedBy' = "error" /\ UNCHANGED conn
    /\ UNCHANGED <<program, cmain, pushVars, timestamps, log, desync, stream, streamEnd, wire,
                   detectVars, serverVars>>

\* Mutant: the counters are compared before all frames are sent.
MutReceiverChecks ==
    /\ ClientRuns /\ vpc = "check"
    /\ \/ Len(log) >= totalSent /\ vpc' = "done" /\ exitedBy' = "count"
       \/ Len(log) < totalSent /\ vpc' = "recv" /\ UNCHANGED exitedBy
    /\ UNCHANGED <<program, cmain, pushVars, timestamps, log, desync, netVars, detectVars, serverVars>>

\* The loop's own condition: with all frames sent, every one answered or too long
\* a silence ends it; frames_processed is the number of entries logged.
ReceiverChecks ==
    /\ ClientRuns /\ vpc = "check"
    /\ \/ allSent /\ Len(log) >= totalSent /\ vpc' = "done" /\ exitedBy' = "count"
       \/ allSent /\ Len(log) < totalSent /\ vpc' = "done" /\ exitedBy' = "timeout"
       \/ (allSent => Len(log) < totalSent) /\ vpc' = "recv" /\ UNCHANGED exitedBy
    /\ UNCHANGED <<program, cmain, pushVars, timestamps, log, desync, netVars, detectVars, serverVars>>

\* Mutant: the time noted stays in the map.
MutMatchKeeps(num, frame) ==
    IF num \in timestamps
    THEN log' = Append(log, [num |-> num, frame |-> frame]) /\ UNCHANGED timestamps
    ELSE UNCHANGED <<log, timestamps>>

\* Mutant: the number is counted from one here, from zero there.
MutMatchNext(num, frame) ==
    IF num + 1 \in timestamps
    THEN /\ log' = Append(log, [num |-> num + 1, frame |-> frame])
         /\ timestamps' = timestamps \ {num + 1}
    ELSE UNCHANGED <<log, timestamps>>

\* The time noted for number num is looked up, logged and erased.
Match(num, frame) ==
    IF num \in timestamps
    THEN /\ log' = Append(log, [num |-> num, frame |-> frame])
         /\ timestamps' = timestamps \ {num}
    ELSE UNCHANGED <<log, timestamps>>

\* A whole message is read.
ReceiveResult ==
    /\ ClientRuns /\ vpc = "recv"
    /\ wire # <<>> /\ ~desync
    /\ Match(Head(wire).num, Head(wire).frame)
    /\ wire' = Tail(wire)
    /\ vpc' = "check"
    /\ UNCHANGED <<program, cmain, pushVars, exitedBy, desync, stream, streamEnd, conn, detectVars,
                   serverVars>>

\* The map has no lock: while the push thread inserts, the lookup may miss.
ReceiveRaces ==
    /\ ClientRuns /\ vpc = "recv"
    /\ wire # <<>> /\ ~desync
    /\ ppc = "read" /\ "race" \in Faults
    /\ wire' = Tail(wire)
    /\ vpc' = "check"
    /\ UNCHANGED <<program, cmain, pushVars, timestamps, log, exitedBy, desync, stream, streamEnd, conn,
                   detectVars, serverVars>>

\* It may do worse.
RaceCrashes ==
    /\ ClientRuns /\ vpc = "recv"
    /\ wire # <<>>
    /\ ppc = "read" /\ "race" \in Faults
    /\ Exit

\* recv gives less than the detections of a frame: its latency is logged all the
\* same, and the rest, still to come, is read as a header.
ReceiveShort ==
    /\ ClientRuns /\ vpc = "recv"
    /\ wire # <<>> /\ ~desync
    /\ "partial" \in Faults
    /\ Match(Head(wire).num, Head(wire).frame)
    /\ desync' = TRUE
    /\ vpc' = "check"
    /\ UNCHANGED <<program, cmain, pushVars, exitedBy, netVars, detectVars, serverVars>>

\* From there eight bytes may be any number, or too few to be a header.  What is
\* left of a message is read once.
ReceiveGarbage ==
    /\ ClientRuns /\ vpc = "recv"
    /\ desync /\ wire # <<>>
    /\ \/ /\ \E num \in Frames : Match(num, MaxFrames - 1)
          /\ vpc' = "check"
          /\ UNCHANGED exitedBy
       \/ vpc' = "done" /\ exitedBy' = "error" /\ UNCHANGED <<log, timestamps>>
    /\ wire' = Tail(wire)
    /\ UNCHANGED <<program, cmain, pushVars, desync, stream, streamEnd, conn, detectVars, serverVars>>

\* Mutant: recv's 0 is taken for no data yet.
MutReceiveClosed ==
    /\ ClientRuns /\ vpc = "recv"
    /\ wire = <<>> /\ conn = "closed"
    /\ UNCHANGED vars

\* recv returns 0: the server has closed the connection.
ReceiveClosed ==
    /\ ClientRuns /\ vpc = "recv"
    /\ wire = <<>> /\ conn = "closed"
    /\ vpc' = "done"
    /\ exitedBy' = "server"
    /\ UNCHANGED <<program, cmain, pushVars, timestamps, log, desync, netVars, detectVars, serverVars>>

Receiver ==
    \/ ReceiverConnects \/ ReceiverChecks \/ ReceiveResult \/ ReceiveRaces
    \/ ReceiveShort \/ ReceiveGarbage \/ ReceiveClosed

-----------------------------------------------------------------------------
(* The detector: main, the decoder and the processing threads *)

Closed(c) == IF c \in {"pending", "open"} THEN "closed" ELSE c

\* initialize_decoder waits for the video.  When it fails main returns with
\* threads it has not joined, and the program is terminated.
DetectorOpens ==
    /\ dmain = "init" /\ ppc # "open"
    /\ \/ dmain' = "run" /\ UNCHANGED conn
       \/ "detector" \in Faults /\ dmain' = "aborted" /\ conn' = Closed(conn)
    /\ UNCHANGED <<program, cmain, pushVars, timestamps, recvVars, stream, streamEnd, wire, counter,
                   results, produced, shifted, serverVars>>

\* A frame is decoded, numbered, detected in and its result queued; or it is lost
\* before it gets a number, on the network or in the decoder, or after.
DetectFrame ==
    /\ dmain = "run"
    /\ stream # <<>>
    /\ stream' = Tail(stream)
    /\ LET result == [num |-> counter, frame |-> Head(stream)]
       IN \/ /\ results' = Append(results, result)
             /\ produced' = Append(produced, result)
             /\ counter' = counter + 1
             /\ UNCHANGED shifted
          \/ /\ "frames" \in Faults
             /\ shifted' = TRUE
             /\ UNCHANGED <<counter, results, produced>>
          \/ /\ "frames" \in Faults
             /\ counter' = counter + 1
             /\ UNCHANGED <<results, produced, shifted>>
    /\ UNCHANGED <<program, cmain, pushVars, timestamps, recvVars, streamEnd, conn, wire, dmain,
                   serverVars>>

\* The video has ended and the decoder and processing threads are joined.
VideoEnds ==
    /\ dmain = "run"
    /\ stream = <<>> /\ streamEnd
    /\ dmain' = "lower"
    /\ UNCHANGED <<program, cmain, pushVars, timestamps, recvVars, netVars, counter, results, produced,
                   shifted, serverVars>>

LowerFlags ==
    /\ dmain = "lower"
    /\ running' = FALSE
    /\ dmain' = "join"
    /\ UNCHANGED <<program, cmain, pushVars, timestamps, recvVars, netVars, counter, results, produced,
                   shifted, spc, checker, stale, slot, sent, disturbed>>

\* main joins the result server; cleanup ends the program and its threads.
DetectorEnds ==
    /\ dmain = "join" /\ spc = "done"
    /\ dmain' = "done"
    /\ conn' = Closed(conn)
    /\ UNCHANGED <<program, cmain, pushVars, timestamps, recvVars, stream, streamEnd, wire, counter,
                   results, produced, shifted, serverVars>>

Detector == DetectorOpens \/ DetectFrame \/ VideoEnds \/ LowerFlags \/ DetectorEnds

-----------------------------------------------------------------------------
(* The detector: tcp_result_server_thread *)

ServerOpens ==
    /\ DetectorRuns /\ spc = "open"
    /\ \/ spc' = "raise"
       \/ "server" \in Faults /\ spc' = "done"
    /\ UNCHANGED <<program, cmain, pushVars, timestamps, recvVars, netVars, detectVars, running, checker,
                   stale, slot, sent, disturbed>>

\* tcp_server_running = true, however late the thread comes to it.
ServerRaises ==
    /\ DetectorRuns /\ spc = "raise"
    /\ running' = TRUE
    /\ spc' = "top"
    /\ UNCHANGED <<program, cmain, pushVars, timestamps, recvVars, netVars, detectVars, checker, stale,
                   slot, sent, disturbed>>

\* Mutant: the queue is emptied when the server leaves.
MutServerLeaves ==
    /\ DetectorRuns /\ spc = "top"
    /\ ~running
    /\ spc' = "done"
    /\ results' = <<>>
    /\ conn' = Closed(conn)
    /\ UNCHANGED <<program, cmain, pushVars, timestamps, recvVars, stream, streamEnd, wire, dmain,
                   counter, produced, shifted,
                   running, checker, stale, slot, sent, disturbed>>

\* The loop's condition fails: what is still queued is not sent.
ServerLeaves ==
    /\ DetectorRuns /\ spc = "top"
    /\ ~running
    /\ spc' = "done"
    /\ conn' = Closed(conn)
    /\ UNCHANGED <<program, cmain, pushVars, timestamps, recvVars, stream, streamEnd, wire, detectVars,
                   running, checker, stale, slot, sent, disturbed>>

ServerAccepts ==
    /\ DetectorRuns /\ spc = "top"
    /\ running /\ conn = "pending"
    /\ conn' = "open"
    /\ UNCHANGED <<program, cmain, pushVars, timestamps, recvVars, stream, streamEnd, wire, detectVars,
                   serverVars>>

\* A thread that pops the queue is started for this one wait.
ServerWaits ==
    /\ DetectorRuns /\ spc = "top"
    /\ running /\ conn = "open"
    /\ checker' = TRUE
    /\ slot' = <<>>
    /\ spc' = "wait"
    /\ UNCHANGED <<program, cmain, pushVars, timestamps, recvVars, netVars, detectVars, running, stale,
                   sent, disturbed>>

\* The wait's checker pops a result and hands it over.
CheckerPops ==
    /\ DetectorRuns /\ spc = "wait" /\ checker
    /\ results # <<>>
    /\ results' = Tail(results)
    /\ slot' = <<Head(results)>>
    /\ checker' = FALSE
    /\ UNCHANGED <<program, cmain, pushVars, timestamps, recvVars, netVars, dmain, counter, produced,
                   shifted, running, spc, stale, sent, disturbed>>

\* The checker of a wait that timed out pops a result and writes it where that
\* wait's variables were: it is lost, or it appears as this wait's.
StalePops ==
    /\ DetectorRuns /\ stale > 0
    /\ results # <<>>
    /\ results' = Tail(results)
    /\ stale' = stale - 1
    /\ \/ UNCHANGED slot
       \/ spc = "wait" /\ slot' = <<Head(results)>>
    /\ UNCHANGED <<program, cmain, pushVars, timestamps, recvVars, netVars, dmain, counter, produced,
                   shifted, running, spc, checker, sent, disturbed>>

\* Or it destroys what lies there now.
StaleCrashes ==
    /\ DetectorRuns /\ stale > 0
    /\ results # <<>>
    /\ dmain' = "aborted"
    /\ conn' = Closed(conn)
    /\ UNCHANGED <<program, cmain, pushVars, timestamps, recvVars, stream, streamEnd, wire, counter,
                   results, produced, shifted, serverVars>>

WaitEnds ==
    /\ DetectorRuns /\ spc = "wait"
    /\ slot # <<>>
    /\ spc' = "send"
    /\ stale' = IF checker THEN stale + 1 ELSE stale
    /\ checker' = FALSE
    /\ UNCHANGED <<program, cmain, pushVars, timestamps, recvVars, netVars, detectVars, running, slot,
                   sent, disturbed>>

\* One second without a result: the checker is left behind, and the connection is
\* looked at.
WaitTimesOut ==
    /\ DetectorRuns /\ spc = "wait"
    /\ slot = <<>> /\ checker
    /\ stale < MaxStale \/ ~running
    /\ stale' = IF stale < MaxStale THEN stale + 1 ELSE stale
    /\ checker' = FALSE
    /\ disturbed' = TRUE
    /\ spc' = "top"
    /\ \/ UNCHANGED conn
       \/ HungUp /\ conn' = "closed"
    /\ UNCHANGED <<program, cmain, pushVars, timestamps, recvVars, stream, streamEnd, wire, detectVars,
                   running, slot, sent>>

\* Mutant: a result that was sent stays in its variable and is sent again.
MutSendResult ==
    /\ DetectorRuns /\ spc = "send"
    /\ \/ /\ sent' = Append(sent, Head(slot))
          /\ wire' = Append(wire, Head(slot))
          /\ UNCHANGED <<conn, disturbed>>
       \/ /\ ("send" \notin Faults => HungUp)
          /\ conn' = "closed"
          /\ disturbed' = TRUE
          /\ UNCHANGED <<sent, wire>>
    /\ slot' = slot
    /\ spc' \in {"top", "send"}
    /\ UNCHANGED <<program, cmain, pushVars, timestamps, recvVars, stream, streamEnd, detectVars,
                   running, checker, stale>>

\* The result is sent; or the send fails, the connection is closed and the result
\* is gone.
SendResult ==
    /\ DetectorRuns /\ spc = "send"
    /\ \/ /\ sent' = Append(sent, Head(slot))
          /\ wire' = Append(wire, Head(slot))
          /\ UNCHANGED <<conn, disturbed>>
       \/ /\ ("send" \notin Faults => HungUp)
          /\ conn' = "closed"
          /\ disturbed' = TRUE
          /\ UNCHANGED <<sent, wire>>
    /\ slot' = <<>>
    /\ spc' = "top"
    /\ UNCHANGED <<program, cmain, pushVars, timestamps, recvVars, stream, streamEnd, detectVars,
                   running, checker, stale>>

\* The first send to a client that has hung up is answered with a reset, a later one
\* raises SIGPIPE, which nobody handles: the detector is ended.
SendKills ==
    /\ DetectorRuns /\ spc = "send"
    /\ HungUp /\ wire # <<>>
    /\ dmain' = "aborted"
    /\ conn' = Closed(conn)
    /\ UNCHANGED <<program, cmain, pushVars, timestamps, recvVars, stream, streamEnd, wire, counter,
                   results, produced, shifted, serverVars>>

Server ==
    \/ ServerOpens \/ ServerRaises \/ ServerLeaves \/ ServerAccepts \/ ServerWaits
    \/ WaitEnds \/ WaitTimesOut \/ SendResult

Checkers == CheckerPops \/ StalePops

-----------------------------------------------------------------------------

Next ==
    \/ StartPush \/ JoinThreads \/ Push \/ Receiver \/ RaceCrashes
    \/ Detector \/ Server \/ Checkers \/ StaleCrashes \/ SendKills

\* Every thread of both programs keeps running; the input ends.
Fairness ==
    /\ WF_vars(StartPush \/ JoinThreads) /\ WF_vars(Push) /\ WF_vars(Receiver)
    /\ WF_vars(Detector) /\ WF_vars(Server) /\ WF_vars(Checkers)

Spec     == Init /\ [][Next]_vars
FairSpec == Spec /\ Fairness

-----------------------------------------------------------------------------
(* Properties *)

Nums(s) == [i \in DOMAIN s |-> s[i].num]

\* Checker threads that outlived their waits race for the queue with the one of
\* this wait, and a send may fail: what is sent is still in the order of detection,
\* nothing twice.
ResultsInOrder == Increasing(Nums(sent))

\* Unless a wait timed out or a send failed no result is lost between the queue
\* and the connection.
ResultsAreKept == ~disturbed => produced = sent \o slot \o results

\* A result is matched with the time of the frame it came from, unless a frame
\* was lost before it was numbered: from then on every latency is another's.
LatencyIsItsFrames == ~shifted /\ ~desync => \A i \in DOMAIN log : log[i].num = log[i].frame

\* No frame is logged twice, in order while whole messages are read, and none
\* before it was sent.
LogIsOrdered ==
    /\ ~desync => Increasing(Nums(log))
    /\ \A i, j \in DOMAIN log : log[i].num = log[j].num => i = j
    /\ \A i \in DOMAIN log : log[i].num <= frameCount

\* When the receiver leaves because the counters agree, all frames have been sent
\* and every one of them is in the log.
CountMeansAnswered ==
    exitedBy = "count" /\ ~desync =>
        ppc = "done" /\ {log[i].num : i \in DOMAIN log} = 0..(frameCount - 1)

ClientEnded == cmain \in {"done", "aborted"}

\* However the connection ends, the receiver ends.
ClosedConnectionEnds == (conn = "closed") ~> (vpc = "done" \/ cmain = "aborted")

\* When the detector's main lowers the flag the result server has raised, both
\* programs end, whatever happened before.
LoweredFlagEndsAll == (dmain = "lower" /\ running) ~> (ClientEnded /\ ~DetectorRuns)

\* Who is told of the end, by the connection or by the flag, comes to it.
EndsWhenTold == ClosedConnectionEnds /\ LoweredFlagEndsAll

\* "Now the detection thread should notice that all frames have been sent and will
\* exit after receiving all responses or timing out".
ClientEnds == <>ClientEnded
=============================================================================
