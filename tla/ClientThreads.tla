---------------------------- MODULE ClientThreads -----------------------------
(***************************************************************************)
(* The threads of the clients that push a video to a transcoding server    *)
(* and pull the transcoded streams back: one push thread, one pull thread  *)
(* for each stream.  They share two maps from a frame's index to the time  *)
(* it was pushed (they are written together and are one here): the push    *)
(* thread inserts, the pull threads look up, and no lock is taken.         *)
(*                                                                         *)
(* The server and the network are external, but for the numbers one server *)
(* writes into what it sends.  Stream i is opened by the server, carries   *)
(* frames 1, 2, ... in the order they were pushed, and may lose some.      *)
(***************************************************************************)
EXTENDS Naturals, Sequences

CONSTANTS NumPulls,    \* streams pulled back
          MaxFrames,   \* packets in the input file
          HeldFrames,  \* frames the decoder of a pull thread keeps back
          Faults,      \* what may go wrong
          Programs     \* the clients considered

FaultKinds == {"setup", "netns", "packet", "write", "extract", "server", "loss", "timeout"}

ASSUME ClientAssumption ==
    /\ NumPulls \in Nat \ {0}
    /\ MaxFrames \in Nat
    /\ HeldFrames \in Nat
    /\ Faults \subseteq FaultKinds

Pulls == 1..NumPulls
Ids   == 1..MaxFrames

AllPrograms == {"tcp-udp", "tcp-modified", "udp-modified", "rtsp", "tcp", "udp", "rtp",
                "wo-decode-tcp", "wo-decode-srt", "gpu-tcp", "gpu-srt", "ue-tcp", "ue-srt", "push-pull"}

\* Reading a stream fails after five seconds of silence in these.
Timed == {"tcp-udp", "udp", "udp-modified", "rtsp", "rtp"}

VARIABLES
    program,  \* which client this is
    mpc,      \* main: "ping", "pong", "start", "sleep", "join", "done", "exit", "crash"
    address,  \* the server has learnt the client's address from a ping
    reply,    \* what lies in the client's socket: nothing or a pong
    spc,      \* the push thread: "idle", "open", "read", "insert", "write", "trailer", "done"
    taken,    \* packets read from the file
    pushed,   \* frame_count of push_stream_directly, after which frame pushed + 1 is next
    times,    \* the indices in push_timestamps
    sent,     \* the frames written, each named by the index of its push time plus one
    connected, \* the server has the pushed stream
    ppc,      \* each pull thread: "idle", "open", "prepare", "read", "decode", "lookup", "done"
    counted,  \* frame_count of pull_stream
    held,     \* frames in its decoder, or the one just read
    raced,    \* another thread inserted during the current lookup
    log,      \* its TimingLogger
    conn,     \* the server's end of each stream: "none", "up", "closed", "never"
    served,   \* frames the server has dealt with, for each stream
    net,      \* frames on their way to each pull thread
    missed    \* something of the stream was lost, late or refused

mainVars   == <<program, mpc, address, reply>>
pushVars   == <<spc, taken, pushed, times, sent, connected>>
pullVars   == <<ppc, counted, held, raced, log>>
serverVars == <<conn, served, net, missed>>
vars == <<mainVars, pushVars, pullVars, serverVars>>

\* What main does between parsing its arguments and its first thread.
FirstStep(p) == IF p \in {"udp", "rtp"} THEN "ping" ELSE "start"

Entries == [number : 1..(MaxFrames + 1), frame : Ids, time : 0..(MaxFrames + 1)]

TypeOK ==
    /\ program \in Programs
    /\ mpc \in {"ping", "pong", "start", "sleep", "join", "done", "exit", "crash"}
    /\ address \in BOOLEAN /\ reply \in BOOLEAN /\ connected \in BOOLEAN
    /\ spc \in {"idle", "open", "read", "insert", "write", "trailer", "done"}
    /\ taken \in 0..MaxFrames /\ pushed \in 0..taken /\ times \subseteq 0..MaxFrames
    /\ sent \in Seq(Ids)
    /\ ppc \in [Pulls -> {"idle", "open", "prepare", "read", "decode", "lookup", "done"}]
    /\ counted \in [Pulls -> 0..MaxFrames]
    /\ held \in [Pulls -> Seq(Ids)]
    /\ raced \in [Pulls -> BOOLEAN]
    /\ log \in [Pulls -> Seq(Entries)]
    /\ conn \in [Pulls -> {"none", "up", "closed", "never"}]
    /\ served \in [Pulls -> 0..MaxFrames]
    /\ net \in [Pulls -> Seq(Ids)]
    /\ missed \in [Pulls -> BOOLEAN]

Init ==
    /\ program \in Programs
    /\ mpc = FirstStep(program)
    /\ address = FALSE /\ reply = FALSE
    /\ spc = "idle" /\ taken = 0 /\ pushed = 0 /\ times = {} /\ sent = <<>> /\ connected = FALSE
    /\ ppc = [i \in Pulls |-> "idle"]
    /\ counted = [i \in Pulls |-> 0]
    /\ held = [i \in Pulls |-> <<>>]
    /\ raced = [i \in Pulls |-> FALSE]
    /\ log = [i \in Pulls |-> <<>>]
    /\ conn = [i \in Pulls |-> "none"]
    /\ served = [i \in Pulls |-> 0]
    /\ net = [i \in Pulls |-> <<>>]
    /\ missed = [i \in Pulls |-> FALSE]

\* No thread runs before main starts it or after the process has ended.
Running == mpc \notin {"done", "exit", "crash"}

-----------------------------------------------------------------------------
(* main *)

\* Two clients first send a ping from the port they will pull from ...
SendPing ==
    /\ mpc = "ping"
    /\ mpc' = "pong"
    /\ \/ ~address /\ address' = TRUE /\ reply' = TRUE
       \/ "loss" \in Faults /\ UNCHANGED <<address, reply>>            \* the ping is lost
       \/ "loss" \in Faults /\ address' = TRUE /\ UNCHANGED reply      \* the pong is
    /\ UNCHANGED <<program, pushVars, pullVars, serverVars>>

\* ... and leave unless a pong comes within three seconds.
AwaitPong ==
    /\ mpc = "pong"
    /\ mpc' = IF reply THEN "start" ELSE "exit"
    /\ reply' = FALSE
    /\ UNCHANGED <<program, address, pushVars, pullVars, serverVars>>

\* The pull threads are created, then main sleeps for some seconds.
StartPulls ==
    /\ mpc = "start"
    /\ mpc' = "sleep"
    /\ ppc' = [i \in Pulls |-> "open"]
    /\ UNCHANGED <<program, address, reply, pushVars, counted, held, raced, log, serverVars>>

StartPush ==
    /\ mpc = "sleep"
    /\ mpc' = "join"
    /\ spc' = "open"
    /\ UNCHANGED <<program, address, reply, taken, pushed, times, sent, connected, pullVars, serverVars>>

\* Mutant: only the push thread is joined.
MutJoinPushOnly ==
    /\ mpc = "join"
    /\ spc = "done"
    /\ mpc' = "done"
    /\ UNCHANGED <<program, address, reply, pushVars, pullVars, serverVars>>

\* The pull threads are joined, then the push thread.
JoinAll ==
    /\ mpc = "join"
    /\ \A i \in Pulls : ppc[i] = "done"
    /\ spc = "done"
    /\ mpc' = "done"
    /\ UNCHANGED <<program, address, reply, pushVars, pullVars, serverVars>>

MainSteps == StartPulls \/ StartPush \/ JoinAll

-----------------------------------------------------------------------------
(* push_stream_directly *)

\* Any of a dozen calls may fail, and each failure is an exit(1) of the process.
PushOpens ==
    /\ Running /\ spc = "open"
    /\ \/ spc' = "read" /\ connected' = TRUE /\ UNCHANGED mpc
       \/ "setup" \in Faults /\ mpc' = "exit" /\ UNCHANGED <<spc, connected>>
    /\ UNCHANGED <<program, address, reply, taken, pushed, times, sent, pullVars, serverVars>>

\* A packet without a timestamp, or that a filter refuses, is passed over.
PushReads ==
    /\ Running /\ spc = "read"
    /\ taken < MaxFrames
    /\ taken' = taken + 1
    /\ \/ spc' = "insert"
       \/ "packet" \in Faults /\ UNCHANGED spc
    /\ UNCHANGED <<mainVars, pushed, times, sent, connected, pullVars, serverVars>>

\* Mutant: indices from one here and from zero where they are looked up.
MutStampsFromOne ==
    /\ Running /\ spc = "insert"
    /\ times' = times \union {pushed + 1}
    /\ raced' = [i \in Pulls |-> raced[i] \/ ppc[i] = "lookup"]
    /\ spc' = "write"
    /\ UNCHANGED <<mainVars, taken, pushed, sent, connected, ppc, counted, held, log, serverVars>>

\* The push time goes into the map while pull threads may be looking in it.
PushStamps ==
    /\ Running /\ spc = "insert"
    /\ times' = times \union {pushed}
    /\ raced' = [i \in Pulls |-> raced[i] \/ ppc[i] = "lookup"]
    /\ spc' = "write"
    /\ UNCHANGED <<mainVars, taken, pushed, sent, connected, ppc, counted, held, log, serverVars>>

\* Mutant: frame_count advances although the write failed, and the loop goes on.
MutCountsFailedWrite ==
    /\ Running /\ spc = "write"
    /\ pushed' = pushed + 1
    /\ spc' = "read"
    /\ \/ sent' = Append(sent, pushed + 1)
       \/ "write" \in Faults /\ UNCHANGED sent
    /\ UNCHANGED <<mainVars, taken, times, connected, pullVars, serverVars>>

\* A failed write ends the loop; frame_count counts the ones that succeeded.
PushWrites ==
    /\ Running /\ spc = "write"
    /\ \/ pushed' = pushed + 1 /\ sent' = Append(sent, pushed + 1) /\ spc' = "read"
       \/ "write" \in Faults /\ spc' = "trailer" /\ UNCHANGED <<pushed, sent>>
    /\ UNCHANGED <<mainVars, taken, times, connected, pullVars, serverVars>>

PushReadEnds ==
    /\ Running /\ spc = "read"
    /\ spc' = "trailer"
    /\ UNCHANGED <<mainVars, taken, pushed, times, sent, connected, pullVars, serverVars>>

\* The trailer is written and the connection closed; its failure is only printed.
PushCloses ==
    /\ Running /\ spc = "trailer"
    /\ spc' = "done"
    /\ UNCHANGED <<mainVars, taken, pushed, times, sent, connected, pullVars, serverVars>>

PushLoop == PushReads \/ PushStamps \/ PushWrites \/ PushReadEnds \/ PushCloses

\* Two clients enter a network namespace first; a thread that cannot returns, and
\* the rest of the program goes on without it.
PushNamespaceFails ==
    /\ Running /\ spc = "open" /\ "netns" \in Faults
    /\ spc' = "done"
    /\ UNCHANGED <<mainVars, taken, pushed, times, sent, connected, pullVars, serverVars>>

-----------------------------------------------------------------------------
(* pull_stream, one thread for each stream *)

Ends(i) == ppc' = [ppc EXCEPT ![i] = "done"]

\* Opening waits for the server to come, then for enough of the stream to know it;
\* the decoder is made afterwards.  Each failure is an early return.
PullOpens(i) ==
    /\ Running /\ ppc[i] = "open"
    /\ conn[i] \in {"up", "closed"}
    /\ \/ ppc' = [ppc EXCEPT ![i] = "prepare"] /\ UNCHANGED missed
       \/ "setup" \in Faults /\ Ends(i) /\ missed' = [missed EXCEPT ![i] = TRUE]
    /\ UNCHANGED <<mainVars, pushVars, counted, held, raced, log, conn, served, net>>

PullPrepares(i) ==
    /\ Running /\ ppc[i] = "prepare"
    /\ \/ ppc' = [ppc EXCEPT ![i] = "read"] /\ UNCHANGED missed
       \/ "setup" \in Faults /\ Ends(i) /\ missed' = [missed EXCEPT ![i] = TRUE]
    /\ UNCHANGED <<mainVars, pushVars, counted, held, raced, log, conn, served, net>>

\* av_read_frame returns the next frame of the stream.
PullReads(i, next) ==
    /\ Running /\ ppc[i] = "read"
    /\ net[i] # <<>>
    /\ held' = [held EXCEPT ![i] = Append(@, Head(net[i]))]
    /\ net' = [net EXCEPT ![i] = Tail(@)]
    /\ ppc' = [ppc EXCEPT ![i] = next]
    /\ raced' = [raced EXCEPT ![i] = next = "lookup" /\ spc = "insert"]
    /\ UNCHANGED <<mainVars, pushVars, counted, log, conn, served, missed>>

\* Mutant: a packet passed over stays in the packet buffer and is taken for the next.
MutRefusedStays(i) ==
    /\ Running /\ ppc[i] = "read" /\ "extract" \in Faults
    /\ net[i] # <<>>
    /\ net' = [net EXCEPT ![i] = <<Head(@)>> \o @]
    /\ missed' = [missed EXCEPT ![i] = TRUE]
    /\ Len(net[i]) <= MaxFrames
    /\ UNCHANGED <<mainVars, pushVars, pullVars, conn, served>>

\* A packet that cannot be used leaves the loop's turn before it is counted.
PassesOver(i) ==
    /\ Running /\ ppc[i] = "read"
    /\ net[i] # <<>>
    /\ net' = [net EXCEPT ![i] = Tail(@)]
    /\ missed' = [missed EXCEPT ![i] = TRUE]
    /\ UNCHANGED <<mainVars, pushVars, pullVars, conn, served>>

PullRefuses(i) == "extract" \in Faults /\ PassesOver(i)

\* One client decodes; its decoder keeps frames back.
PullDecodes(i) ==
    /\ Running /\ ppc[i] = "decode"
    /\ IF Len(held[i]) > HeldFrames
       THEN ppc' = [ppc EXCEPT ![i] = "lookup"] /\ raced' = [raced EXCEPT ![i] = spc = "insert"]
       ELSE ppc' = [ppc EXCEPT ![i] = "read"] /\ UNCHANGED raced
    /\ UNCHANGED <<mainVars, pushVars, counted, held, log, serverVars>>

\* The index a pull thread looks up: by position ...
ByPosition(i) == counted[i]

\* ... or by the number in the packet.  The server computes it from the frame's
\* timestamp, which counts from the first frame it received and at sixty frames a
\* second, writes the number of the frame its encoder took last, and 0 into what the
\* encoder gives up at the end; the frames its decoder gives up at the end have none
\* set.  So it may be any number, and 0 stands for those that are not looked up.
Numbers == 0..(MaxFrames + 1)

\* operator[] finds the time, or inserts a time 0, and add_entry logs it.  A search
\* that overlaps an insertion may miss its node, and then makes one with time 0.
PullLogs(i, index, next) ==
    /\ Running /\ ppc[i] = "lookup"
    /\ \E time \in (IF index \in times THEN {index + 1} ELSE {0}) \union (IF raced[i] THEN {0} ELSE {}) :
           log' = [log EXCEPT ![i] = Append(@, [number |-> index + 1, frame |-> Head(held[i]), time |-> time])]
    /\ counted' = [counted EXCEPT ![i] = @ + 1]
    /\ held' = [held EXCEPT ![i] = Tail(@)]
    /\ ppc' = [ppc EXCEPT ![i] = next]
    /\ raced' = [j \in Pulls |-> raced[j] \/ (index \notin times /\ j # i /\ ppc[j] = "lookup")]
    /\ UNCHANGED <<mainVars, pushVars, serverVars>>

\* Or it ends the process, the tree being half rebalanced.
PullCrashes(i) ==
    /\ Running /\ ppc[i] = "lookup" /\ raced[i]
    /\ mpc' = "crash"
    /\ UNCHANGED <<program, address, reply, pushVars, pullVars, serverVars>>

\* The stream has ended: the log is written, and what a decoder still holds is
\* counted and dropped.
PullReadEnds(i) ==
    /\ Running /\ ppc[i] = "read"
    /\ net[i] = <<>> /\ conn[i] = "closed"
    /\ counted' = [counted EXCEPT ![i] = @ + Len(held[i])]
    /\ held' = [held EXCEPT ![i] = <<>>]
    /\ Ends(i)
    /\ UNCHANGED <<mainVars, pushVars, raced, log, serverVars>>

\* Mutant: no timeout while the stream is being opened.
MutNoTimeout(i, at) ==
    /\ Running /\ ppc[i] = at /\ at = "read"
    /\ net[i] = <<>>
    /\ ("timeout" \notin Faults) => conn[i] \in {"closed", "never"}
    /\ missed' = [missed EXCEPT ![i] = @ \/ conn[i] # "closed"]
    /\ Ends(i)
    /\ UNCHANGED <<mainVars, pushVars, counted, held, raced, log, conn, served, net>>

\* Five seconds of silence: while opening an early return, afterwards the end of
\* the loop.  It is mistaken when more was to come.
PullTimesOut(i, at) ==
    /\ Running /\ ppc[i] = at
    /\ net[i] = <<>>
    /\ ("timeout" \notin Faults) => conn[i] \in {"closed", "never"}
    /\ missed' = [missed EXCEPT ![i] = @ \/ at = "open" \/ conn[i] # "closed"]
    /\ Ends(i)
    /\ UNCHANGED <<mainVars, pushVars, counted, held, raced, log, conn, served, net>>

PullNamespaceFails(i) ==
    /\ Running /\ ppc[i] = "open" /\ "netns" \in Faults
    /\ missed' = [missed EXCEPT ![i] = TRUE]
    /\ Ends(i)
    /\ UNCHANGED <<mainVars, pushVars, counted, held, raced, log, conn, served, net>>

-----------------------------------------------------------------------------
(* The server and the network *)

\* The server opens a stream once it has the pushed one; or never, when it or the
\* output's encoder could not start or nothing was pushed.
ServerConnects(i) ==
    /\ conn[i] = "none" /\ connected
    /\ conn' = [conn EXCEPT ![i] = "up"]
    /\ UNCHANGED <<mainVars, pushVars, pullVars, served, net, missed>>

ServerNeverConnects(i) ==
    /\ conn[i] = "none"
    /\ ("server" \notin Faults) => (spc = "done" /\ ~connected)
    /\ conn' = [conn EXCEPT ![i] = "never"]
    /\ missed' = [missed EXCEPT ![i] = TRUE]
    /\ UNCHANGED <<mainVars, pushVars, pullVars, served, net>>

ServerForwards(i) ==
    /\ conn[i] = "up" /\ served[i] < Len(sent)
    /\ served' = [served EXCEPT ![i] = @ + 1]
    /\ \/ net' = [net EXCEPT ![i] = Append(@, sent[served[i] + 1])] /\ UNCHANGED missed
       \/ "loss" \in Faults /\ missed' = [missed EXCEPT ![i] = TRUE] /\ UNCHANGED net
    /\ UNCHANGED <<mainVars, pushVars, pullVars, conn>>

\* The server ends a stream when the pushed one has ended, or when it fails.
ServerCloses(i) ==
    /\ conn[i] = "up"
    /\ IF spc = "done" /\ served[i] = Len(sent)
       THEN UNCHANGED missed
       ELSE "server" \in Faults /\ missed' = [missed EXCEPT ![i] = TRUE]
    /\ conn' = [conn EXCEPT ![i] = "closed"]
    /\ UNCHANGED <<mainVars, pushVars, pullVars, served, net>>

Server(i) == ServerConnects(i) \/ ServerNeverConnects(i) \/ ServerForwards(i) \/ ServerCloses(i)

-----------------------------------------------------------------------------
(* The threads as most clients have them *)

PullSetup(i) == PullOpens(i) \/ PullPrepares(i)

Logs(i) == PullLogs(i, ByPosition(i), "read") \/ PullCrashes(i)

PullLoop(i)  == PullReads(i, "lookup") \/ PullReadEnds(i)

TimedLoop(i) == PullReads(i, "lookup") \/ PullTimesOut(i, "read")

\* The process has ended.
Terminated == ~Running /\ UNCHANGED vars
=============================================================================
