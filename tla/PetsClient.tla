------------------------------ MODULE PetsClient -------------------------------
(***************************************************************************)
(* The clients of the request services, one user equipment (UE) each.  For *)
(* every configuration of the UE, one after the other, main makes a client *)
(* object, starts its receiver and its sender and joins both.  The sender  *)
(* registers, exchanges clock readings with the server where the program   *)
(* has handshakes, and sends its requests over UDP, or sends files over    *)
(* TCP; the receiver takes the answers; a third thread repeats the         *)
(* handshake from time to time.                                            *)
(*                                                                         *)
(* The server is here what its clients see of it (PetsServer has its       *)
(* inside): it answers a registration, a handshake and a request of a      *)
(* client it has a tracker of, and it forgets a client it has not heard of *)
(* for ten seconds.  A datagram may be lost, overtaken or delivered twice. *)
(* What a client receives carries the UE's name but not the session it     *)
(* belongs to; session is written in the datagrams for the properties.     *)
(***************************************************************************)
EXTENDS Naturals, Sequences, SequencesExt

CONSTANTS Programs,       \* the clients considered
          NumSessions,    \* configurations of the UE, in each of them
          NumRequests,    \* requests, or files, of a configuration
          NumChunks,      \* sends that a file takes
          MaxHandshakes,  \* bound: handshakes of a session
          MaxMishaps,     \* bound: datagrams lost, doubled or incomplete, clients forgotten
          Faults          \* what may go wrong

FaultKinds == {"construct", "sender", "bind", "late", "loss", "duplicate", "partial", "silence", "connect"}

AllPrograms == {"timestamp", "first", "wired", "tutti", "simple"}

ASSUME PetsClientAssumption ==
    /\ Programs \subseteq AllPrograms
    /\ NumSessions \in [Programs -> Nat \ {0}]
    /\ NumRequests \in Nat \ {0} /\ NumChunks \in Nat \ {0}
    /\ MaxHandshakes \in Nat /\ MaxMishaps \in Nat
    /\ Faults \subseteq FaultKinds

WithFiles      == {"timestamp", "first", "wired"}
WithHandshakes == {"timestamp"}
WithFirst      == {"timestamp", "first"}

VARIABLES
    program,     \* which client this is
    kinds,       \* the type of each configuration: "latency" or "file"
    session,     \* the configuration main has come to
    mpc,         \* run_ue_configs: where it is
    spc,         \* the sender: where it is
    next,        \* the request or file to be sent next
    sendTimes,   \* requests in send_times
    regDone,     \* registration_complete
    hpc,         \* perform_handshake, in the sender and then in its own thread
    hsDone,      \* handshake_complete
    c0,          \* timestamp_c0, as the number of the handshake it was read in
    rtt,         \* self.rtt: the handshake of the c0 subtracted, the handshake answered
    rpc,         \* receive_responses: where it is
    firstTimes,  \* requests in first_packet_times
    completed,   \* requests in completed_requests
    counted,     \* history: completions taken, in their order
    written,     \* the requests in the latency file of this configuration
    up, down,    \* datagrams on their way to the server and to the client
    served,      \* history: requests and files the server got all of
    stored,      \* the last round-trip time the server was told, with its handshake
    sent, got,   \* bytes_sent and bytes_received of the current file, in chunks
    handler,     \* its FileTransferHandler: "none", "line", "data", "closed"
    answer,      \* what the handler wrote
    tracker,     \* for each session: "none", or where its answers go, to "its" port or "astray"
    mishaps,     \* datagrams lost, doubled or incomplete and clients forgotten so far
    cut,         \* history: an exchange the session waits for was cut short
    doubled,     \* history: a datagram was delivered twice
    unsure       \* history: a handshake was repeated, or left behind unanswered

mainVars   == <<program, kinds, session, mpc>>
senderVars == <<spc, next, sendTimes>>
hsVars     == <<hpc, c0>>
rcvVars    == <<rpc, firstTimes, completed, counted, written>>
eventVars  == <<regDone, hsDone, rtt>>
netVars    == <<up, down>>
serverVars == <<served, stored, tracker>>
fileVars   == <<sent, got, handler, answer>>
histVars   == <<mishaps, cut, doubled, unsure>>
vars == <<mainVars, senderVars, hsVars, rcvVars, eventVars, netVars, serverVars, fileVars, histVars>>

Requests == 1..NumRequests

\* The tutti clients have one configuration for each UE.
Sessions == IF program \in {"tutti", "simple"} THEN 1 ELSE NumSessions[program]

NoRtt == [sent |-> 0, answered |-> 0]

Datagram(type, id) == [type |-> type, session |-> session, id |-> id, rtt |-> NoRtt]

Answer(d, type) == [d EXCEPT !.type = type, !.rtt = NoRtt]

Init ==
    /\ program \in Programs
    /\ kinds \in [1..Sessions -> {"latency", "file"}]
    /\ program \notin WithFiles => \A s \in 1..Sessions : kinds[s] = "latency"
    /\ session = 1 /\ mpc = "construct"
    /\ spc = "off" /\ next = 1 /\ sendTimes = {}
    /\ regDone = FALSE /\ hsDone = FALSE /\ rtt = NoRtt /\ hpc = "off" /\ c0 = 0
    /\ rpc = "off" /\ firstTimes = {} /\ completed = {} /\ counted = <<>> /\ written = <<>>
    /\ up = {} /\ down = {} /\ served = {} /\ stored = [handshake |-> 0, rtt |-> NoRtt]
    /\ tracker = [s \in 1..Sessions |-> "none"]
    /\ sent = 0 /\ got = 0 /\ handler = "none" /\ answer = "none"
    /\ mishaps = 0 /\ cut = FALSE /\ doubled = FALSE /\ unsure = FALSE

-----------------------------------------------------------------------------
(* run_ue_configs *)

\* A new object for the configuration; its constructor raises when the UE is not
\* attached or the controller does not answer, which ends the UE's thread.
Construct ==
    /\ mpc = "construct"
    /\ mpc' \in {"receiver"} \cup (IF "construct" \in Faults THEN {"dead"} ELSE {})
    /\ spc' = "off" /\ next' = 1 /\ sendTimes' = {}
    /\ regDone' = FALSE /\ hsDone' = FALSE /\ rtt' = NoRtt /\ hpc' = "off"
    /\ rpc' = "off" /\ firstTimes' = {} /\ completed' = {} /\ counted' = <<>> /\ written' = <<>>
    /\ UNCHANGED <<program, kinds, session, c0, netVars, serverVars, fileVars, histVars>>

\* The receiver of a file configuration returns at once, as does one that cannot
\* bind its port.  Main sleeps before it starts the sender, long enough for this.
StartReceiver ==
    /\ mpc = "receiver"
    /\ \/ kinds[session] = "file" /\ rpc' = "done"
       \/ kinds[session] = "latency" /\ rpc' = "recv"
       \/ kinds[session] = "latency" /\ "bind" \in Faults /\ rpc' = "failed"
    /\ mpc' = "sender"
    /\ UNCHANGED <<program, kinds, session, senderVars, hsVars, firstTimes, completed, counted, written,
                   eventVars, netVars, serverVars, fileVars, histVars>>

StartSender ==
    /\ mpc = "sender"
    /\ mpc' = "joinSender"
    /\ spc' = IF kinds[session] = "file" THEN "connect" ELSE "register"
    /\ UNCHANGED <<program, kinds, session, next, sendTimes, hsVars, rcvVars, eventVars, netVars,
                   serverVars, fileVars, histVars>>

JoinThreads ==
    /\ \/ mpc = "joinSender" /\ spc = "done" /\ mpc' = "joinReceiver" /\ UNCHANGED session
       \/ /\ mpc = "joinReceiver" /\ rpc \in {"done", "failed"}
          /\ IF session < Sessions THEN session' = session + 1 /\ mpc' = "construct"
             ELSE UNCHANGED session /\ mpc' = "done"
    /\ UNCHANGED <<program, kinds, senderVars, hsVars, rcvVars, eventVars, netVars, serverVars, fileVars,
                   histVars>>

Main == StartReceiver \/ StartSender \/ JoinThreads

-----------------------------------------------------------------------------
(* send_latency_requests *)

\* The sender leaves: the handshake thread is told to stop and waited for, for a
\* second, and the socket is closed.  A handshake still unanswered fails on it.
Leave ==
    /\ spc' = "done"
    /\ hpc' = IF hpc = "off" THEN "off" ELSE "done"
    /\ unsure' = (unsure \/ hpc \in {"hello", "wait"})
    /\ UNCHANGED c0

SendRegistration ==
    /\ spc = "register"
    /\ spc' = "registering"
    /\ up' = up \cup {Datagram("registration", 0)}
    /\ UNCHANGED <<mainVars, next, sendTimes, hsVars, rcvVars, eventVars, down, serverVars, fileVars,
                   histVars>>

\* The namespace cannot be entered, or a send fails.
SenderFails ==
    /\ spc = "register" \/ (spc = "send" /\ next \in Requests)
    /\ "sender" \in Faults
    /\ sendTimes' = IF spc = "send" THEN sendTimes \cup {next} ELSE sendTimes
    /\ Leave
    /\ cut' = TRUE
    /\ UNCHANGED <<mainVars, next, rcvVars, eventVars, netVars, serverVars, fileVars,
                   mishaps, doubled>>

Registered ==
    /\ spc = "registering" /\ regDone
    /\ IF program \in WithHandshakes THEN spc' = "handshake" /\ hpc' = "hello"
       ELSE spc' = "send" /\ UNCHANGED hpc
    /\ UNCHANGED <<mainVars, next, sendTimes, c0, rcvVars, eventVars, netVars, serverVars, fileVars,
                   histVars>>

\* Five seconds without an answer.
RegistrationTimesOut ==
    /\ spc = "registering" /\ ~regDone
    /\ \/ rpc = "failed"
       \/ \A d \in up \cup down : d.session = session => d.type \notin {"registration", "registered"}
       \/ "late" \in Faults
    /\ Leave
    /\ cut' = (cut \/ rpc # "failed")
    /\ UNCHANGED <<mainVars, next, sendTimes, rcvVars, eventVars, netVars, serverVars, fileVars,
                   mishaps, doubled>>

\* The first handshake is made by the sender itself; then the thread is started.
HandshakeReturns ==
    /\ spc = "handshake" /\ hpc = "idle"
    /\ spc' = "send"
    /\ UNCHANGED <<mainVars, next, sendTimes, hsVars, rcvVars, eventVars, netVars, serverVars, fileVars,
                   histVars>>

\* The time is noted under the lock, the controller told, the packets sent.
SendRequest ==
    /\ spc = "send" /\ next \in Requests
    /\ sendTimes' = sendTimes \cup {next}
    /\ up' = up \cup {Datagram("request", next)}
    /\ next' = next + 1
    /\ UNCHANGED <<mainVars, spc, hsVars, rcvVars, eventVars, down, serverVars, fileVars, histVars>>

AllSent ==
    /\ spc = "send" /\ next \notin Requests
    /\ Leave
    /\ UNCHANGED <<mainVars, next, sendTimes, rcvVars, eventVars, netVars, serverVars, fileVars,
                   mishaps, cut, doubled>>

Sender ==
    \/ SendRegistration \/ SenderFails \/ Registered \/ RegistrationTimesOut
    \/ SendRequest \/ AllSent

-----------------------------------------------------------------------------
(* perform_handshake *)

SendHello ==
    /\ hpc = "hello"
    /\ c0' = c0 + 1
    /\ up' = up \cup {Datagram("hello", c0 + 1)}
    /\ hpc' = "wait"
    /\ UNCHANGED <<mainVars, senderVars, rcvVars, eventVars, down, serverVars, fileVars, histVars>>

\* Mutant: the clock is started anew, but nothing is sent.
MutResendHello == FALSE

\* After a second without an answer the same message is sent again and the clock
\* of the timeout is started anew, so that the timeout never comes.
ResendHello ==
    /\ hpc = "wait" /\ ~hsDone
    /\ up' = up \cup {Datagram("hello", c0)}
    /\ unsure' = TRUE
    /\ UNCHANGED <<mainVars, senderVars, hsVars, rcvVars, eventVars, down, serverVars, fileVars,
                   mishaps, cut, doubled>>

SendRtt ==
    /\ hpc = "wait" /\ hsDone
    /\ up' = up \cup {[Datagram("rtt", c0) EXCEPT !.rtt = rtt]}
    /\ hpc' = "idle"
    /\ UNCHANGED <<mainVars, senderVars, c0, rcvVars, eventVars, down, serverVars, fileVars, histVars>>

\* Mutant: the event of the handshake before is still set.
MutRepeatHandshake ==
    /\ hpc = "idle" /\ spc = "send" /\ c0 < MaxHandshakes
    /\ hpc' = "hello"
    /\ UNCHANGED <<mainVars, senderVars, c0, rcvVars, eventVars, netVars, serverVars, fileVars, histVars>>

\* The thread repeats the handshake when its interval is over.
RepeatHandshake ==
    /\ hpc = "idle" /\ spc = "send" /\ c0 < MaxHandshakes
    /\ hsDone' = FALSE
    /\ hpc' = "hello"
    /\ UNCHANGED <<mainVars, senderVars, c0, rcvVars, regDone, rtt, netVars, serverVars, fileVars,
                   histVars>>

\* A send that fails ends the handshake; the sender goes on without it.
HandshakeFails ==
    /\ hpc \in {"hello", "wait"}
    /\ "sender" \in Faults
    /\ hpc' = "idle"
    /\ unsure' = TRUE
    /\ UNCHANGED <<mainVars, senderVars, c0, rcvVars, eventVars, netVars, serverVars, fileVars,
                   mishaps, cut, doubled>>

PerformHandshake == SendHello \/ ResendHello \/ SendRtt

-----------------------------------------------------------------------------
(* The network: a datagram that is taken may come once more. *)

Taken(net, d) ==
    \/ net' = net \ {d} /\ UNCHANGED <<mishaps, doubled>>
    \/ /\ "duplicate" \in Faults /\ mishaps < MaxMishaps
       /\ net' = net /\ mishaps' = mishaps + 1 /\ doubled' = TRUE

\* What a session cannot do without.
Vital == {"registration", "registered", "request", "done"}

Lose(d) ==
    /\ "loss" \in Faults /\ mishaps < MaxMishaps
    /\ mishaps' = mishaps + 1
    /\ up' = up \ {d} /\ down' = down \ {d}
    /\ cut' = (cut \/ d.type \in Vital)
    /\ UNCHANGED <<mainVars, senderVars, hsVars, rcvVars, eventVars, serverVars, fileVars, doubled, unsure>>

\* Nobody has the port open.
Vanish(d) ==
    /\ rpc # "recv" /\ d \in down
    /\ down' = down \ {d}
    /\ UNCHANGED <<mainVars, senderVars, hsVars, rcvVars, eventVars, up, serverVars, fileVars, histVars>>

Network == \/ \E d \in up \cup down : Lose(d)
           \/ \E d \in down : Vanish(d)

-----------------------------------------------------------------------------
(* receive_responses *)

Receives(d) ==
    /\ rpc = "recv" /\ d \in down
    /\ Taken(down, d)
    /\ UNCHANGED <<mainVars, spc, next, hsVars, up, serverVars, fileVars, cut, unsure>>

ReceiveRegistered(d) ==
    /\ d.type = "registered"
    /\ Receives(d)
    /\ regDone' = TRUE
    /\ UNCHANGED <<sendTimes, rcvVars, hsDone, rtt>>

\* The answer to a hello: the time since timestamp_c0, whatever hello it answers.
ReceiveHandshake(d) ==
    /\ d.type = "handshake"
    /\ Receives(d)
    /\ rtt' = [sent |-> c0, answered |-> d.id]
    /\ hsDone' = TRUE
    /\ UNCHANGED <<sendTimes, rcvVars, regDone>>

\* Mutant: the type of the response is not looked at.
MutCompletes(d) == d.type \in {"first", "done"}

Completes(d) == d.type = "done"

\* Mutant: one line at most for each datagram.
MutLines(complete) ==
    IF Len(written) + 1 \in complete THEN Append(written, Len(written) + 1) ELSE written

\* The latency file grows while its next request is complete.
Lines(complete) ==
    LET next_request == CHOOSE k \in 1..NumRequests + 1 : k \notin complete /\ 1..k - 1 \subseteq complete
    IN  written \o [i \in 1..next_request - 1 - Len(written) |-> Len(written) + i]

\* A response counts while its request is in send_times.
ReceiveResponse(d) ==
    /\ d.type \in {"first", "done"}
    /\ Receives(d)
    /\ IF d.id \notin sendTimes THEN UNCHANGED <<sendTimes, rcvVars>>
       ELSE IF Completes(d)
       THEN /\ completed' = completed \cup {d.id}
            /\ counted' = Append(counted, <<d.session, d.id>>)
            /\ firstTimes' = firstTimes \ {d.id}
            /\ sendTimes' = sendTimes \ {d.id}
            /\ written' = Lines(completed')
            /\ rpc' = IF completed' = Requests THEN "done" ELSE "recv"
       ELSE /\ firstTimes' = firstTimes \cup {d.id}
            /\ UNCHANGED <<sendTimes, rpc, completed, counted, written>>
    /\ UNCHANGED eventVars

\* What only the clients with handshakes tell apart (the acknowledgement of a
\* round-trip time is but logged, and left out).
ReceiveClock == \E d \in down : ReceiveHandshake(d)

ReceiveResponses == \E d \in down : ReceiveRegistered(d) \/ ReceiveResponse(d)

-----------------------------------------------------------------------------
(* The server, as its clients see it. *)

Serves(d, answers) ==
    /\ d \in up
    /\ Taken(up, d)
    /\ down' = down \cup answers
    /\ UNCHANGED <<mainVars, senderVars, hsVars, rcvVars, eventVars, fileVars, unsure>>

\* A tracker is made when there is none; one that is there keeps its port.  The
\* confirmation goes to the port that the registration names.
ServeRegistration(d) ==
    /\ d.type = "registration"
    /\ Serves(d, {Answer(d, "registered")})
    /\ tracker' = [tracker EXCEPT ![d.session] = IF @ = "none" THEN "its" ELSE @]
    /\ UNCHANGED <<served, stored, cut>>

\* A hello does not name the port of the answers.  For a client without a tracker it
\* is taken from another tracker with the same name; when there is none, it is the
\* port the hello came from, which nobody reads.
PortsOf(d) ==
    LET known == {s \in DOMAIN tracker : tracker[s] # "none"}
    IN  IF d.session \in known THEN {tracker[d.session]}
        ELSE IF known # {} THEN {tracker[s] : s \in known}
        ELSE {"astray"}

\* The sender waits for the answer to the first one for ever.
ServeHello(d) ==
    /\ d.type = "hello"
    /\ \E port \in PortsOf(d) :
         /\ Serves(d, IF port = "its" THEN {Answer(d, "handshake")} ELSE {})
         /\ tracker' = [tracker EXCEPT ![d.session] = port]
         /\ cut' = (cut \/ (port # "its" /\ spc = "handshake"))
    /\ UNCHANGED <<served, stored>>

ServeRtt(d) ==
    /\ d.type = "rtt"
    /\ Serves(d, {})
    /\ stored' = IF tracker[d.session] # "none" THEN [handshake |-> d.id, rtt |-> d.rtt] ELSE stored
    /\ UNCHANGED <<served, tracker, cut>>

\* The responses to a request's first packet, where the server has one, and to its
\* last packet.
FirstAnswer(d) == IF program \in WithFirst THEN {Answer(d, "first")} ELSE {}

\* A request of a client without a tracker is passed over.
ServeRequest(d) ==
    LET port == tracker[d.session]
    IN  /\ d.type = "request"
        /\ Serves(d, IF port = "its" THEN FirstAnswer(d) \cup {Answer(d, "done")} ELSE {})
        /\ served' = IF port # "none" THEN served \cup {<<d.session, d.id>>} ELSE served
        /\ cut' = (cut \/ port # "its")
        /\ UNCHANGED <<stored, tracker>>

\* Some of its packets are lost, or the handling of one ends in an exception; the
\* first of them may have been answered.
FailRequest(d) ==
    /\ d.type = "request" /\ d \in up
    /\ "partial" \in Faults /\ mishaps < MaxMishaps
    /\ up' = up \ {d}
    /\ \E answers \in {{}, IF tracker[d.session] = "its" THEN FirstAnswer(d) ELSE {}} :
         down' = down \cup answers
    /\ mishaps' = mishaps + 1 /\ cut' = TRUE
    /\ UNCHANGED <<mainVars, senderVars, hsVars, rcvVars, eventVars, serverVars, fileVars, doubled, unsure>>

\* Ten seconds without a datagram of the client: its interval is longer, or its
\* datagrams are late.  The server of the simple program has no clean-up.
Forget(s) ==
    /\ "silence" \in Faults /\ mishaps < MaxMishaps
    /\ program # "simple" /\ tracker[s] # "none"
    /\ tracker' = [tracker EXCEPT ![s] = "none"]
    /\ mishaps' = mishaps + 1
    /\ UNCHANGED <<mainVars, senderVars, hsVars, rcvVars, eventVars, netVars, served, stored, fileVars,
                   cut, doubled, unsure>>

Server == \E d \in up : ServeRegistration(d) \/ ServeHello(d) \/ ServeRtt(d) \/ ServeRequest(d) \/ FailRequest(d)

Cleanup == \E s \in DOMAIN tracker : Forget(s)

-----------------------------------------------------------------------------
(* send_file_requests *)

FileStep == UNCHANGED <<program, kinds, session, mpc, hsVars, rpc, firstTimes, completed, eventVars,
                        netVars, stored, tracker, histVars>>

\* The first sends of a file: its line, then its data in chunks.
FileConnects ==
    /\ spc = "connect" /\ next \in Requests
    /\ spc' = "chunks" /\ sendTimes' = sendTimes \cup {next}
    /\ sent' = 0 /\ got' = 0 /\ handler' = "line" /\ answer' = "none"
    /\ UNCHANGED <<next, counted, written, served>> /\ FileStep

\* No server, or no namespace.
FileConnectFails ==
    /\ spc = "connect" /\ "connect" \in Faults
    /\ spc' = "done"
    /\ UNCHANGED <<next, sendTimes, counted, written, served, fileVars>> /\ FileStep

FileSends ==
    /\ spc = "chunks"
    /\ IF sent < NumChunks THEN sent' = sent + 1 /\ UNCHANGED spc
       ELSE spc' = "answer" /\ UNCHANGED sent
    /\ UNCHANGED <<next, sendTimes, counted, written, got, handler, answer, served>> /\ FileStep

\* The server has closed with data unread: the client's connection is reset, which
\* ends the files of this configuration.
FileBreaks ==
    /\ spc \in {"chunks", "answer"} /\ handler = "closed" /\ answer = "ERROR"
    /\ spc' = "done"
    /\ UNCHANGED <<next, sendTimes, counted, written, fileVars, served>> /\ FileStep

\* Only a DONE is recorded.
FileReceives ==
    /\ spc = "answer" /\ handler = "closed"
    /\ IF answer = "DONE" THEN /\ written' = Append(written, next)
                               /\ counted' = Append(counted, <<session, next>>)
       ELSE UNCHANGED <<written, counted>>
    /\ next' = next + 1
    /\ spc' = "connect"
    /\ UNCHANGED <<sendTimes, fileVars, served>> /\ FileStep

AllFiles ==
    /\ spc = "connect" /\ next \notin Requests
    /\ spc' = "done"
    /\ UNCHANGED <<next, sendTimes, counted, written, fileVars, served>> /\ FileStep

SendFileRequests ==
    FileConnects \/ FileConnectFails \/ FileSends \/ FileBreaks \/ FileReceives \/ AllFiles

\* The line is read with what has come behind it; a line with data behind it is no
\* number any more, and the transfer ends with an error.
ReadLine ==
    /\ handler = "line"
    /\ \/ handler' = "data" /\ UNCHANGED answer
       \/ sent > 0 /\ handler' = "closed" /\ answer' = "ERROR"
    /\ UNCHANGED <<spc, next, sendTimes, counted, written, sent, got, served>> /\ FileStep

ReadData ==
    /\ handler = "data"
    /\ \/ got < sent /\ got' = got + 1 /\ UNCHANGED <<handler, answer, served>>
       \/ /\ got = NumChunks
          /\ handler' = "closed" /\ answer' = "DONE"
          /\ served' = served \cup {<<session, next>>}
          /\ UNCHANGED got
    /\ UNCHANGED <<spc, next, sendTimes, counted, written, sent>> /\ FileStep

FileTransferHandler == ReadLine \/ ReadData

-----------------------------------------------------------------------------
(* The programs *)

\* udp-request-wired-DL-timestamp: handshakes; a response to the first packet and
\* one to the request.
TimestampStarts    == program = "timestamp" /\ Construct
TimestampMain      == program = "timestamp" /\ Main
TimestampSends     == program = "timestamp" /\ (Sender \/ HandshakeReturns)
TimestampFiles     == program = "timestamp" /\ SendFileRequests
TimestampReceives  == program = "timestamp" /\ (ReceiveResponses \/ ReceiveClock)
TimestampClock     == program = "timestamp" /\ PerformHandshake

\* udp-request-wired-DL-first-packet: the two responses, no handshakes.
FirstStarts        == program = "first" /\ Construct
FirstMain          == program = "first" /\ Main
FirstSends         == program = "first" /\ Sender
FirstFiles         == program = "first" /\ SendFileRequests
FirstReceives      == program = "first" /\ ReceiveResponses

\* udp-request-wired-DL: one response.
WiredStarts        == program = "wired" /\ Construct
WiredMain          == program = "wired" /\ Main
WiredSends         == program = "wired" /\ Sender
WiredFiles         == program = "wired" /\ SendFileRequests
WiredReceives      == program = "wired" /\ ReceiveResponses

\* tutti-service/udp-request-wired-DL: one response, one configuration, no files.
TuttiStarts        == program = "tutti" /\ Construct
TuttiMain          == program = "tutti" /\ Main
TuttiSends         == program = "tutti" /\ Sender
TuttiReceives      == program = "tutti" /\ ReceiveResponses

\* tutti-service/udp-request-simple: as tutti, with one try for the UE's name.
SimpleStarts       == program = "simple" /\ Construct
SimpleMain         == program = "simple" /\ Main
SimpleSends        == program = "simple" /\ Sender
SimpleReceives     == program = "simple" /\ ReceiveResponses

MainThread     == \/ TimestampStarts \/ TimestampMain \/ FirstStarts \/ FirstMain \/ WiredStarts
                  \/ WiredMain \/ TuttiStarts \/ TuttiMain \/ SimpleStarts \/ SimpleMain
SenderThread   == \/ TimestampSends \/ TimestampFiles \/ FirstSends \/ FirstFiles \/ WiredSends
                  \/ WiredFiles \/ TuttiSends \/ SimpleSends
ReceiverThread == \/ TimestampReceives \/ FirstReceives \/ WiredReceives \/ TuttiReceives
                  \/ SimpleReceives

Next == \/ MainThread \/ SenderThread \/ ReceiverThread \/ TimestampClock \/ HandshakeFails
        \/ RepeatHandshake \/ Server \/ Cleanup \/ FileTransferHandler \/ Network

\* Threads run and datagrams that are not lost arrive.  Nothing forces another
\* handshake, a send of one to fail, or the server to forget a client.
Fairness ==
    /\ WF_vars(MainThread) /\ WF_vars(SenderThread) /\ WF_vars(ReceiverThread)
    /\ WF_vars(TimestampClock) /\ WF_vars(Server) /\ WF_vars(FileTransferHandler)

Spec == Init /\ [][Next]_vars
FairSpec == Spec /\ Fairness

-----------------------------------------------------------------------------
(* Properties *)

\* The latency file and what was counted agree (receive_responses, write_file_result):
\* the file of a latency configuration holds the requests from the first on, without
\* gap or repeat, as far as they are complete, all of them when the receiver ends;
\* no completion is counted twice, and none leaves a first-packet time behind.
RecordsAreOrdered ==
    /\ IsInjective(counted)
    /\ firstTimes \cap completed = {}
    /\ kinds[session] = "latency" /\ mpc # "construct" =>
         /\ \A i \in DOMAIN written : written[i] = i
         /\ Len(written) + 1 \notin completed
         /\ completed \cap Requests \subseteq {counted[i][2] : i \in DOMAIN counted}
         /\ rpc = "done" => Len(written) = NumRequests

\* A request or file with a latency on record was received by the server in full,
\* in this session, unless the network delivered something twice: a response with
\* the same number from a session before cannot be told from this one's.
RecordedMeansServed ==
    ~doubled /\ mpc # "construct" =>
        \A i \in DOMAIN counted : <<session, counted[i][2]>> \in served

\* The round-trip time told to the server in a handshake is the time between the
\* hello and the answer of that handshake, while no hello was repeated, no handshake
\* was abandoned and nothing was delivered twice.
RttOfItsHandshake ==
    ~doubled /\ ~unsure =>
        stored.rtt.sent = stored.handshake /\ stored.rtt.answered = stored.handshake

\* The UE comes to the end of its configurations, or dies in a constructor, unless a
\* registration, a request or an answer to one was lost or late, the handling of a
\* request ended in an exception, or the server had forgotten the client when its
\* request, or its first hello, came: then the receiver, which has no timeout, is
\* joined for ever, or the sender says hello for ever.  A lost hello is sent again.
SessionsEndUnlessCut == <>(mpc \in {"done", "dead"} \/ cut)
=============================================================================
