-------------------------- MODULE PetsClient_proofs --------------------------
(***************************************************************************)
(* What a client records of its requests was served, and the round-trip    *)
(* time it reports is that of one handshake, for any number of sessions,   *)
(* requests and handshakes.  Both hold as long as the network delivers     *)
(* nothing twice: then a session leaves no answer behind for the next one. *)
(* The lines it leaves are those of its requests, in order and none twice. *)
(***************************************************************************)
EXTENDS PetsClient, WellFoundedInduction, TLAPS

Datagrams == [type : {"registration", "registered", "hello", "handshake", "rtt", "request", "first",
                      "done"},
              session : Nat, id : Nat, rtt : [sent : Nat, answered : Nat]]

Types ==
    /\ session \in Nat
    /\ mpc \in {"construct", "receiver", "sender", "joinSender", "joinReceiver", "done", "dead"}
    /\ spc \in {"off", "register", "registering", "handshake", "send", "connect", "chunks",
               "answer", "done"}
    /\ rpc \in {"off", "recv", "done", "failed"}
    /\ hpc \in {"off", "hello", "wait", "idle", "done"}
    /\ handler \in {"none", "line", "data", "closed"}
    /\ regDone \in BOOLEAN /\ hsDone \in BOOLEAN /\ doubled \in BOOLEAN /\ unsure \in BOOLEAN
    /\ next \in Nat \ {0} /\ c0 \in Nat /\ completed \subseteq Nat
    /\ up \subseteq Datagrams /\ down \subseteq Datagrams
    /\ served \subseteq Nat \X Nat /\ counted \in Seq(Nat \X Nat)
    /\ rtt \in [sent : Nat, answered : Nat]
    /\ stored \in [handshake : Nat, rtt : [sent : Nat, answered : Nat]]

\* The three threads and main keep step: a sender runs only while main waits for it,
\* a registration is answered only to a receiver that has its port.
Stages ==
    /\ spc \notin {"off", "done"} => mpc = "joinSender"
    /\ spc \in {"register", "registering", "handshake", "send"} => kinds[session] # "file"
    /\ spc \in {"connect", "chunks", "answer"} => kinds[session] = "file"
    /\ spc \in {"handshake", "send"} => rpc \in {"recv", "done"}
    /\ mpc = "receiver" => ~regDone
    /\ rpc = "recv" => mpc \notin {"construct", "receiver"}
    /\ mpc \notin {"construct", "receiver"} /\ regDone => rpc \in {"recv", "done"}
    /\ mpc \in {"sender", "joinSender", "joinReceiver"} /\ kinds[session] # "file" /\ rpc = "done"
          => Requests \subseteq completed
    /\ mpc \in {"receiver", "sender"} \/ spc \in {"register", "registering"} => hpc = "off"
    /\ hpc \in {"hello", "wait"} => spc \in {"handshake", "send"}
    /\ handler \in {"line", "data"} => spc \in {"chunks", "answer"}

\* A request on its way, or its answer, is of the session main waits for, and not complete yet.
Pending(d) ==
    /\ mpc \in {"joinSender", "joinReceiver"}
    /\ kinds[session] # "file" /\ rpc \in {"recv", "done"}
    /\ d = Datagram(d.type, d.id)
    /\ d.id \in Requests \ completed /\ d.id < next

Exchanged ==
    /\ \A d \in up : d.type = "request" => Pending(d) /\ <<session, d.id>> \notin served
    /\ \A d \in down : d.type = "done" => Pending(d) /\ <<session, d.id>> \in served
    /\ \A k \in completed : k < next
    /\ \A p \in served :
         /\ p[1] <= session
         /\ p[1] = session => mpc \notin {"construct", "receiver", "sender"}
         /\ p[1] = session /\ kinds[session] # "file" => p[2] < next
    /\ spc \in {"chunks", "answer"} /\ answer = "DONE" => <<session, next>> \in served

ServedInv == Types /\ Stages /\ (~doubled => Exchanged /\ RecordedMeansServed)

\* At most one of a hello and its answer is on its way, and it is that of the
\* handshake the client waits for.
Greeted ==
    /\ \A d \in up : d.type = "hello" => d = Datagram("hello", c0) /\ hpc = "wait" /\ ~hsDone
    /\ \A d \in down : d.type = "handshake" => d = Datagram("handshake", c0) /\ hpc = "wait" /\ ~hsDone
    /\ \A d \in up, e \in down : ~(d.type = "hello" /\ e.type = "handshake")
    /\ hpc = "hello" \/ mpc \in {"receiver", "sender"} \/ spc \in {"register", "registering"} => ~hsDone
    /\ hpc = "wait" /\ hsDone => rtt = [sent |-> c0, answered |-> c0]
    /\ \A d \in up : d.type = "rtt" => d.rtt = [sent |-> d.id, answered |-> d.id]
    /\ stored.rtt = [sent |-> stored.handshake, answered |-> stored.handshake]

GreetedInv == Types /\ Stages /\ (~doubled /\ ~unsure => Greeted)
-----------------------------------------------------------------------------
(* The steps of the programs, without the program *)

MainSteps == Construct \/ StartReceiver \/ StartSender \/ JoinThreads

SenderSteps ==
    \/ SendRegistration \/ SenderFails \/ Registered \/ RegistrationTimesOut \/ HandshakeReturns
    \/ SendRequest \/ AllSent

HandshakeSteps == SendHello \/ ResendHello \/ SendRtt \/ RepeatHandshake \/ HandshakeFails

FileSteps ==
    \/ FileConnects \/ FileConnectFails \/ FileSends \/ FileBreaks \/ FileReceives \/ AllFiles
    \/ ReadLine \/ ReadData

NetworkSteps(d) == Lose(d) \/ Vanish(d)

ReceiverSteps(d) == ReceiveRegistered(d) \/ ReceiveHandshake(d) \/ ReceiveResponse(d)

ServerSteps(d) ==
    ServeRegistration(d) \/ ServeHello(d) \/ ServeRtt(d) \/ ServeRequest(d) \/ FailRequest(d)

\* A step that changes nothing a client sees: the server forgets it.
Unseen ==
    UNCHANGED <<mainVars, senderVars, hsVars, rcvVars, eventVars, netVars, served, stored, fileVars, cut,
                doubled, unsure>>

LEMMA UnseenSteps == UNCHANGED vars \/ Cleanup => Unseen
  BY DEF vars, Unseen, Cleanup, Forget, serverVars, histVars

LEMMA NextSteps ==
    ASSUME Next
    PROVE  \/ MainSteps \/ SenderSteps \/ HandshakeSteps \/ FileSteps
           \/ \E d \in up \cup down : NetworkSteps(d)
           \/ \E d \in down : ReceiverSteps(d)
           \/ \E d \in up : ServerSteps(d)
           \/ Unseen
<1>1. MainThread => MainSteps
  BY DEF MainThread, TimestampStarts, TimestampMain, FirstStarts, FirstMain, WiredStarts, WiredMain,
         TuttiStarts, TuttiMain, SimpleStarts, SimpleMain, Main, MainSteps
<1>2. SenderThread => SenderSteps \/ FileSteps
  BY DEF SenderThread, TimestampSends, TimestampFiles, FirstSends, FirstFiles, WiredSends, WiredFiles,
         TuttiSends, SimpleSends, Sender, SendFileRequests, SenderSteps, FileSteps
<1>3. ReceiverThread => \E d \in down : ReceiverSteps(d)
  BY DEF ReceiverThread, TimestampReceives, FirstReceives, WiredReceives, TuttiReceives,
         SimpleReceives, ReceiveResponses, ReceiveClock, ReceiverSteps
<1>4. TimestampClock \/ RepeatHandshake \/ HandshakeFails => HandshakeSteps
  BY DEF TimestampClock, PerformHandshake, HandshakeSteps
<1>5. Server => \E d \in up : ServerSteps(d)
  BY DEF Server, ServerSteps
<1>6. FileTransferHandler => FileSteps
  BY DEF FileTransferHandler, FileSteps
<1>7. Network => \E d \in up \cup down : NetworkSteps(d)
  BY DEF Network, NetworkSteps
<1>8. Cleanup => Unseen
  BY UnseenSteps
<1> QED
  BY <1>1, <1>2, <1>3, <1>4, <1>5, <1>6, <1>7, <1>8 DEF Next

-----------------------------------------------------------------------------
(* Types *)

LEMMA DatagramTypes ==
    ASSUME Types
    PROVE  /\ <<>> \in Seq(Nat \X Nat) /\ NoRtt \in [sent : Nat, answered : Nat]
           /\ \A p \in Nat \X Nat : Append(counted, p) \in Seq(Nat \X Nat)
           /\ \A type \in {"registration", "registered", "hello", "handshake", "rtt", "request",
                          "first", "done"} :
                \A id \in Nat : Datagram(type, id) \in Datagrams
           /\ \A d \in Datagrams :
                \A type \in {"registered", "handshake", "first", "done"} : Answer(d, type) \in Datagrams
           /\ [Datagram("rtt", c0) EXCEPT !.rtt = rtt] \in Datagrams
<1>1. <<>> \in Seq(Nat \X Nat) /\ NoRtt \in [sent : Nat, answered : Nat]
  BY DEF NoRtt
<1>2. \A p \in Nat \X Nat : Append(counted, p) \in Seq(Nat \X Nat)
  BY DEF Types
<1>3. ASSUME NEW type \in {"registration", "registered", "hello", "handshake", "rtt", "request",
                          "first", "done"},
             NEW id \in Nat
      PROVE  Datagram(type, id) \in Datagrams
  BY <1>1 DEF Types, Datagrams, Datagram
<1>4. ASSUME NEW d \in Datagrams, NEW type \in {"registered", "handshake", "first", "done"}
      PROVE  Answer(d, type) \in Datagrams
  BY <1>1 DEF Datagrams, Answer
<1>5. ASSUME NEW d \in Datagrams
      PROVE  [d EXCEPT !.rtt = rtt] \in Datagrams
  BY DEF Types, Datagrams
<1>6. Datagram("rtt", c0) \in Datagrams
  BY <1>3 DEF Types
<1> QED
  BY <1>1, <1>2, <1>3, <1>4, <1>5, <1>6

\* An answer is the datagram of its type with the same session and number.
LEMMA AnswerToDatagram ==
    ASSUME NEW t, NEW u, NEW n
    PROVE  Answer(Datagram(t, n), u) = Datagram(u, n)
<1> DEFINE d == [type |-> t, session |-> session, id |-> n, rtt |-> NoRtt]
<1>1. [d EXCEPT !.type = u] = [type |-> u, session |-> session, id |-> n, rtt |-> NoRtt]
  OBVIOUS
<1>2. [[d EXCEPT !.type = u] EXCEPT !.rtt = NoRtt]
        = [type |-> u, session |-> session, id |-> n, rtt |-> NoRtt]
  BY <1>1
<1> QED
  BY <1>1, <1>2 DEF Answer, Datagram

LEMMA MainTypes ==
    ASSUME Types, MainSteps
    PROVE  Types'
<1> USE DEF Types, mainVars, senderVars, hsVars, rcvVars, eventVars, netVars, serverVars, fileVars,
            histVars
<1>1. CASE Construct
  <2>1. counted' \in Seq(Nat \X Nat) /\ rtt' \in [sent : Nat, answered : Nat]
    BY <1>1, DatagramTypes DEF Construct
  <2>2. /\ regDone' \in BOOLEAN /\ hsDone' \in BOOLEAN /\ doubled' \in BOOLEAN /\ unsure' \in BOOLEAN
        /\ spc' = "off" /\ rpc' = "off" /\ hpc' = "off" /\ next' = 1 /\ completed' = {}
        /\ mpc' \in {"receiver", "dead"}
    BY <1>1 DEF Construct
  <2> QED
    BY <1>1, <2>1, <2>2 DEF Construct
<1>2. CASE StartReceiver
  BY <1>2 DEF StartReceiver
<1>3. CASE StartSender
  BY <1>3 DEF StartSender
<1>4. CASE JoinThreads
  BY <1>4 DEF JoinThreads
<1> QED
  BY <1>1, <1>2, <1>3, <1>4 DEF MainSteps

LEMMA SenderTypes ==
    ASSUME Types, SenderSteps
    PROVE  Types'
<1> USE DEF Types, mainVars, senderVars, hsVars, rcvVars, eventVars, netVars, serverVars, fileVars,
            histVars, Leave
<1>1. CASE SendRegistration
  <2>1. up' \subseteq Datagrams
    BY <1>1, DatagramTypes DEF SendRegistration
  <2> QED
    BY <1>1, <2>1 DEF SendRegistration
<1>2. CASE SenderFails
  BY SMTT(30), <1>2, DatagramTypes DEF SenderFails
<1>3. CASE Registered
  BY SMTT(30), <1>3, DatagramTypes DEF Registered
<1>4. CASE RegistrationTimesOut
  BY SMTT(30), <1>4, DatagramTypes DEF RegistrationTimesOut
<1>5. CASE HandshakeReturns
  BY SMTT(30), <1>5, DatagramTypes DEF HandshakeReturns
<1>6. CASE SendRequest
  <2>1. up' \subseteq Datagrams
    BY <1>6, DatagramTypes DEF SendRequest
  <2> QED
    BY <1>6, <2>1 DEF SendRequest
<1>7. CASE AllSent
  BY SMTT(30), <1>7, DatagramTypes DEF AllSent
<1> QED
  BY <1>1, <1>2, <1>3, <1>4, <1>5, <1>6, <1>7 DEF SenderSteps

LEMMA HandshakeTypes ==
    ASSUME Types, HandshakeSteps
    PROVE  Types'
<1> USE DEF Types, mainVars, senderVars, hsVars, rcvVars, eventVars, netVars, serverVars, fileVars,
            histVars
<1>1. CASE SendHello
  <2>1. Datagram("hello", c0 + 1) \in Datagrams /\ c0 + 1 \in Nat
    BY DatagramTypes
  <2>2. up' = up \cup {Datagram("hello", c0 + 1)}
    BY <1>1 DEF SendHello
  <2>3. up' \subseteq Datagrams
    BY <2>1, <2>2
  <2> QED
    BY <1>1, <2>1, <2>3 DEF SendHello
<1>2. CASE ResendHello
  <2>1. up' \subseteq Datagrams
    BY <1>2, DatagramTypes DEF ResendHello
  <2> QED
    BY <1>2, <2>1 DEF ResendHello
<1>3. CASE SendRtt
  <2>1. up' \subseteq Datagrams
    BY <1>3, DatagramTypes DEF SendRtt
  <2> QED
    BY <1>3, <2>1 DEF SendRtt
<1>4. CASE RepeatHandshake
  BY <1>4, DatagramTypes DEF RepeatHandshake
<1>5. CASE HandshakeFails
  BY <1>5, DatagramTypes DEF HandshakeFails
<1> QED
  BY <1>1, <1>2, <1>3, <1>4, <1>5 DEF HandshakeSteps

LEMMA FileTypes ==
    ASSUME Types, FileSteps
    PROVE  Types'
<1> USE DEF Types, mainVars, senderVars, hsVars, rcvVars, eventVars, netVars, serverVars, fileVars,
            histVars, FileStep
<1>1. CASE FileConnects
  BY <1>1 DEF FileConnects
<1>2. CASE FileConnectFails
  BY <1>2 DEF FileConnectFails
<1>3. CASE FileSends
  BY <1>3 DEF FileSends
<1>4. CASE FileBreaks
  BY <1>4 DEF FileBreaks
<1>5. CASE FileReceives
  <2>1. counted' \in Seq(Nat \X Nat)
    <3>1. Append(counted, <<session, next>>) \in Seq(Nat \X Nat)
      BY DatagramTypes
    <3>2. counted' \in {counted, Append(counted, <<session, next>>)}
      BY <1>5 DEF FileReceives
    <3> QED
      BY <3>1, <3>2
  <2>2. next' \in Nat \ {0} /\ spc' = "connect" /\ served' = served
    BY <1>5 DEF FileReceives
  <2> QED
    BY SMTT(30), <1>5, <2>1, <2>2 DEF FileReceives
<1>6. CASE AllFiles
  BY <1>6 DEF AllFiles
<1>7. CASE ReadLine
  BY <1>7 DEF ReadLine
<1>8. CASE ReadData
  BY <1>8 DEF ReadData
<1> QED
  BY <1>1, <1>2, <1>3, <1>4, <1>5, <1>6, <1>7, <1>8 DEF FileSteps

LEMMA NetworkTypes ==
    ASSUME Types, NEW d, NetworkSteps(d)
    PROVE  Types'
<1> USE DEF Types, mainVars, senderVars, hsVars, rcvVars, eventVars, netVars, serverVars, fileVars,
            histVars
<1>1. CASE Lose(d)
  BY <1>1 DEF Lose
<1>2. CASE Vanish(d)
  BY <1>2 DEF Vanish
<1> QED
  BY <1>1, <1>2 DEF NetworkSteps

LEMMA ReceiverTypes ==
    ASSUME Types, NEW d \in down, ReceiverSteps(d)
    PROVE  Types'
<1> USE DEF Types, mainVars, senderVars, hsVars, rcvVars, eventVars, netVars, serverVars, fileVars,
            histVars, Receives, Taken
<1>1. CASE ReceiveRegistered(d)
  <2>1. down' \subseteq Datagrams
    BY <1>1 DEF ReceiveRegistered
  <2>2. doubled' \in BOOLEAN
    BY <1>1 DEF ReceiveRegistered
  <2>3. regDone' \in BOOLEAN
    BY <1>1 DEF ReceiveRegistered
  <2>4. hsDone' \in BOOLEAN /\ rtt' = rtt /\ UNCHANGED <<rpc, completed, counted>>
    BY <1>1 DEF ReceiveRegistered
  <2> QED
    BY <1>1, <2>1, <2>2, <2>3, <2>4 DEF ReceiveRegistered
<1>2. CASE ReceiveHandshake(d)
  <2>1. down' \subseteq Datagrams /\ d.id \in Nat
    BY <1>2 DEF ReceiveHandshake, Datagrams
  <2>2. doubled' \in BOOLEAN
    BY <1>2 DEF ReceiveHandshake
  <2>3. rtt' \in [sent : Nat, answered : Nat]
    BY <1>2, <2>1 DEF ReceiveHandshake
  <2>4. hsDone' \in BOOLEAN /\ regDone' \in BOOLEAN /\ UNCHANGED <<rpc, completed, counted>>
    BY <1>2 DEF ReceiveHandshake
  <2> QED
    BY <1>2, <2>1, <2>2, <2>3, <2>4 DEF ReceiveHandshake
<1>3. CASE ReceiveResponse(d)
  <2>1. down' \subseteq Datagrams /\ <<d.session, d.id>> \in Nat \X Nat
    BY <1>3 DEF ReceiveResponse, Datagrams
  <2>2. doubled' \in BOOLEAN
    BY <1>3 DEF ReceiveResponse
  <2>3. counted' \in Seq(Nat \X Nat)
    BY <1>3, <2>1, DatagramTypes DEF ReceiveResponse
  <2>4. rpc' \in {"off", "recv", "done", "failed"} /\ completed' \subseteq Nat
    BY <1>3, <2>1 DEF ReceiveResponse
  <2>5. hsDone' = hsDone /\ regDone' = regDone /\ rtt' = rtt
    BY <1>3 DEF ReceiveResponse
  <2> QED
    BY <1>3, <2>1, <2>2, <2>3, <2>4, <2>5 DEF ReceiveResponse
<1> QED
  BY <1>1, <1>2, <1>3 DEF ReceiverSteps

LEMMA ServerTypes ==
    ASSUME Types, NEW d \in up, ServerSteps(d)
    PROVE  Types'
<1> USE DEF Types, mainVars, senderVars, hsVars, rcvVars, eventVars, netVars, serverVars, fileVars,
            histVars, Serves, Taken
<1>1. CASE ServeRegistration(d)
  <2>1. up' \subseteq Datagrams /\ down' \subseteq Datagrams
    BY <1>1, DatagramTypes DEF ServeRegistration
  <2>2. doubled' \in BOOLEAN
    BY <1>1 DEF ServeRegistration
  <2>3. served' = served /\ stored' = stored
    BY <1>1 DEF ServeRegistration
  <2> QED
    BY <1>1, <2>1, <2>2, <2>3 DEF ServeRegistration
<1>2. CASE ServeHello(d)
  <2>1. up' \subseteq Datagrams /\ down' \subseteq Datagrams
    <3>1. Answer(d, "handshake") \in Datagrams
      BY DatagramTypes
    <3>2. up' \subseteq up /\ down' \subseteq down \cup {Answer(d, "handshake")}
      BY <1>2 DEF ServeHello
    <3> QED
      BY <3>1, <3>2
  <2>2. doubled' \in BOOLEAN
    BY <1>2 DEF ServeHello
  <2>3. served' = served /\ stored' = stored
    BY <1>2 DEF ServeHello
  <2> QED
    BY <1>2, <2>1, <2>2, <2>3 DEF ServeHello
<1>3. CASE ServeRtt(d)
  <2>1. up' \subseteq Datagrams /\ down' \subseteq Datagrams
    BY <1>3 DEF ServeRtt
  <2>2. doubled' \in BOOLEAN
    BY <1>3 DEF ServeRtt
  <2>3. served' = served /\ stored' \in [handshake : Nat, rtt : [sent : Nat, answered : Nat]]
    BY <1>3 DEF ServeRtt, Datagrams
  <2> QED
    BY <1>3, <2>1, <2>2, <2>3 DEF ServeRtt
<1>4. CASE ServeRequest(d)
  <2>1. d \in Datagrams /\ <<d.session, d.id>> \in Nat \X Nat
    BY DEF Datagrams
  <2>2. Answer(d, "first") \in Datagrams /\ Answer(d, "done") \in Datagrams
    BY <2>1, DatagramTypes
  <2>3. up' \subseteq Datagrams /\ down' \subseteq Datagrams
    BY <1>4, <2>2 DEF ServeRequest, FirstAnswer
  <2>4. doubled' \in BOOLEAN
    BY <1>4 DEF ServeRequest
  <2>5. served' \subseteq Nat \X Nat /\ stored' = stored
    BY <1>4, <2>1 DEF ServeRequest
  <2>6. UNCHANGED <<mainVars, senderVars, hsVars, rcvVars, eventVars, fileVars, unsure>>
    BY <1>4 DEF ServeRequest
  <2> QED
    BY <2>3, <2>4, <2>5, <2>6
<1>5. CASE FailRequest(d)
  <2>1. Answer(d, "first") \in Datagrams
    BY DatagramTypes
  <2>2. up' \subseteq Datagrams /\ down' \subseteq Datagrams
    BY <1>5, <2>1 DEF FailRequest, FirstAnswer
  <2> QED
    BY <1>5, <2>2 DEF FailRequest
<1> QED
  BY <1>1, <1>2, <1>3, <1>4, <1>5 DEF ServerSteps

LEMMA MainStages ==
    ASSUME Types, Stages, MainSteps
    PROVE  Stages'
<1> USE DEF Types, Stages, mainVars, senderVars, hsVars, rcvVars, eventVars, netVars, serverVars,
            fileVars, histVars
<1>1. CASE Construct
  BY <1>1 DEF Construct
<1>2. CASE StartReceiver
  BY <1>2 DEF StartReceiver
<1>3. CASE StartSender
  BY <1>3 DEF StartSender
<1>4. CASE JoinThreads
  BY <1>4 DEF JoinThreads
<1> QED
  BY <1>1, <1>2, <1>3, <1>4 DEF MainSteps

LEMMA SenderStages ==
    ASSUME Types, Stages, SenderSteps
    PROVE  Stages'
<1> USE DEF Types, Stages, mainVars, senderVars, hsVars, rcvVars, eventVars, netVars, serverVars,
            fileVars, histVars, Leave
<1>1. CASE SendRegistration
  BY <1>1 DEF SendRegistration
<1>2. CASE SenderFails
  BY <1>2 DEF SenderFails
<1>3. CASE Registered
  BY <1>3 DEF Registered
<1>4. CASE RegistrationTimesOut
  BY <1>4 DEF RegistrationTimesOut
<1>5. CASE HandshakeReturns
  BY <1>5 DEF HandshakeReturns
<1>6. CASE SendRequest
  BY <1>6 DEF SendRequest
<1>7. CASE AllSent
  BY <1>7 DEF AllSent
<1> QED
  BY <1>1, <1>2, <1>3, <1>4, <1>5, <1>6, <1>7 DEF SenderSteps

LEMMA HandshakeStages ==
    ASSUME Types, Stages, HandshakeSteps
    PROVE  Stages'
<1> USE DEF Types, Stages, mainVars, senderVars, hsVars, rcvVars, eventVars, netVars, serverVars,
            fileVars, histVars
<1>1. CASE SendHello
  BY <1>1 DEF SendHello
<1>2. CASE ResendHello
  BY <1>2 DEF ResendHello
<1>3. CASE SendRtt
  BY <1>3 DEF SendRtt
<1>4. CASE RepeatHandshake
  BY <1>4 DEF RepeatHandshake
<1>5. CASE HandshakeFails
  BY <1>5 DEF HandshakeFails
<1> QED
  BY <1>1, <1>2, <1>3, <1>4, <1>5 DEF HandshakeSteps

LEMMA FileStages ==
    ASSUME Types, Stages, FileSteps
    PROVE  Stages'
<1> USE DEF Types, Stages, mainVars, senderVars, hsVars, rcvVars, eventVars, netVars, serverVars,
            fileVars, histVars, FileStep
<1>1. CASE FileConnects
  BY <1>1 DEF FileConnects
<1>2. CASE FileConnectFails
  BY <1>2 DEF FileConnectFails
<1>3. CASE FileSends
  BY <1>3 DEF FileSends
<1>4. CASE FileBreaks
  BY <1>4 DEF FileBreaks
<1>5. CASE FileReceives
  BY <1>5 DEF FileReceives
<1>6. CASE AllFiles
  BY <1>6 DEF AllFiles
<1>7. CASE ReadLine
  BY <1>7 DEF ReadLine
<1>8. CASE ReadData
  BY <1>8 DEF ReadData
<1> QED
  BY <1>1, <1>2, <1>3, <1>4, <1>5, <1>6, <1>7, <1>8 DEF FileSteps

LEMMA NetworkStages ==
    ASSUME Types, Stages, NEW d, NetworkSteps(d)
    PROVE  Stages'
<1> USE DEF Types, Stages, mainVars, senderVars, hsVars, rcvVars, eventVars, netVars, serverVars,
            fileVars, histVars
<1>1. CASE Lose(d)
  BY <1>1 DEF Lose
<1>2. CASE Vanish(d)
  BY <1>2 DEF Vanish
<1> QED
  BY <1>1, <1>2 DEF NetworkSteps

LEMMA ReceiverStages ==
    ASSUME Types, Stages, NEW d \in down, ReceiverSteps(d)
    PROVE  Stages'
<1> USE DEF Types, Stages, mainVars, senderVars, hsVars, rcvVars, eventVars, netVars, serverVars,
            fileVars, histVars, Receives
<1>1. CASE ReceiveRegistered(d)
  <2>1. UNCHANGED <<session, kinds, mpc, spc, hpc, rpc, completed, handler>> /\ rpc = "recv" /\ regDone'
    BY <1>1 DEF ReceiveRegistered
  <2> QED
    BY <2>1
<1>2. CASE ReceiveHandshake(d)
  BY <1>2 DEF ReceiveHandshake
<1>3. CASE ReceiveResponse(d)
  BY <1>3 DEF ReceiveResponse
<1> QED
  BY <1>1, <1>2, <1>3 DEF ReceiverSteps

LEMMA ServerStages ==
    ASSUME Types, Stages, NEW d \in up, ServerSteps(d)
    PROVE  Stages'
<1> USE DEF Types, Stages, mainVars, senderVars, hsVars, rcvVars, eventVars, netVars, serverVars,
            fileVars, histVars, Serves
<1>1. CASE ServeRegistration(d)
  BY <1>1 DEF ServeRegistration
<1>2. CASE ServeHello(d)
  BY <1>2 DEF ServeHello
<1>3. CASE ServeRtt(d)
  BY <1>3 DEF ServeRtt
<1>4. CASE ServeRequest(d)
  BY <1>4 DEF ServeRequest
<1>5. CASE FailRequest(d)
  BY <1>5 DEF FailRequest
<1> QED
  BY <1>1, <1>2, <1>3, <1>4, <1>5 DEF ServerSteps

LEMMA RecordedAppend ==
    ASSUME NEW S, NEW n, NEW q \in Seq(Nat \X Nat), NEW p \in Nat \X Nat,
           \A i \in DOMAIN q : <<n, q[i][2]>> \in S, <<n, p[2]>> \in S
    PROVE  \A i \in DOMAIN Append(q, p) : <<n, Append(q, p)[i][2]>> \in S
<1>1. Len(q) \in Nat /\ DOMAIN q = 1..Len(q)
  OBVIOUS
<1> DEFINE r == Append(q, p)
<1>2. /\ DOMAIN r = 1..(Len(q) + 1) /\ r[Len(q) + 1] = p
      /\ \A i \in 1..Len(q) : r[i] = q[i]
  OBVIOUS
<1> HIDE DEF r
<1>3. ASSUME NEW i \in DOMAIN r
      PROVE  <<n, r[i][2]>> \in S
  <2>1. CASE i = Len(q) + 1
    BY <1>2, <2>1
  <2>2. CASE i \in 1..Len(q)
    BY <1>1, <1>2, <2>2
  <2> QED
    BY <1>1, <1>2, <2>1, <2>2
<1> QED
  BY <1>3 DEF r

LEMMA MainExchanges ==
    ASSUME Types, Stages, Exchanged, RecordedMeansServed, ~doubled, ~doubled', MainSteps
    PROVE  Exchanged' /\ RecordedMeansServed'
<1> USE DEF Types, Stages, Exchanged, Pending, RecordedMeansServed, mainVars, senderVars, hsVars,
            rcvVars, eventVars, netVars, serverVars, fileVars, histVars
<1>1. CASE Construct
  BY <1>1 DEF Construct, Datagram
<1>2. CASE StartReceiver
  BY <1>2 DEF StartReceiver, Datagram
<1>3. CASE StartSender
  BY <1>3 DEF StartSender, Datagram
<1>4. CASE JoinThreads
  <2>1. ASSUME rpc \in {"done", "failed"}, mpc = "joinReceiver"
        PROVE  /\ \A d \in up : d.type # "request"
               /\ \A d \in down : d.type # "done"
    BY <2>1
  <2>2. /\ UNCHANGED <<up, down, served, completed, counted, next, spc, answer, rpc, doubled>>
        /\ mpc' # "construct" => session' = session /\ kinds' = kinds
        /\ mpc' = "construct" => session' = session + 1
        /\ mpc \in {"joinSender", "joinReceiver"} /\ mpc' \in {"joinReceiver", "construct", "done"}
        /\ mpc = "joinReceiver" => rpc \in {"done", "failed"}
        /\ mpc = "joinSender" => mpc' = "joinReceiver"
    BY <1>4 DEF JoinThreads
  <2>3. /\ \A d \in up' : d.type = "request" => Pending(d)' /\ <<session', d.id>> \notin served'
        /\ \A d \in down' : d.type = "done" => Pending(d)' /\ <<session', d.id>> \in served'
    BY <2>1, <2>2 DEF Datagram
  <2>4. \A p \in served' :
         /\ p[1] <= session'
         /\ p[1] = session' => mpc' \notin {"construct", "receiver", "sender"}
         /\ p[1] = session' /\ kinds'[session'] # "file" => p[2] < next'
    BY <2>2
  <2>5. spc' \in {"chunks", "answer"} /\ answer' = "DONE" => <<session', next'>> \in served'
    BY <1>4, <2>2 DEF JoinThreads
  <2> QED
    BY <2>2, <2>3, <2>4, <2>5
<1> QED
  BY <1>1, <1>2, <1>3, <1>4 DEF MainSteps

LEMMA SenderExchanges ==
    ASSUME Types, Stages, Exchanged, RecordedMeansServed, ~doubled, ~doubled', SenderSteps
    PROVE  Exchanged' /\ RecordedMeansServed'
<1> USE DEF Types, Stages, Exchanged, Pending, RecordedMeansServed, mainVars, senderVars, hsVars,
            rcvVars, eventVars, netVars, serverVars, fileVars, histVars, Leave
<1>1. CASE SendRegistration
  BY <1>1 DEF SendRegistration, Datagram
<1>2. CASE SenderFails
  BY <1>2 DEF SenderFails, Datagram
<1>3. CASE Registered
  BY <1>3 DEF Registered, Datagram
<1>4. CASE RegistrationTimesOut
  BY <1>4 DEF RegistrationTimesOut, Datagram
<1>5. CASE HandshakeReturns
  BY <1>5 DEF HandshakeReturns, Datagram
<1>6. CASE SendRequest
  <2>0. PICK r : r = Datagram("request", next)
    OBVIOUS
  <2>1. /\ r.type = "request" /\ r.id = next /\ mpc = "joinSender" /\ kinds[session] # "file"
        /\ rpc \in {"recv", "done"} /\ next \in Requests
    BY <1>6, <2>0 DEF SendRequest, Datagram
  <2>2. /\ up' = up \cup {r} /\ next' = next + 1
        /\ UNCHANGED <<down, served, completed, counted, session, kinds, mpc, rpc, spc, answer>>
    BY <1>6, <2>0 DEF SendRequest
  <2>3. next \notin completed /\ <<session, next>> \notin served
    BY <2>1
  <2>4. \A d \in Datagrams : Pending(d) => Pending(d)'
    BY <2>2 DEF Datagram, Datagrams
  <2>5. Pending(r)'
    BY <2>0, <2>1, <2>2, <2>3 DEF Datagram
  <2> HIDE DEF Pending
  <2>6. \A d \in up' : d.type = "request" => Pending(d)' /\ <<session', d.id>> \notin served'
    BY <2>1, <2>2, <2>3, <2>4, <2>5
  <2>7. \A d \in down' : d.type = "done" => Pending(d)' /\ <<session', d.id>> \in served'
    BY <2>2, <2>4
  <2>8. /\ \A k \in completed' : k < next'
        /\ \A p \in served' : p[1] = session' /\ kinds'[session'] # "file" => p[2] < next'
    BY <2>1, <2>2
  <2> QED
    BY <2>1, <2>2, <2>6, <2>7, <2>8
<1>7. CASE AllSent
  BY <1>7 DEF AllSent, Datagram
<1> QED
  BY <1>1, <1>2, <1>3, <1>4, <1>5, <1>6, <1>7 DEF SenderSteps

LEMMA HandshakeExchanges ==
    ASSUME Types, Stages, Exchanged, RecordedMeansServed, ~doubled, ~doubled', HandshakeSteps
    PROVE  Exchanged' /\ RecordedMeansServed'
<1> USE DEF Types, Stages, Exchanged, Pending, RecordedMeansServed, mainVars, senderVars, hsVars,
            rcvVars, eventVars, netVars, serverVars, fileVars, histVars
<1>1. CASE SendHello
  BY <1>1 DEF SendHello, Datagram
<1>2. CASE ResendHello
  BY <1>2 DEF ResendHello, Datagram
<1>3. CASE SendRtt
  BY <1>3 DEF SendRtt, Datagram
<1>4. CASE RepeatHandshake
  BY <1>4 DEF RepeatHandshake, Datagram
<1>5. CASE HandshakeFails
  BY <1>5 DEF HandshakeFails, Datagram
<1> QED
  BY <1>1, <1>2, <1>3, <1>4, <1>5 DEF HandshakeSteps

LEMMA FileExchanges ==
    ASSUME Types, Stages, Exchanged, RecordedMeansServed, ~doubled, ~doubled', FileSteps
    PROVE  Exchanged' /\ RecordedMeansServed'
<1> USE DEF Types, Stages, Exchanged, Pending, RecordedMeansServed, mainVars, senderVars, hsVars,
            rcvVars, eventVars, netVars, serverVars, fileVars, histVars, FileStep
<1>1. CASE FileConnects
  BY <1>1 DEF FileConnects, Datagram
<1>2. CASE FileConnectFails
  BY <1>2 DEF FileConnectFails, Datagram
<1>3. CASE FileSends
  BY <1>3 DEF FileSends, Datagram
<1>4. CASE FileBreaks
  BY <1>4 DEF FileBreaks, Datagram
<1>5. CASE FileReceives
  <2>1. /\ spc = "answer" /\ answer = answer' /\ spc' = "connect" /\ next' = next + 1
        /\ UNCHANGED <<up, down, served, completed, session, kinds, mpc, rpc>>
        /\ \/ counted' = counted
           \/ counted' = Append(counted, <<session, next>>) /\ answer = "DONE"
    BY <1>5 DEF FileReceives
  <2>2. RecordedMeansServed'
    <3>1. CASE counted' = counted
      BY <2>1, <3>1
    <3>2. CASE counted' = Append(counted, <<session, next>>) /\ answer = "DONE"
      <4>1. \A i \in DOMAIN counted : <<session, counted[i][2]>> \in served
        BY <2>1
      <4>2. <<session, next>> \in Nat \X Nat /\ <<session, <<session, next>>[2]>> \in served
        BY <2>1, <3>2
      <4>3. \A i \in DOMAIN counted' : <<session, counted'[i][2]>> \in served
        BY <3>2, <4>1, <4>2, RecordedAppend
      <4> QED
        BY <2>1, <4>3
    <3> QED
      BY <2>1, <3>1, <3>2
  <2>3. Exchanged'
    BY <2>1
  <2> QED
    BY <2>2, <2>3
<1>6. CASE AllFiles
  BY <1>6 DEF AllFiles, Datagram
<1>7. CASE ReadLine
  BY <1>7 DEF ReadLine, Datagram
<1>8. CASE ReadData
  BY <1>8 DEF ReadData, Datagram
<1> QED
  BY <1>1, <1>2, <1>3, <1>4, <1>5, <1>6, <1>7, <1>8 DEF FileSteps

LEMMA NetworkExchanges ==
    ASSUME Types, Stages, Exchanged, RecordedMeansServed, ~doubled, ~doubled',
           NEW d, NetworkSteps(d)
    PROVE  Exchanged' /\ RecordedMeansServed'
<1> USE DEF Types, Stages, Exchanged, Pending, RecordedMeansServed, mainVars, senderVars, hsVars,
            rcvVars, eventVars, netVars, serverVars, fileVars, histVars
<1>1. CASE Lose(d)
  BY <1>1 DEF Lose, Datagram
<1>2. CASE Vanish(d)
  BY <1>2 DEF Vanish, Datagram
<1> QED
  BY <1>1, <1>2 DEF NetworkSteps

LEMMA ReceiverExchanges ==
    ASSUME Types, Stages, Exchanged, RecordedMeansServed, ~doubled, ~doubled',
           NEW d \in down, ReceiverSteps(d)
    PROVE  Exchanged' /\ RecordedMeansServed'
<1> USE DEF Types, Stages, Exchanged, Pending, RecordedMeansServed, mainVars, senderVars, hsVars,
            rcvVars, eventVars, netVars, serverVars, fileVars, histVars, Receives
<1>1. CASE ReceiveRegistered(d)
  <2>1. /\ down' \subseteq down
        /\ UNCHANGED <<up, served, completed, counted, session, kinds, mpc, spc, rpc, next, answer>>
    BY <1>1 DEF ReceiveRegistered, Taken
  <2> QED
    BY <2>1 DEF Datagram
<1>2. CASE ReceiveHandshake(d)
  <2>1. /\ down' \subseteq down
        /\ UNCHANGED <<up, served, completed, counted, session, kinds, mpc, spc, rpc, next, answer>>
    BY <1>2 DEF ReceiveHandshake, Taken
  <2> QED
    BY <2>1 DEF Datagram
<1>3. CASE ReceiveResponse(d)
  <2>1. /\ down' = down \ {d} /\ rpc = "recv" /\ rpc' \in {"recv", "done"}
        /\ UNCHANGED <<up, served, session, kinds, mpc, spc, next, answer>>
    BY <1>3 DEF ReceiveResponse, Taken
  <2>2. \/ completed' = completed /\ counted' = counted
        \/ /\ d.type = "done"
           /\ completed' = completed \cup {d.id} /\ counted' = Append(counted, <<d.session, d.id>>)
    BY <1>3 DEF ReceiveResponse, Completes
  <2>3. d.type = "done" => d.session = session /\ <<session, d.id>> \in served /\ d.id < next
    BY DEF Datagram
  <2>4. \A e \in down' : d.type = "done" /\ e.type = "done" => e.id # d.id
    BY <2>1
  <2>5. \A e \in up : d.type = "done" /\ e.type = "request" => e.id # d.id
    BY <2>3
  <2>6. /\ \A e \in up' : e.type = "request" => Pending(e)' /\ <<session', e.id>> \notin served'
        /\ \A e \in down' : e.type = "done" => Pending(e)' /\ <<session', e.id>> \in served'
    BY <2>1, <2>2, <2>4, <2>5 DEF Datagram
  <2>7. RecordedMeansServed'
    <3>1. d.type = "done" => <<d.session, d.id>> \in Nat \X Nat
      BY DEF Datagrams
    <3>2. CASE counted' = counted
      BY <2>1, <3>2
    <3>3. CASE d.type = "done" /\ counted' = Append(counted, <<d.session, d.id>>)
      <4>1. \A i \in DOMAIN counted : <<session, counted[i][2]>> \in served
        BY <2>1
      <4>2. PICK p : p = <<d.session, d.id>>
        OBVIOUS
      <4>3. p \in Nat \X Nat /\ <<session, p[2]>> \in served /\ counted' = Append(counted, p)
        BY <2>3, <3>1, <3>3, <4>2
      <4>4. counted \in Seq(Nat \X Nat)
        OBVIOUS
      <4> HIDE DEF Types, Stages, Exchanged, Pending, RecordedMeansServed
      <4>5. \A i \in DOMAIN counted' : <<session, counted'[i][2]>> \in served
        BY <4>1, <4>3, <4>4, RecordedAppend
      <4> QED
        BY <2>1, <4>5 DEF RecordedMeansServed
    <3> QED
      BY <2>2, <3>2, <3>3
  <2> QED
    BY <2>1, <2>2, <2>3, <2>6, <2>7
<1> QED
  BY <1>1, <1>2, <1>3 DEF ReceiverSteps

LEMMA ServerExchanges ==
    ASSUME Types, Stages, Exchanged, RecordedMeansServed, ~doubled, ~doubled',
           NEW d \in up, ServerSteps(d)
    PROVE  Exchanged' /\ RecordedMeansServed'
<1> USE DEF Types, Stages, Exchanged, Pending, RecordedMeansServed, mainVars, senderVars, hsVars,
            rcvVars, eventVars, netVars, serverVars, fileVars, histVars, Serves
<1>1. CASE ServeRegistration(d)
  <2>1. /\ up' \subseteq up /\ \A e \in down' : e \in down \/ e.type # "done"
        /\ UNCHANGED <<served, completed, counted, session, kinds, mpc, spc, rpc, next, answer>>
    BY <1>1 DEF ServeRegistration, Taken, Answer, Datagrams
  <2> QED
    BY <2>1 DEF Datagram
<1>2. CASE ServeHello(d)
  <2>1. /\ up' \subseteq up /\ \A e \in down' : e \in down \/ e.type # "done"
        /\ UNCHANGED <<served, completed, counted, session, kinds, mpc, spc, rpc, next, answer>>
    BY <1>2 DEF ServeHello, Taken, Answer, Datagrams
  <2> QED
    BY <2>1 DEF Datagram
<1>3. CASE ServeRtt(d)
  <2>1. /\ up' \subseteq up /\ \A e \in down' : e \in down \/ e.type # "done"
        /\ UNCHANGED <<served, completed, counted, session, kinds, mpc, spc, rpc, next, answer>>
    BY <1>3 DEF ServeRtt, Taken, Answer, Datagrams
  <2> QED
    BY <2>1 DEF Datagram
<1>4. CASE ServeRequest(d)
  <2>0. PICK done : done = Answer(d, "done")
    OBVIOUS
  <2>1. /\ d.type = "request" /\ Pending(d) /\ <<session, d.id>> \notin served /\ up' = up \ {d}
        /\ d.session = session
    BY <1>4 DEF ServeRequest, Taken, Datagram
  <2>2. /\ UNCHANGED <<completed, counted, session, kinds, mpc, spc, rpc, next, answer>>
        /\ \/ /\ served' = served \cup {<<session, d.id>>}
              /\ \A e \in down' : e \in down \cup {done} \/ e.type # "done"
           \/ served' = served /\ down' = down
    <3>1. Answer(d, "first").type = "first"
      BY DEF Answer, Datagrams
    <3>2. \/ served' = served \cup {<<session, d.id>>} /\ down' \subseteq down \cup {Answer(d, "first"), done}
          \/ served' = served /\ down' = down
      BY <1>4, <2>0, <2>1 DEF ServeRequest, FirstAnswer
    <3>3. UNCHANGED <<completed, counted, session, kinds, mpc, spc, rpc, next, answer>>
      BY <1>4 DEF ServeRequest
    <3> QED
      BY <3>1, <3>2, <3>3
  <2>3. done = Datagram("done", d.id) /\ done.type = "done" /\ done.id = d.id
    <3>1. d = Datagram("request", d.id)
      BY <2>1
    <3>2. Answer(Datagram("request", d.id), "done") = Datagram("done", d.id)
      BY AnswerToDatagram
    <3>3. done = Datagram("done", d.id)
      BY <2>0, <3>1, <3>2
    <3> QED
      BY <3>3 DEF Datagram
  <2>4. \A e \in up' : e.type = "request" => e.id # d.id
    BY <2>1
  <2>5. \A e \in up' : e.type = "request" => Pending(e)' /\ <<session', e.id>> \notin served'
    BY <2>1, <2>2, <2>4 DEF Datagram
  <2>6. \A e \in down' : e.type = "done" => Pending(e)' /\ <<session', e.id>> \in served'
    BY <2>1, <2>2, <2>3 DEF Datagram
  <2>7. \A p \in served' :
         /\ p[1] <= session'
         /\ p[1] = session' => mpc' \notin {"construct", "receiver", "sender"}
         /\ p[1] = session' /\ kinds'[session'] # "file" => p[2] < next'
    BY <2>1, <2>2
  <2>8. RecordedMeansServed'
    BY <2>2
  <2> QED
    BY <2>2, <2>5, <2>6, <2>7, <2>8
<1>5. CASE FailRequest(d)
  <2>1. Answer(d, "first").type = "first"
    BY DEF Answer, Datagrams
  <2>2. /\ up' \subseteq up /\ \A e \in down' : e \in down \/ e.type # "done"
        /\ UNCHANGED <<served, completed, counted, session, kinds, mpc, spc, rpc, next, answer>>
    BY <1>5, <2>1 DEF FailRequest, FirstAnswer
  <2> QED
    BY <2>2 DEF Datagram
<1> QED
  BY <1>1, <1>2, <1>3, <1>4, <1>5 DEF ServerSteps

LEMMA MainGreets ==
    ASSUME Types, Stages, Greeted, ~doubled, ~doubled', ~unsure, ~unsure', MainSteps
    PROVE  Greeted'
<1> USE DEF Types, Stages, Greeted, mainVars, senderVars, hsVars, rcvVars, eventVars, netVars,
            serverVars, fileVars, histVars
<1>1. CASE Construct
  BY <1>1 DEF Construct, Datagram
<1>2. CASE StartReceiver
  BY <1>2 DEF StartReceiver, Datagram
<1>3. CASE StartSender
  BY <1>3 DEF StartSender, Datagram
<1>4. CASE JoinThreads
  BY <1>4 DEF JoinThreads, Datagram
<1> QED
  BY <1>1, <1>2, <1>3, <1>4 DEF MainSteps

LEMMA SenderGreets ==
    ASSUME Types, Stages, Greeted, ~doubled, ~doubled', ~unsure, ~unsure', SenderSteps
    PROVE  Greeted'
<1> USE DEF Types, Stages, Greeted, mainVars, senderVars, hsVars, rcvVars, eventVars, netVars,
            serverVars, fileVars, histVars, Leave
<1>1. CASE SendRegistration
  BY <1>1 DEF SendRegistration, Datagram
<1>2. CASE SenderFails
  BY <1>2 DEF SenderFails, Datagram
<1>3. CASE Registered
  BY <1>3 DEF Registered, Datagram
<1>4. CASE RegistrationTimesOut
  BY <1>4 DEF RegistrationTimesOut, Datagram
<1>5. CASE HandshakeReturns
  BY <1>5 DEF HandshakeReturns, Datagram
<1>6. CASE SendRequest
  BY <1>6 DEF SendRequest, Datagram
<1>7. CASE AllSent
  BY <1>7 DEF AllSent, Datagram
<1> QED
  BY <1>1, <1>2, <1>3, <1>4, <1>5, <1>6, <1>7 DEF SenderSteps

LEMMA HandshakeGreets ==
    ASSUME Types, Stages, Greeted, ~doubled, ~doubled', ~unsure, ~unsure', HandshakeSteps
    PROVE  Greeted'
<1> USE DEF Types, Stages, Greeted, mainVars, senderVars, hsVars, rcvVars, eventVars, netVars,
            serverVars, fileVars, histVars
<1>1. CASE SendHello
  BY <1>1 DEF SendHello, Datagram
<1>2. CASE ResendHello
  BY <1>2 DEF ResendHello, Datagram
<1>3. CASE SendRtt
  BY <1>3 DEF SendRtt, Datagram
<1>4. CASE RepeatHandshake
  BY <1>4 DEF RepeatHandshake, Datagram
<1>5. CASE HandshakeFails
  BY <1>5 DEF HandshakeFails, Datagram
<1> QED
  BY <1>1, <1>2, <1>3, <1>4, <1>5 DEF HandshakeSteps

LEMMA FileGreets ==
    ASSUME Types, Stages, Greeted, ~doubled, ~doubled', ~unsure, ~unsure', FileSteps
    PROVE  Greeted'
<1> USE DEF Types, Stages, Greeted, mainVars, senderVars, hsVars, rcvVars, eventVars, netVars,
            serverVars, fileVars, histVars, FileStep
<1>1. CASE FileConnects
  BY <1>1 DEF FileConnects, Datagram
<1>2. CASE FileConnectFails
  BY <1>2 DEF FileConnectFails, Datagram
<1>3. CASE FileSends
  BY <1>3 DEF FileSends, Datagram
<1>4. CASE FileBreaks
  BY <1>4 DEF FileBreaks, Datagram
<1>5. CASE FileReceives
  BY <1>5 DEF FileReceives, Datagram
<1>6. CASE AllFiles
  BY <1>6 DEF AllFiles, Datagram
<1>7. CASE ReadLine
  BY <1>7 DEF ReadLine, Datagram
<1>8. CASE ReadData
  BY <1>8 DEF ReadData, Datagram
<1> QED
  BY <1>1, <1>2, <1>3, <1>4, <1>5, <1>6, <1>7, <1>8 DEF FileSteps

LEMMA NetworkGreets ==
    ASSUME Types, Stages, Greeted, ~doubled, ~doubled', ~unsure, ~unsure', NEW d, NetworkSteps(d)
    PROVE  Greeted'
<1> USE DEF Types, Stages, Greeted, mainVars, senderVars, hsVars, rcvVars, eventVars, netVars,
            serverVars, fileVars, histVars
<1>1. CASE Lose(d)
  BY <1>1 DEF Lose, Datagram
<1>2. CASE Vanish(d)
  BY <1>2 DEF Vanish, Datagram
<1> QED
  BY <1>1, <1>2 DEF NetworkSteps

LEMMA ReceiverGreets ==
    ASSUME Types, Stages, Greeted, ~doubled, ~doubled', ~unsure, ~unsure',
           NEW d \in down, ReceiverSteps(d)
    PROVE  Greeted'
<1> USE DEF Types, Stages, Greeted, mainVars, senderVars, hsVars, rcvVars, eventVars, netVars,
            serverVars, fileVars, histVars, Receives
<1>1. CASE ReceiveRegistered(d)
  <2>1. /\ down' \subseteq down
        /\ UNCHANGED <<up, stored, c0, hpc, hsDone, rtt, session, mpc, spc>>
    BY <1>1 DEF ReceiveRegistered, Taken
  <2> QED
    BY <2>1 DEF Datagram
<1>2. CASE ReceiveHandshake(d)
  <2>1. /\ d.type = "handshake" /\ down' = down \ {d} /\ hsDone'
        /\ rtt' = [sent |-> c0, answered |-> d.id]
        /\ UNCHANGED <<up, stored, c0, hpc, session, mpc, spc>>
    BY <1>2 DEF ReceiveHandshake, Taken
  <2>2. d = Datagram("handshake", c0) /\ d.id = c0 /\ hpc = "wait"
    BY <2>1 DEF Datagram
  <2>3. /\ \A e \in up' : e.type # "hello"
        /\ \A e \in down' : e.type # "handshake"
    BY <2>1, <2>2
  <2> QED
    BY <2>1, <2>2, <2>3
<1>3. CASE ReceiveResponse(d)
  <2>1. /\ down' \subseteq down
        /\ UNCHANGED <<up, stored, c0, hpc, hsDone, rtt, session, mpc, spc>>
    BY <1>3 DEF ReceiveResponse, Taken
  <2> QED
    BY <2>1 DEF Datagram
<1> QED
  BY <1>1, <1>2, <1>3 DEF ReceiverSteps

LEMMA ServerGreets ==
    ASSUME Types, Stages, Greeted, ~doubled, ~doubled', ~unsure, ~unsure',
           NEW d \in up, ServerSteps(d)
    PROVE  Greeted'
<1> USE DEF Types, Stages, Greeted, mainVars, senderVars, hsVars, rcvVars, eventVars, netVars,
            serverVars, fileVars, histVars, Serves
<1>1. CASE ServeRegistration(d)
  <2>1. /\ up' \subseteq up /\ \A e \in down' : e \in down \/ e.type # "handshake"
        /\ UNCHANGED <<stored, c0, hpc, hsDone, rtt, session, mpc, spc>>
    BY <1>1 DEF ServeRegistration, Taken, Answer, Datagrams
  <2> QED
    BY <2>1 DEF Datagram
<1>2. CASE ServeHello(d)
  <2>1. /\ d.type = "hello" /\ up' = up \ {d} /\ down' \subseteq down \cup {Answer(d, "handshake")}
        /\ UNCHANGED <<stored, c0, hpc, hsDone, rtt, session, mpc, spc>>
    BY <1>2 DEF ServeHello, Taken
  <2>2. d = Datagram("hello", c0) /\ hpc = "wait" /\ ~hsDone
    BY <2>1
  <2>3. Answer(d, "handshake") = Datagram("handshake", c0)
    BY <2>2, AnswerToDatagram
  <2>4. /\ \A e \in up' : e.type # "hello"
        /\ \A e \in down' : e.type = "handshake" => e = Datagram("handshake", c0)
    BY <2>1, <2>2, <2>3
  <2>5. Datagram("handshake", c0)' = Datagram("handshake", c0)
    BY <2>1 DEF Datagram
  <2> QED
    BY <2>1, <2>2, <2>4, <2>5
<1>3. CASE ServeRtt(d)
  <2>1. /\ d.type = "rtt" /\ up' \subseteq up /\ down' = down
        /\ stored' \in {stored, [handshake |-> d.id, rtt |-> d.rtt]}
        /\ UNCHANGED <<c0, hpc, hsDone, rtt, session, mpc, spc>>
    BY <1>3 DEF ServeRtt, Taken
  <2>2. stored'.rtt = [sent |-> stored'.handshake, answered |-> stored'.handshake]
    BY <2>1
  <2> QED
    BY <2>1, <2>2 DEF Datagram
<1>4. CASE ServeRequest(d)
  <2>1. /\ up' \subseteq up /\ \A e \in down' : e \in down \/ e.type # "handshake"
        /\ UNCHANGED <<stored, c0, hpc, hsDone, rtt, session, mpc, spc>>
    BY <1>4 DEF ServeRequest, FirstAnswer, Taken, Answer, Datagrams
  <2> QED
    BY <2>1 DEF Datagram
<1>5. CASE FailRequest(d)
  <2>1. Answer(d, "first").type = "first"
    BY DEF Answer, Datagrams
  <2>2. /\ up' \subseteq up /\ \A e \in down' : e \in down \/ e.type # "handshake"
        /\ UNCHANGED <<stored, c0, hpc, hsDone, rtt, session, mpc, spc>>
    BY <1>5, <2>1 DEF FailRequest, FirstAnswer
  <2> QED
    BY <2>2 DEF Datagram
<1> QED
  BY <1>1, <1>2, <1>3, <1>4, <1>5 DEF ServerSteps

-----------------------------------------------------------------------------
(* The theorems *)

LEMMA StepTypesAndStages == Types /\ Stages /\ [Next]_vars => Types' /\ Stages'
<1> SUFFICES ASSUME Types, Stages, [Next]_vars PROVE Types' /\ Stages'
  OBVIOUS
<1>1. CASE Unseen
  BY <1>1 DEF Unseen, Types, Stages, mainVars, senderVars, hsVars, rcvVars, eventVars, netVars,
              serverVars, fileVars, histVars
<1>2. CASE Next
  BY <1>2, NextSteps, MainTypes, SenderTypes, HandshakeTypes, FileTypes, NetworkTypes, ReceiverTypes,
     ServerTypes, MainStages, SenderStages, HandshakeStages, FileStages, NetworkStages, ReceiverStages,
     ServerStages, <1>1
<1> QED
  BY <1>1, <1>2, UnseenSteps

\* Nothing takes back that a datagram was doubled, or a handshake left behind.
LEMMA HistoryStays ==
    ASSUME Types, [Next]_vars
    PROVE  (doubled => doubled') /\ (unsure => unsure')
<1> USE DEF mainVars, senderVars, hsVars, rcvVars, eventVars, netVars, serverVars, fileVars,
            histVars
<1>1. CASE Unseen
  BY <1>1 DEF Unseen
<1>2. CASE MainSteps
  BY <1>2 DEF MainSteps, Construct, StartReceiver, StartSender, JoinThreads
<1>3. CASE SenderSteps
  <2>1. CASE SenderFails \/ RegistrationTimesOut \/ AllSent
    <3>1. unsure' = (unsure \/ hpc \in {"hello", "wait"}) /\ doubled' = doubled
      BY <2>1 DEF SenderFails, RegistrationTimesOut, AllSent, Leave
    <3> QED
      BY <3>1
  <2>2. CASE SendRegistration \/ Registered \/ HandshakeReturns \/ SendRequest
    BY <2>2 DEF SendRegistration, Registered, HandshakeReturns, SendRequest
  <2> QED
    BY <1>3, <2>1, <2>2 DEF SenderSteps
<1>4. CASE HandshakeSteps
  BY <1>4 DEF HandshakeSteps, SendHello, ResendHello, SendRtt, RepeatHandshake, HandshakeFails
<1>5. CASE FileSteps
  BY <1>5 DEF FileSteps, FileConnects, FileConnectFails, FileSends, FileBreaks, FileReceives, AllFiles,
              ReadLine, ReadData, FileStep
<1>6. CASE \E d \in up \cup down : NetworkSteps(d)
  BY <1>6 DEF NetworkSteps, Lose, Vanish
<1>7. CASE \E d \in down : ReceiverSteps(d)
  BY <1>7 DEF ReceiverSteps, ReceiveRegistered, ReceiveHandshake, ReceiveResponse, Receives, Taken
<1>8. CASE \E d \in up : ServerSteps(d)
  BY <1>8 DEF ServerSteps, ServeRegistration, ServeHello, ServeRtt, ServeRequest,
              FailRequest, Serves, Taken
<1> QED
  BY <1>1, <1>2, <1>3, <1>4, <1>5, <1>6, <1>7, <1>8, NextSteps, UnseenSteps

LEMMA InitTypesAndStages == Init => Types /\ Stages
<1> SUFFICES ASSUME Init PROVE Types /\ Stages
  OBVIOUS
<1>1. <<>> \in Seq(Nat \X Nat) /\ NoRtt \in [sent : Nat, answered : Nat]
  BY DEF NoRtt
<1>2. stored \in [handshake : Nat, rtt : [sent : Nat, answered : Nat]]
  BY <1>1 DEF Init
<1>3. /\ regDone \in BOOLEAN /\ hsDone \in BOOLEAN /\ doubled \in BOOLEAN /\ unsure \in BOOLEAN
      /\ counted \in Seq(Nat \X Nat) /\ rtt \in [sent : Nat, answered : Nat]
  BY <1>1 DEF Init
<1>4. /\ session = 1 /\ mpc = "construct" /\ spc = "off" /\ rpc = "off" /\ hpc = "off"
      /\ handler = "none" /\ next = 1 /\ c0 = 0 /\ completed = {} /\ up = {} /\ down = {}
      /\ served = {}
  BY DEF Init
<1>5. Types
  BY <1>2, <1>3, <1>4 DEF Types
<1> QED
  BY <1>5 DEF Init, Stages

LEMMA ServedInductive == ServedInv /\ [Next]_vars => ServedInv'
<1> SUFFICES ASSUME ServedInv, [Next]_vars, ~doubled' PROVE Exchanged' /\ RecordedMeansServed'
  BY StepTypesAndStages DEF ServedInv
<1>1. Types /\ Stages /\ ~doubled /\ Exchanged /\ RecordedMeansServed
  BY HistoryStays DEF ServedInv
<1>2. CASE Unseen
  BY <1>1, <1>2 DEF Unseen, Exchanged, Pending, Datagram, RecordedMeansServed, mainVars, senderVars, hsVars,
              rcvVars, eventVars, netVars, serverVars, fileVars, histVars
<1>3. CASE Next
  BY <1>1, <1>3, NextSteps, MainExchanges, SenderExchanges, HandshakeExchanges, FileExchanges,
     NetworkExchanges, ReceiverExchanges, ServerExchanges, <1>2
<1> QED
  BY <1>2, <1>3, UnseenSteps

\* A request or file with a latency on record was received in full by the server, in
\* this session, unless a datagram was delivered twice (receive_responses takes an
\* answer by its number alone, whatever session it belongs to).
THEOREM PetsClientServed == Spec => []RecordedMeansServed
<1>1. Init => ServedInv
  BY InitTypesAndStages DEF ServedInv, Init, Exchanged, RecordedMeansServed
<1>2. ServedInv /\ [Next]_vars => ServedInv'
  BY ServedInductive
<1>3. ServedInv => RecordedMeansServed
  BY DEF ServedInv, RecordedMeansServed
<1> QED
  BY <1>1, <1>2, <1>3, PTL DEF Spec

LEMMA GreetedInductive == GreetedInv /\ [Next]_vars => GreetedInv'
<1> SUFFICES ASSUME GreetedInv, [Next]_vars, ~doubled', ~unsure' PROVE Greeted'
  BY StepTypesAndStages DEF GreetedInv
<1>1. Types /\ Stages /\ ~doubled /\ ~unsure /\ Greeted
  BY HistoryStays DEF GreetedInv
<1>2. CASE Unseen
  BY <1>1, <1>2 DEF Unseen, Greeted, Datagram, mainVars, senderVars, hsVars,
              rcvVars, eventVars, netVars, serverVars, fileVars, histVars
<1>3. CASE Next
  BY <1>1, <1>3, NextSteps, MainGreets, SenderGreets, HandshakeGreets, FileGreets,
     NetworkGreets, ReceiverGreets, ServerGreets, <1>2
<1> QED
  BY <1>2, <1>3, UnseenSteps

\* The round-trip time the server is told is the time between the hello and the answer
\* of one handshake, while none was repeated, left behind or delivered twice
\* (perform_handshake and receive_responses share timestamp_c0 and the event).
THEOREM PetsClientRtt == Spec => []RttOfItsHandshake
<1>1. Init => GreetedInv
  BY InitTypesAndStages DEF GreetedInv, Init, Greeted, NoRtt
<1>2. GreetedInv /\ [Next]_vars => GreetedInv'
  BY GreetedInductive
<1>3. GreetedInv => RttOfItsHandshake
  BY DEF GreetedInv, Greeted, RttOfItsHandshake
<1> QED
  BY <1>1, <1>2, <1>3, PTL DEF Spec

-----------------------------------------------------------------------------
(* Order on record *)

\* Where a latency configuration's completions, times and lines stand to each other.
Lined ==
    /\ sendTimes \cap completed = {}
    /\ \A i \in DOMAIN counted : counted[i][2] \notin sendTimes
    /\ \A k \in sendTimes \cup completed : k < next \/ (k = next /\ spc = "done")
    /\ \A k \in completed : \E i \in DOMAIN counted : counted[i][2] = k
    /\ \A i \in DOMAIN written : written[i] = i
    /\ Len(written) + 1 \notin completed
    /\ 1..Len(written) \subseteq completed
    /\ rpc = "done" => Len(written) = NumRequests

\* A request is counted once because its time is taken out when it is, and a time is
\* put in before a request is sent, for the next one only.
Recorded ==
    /\ written \in Seq(Nat)
    /\ sendTimes \subseteq Requests /\ completed \subseteq Requests
    /\ firstTimes \cap completed = {}
    /\ rpc = "recv" => kinds[session] # "file"
    /\ mpc \in {"receiver", "sender"} => spc = "off"
    /\ IsInjective(counted)
    /\ \A i \in DOMAIN counted : counted[i][2] < next \/ (counted[i][2] = next /\ spc = "done")
    /\ kinds[session] # "file" /\ mpc # "construct" => Lined

RecordedInv == Types /\ Stages /\ Recorded

LEMMA LeastNatural ==
    ASSUME NEW T \in SUBSET Nat, T # {}
    PROVE  \E m \in T : \A k \in T : m <= k
<1>1. IsWellFoundedOn(OpToRel(<, Nat), Nat)
  BY NatLessThanWellFounded
<1> DEFINE R == OpToRel(<, Nat)
<1>2. \A x, y \in Nat : x < y => <<x, y>> \in R
  BY DEF OpToRel
<1> HIDE DEF R
<1>3. IsWellFoundedOn(R, Nat)
  BY <1>1 DEF R
<1>4. PICK m \in T : \A k \in T : ~(<<k, m>> \in R)
  BY <1>3, WFMin
<1>5. ASSUME NEW k \in T
      PROVE  m <= k
  <2>1. k \in Nat /\ m \in Nat
    OBVIOUS
  <2>2. ~(k < m)
    BY <1>2, <1>4, <2>1
  <2> QED
    BY <2>1, <2>2
<1> QED
  BY <1>5

\* A file that holds the requests from the first on goes on to the first one that
\* is not complete.
LEMMA LinesGrow ==
    ASSUME NEW C, C \subseteq Requests, written \in Seq(Nat),
           \A i \in DOMAIN written : written[i] = i, 1..Len(written) \subseteq C
    PROVE  LET w == Lines(C)
           IN  /\ w \in Seq(Nat) /\ \A i \in DOMAIN w : w[i] = i
               /\ Len(w) + 1 \notin C /\ 1..Len(w) \subseteq C
               /\ C = Requests => Len(w) = NumRequests
<1> DEFINE K(k) == k \notin C /\ 1..(k - 1) \subseteq C
           T == {k \in 1..(NumRequests + 1) : k \notin C}
           w == Lines(C)
<1>0. NumRequests \in Nat \ {0} /\ Len(written) \in Nat
  BY PetsClientAssumption
<1>1. PICK m \in T : \A k \in T : m <= k
  <2>1. NumRequests + 1 \in T
    BY <1>0 DEF Requests
  <2>2. T \in SUBSET Nat
    BY <1>0
  <2> QED
    BY <2>1, <2>2, LeastNatural
<1>2. m \in 1..(NumRequests + 1) /\ K(m)
  BY <1>0, <1>1
<1>3. PICK n \in 1..(NumRequests + 1) :
          /\ K(n) /\ w = written \o [i \in 1..(n - 1 - Len(written)) |-> Len(written) + i]
  <2> DEFINE n == CHOOSE k \in 1..(NumRequests + 1) : K(k)
  <2>1. n \in 1..(NumRequests + 1) /\ K(n)
    BY <1>2
  <2>2. w = written \o [i \in 1..(n - 1 - Len(written)) |-> Len(written) + i]
    BY DEF Lines
  <2> HIDE DEF n
  <2> QED
    BY <2>1, <2>2
<1>4. n \in Nat /\ Len(written) <= n - 1
  BY <1>0, <1>3
<1> DEFINE z == [i \in 1..(n - 1 - Len(written)) |-> Len(written) + i]
<1>5. z \in Seq(Nat) /\ Len(z) = n - 1 - Len(written)
  BY <1>0, <1>4
<1>6. \A i \in 1..(n - 1 - Len(written)) : z[i] = Len(written) + i
  BY <1>0, <1>4
<1> HIDE DEF z
<1>7. /\ written \o z \in Seq(Nat) /\ Len(written \o z) = n - 1
      /\ \A i \in 1..(n - 1) :
           (written \o z)[i] = IF i <= Len(written) THEN written[i] ELSE z[i - Len(written)]
  BY <1>0, <1>4, <1>5
<1>8. w = written \o z
  BY <1>3 DEF z
<1> HIDE DEF w
<1>9. /\ w \in Seq(Nat) /\ Len(w) = n - 1
  BY <1>7, <1>8
<1>10. \A i \in 1..(n - 1) : w[i] = i
  <2> SUFFICES ASSUME NEW i \in 1..(n - 1) PROVE w[i] = i
    OBVIOUS
  <2>1. CASE i <= Len(written)
    <3>1. i \in DOMAIN written
      BY <1>0, <2>1
    <3> QED
      BY <1>4, <1>7, <1>8, <2>1, <3>1
  <2>2. CASE ~(i <= Len(written))
    <3>1. i - Len(written) \in 1..(n - 1 - Len(written)) /\ Len(written) + (i - Len(written)) = i
      BY <1>0, <1>4, <2>2
    <3> QED
      BY <1>6, <1>7, <1>8, <2>2, <3>1
  <2> QED
    BY <2>1, <2>2
<1>11. C = Requests => n = NumRequests + 1
  BY <1>0, <1>3, <1>4 DEF Requests
<1>12. \A i \in DOMAIN w : w[i] = i
  BY <1>9, <1>10
<1>13. Len(w) + 1 = n /\ 1..Len(w) = 1..(n - 1)
  BY <1>4, <1>9
<1>14. /\ w \in Seq(Nat) /\ \A i \in DOMAIN w : w[i] = i
       /\ Len(w) + 1 \notin C /\ 1..Len(w) \subseteq C
       /\ C = Requests => Len(w) = NumRequests
  <2>1. Len(w) + 1 \notin C /\ 1..Len(w) \subseteq C
    BY <1>3, <1>13
  <2>2. C = Requests => Len(w) = NumRequests
    BY <1>0, <1>9, <1>11
  <2> QED
    BY <1>9, <1>12, <2>1, <2>2
<1> QED
  BY <1>14 DEF w

LEMMA AppendMembers ==
    ASSUME NEW S, NEW q \in Seq(S), NEW p \in S
    PROVE  /\ \A i \in DOMAIN q : i \in DOMAIN Append(q, p) /\ Append(q, p)[i] = q[i]
           /\ \A i \in DOMAIN Append(q, p) : i \in DOMAIN q \/ Append(q, p)[i] = p
<1>1. Len(q) \in Nat /\ DOMAIN q = 1..Len(q) /\ DOMAIN Append(q, p) = 1..(Len(q) + 1)
  OBVIOUS
<1>2. Append(q, p)[Len(q) + 1] = p /\ \A i \in 1..Len(q) : Append(q, p)[i] = q[i]
  OBVIOUS
<1>3. Len(q) + 1 \in 1..(Len(q) + 1) /\ \A i \in 1..(Len(q) + 1) : i \in 1..Len(q) \/ i = Len(q) + 1
  BY <1>1
<1> DEFINE r == Append(q, p)
<1> HIDE DEF r
<1>4. DOMAIN r = 1..(Len(q) + 1) /\ r[Len(q) + 1] = p /\ \A i \in 1..Len(q) : r[i] = q[i]
  BY <1>1, <1>2 DEF r
<1>5. /\ \A i \in DOMAIN q : i \in DOMAIN r /\ r[i] = q[i]
      /\ \A i \in DOMAIN r : i \in DOMAIN q \/ r[i] = p
  BY <1>1, <1>3, <1>4
<1> QED
  BY <1>5 DEF r

LEMMA InjectiveAppend ==
    ASSUME NEW S, NEW q \in Seq(S), NEW p \in S, IsInjective(q), \A i \in DOMAIN q : q[i] # p
    PROVE  IsInjective(Append(q, p))
<1> DEFINE r == Append(q, p)
<1>1. Len(q) \in Nat /\ DOMAIN q = 1..Len(q)
  OBVIOUS
<1>2. DOMAIN r = 1..(Len(q) + 1) /\ r[Len(q) + 1] = p /\ \A i \in 1..Len(q) : r[i] = q[i]
  OBVIOUS
<1> HIDE DEF r
<1>3. ASSUME NEW a \in DOMAIN r, NEW b \in DOMAIN r, r[a] = r[b]
      PROVE  a = b
  <2>1. CASE a \in 1..Len(q) /\ b \in 1..Len(q)
    BY <1>1, <1>2, <1>3, <2>1 DEF IsInjective
  <2>2. CASE a = Len(q) + 1 \/ b = Len(q) + 1
    BY <1>1, <1>2, <1>3, <2>2
  <2> QED
    BY <1>1, <1>2, <2>1, <2>2
<1> QED
  BY <1>3 DEF IsInjective, r

LEMMA MainRecords ==
    ASSUME Types, Stages, Recorded, MainSteps
    PROVE  Recorded'
<1> USE DEF Types, Stages, Recorded, Lined, IsInjective, mainVars, senderVars, hsVars, rcvVars,
            eventVars, netVars, serverVars, fileVars, histVars
<1>1. CASE Construct
  BY <1>1 DEF Construct
<1>2. CASE StartReceiver
  BY <1>2 DEF StartReceiver
<1>3. CASE StartSender
  BY <1>3 DEF StartSender
<1>4. CASE JoinThreads
  BY <1>4 DEF JoinThreads
<1> QED
  BY <1>1, <1>2, <1>3, <1>4 DEF MainSteps

LEMMA SenderRecords ==
    ASSUME Types, Stages, Recorded, SenderSteps
    PROVE  Recorded'
<1> USE DEF Types, Stages, Recorded, Lined, IsInjective, mainVars, senderVars, hsVars, rcvVars,
            eventVars, netVars, serverVars, fileVars, histVars, Leave
<1>1. CASE SendRegistration
  BY <1>1 DEF SendRegistration
<1>2. CASE SenderFails
  <2>1. /\ spc \in {"register", "send"} /\ spc' = "done"
        /\ sendTimes' = IF spc = "send" THEN sendTimes \cup {next} ELSE sendTimes
        /\ spc = "send" => next \in Requests
        /\ UNCHANGED <<kinds, session, mpc, rpc, next, counted, completed, written, firstTimes>>
    BY <1>2 DEF SenderFails
  <2>2. \A i \in DOMAIN counted : counted[i][2] < next
    BY <2>1
  <2>3. /\ \A i \in DOMAIN counted : counted[i] \in Nat \X Nat
        /\ completed \subseteq Nat /\ next \in Nat
    BY DOMAIN counted = 1..Len(counted)
  <2>4. Lined /\ mpc # "construct" => Lined'
    <3> SUFFICES ASSUME Lined PROVE Lined'
      OBVIOUS
    <3>1. \A k \in sendTimes \cup completed : k < next
      BY <2>1
    <3>2. sendTimes' \subseteq sendTimes \cup {next}
      BY <2>1
    <3>3. sendTimes' \cap completed' = {}
      BY <2>1, <2>3, <3>1, <3>2
    <3>4. \A i \in DOMAIN counted' : counted'[i][2] \notin sendTimes'
      BY <2>1, <2>2, <2>3, <3>2
    <3>5. \A k \in sendTimes' \cup completed' : k < next' \/ (k = next' /\ spc' = "done")
      BY <2>1, <3>1, <3>2
    <3> QED
      BY <2>1, <3>3, <3>4, <3>5
  <2>5. sendTimes' \subseteq Requests
    BY <2>1
  <2> QED
    BY <2>1, <2>2, <2>4, <2>5
<1>3. CASE Registered
  BY <1>3 DEF Registered
<1>4. CASE RegistrationTimesOut
  BY <1>4 DEF RegistrationTimesOut
<1>5. CASE HandshakeReturns
  BY <1>5 DEF HandshakeReturns
<1>6. CASE SendRequest
  BY SMTT(30), <1>6 DEF SendRequest
<1>7. CASE AllSent
  BY <1>7 DEF AllSent
<1> QED
  BY <1>1, <1>2, <1>3, <1>4, <1>5, <1>6, <1>7 DEF SenderSteps

LEMMA HandshakeRecords ==
    ASSUME Types, Stages, Recorded, HandshakeSteps
    PROVE  Recorded'
<1> USE DEF Types, Stages, Recorded, Lined, IsInjective, mainVars, senderVars, hsVars, rcvVars,
            eventVars, netVars, serverVars, fileVars, histVars
<1>1. CASE SendHello
  BY <1>1 DEF SendHello
<1>2. CASE ResendHello
  BY <1>2 DEF ResendHello
<1>3. CASE SendRtt
  BY <1>3 DEF SendRtt
<1>4. CASE RepeatHandshake
  BY <1>4 DEF RepeatHandshake
<1>5. CASE HandshakeFails
  BY <1>5 DEF HandshakeFails
<1> QED
  BY <1>1, <1>2, <1>3, <1>4, <1>5 DEF HandshakeSteps

LEMMA FileRecords ==
    ASSUME Types, Stages, Recorded, FileSteps
    PROVE  Recorded'
<1> USE DEF Types, Stages, Recorded, Lined, IsInjective, mainVars, senderVars, hsVars, rcvVars,
            eventVars, netVars, serverVars, fileVars, histVars, FileStep
<1>1. CASE FileConnects
  BY <1>1 DEF FileConnects
<1>2. CASE FileConnectFails
  BY <1>2 DEF FileConnectFails
<1>3. CASE FileSends
  BY <1>3 DEF FileSends
<1>4. CASE FileBreaks
  BY <1>4 DEF FileBreaks
<1>5. CASE FileReceives
  <2>1. /\ spc = "answer" /\ spc' = "connect" /\ next' = next + 1 /\ kinds[session] = "file"
        /\ \/ counted' = counted /\ written' = written
           \/ counted' = Append(counted, <<session, next>>) /\ written' = Append(written, next)
        /\ UNCHANGED <<kinds, session, mpc, rpc, completed, firstTimes, sendTimes>>
    BY <1>5 DEF FileReceives
  <2>2. written' \in Seq(Nat)
    <3>1. written \in Seq(Nat) /\ next \in Nat
      OBVIOUS
    <3>2. Append(written, next) \in Seq(Nat)
      BY <3>1
    <3> QED
      BY <2>1, <3>1, <3>2
  <2>3. \A i \in DOMAIN counted : counted[i][2] < next /\ counted[i] \in Nat \X Nat
    BY <2>1, DOMAIN counted = 1..Len(counted)
  <2>4. /\ IsInjective(counted')
        /\ \A i \in DOMAIN counted' : counted'[i][2] < next'
    <3>1. CASE counted' = counted
      BY <2>1, <2>3, <3>1
    <3>2. CASE counted' = Append(counted, <<session, next>>)
      <4> PICK p : p = <<session, next>>
        OBVIOUS
      <4>1. p \in Nat \X Nat /\ p[2] = next /\ next \in Nat /\ next' = next + 1
        BY <2>1
      <4>2. \A i \in DOMAIN counted : counted[i] # p
        BY <2>3, <4>1
      <4>3. counted' = Append(counted, p) /\ counted \in Seq(Nat \X Nat) /\ IsInjective(counted)
        BY <3>2
      <4> HIDE DEF Types, Stages, Recorded, Lined, IsInjective
      <4>4. IsInjective(counted')
        BY <4>1, <4>2, <4>3, InjectiveAppend
      <4>5. \A i \in DOMAIN counted' : (i \in DOMAIN counted /\ counted'[i] = counted[i]) \/ counted'[i] = p
        BY <4>1, <4>3, AppendMembers
      <4>6. \A i \in DOMAIN counted' : counted'[i][2] < next'
        BY <2>3, <4>1, <4>5
      <4> QED
        BY <4>4, <4>6
    <3> QED
      BY <2>1, <3>1, <3>2
  <2> QED
    BY <2>1, <2>2, <2>4
<1>6. CASE AllFiles
  BY <1>6 DEF AllFiles
<1>7. CASE ReadLine
  BY <1>7 DEF ReadLine
<1>8. CASE ReadData
  BY <1>8 DEF ReadData
<1> QED
  BY <1>1, <1>2, <1>3, <1>4, <1>5, <1>6, <1>7, <1>8 DEF FileSteps

LEMMA NetworkRecords ==
    ASSUME Types, Stages, Recorded,
           NEW d, NetworkSteps(d)
    PROVE  Recorded'
<1> USE DEF Types, Stages, Recorded, Lined, IsInjective, mainVars, senderVars, hsVars, rcvVars,
            eventVars, netVars, serverVars, fileVars, histVars
<1>1. CASE Lose(d)
  BY <1>1 DEF Lose
<1>2. CASE Vanish(d)
  BY <1>2 DEF Vanish
<1> QED
  BY <1>1, <1>2 DEF NetworkSteps

LEMMA ReceiverRecords ==
    ASSUME Types, Stages, Recorded,
           NEW d \in down, ReceiverSteps(d)
    PROVE  Recorded'
<1> USE DEF Types, Stages, Recorded, Lined, IsInjective, mainVars, senderVars, hsVars, rcvVars,
            eventVars, netVars, serverVars, fileVars, histVars, Receives
<1>1. CASE ReceiveRegistered(d)
  BY <1>1 DEF ReceiveRegistered
<1>2. CASE ReceiveHandshake(d)
  BY <1>2 DEF ReceiveHandshake
<1>3. CASE ReceiveResponse(d)
  <2>1. /\ rpc = "recv" /\ UNCHANGED <<kinds, session, mpc, spc, next>>
        /\ d.session \in Nat /\ d.id \in Nat
    BY <1>3 DEF ReceiveResponse, Datagrams
  <2>2. Lined
    BY <2>1
  <2>3. CASE UNCHANGED <<sendTimes, rcvVars>>
    BY <2>1, <2>3
  <2>4. CASE /\ d.id \in sendTimes /\ firstTimes' = firstTimes \cup {d.id}
             /\ UNCHANGED <<sendTimes, rpc, completed, counted, written>>
    BY <2>1, <2>2, <2>4
  <2>5. CASE /\ d.id \in sendTimes /\ completed' = completed \cup {d.id}
             /\ counted' = Append(counted, <<d.session, d.id>>)
             /\ firstTimes' = firstTimes \ {d.id} /\ sendTimes' = sendTimes \ {d.id}
             /\ written' = Lines(completed')
             /\ rpc' = IF completed' = Requests THEN "done" ELSE "recv"
    <3> PICK p : p = <<d.session, d.id>>
      OBVIOUS
    <3>1. p \in Nat \X Nat /\ p[2] = d.id /\ counted' = Append(counted, p)
      BY <2>1, <2>5
    <3>2. \A i \in DOMAIN counted : counted[i][2] # d.id
      BY <2>2, <2>5
    <3>3. /\ IsInjective(counted')
          /\ \A i \in DOMAIN counted : i \in DOMAIN counted' /\ counted'[i] = counted[i]
          /\ \A i \in DOMAIN counted' :
               (i \in DOMAIN counted /\ counted'[i] = counted[i]) \/ counted'[i] = p
          /\ \E i \in DOMAIN counted' : counted'[i] = p
      <4>1. counted \in Seq(Nat \X Nat) /\ IsInjective(counted)
        OBVIOUS
      <4>2. \A i \in DOMAIN counted : counted[i] # p
        BY <3>1, <3>2
      <4> HIDE DEF Types, Stages, Recorded, Lined, IsInjective
      <4>3. IsInjective(counted')
        BY <3>1, <4>1, <4>2, InjectiveAppend
      <4>4. /\ \A i \in DOMAIN counted : i \in DOMAIN counted' /\ counted'[i] = counted[i]
            /\ \A i \in DOMAIN counted' : i \in DOMAIN counted \/ counted'[i] = p
            /\ \E i \in DOMAIN counted' : counted'[i] = p
        <5>1. counted \in Seq(Nat \X Nat) /\ p \in Nat \X Nat /\ counted' = Append(counted, p)
          BY <3>1, <4>1
        <5>2. \A i \in DOMAIN counted : i \in DOMAIN counted' /\ counted'[i] = counted[i]
          BY <5>1, AppendMembers
        <5>3. \A i \in DOMAIN counted' : i \in DOMAIN counted \/ counted'[i] = p
          BY <5>1, AppendMembers
        <5>4. \E i \in DOMAIN counted' : counted'[i] = p
          <6>1. Len(counted) \in Nat /\ DOMAIN Append(counted, p) = 1..(Len(counted) + 1)
            BY <5>1
          <6>2. Append(counted, p)[Len(counted) + 1] = p
            BY <5>1
          <6>3. Len(counted) + 1 \in 1..(Len(counted) + 1)
            BY <6>1
          <6> QED
            BY <5>1, <6>1, <6>2, <6>3
        <5> QED
          BY <5>2, <5>3, <5>4
      <4> QED
        BY <4>3, <4>4
    <3>4. sendTimes \subseteq Requests /\ completed \subseteq Requests /\ firstTimes \cap completed = {}
      OBVIOUS
    <3>5. /\ completed' \subseteq Requests
          /\ sendTimes' \subseteq Requests /\ firstTimes' \cap completed' = {}
      <4> HIDE DEF Types, Stages, Recorded, Lined, IsInjective
      <4> QED
        BY <2>5, <3>4
    <3>6. /\ written' \in Seq(Nat) /\ \A i \in DOMAIN written' : written'[i] = i
          /\ Len(written') + 1 \notin completed' /\ 1..Len(written') \subseteq completed'
          /\ completed' = Requests => Len(written') = NumRequests
      BY <2>2, <2>5, <3>5, LinesGrow
    <3>7. sendTimes' \cap completed' = {}
      BY <2>2, <2>5
    <3>8. \A i \in DOMAIN counted' : counted'[i][2] \notin sendTimes'
      BY <2>2, <2>5, <3>1, <3>3
    <3>9. \A k \in sendTimes' \cup completed' : k < next' \/ (k = next' /\ spc' = "done")
      BY <2>1, <2>2, <2>5
    <3>10. \A k \in completed' : \E i \in DOMAIN counted' : counted'[i][2] = k
      <4>1. \A k \in completed : \E i \in DOMAIN counted : counted[i][2] = k
        BY <2>2
      <4> HIDE DEF Types, Stages, Recorded, Lined, IsInjective
      <4> QED
        BY <2>5, <3>1, <3>3, <4>1
    <3>11. \A i \in DOMAIN counted' : counted'[i][2] < next' \/ (counted'[i][2] = next' /\ spc' = "done")
      <4>1. /\ \A i \in DOMAIN counted : counted[i][2] < next \/ (counted[i][2] = next /\ spc = "done")
            /\ d.id < next \/ (d.id = next /\ spc = "done")
        BY <2>2, <2>5
      <4> HIDE DEF Types, Stages, Recorded, Lined, IsInjective
      <4> QED
        BY <2>1, <3>1, <3>3, <4>1
    <3>12. rpc' = "done" => Len(written') = NumRequests
      BY <2>5, <3>6
    <3>13. Lined'
      BY <3>6, <3>7, <3>8, <3>9, <3>10, <3>12
    <3>15. rpc' = "recv" => kinds'[session'] # "file"
      BY <2>1
    <3>16. mpc' \in {"receiver", "sender"} => spc' = "off"
      BY <2>1
    <3> QED
      BY <3>3, <3>5, <3>6, <3>11, <3>13, <3>15, <3>16
  <2> QED
    BY <1>3, <2>3, <2>4, <2>5 DEF ReceiveResponse
<1> QED
  BY <1>1, <1>2, <1>3 DEF ReceiverSteps

LEMMA ServerRecords ==
    ASSUME Types, Stages, Recorded,
           NEW d \in up, ServerSteps(d)
    PROVE  Recorded'
<1> USE DEF Types, Stages, Recorded, Lined, IsInjective, mainVars, senderVars, hsVars, rcvVars,
            eventVars, netVars, serverVars, fileVars, histVars, Serves
<1>1. CASE ServeRegistration(d)
  BY <1>1 DEF ServeRegistration
<1>2. CASE ServeHello(d)
  BY <1>2 DEF ServeHello
<1>3. CASE ServeRtt(d)
  BY <1>3 DEF ServeRtt
<1>4. CASE ServeRequest(d)
  <2>1. UNCHANGED <<kinds, session, mpc, spc, next, sendTimes, rpc, firstTimes, completed, counted, written>>
    BY <1>4 DEF ServeRequest
  <2> QED
    BY <2>1
<1>5. CASE FailRequest(d)
  BY <1>5 DEF FailRequest
<1> QED
  BY <1>1, <1>2, <1>3, <1>4, <1>5 DEF ServerSteps

LEMMA RecordedInductive == RecordedInv /\ [Next]_vars => RecordedInv'
<1> SUFFICES ASSUME RecordedInv, [Next]_vars PROVE Recorded'
  BY StepTypesAndStages DEF RecordedInv
<1>1. Types /\ Stages /\ Recorded
  BY DEF RecordedInv
<1>2. CASE Unseen
  BY <1>1, <1>2 DEF Unseen, Recorded, Lined, IsInjective, mainVars, senderVars, hsVars, rcvVars, eventVars,
              netVars, serverVars, fileVars, histVars
<1>3. CASE Next
  BY <1>1, <1>3, NextSteps, MainRecords, SenderRecords, HandshakeRecords, FileRecords, NetworkRecords,
     ReceiverRecords, ServerRecords, <1>2
<1> QED
  BY <1>2, <1>3, UnseenSteps

\* The latency file of a configuration grows in the order of its requests, without gap or
\* repeat, no completion is counted twice and no first-packet time is left behind
\* (receive_responses), whatever is lost, late or delivered twice.
THEOREM PetsClientRecords == Spec => []RecordsAreOrdered
<1>1. Init => RecordedInv
  <2> SUFFICES ASSUME Init PROVE Recorded
    BY InitTypesAndStages DEF RecordedInv
  <2>1. <<>> \in Seq(Nat) /\ DOMAIN <<>> = {}
    OBVIOUS
  <2> QED
    BY <2>1 DEF Init, Recorded, IsInjective
<1>2. RecordedInv /\ [Next]_vars => RecordedInv'
  BY RecordedInductive
<1>3. RecordedInv => RecordsAreOrdered
  <2> SUFFICES ASSUME Recorded PROVE RecordsAreOrdered
    BY DEF RecordedInv
  <2> QED
    BY DEF Recorded, Lined, RecordsAreOrdered
<1> QED
  BY <1>1, <1>2, <1>3, PTL DEF Spec
=============================================================================
