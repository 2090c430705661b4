----------------------------- MODULE PetsServer ------------------------------
(***************************************************************************)
(* The PETS request server (udp-request-wired-DL-timestamp/server.py).     *)
(* Clients send datagrams: a registration, handshakes, and the packets of  *)
(* their requests.  Worker threads handle them, keep a tracker for each    *)
(* client, and tell a controller over TCP when a request begins and ends.  *)
(* A clean-up thread removes the trackers of silent clients.               *)
(*                                                                         *)
(* A step is a critical section of tracker_lock, the counting of a packet, *)
(* or one use of the fields controller_socket, registered and              *)
(* registration_time, which threads share under no common lock: a test of  *)
(* one, an assignment to one, or a call on the socket that is there.       *)
(* The sockets' buffers and request_queue are one set of datagrams, taken  *)
(* in any order.  The clients do what client.py does, as seen from here.   *)
(***************************************************************************)
EXTENDS Naturals, Sequences, FiniteSets

CONSTANTS Keys,        \* client addresses
          Rntis,       \* radio identities
          RntiOf,      \* the identity a client address states
          Workers,     \* threads of the worker pool
          MaxRequests, \* bound: requests of a client
          Packets,     \* packets of a request
          MaxHellos,   \* bound: handshakes of a client
          MaxMishaps,  \* bound: calls to the controller that fail, datagrams repeated
          MaxTrackers, \* bound: trackers made
          Faults       \* what may happen besides reordering

FaultKinds == {"loss", "duplicate", "controller", "idle"}

ASSUME PetsAssumption ==
    /\ RntiOf \in [Keys -> Rntis]
    /\ MaxRequests \in Nat
    /\ Packets \in Nat \ {0}
    /\ MaxHellos \in Nat
    /\ MaxMishaps \in Nat
    /\ MaxTrackers \in Nat
    /\ Faults \subseteq FaultKinds

VARIABLES
    net,             \* datagrams on their way, or in request_queue
    hellos,          \* handshakes each client has begun
    rtts,            \* and finished
    sent,            \* packets each client has sent
    acked,           \* clients whose registration was confirmed
    welcomed,        \* for each client, its handshakes that were answered on its listening port
    trackers,        \* every UETracker made
    ue_trackers,     \* the one in use for each client, 0 if there is none
    registered_rntis,
    lastActive,      \* ue_last_active: "absent", or how long ago
    workers,         \* each worker in handle_request: pc, its datagram msg, the tracker it
                     \* looked up (held), and registered_client_port (port)
    cpc,             \* the clean-up thread
    todo,            \* the keys it has still to look at
    closing,         \* the tracker it is cleaning up
    sockets,         \* every controller socket made: "new", "open" or "closed"
    heard,           \* what the controller was told, in order
    mishaps,         \* calls that failed and datagrams repeated
    added,           \* history: the packets counted, by tracker
    completed,       \* history: completed requests and the values of their delay
    cut              \* history: requests of which an exception ended the handling of a packet

clientVars  == <<hellos, rtts, sent>>
trackVars   == <<trackers, ue_trackers, registered_rntis>>
replyVars   == <<acked, welcomed>>
cleanVars   == <<cpc, todo, closing>>
wireVars    == <<sockets, heard, mishaps>>
historyVars == <<added, completed, cut>>
vars == <<net, clientVars, replyVars, trackVars, lastActive, workers, cleanVars, wireVars, historyVars>>

Requests == 1..MaxRequests
SeqNums  == 0..(Packets - 1)
Ports    == {"listen", "source"}
Datagrams ==
    [kind : {"register"}, key : Keys]
    \cup [kind : {"hello", "rtt"}, key : Keys, round : 1..MaxHellos]
    \cup [kind : {"packet"}, key : Keys, req : Requests, seq : SeqNums]

\* sock is 0 for None; c0 and s0 are set together, to the round of a handshake.
Trackers ==
    [key : Keys, port : Ports, sock : Nat, registered : BOOLEAN,
     regTime : {"none", "recent", "old"}, c0 : Nat, t1 : Nat, received : [Requests -> SUBSET SeqNums]]

\* Where a worker is: in a handler that has no tracker yet, or with its tracker.  The
\* steps of an except clause are named after the call that raised.
NotifySteps  == {"notify", "known", "reread", "check", "elapsed", "request",
                 "request_test", "request_close", "request_clear", "request_unmark", "request_unstamp"}
ConnectSteps == {"connect", "create", "open", "greet", "unknown", "connected", "new_ue", "mark", "stamp",
                 "open_test", "open_close", "open_clear", "ue_close", "ue_clear", "ue_unmark"}
LockSteps    == {"tell", "done", "done_test", "done_close", "done_clear", "done_unmark"}
TrackerSteps == NotifySteps \cup ConnectSteps \cup LockSteps \cup {"add", "respond"}
HandlerSteps == TrackerSteps \cup {"register", "hello", "tracker", "rtt", "lookup"}
Idle == [pc |-> "idle"]

\* The clean-up thread in UETracker.cleanup, and with tracker_lock.
CloseSteps == {"test", "close", "clear", "unmark"}
Locked == cpc \in {"scan", "forget"} \cup CloseSteps

TypeOK ==
    /\ net \subseteq Datagrams
    /\ hellos \in [Keys -> 0..MaxHellos]
    /\ \A k \in Keys : rtts[k] \in 0..hellos[k]
    /\ sent \in [Keys -> 0..(MaxRequests * Packets)]
    /\ acked \subseteq Keys
    /\ welcomed \in [Keys -> SUBSET (1..MaxHellos)]
    /\ trackers \in Seq(Trackers)
    /\ ue_trackers \in [Keys -> 0..Len(trackers)]
    /\ \A k \in Keys : ue_trackers[k] # 0 => trackers[ue_trackers[k]].key = k
    /\ registered_rntis \subseteq Rntis
    /\ lastActive \in [Keys -> {"absent", "fresh", "stale"}]
    /\ DOMAIN workers = Workers
    /\ \A w \in Workers :
          \/ workers[w] = Idle
          \/ /\ workers[w].pc \in HandlerSteps
             /\ workers[w].msg \in Datagrams
             /\ workers[w].held \in 0..Len(trackers)
             /\ workers[w].pc \in TrackerSteps => workers[w].held # 0
             /\ workers[w].port \in Ports
    /\ cpc \in {"sleep", "scan", "forget", "dead"} \cup CloseSteps
    /\ todo \in SUBSET Keys
    /\ closing \in 0..Len(trackers)
    /\ sockets \in Seq({"new", "open", "closed"})
    /\ \A t \in DOMAIN trackers : trackers[t].sock \in 0..Len(sockets)
    /\ mishaps \in 0..MaxMishaps
    /\ cut \subseteq Keys \X Requests

Init ==
    /\ net = {}
    /\ hellos = [k \in Keys |-> 0]
    /\ rtts = [k \in Keys |-> 0]
    /\ sent = [k \in Keys |-> 0]
    /\ acked = {}
    /\ welcomed = [k \in Keys |-> {}]
    /\ trackers = <<>>
    /\ ue_trackers = [k \in Keys |-> 0]
    /\ registered_rntis = {}
    /\ lastActive = [k \in Keys |-> "absent"]
    /\ workers = [w \in Workers |-> Idle]
    /\ cpc = "sleep"
    /\ todo = {}
    /\ closing = 0
    /\ sockets = <<>>
    /\ heard = <<>>
    /\ mishaps = 0
    /\ added = {}
    /\ completed = <<>>
    /\ cut = {}

-----------------------------------------------------------------------------
(* The clients, as client.py drives them *)

serverVars == <<replyVars, trackVars, lastActive, workers, cleanVars, wireVars, historyVars>>

\* The registration is the first datagram from an address.
SendRegistration(k) ==
    /\ k \notin acked
    /\ lastActive[k] = "absent"
    /\ net' = net \cup {[kind |-> "register", key |-> k]}
    /\ UNCHANGED <<clientVars, serverVars>>

\* After the confirmation the handshakes, one at a time; one whose answer has not
\* come, or was lost, is repeated.
SendHello(k) ==
    /\ k \in acked
    /\ \E r \in 1..MaxHellos :
          /\ \/ r = hellos[k] + 1 /\ rtts[k] = hellos[k]
             \/ r = hellos[k] /\ rtts[k] < r /\ (r \in welcomed[k] => "loss" \in Faults)
          /\ hellos' = [hellos EXCEPT ![k] = r]
          /\ net' = net \cup {[kind |-> "hello", key |-> k, round |-> r]}
    /\ UNCHANGED <<rtts, sent, serverVars>>

SendRtt(k) ==
    /\ rtts[k] < hellos[k]
    /\ hellos[k] \in welcomed[k]
    /\ rtts' = [rtts EXCEPT ![k] = hellos[k]]
    /\ net' = net \cup {[kind |-> "rtt", key |-> k, round |-> hellos[k]]}
    /\ UNCHANGED <<hellos, sent, serverVars>>

\* After the first handshake the requests, packet by packet.
SendPacket(k) ==
    /\ rtts[k] > 0
    /\ sent[k] < MaxRequests * Packets
    /\ net' = net \cup {[kind |-> "packet", key |-> k, req |-> 1 + sent[k] \div Packets,
                         seq |-> sent[k] % Packets]}
    /\ sent' = [sent EXCEPT ![k] = @ + 1]
    /\ UNCHANGED <<hellos, rtts, serverVars>>

Lose(m) ==
    /\ "loss" \in Faults
    /\ net' = net \ {m}
    /\ UNCHANGED <<clientVars, serverVars>>

-----------------------------------------------------------------------------
(* A worker takes a datagram *)

Take(w, m) ==
    /\ workers[w] = Idle
    /\ \/ net' = net \ {m} /\ UNCHANGED mishaps
       \/ /\ "duplicate" \in Faults /\ mishaps < MaxMishaps
          /\ mishaps' = mishaps + 1
          /\ UNCHANGED net
    /\ workers' = [workers EXCEPT ![w] = [pc |-> IF m.kind = "packet" THEN "lookup" ELSE m.kind,
                                          msg |-> m, held |-> 0, port |-> "source"]]
    /\ lastActive' = [lastActive EXCEPT ![m.key] = "fresh"]
    /\ UNCHANGED <<clientVars, replyVars, trackVars, cleanVars, sockets, heard, historyVars>>

\* What the controller is told on socket s.
Tell(s, what, k, req) == [on |-> s, what |-> what, rnti |-> RntiOf[k], req |-> req]

MayFail == "controller" \in Faults /\ mishaps < MaxMishaps

\* connect_to_controller for a tracker nobody else can reach yet: as it was if it
\* has a socket, or connected and registered, or failed at one of its calls.  When
\* NEW_UE itself fails, _register_ue gives up the socket but registered is set after it.
Connections(c) ==
    LET s      == Len(c.sockets) + 1
        opened == Append(c.heard, Tell(s, "app", c.tr.key, 0))
        refused == [c EXCEPT !.sockets = Append(@, "closed"), !.mishaps = @ + 1]
        fails  == "controller" \in Faults /\ c.mishaps < MaxMishaps
    IN IF c.tr.sock # 0 THEN {c}
       ELSE {IF c.tr.registered
             THEN [c EXCEPT !.sockets = Append(@, "open"), !.heard = opened, !.tr.sock = s]
             ELSE [c EXCEPT !.sockets = Append(@, "open"),
                            !.heard = Append(opened, Tell(s, "new_ue", c.tr.key, 0)),
                            !.tr.sock = s, !.tr.registered = TRUE, !.tr.regTime = "recent"]}
            \cup {x \in {refused} : fails}
            \cup {x \in {[refused EXCEPT !.heard = opened, !.tr.registered = TRUE, !.tr.regTime = "recent"]} :
                    fails /\ ~c.tr.registered}

\* UETracker(...): the constructor connects.
Constructed(k, p) ==
    Connections([tr |-> [key |-> k, port |-> p, sock |-> 0, registered |-> FALSE, regTime |-> "none",
                         c0 |-> 0, t1 |-> 0, received |-> [r \in Requests |-> {}]],
                 sockets |-> sockets, heard |-> heard, mishaps |-> mishaps])

\* The registration branch connects once more unless the identity is known.
Registered(c) ==
    IF RntiOf[c.tr.key] \in registered_rntis THEN {[c EXCEPT !.tr.registered = TRUE]}
    ELSE Connections(c)

AddTracker(k, c) ==
    /\ Len(trackers) < MaxTrackers
    /\ trackers' = Append(trackers, c.tr)
    /\ ue_trackers' = [ue_trackers EXCEPT ![k] = Len(trackers) + 1]
    /\ sockets' = c.sockets
    /\ heard' = c.heard
    /\ mishaps' = c.mishaps

\* A registration packet: under tracker_lock, with the confirmation.
Register(w) ==
    LET k == workers[w].msg.key IN
    /\ workers[w].pc = "register"
    /\ ~Locked
    /\ \/ /\ ue_trackers[k] = 0
          /\ \E c \in UNION {Registered(x) : x \in Constructed(k, "listen")} :
                /\ AddTracker(k, c)
                /\ registered_rntis' = registered_rntis \cup (IF c.tr.registered THEN {RntiOf[k]} ELSE {})
       \/ /\ ue_trackers[k] # 0
          /\ UNCHANGED <<trackVars, wireVars>>
    /\ acked' = acked \cup {k}
    /\ workers' = [workers EXCEPT ![w] = Idle]
    /\ UNCHANGED <<net, clientVars, welcomed, lastActive, cleanVars, historyVars>>

\* First handshake, first lock: is there a tracker of this identity, and its port.
FindPort(w) ==
    LET same == {j \in Keys : ue_trackers[j] # 0 /\ RntiOf[j] = RntiOf[workers[w].msg.key]} IN
    /\ workers[w].pc = "hello"
    /\ ~Locked
    /\ \E p \in IF same = {} THEN {"source"} ELSE {trackers[ue_trackers[j]].port : j \in same} :
          workers' = [workers EXCEPT ![w].port = p, ![w].pc = "tracker"]
    /\ UNCHANGED <<net, clientVars, replyVars, trackVars, lastActive, cleanVars, wireVars,
                   historyVars>>

\* Second lock: make a tracker if there is none, store the timestamps; answer.
Hello(w) ==
    LET k == workers[w].msg.key
        n == workers[w].msg.round
        t == ue_trackers[k] IN
    /\ workers[w].pc = "tracker"
    /\ ~Locked
    /\ \/ /\ t = 0
          /\ \E c \in Constructed(k, workers[w].port) : AddTracker(k, [c EXCEPT !.tr.c0 = n])
          /\ welcomed' = [welcomed EXCEPT ![k] = IF workers[w].port = "listen" THEN @ \cup {n} ELSE @]
       \/ /\ t # 0
          /\ trackers' = [trackers EXCEPT ![t].c0 = n]
          /\ welcomed' = [welcomed EXCEPT ![k] = IF trackers[t].port = "listen" THEN @ \cup {n} ELSE @]
          /\ UNCHANGED <<ue_trackers, wireVars>>
    /\ workers' = [workers EXCEPT ![w] = Idle]
    /\ UNCHANGED <<net, clientVars, acked, registered_rntis, lastActive, cleanVars,
                   historyVars>>

\* The RTT message.  Without a tracker the acknowledgement raises and is not sent.
StoreRtt(w) ==
    LET t == ue_trackers[workers[w].msg.key] IN
    /\ workers[w].pc = "rtt"
    /\ ~Locked
    /\ trackers' = IF t = 0 THEN trackers ELSE [trackers EXCEPT ![t].t1 = workers[w].msg.round]
    /\ workers' = [workers EXCEPT ![w] = Idle]
    /\ UNCHANGED <<net, clientVars, replyVars, ue_trackers, registered_rntis, lastActive,
                   cleanVars, wireVars, historyVars>>

\* A packet of a request; a client without a tracker is not served.
Lookup(w) ==
    LET t == ue_trackers[workers[w].msg.key] IN
    /\ workers[w].pc = "lookup"
    /\ ~Locked
    /\ workers' = [workers EXCEPT ![w] =
           IF t = 0 THEN Idle
           ELSE [@ EXCEPT !.held = t, !.pc = IF workers[w].msg.seq = 0 THEN "notify" ELSE "add"]]
    /\ UNCHANGED <<net, clientVars, replyVars, trackVars, lastActive, cleanVars, wireVars,
                   historyVars>>

-----------------------------------------------------------------------------
(* notify_request and connect_to_controller, under no lock *)

Tracker(w) == trackers[workers[w].held]
Sock(w)    == Tracker(w).sock

Goto(w, from, to) ==
    /\ workers[w].pc = from
    /\ workers' = [workers EXCEPT ![w].pc = to]
    /\ UNCHANGED <<net, clientVars, replyVars, ue_trackers, registered_rntis, lastActive,
                   cleanVars, historyVars>>

Store(w, tr) == trackers' = [trackers EXCEPT ![workers[w].held] = tr]

\* A condition on the tracker's fields, and an assignment to one.
Test(w, from, cond, yes, no) == Goto(w, from, IF cond THEN yes ELSE no) /\ UNCHANGED <<trackers, wireVars>>
Assign(w, from, to, tr)      == Goto(w, from, to) /\ Store(w, tr) /\ UNCHANGED wireVars

\* A socket is closed by close(), and when no field refers to it any more.
Closed(s) == [i \in DOMAIN sockets |-> IF i = s THEN "closed" ELSE sockets[i]]

\* "if self.controller_socket", "self.controller_socket.close()" and "= None", in which
\* another worker's may come between.
TestSocket(w, from, yes, no) == Test(w, from, Sock(w) # 0, yes, no)

CloseSocket(w, from, to) ==
    /\ Goto(w, from, to)
    /\ Sock(w) # 0
    /\ sockets' = Closed(Sock(w))
    /\ UNCHANGED <<trackers, heard, mishaps>>

ClearSocket(w, from, to) ==
    /\ Goto(w, from, to)
    /\ Store(w, [Tracker(w) EXCEPT !.sock = 0])
    /\ sockets' = Closed(Sock(w))
    /\ UNCHANGED <<heard, mishaps>>

\* A send on the tracker's socket works if it is connected; it raises if there is
\* none, if it is not connected yet or closed, or because the controller has gone.
Is(w, state) == Sock(w) # 0 /\ sockets[Sock(w)] = state
Works(w) == Is(w, "open") /\ UNCHANGED mishaps
Fails(w, state) ==
    /\ \/ ~Is(w, state) /\ UNCHANGED mishaps
       \/ MayFail /\ mishaps' = mishaps + 1
    /\ UNCHANGED <<trackers, sockets, heard>>

Send(w, what) == heard' = Append(heard, Tell(Sock(w), what, Tracker(w).key,
                                             IF what \in {"request", "done"} THEN workers[w].msg.req ELSE 0))

\* "if not self.controller_socket and not self.registered", "if not
\* self.controller_socket: return", "if self.registration_time": the controller is not
\* told within registration_wait.
NotifyRequest(w) ==
    \/ TestSocket(w, "notify", "check", "known")
    \/ Test(w, "known", Tracker(w).registered, "check", "connect")
    \/ TestSocket(w, "reread", "check", "add")
    \/ Test(w, "check", Tracker(w).regTime # "none", "elapsed", "request")
    \/ /\ Test(w, "elapsed", Tracker(w).regTime = "recent", "add", "request")
       /\ Tracker(w).regTime # "none"

\* "if self.controller_socket is not None: return", "if not self.registered", and in
\* _register_ue "if not self.controller_socket: return".
ConnectTests(w) ==
    \/ TestSocket(w, "connect", "reread", "create")
    \/ Test(w, "unknown", Tracker(w).registered, "reread", "connected")
    \/ TestSocket(w, "connected", "new_ue", "mark")

\* A new socket; one that another worker has put there meanwhile is lost with its
\* last reference.
CreateSocket(w) ==
    /\ Goto(w, "create", "open")
    /\ sockets' = Append(Closed(Sock(w)), "new")
    /\ Store(w, [Tracker(w) EXCEPT !.sock = Len(sockets) + 1])
    /\ UNCHANGED <<heard, mishaps>>

\* connect() raises on a socket that another worker has connected, too.
Connect(w) ==
    \/ /\ Goto(w, "open", "greet")
       /\ Is(w, "new")
       /\ sockets' = [sockets EXCEPT ![Sock(w)] = "open"]
       /\ UNCHANGED <<trackers, heard, mishaps>>
    \/ Goto(w, "open", "open_test") /\ Fails(w, "new")

\* "tutti_server".
Greet(w) ==
    \/ Goto(w, "greet", "unknown") /\ Works(w) /\ Send(w, "app") /\ UNCHANGED <<trackers, sockets>>
    \/ Goto(w, "greet", "open_test") /\ Fails(w, "open")

\* _register_ue, and the fields that are set whether or not it worked.
RegisterUe(w) ==
    \/ /\ Goto(w, "new_ue", "mark")
       /\ Works(w)
       /\ Send(w, "new_ue")
       /\ Store(w, [Tracker(w) EXCEPT !.regTime = "recent"])
       /\ UNCHANGED sockets
    \/ Goto(w, "new_ue", "ue_close") /\ Fails(w, "open")
    \/ Assign(w, "mark", "stamp", [Tracker(w) EXCEPT !.registered = TRUE])
    \/ Assign(w, "stamp", "reread", [Tracker(w) EXCEPT !.regTime = "recent"])

SendRequest(w) ==
    \/ Goto(w, "request", "add") /\ Works(w) /\ Send(w, "request") /\ UNCHANGED <<trackers, sockets>>
    \/ Goto(w, "request", "request_test") /\ Fails(w, "open")

\* The except clause of connect_to_controller.
ConnectFailed(w) ==
    \/ TestSocket(w, "open_test", "open_close", "open_clear")
    \/ CloseSocket(w, "open_close", "open_clear")
    \/ ClearSocket(w, "open_clear", "reread")

\* That of _register_ue, which does not test; what it raises connect_to_controller's catches.
RegisterUeFailed(w) ==
    \/ Assign(w, "ue_close", "open_test", Tracker(w)) /\ Sock(w) = 0
    \/ CloseSocket(w, "ue_close", "ue_clear")
    \/ ClearSocket(w, "ue_clear", "ue_unmark")
    \/ Assign(w, "ue_unmark", "mark", [Tracker(w) EXCEPT !.registered = FALSE])

\* That of notify_request.
RequestFailed(w) ==
    \/ TestSocket(w, "request_test", "request_close", "request_clear")
    \/ CloseSocket(w, "request_close", "request_clear")
    \/ ClearSocket(w, "request_clear", "request_unmark")
    \/ Assign(w, "request_unmark", "request_unstamp", [Tracker(w) EXCEPT !.registered = FALSE])
    \/ Assign(w, "request_unstamp", "add", [Tracker(w) EXCEPT !.regTime = "none"])

\* Nothing below handle_request catches what an except clause raises when it closes
\* None, nor the subtraction of None: the handling of the datagram ends.
Escapes(w) ==
    /\ \/ workers[w].pc \in {"open_close", "request_close", "done_close"} /\ Sock(w) = 0
       \/ workers[w].pc = "elapsed" /\ Tracker(w).regTime = "none"
    /\ cut' = cut \cup {<<workers[w].msg.key, workers[w].msg.req>>}
    /\ workers' = [workers EXCEPT ![w] = Idle]
    /\ UNCHANGED <<net, clientVars, replyVars, trackVars, lastActive, cleanVars, wireVars,
                   added, completed>>

-----------------------------------------------------------------------------
(* add_packet, under the tracker's lock, and the response *)

Others(w) == {v \in Workers \ {w} : workers[v].pc \in LockSteps /\ workers[v].held = workers[w].held}

Received(w) == Tracker(w).received[workers[w].msg.req] \cup {workers[w].msg.seq}
Deleted(w)  == [Tracker(w) EXCEPT !.received[workers[w].msg.req] = {}]

\* A packet is counted.  The last one of its request ends it there if there is no
\* socket; else the lock is kept for DONE.
CountPacket(w, complete) ==
    /\ workers[w].pc = "add"
    /\ Others(w) = {}
    /\ \/ /\ ~complete
          /\ workers' = [workers EXCEPT ![w] = Idle]
          /\ Store(w, [Tracker(w) EXCEPT !.received[workers[w].msg.req] = Received(w)])
       \/ /\ complete /\ Sock(w) # 0
          /\ workers' = [workers EXCEPT ![w].pc = "tell"]
          /\ Store(w, [Tracker(w) EXCEPT !.received[workers[w].msg.req] = Received(w)])
       \/ /\ complete /\ Sock(w) = 0
          /\ workers' = [workers EXCEPT ![w].pc = "respond"]
          /\ Store(w, Deleted(w))
    /\ added' = added \cup {<<workers[w].held, workers[w].msg.req, workers[w].msg.seq>>}
    /\ UNCHANGED <<net, clientVars, replyVars, ue_trackers, registered_rntis, lastActive,
                   cleanVars, wireVars, completed, cut>>

\* Mutant: the last packet in number is taken for the last one to come.
MutLastNumber(w) == CountPacket(w, workers[w].msg.seq = Packets - 1)

\* Mutant: the packet being added is counted twice.
MutCountTwice(w) == CountPacket(w, Cardinality(Received(w)) + 1 >= Packets)

AddPacket(w) == CountPacket(w, Cardinality(Received(w)) = Packets)

\* "or not self.registered: return".
TestRegistered(w) ==
    \/ Assign(w, "tell", "done", Tracker(w)) /\ Tracker(w).registered
    \/ Assign(w, "tell", "respond", Deleted(w)) /\ ~Tracker(w).registered

\* Mutant: the entry is kept.
MutKeepEntry(w) ==
    \/ Goto(w, "done", "respond") /\ Works(w) /\ Send(w, "done") /\ UNCHANGED <<trackers, sockets>>
    \/ Goto(w, "done", "done_test") /\ Fails(w, "open")

\* Mutant: notify_request_completion takes the tracker's lock, too.
MutLockAgain(w) ==
    /\ workers[w].pc = "done"
    /\ Others(w) \cup {w} = {}
    /\ Goto(w, "done", "respond") /\ Works(w) /\ Send(w, "done") /\ Store(w, Deleted(w)) /\ UNCHANGED sockets

\* notify_request_completion; when it returns the entry is deleted.
SendDone(w) ==
    \/ Goto(w, "done", "respond") /\ Works(w) /\ Send(w, "done") /\ Store(w, Deleted(w)) /\ UNCHANGED sockets
    \/ Goto(w, "done", "done_test") /\ Fails(w, "open")

DoneFailed(w) ==
    \/ TestSocket(w, "done_test", "done_close", "done_clear")
    \/ CloseSocket(w, "done_close", "done_clear")
    \/ ClearSocket(w, "done_clear", "done_unmark")
    \/ Assign(w, "done_unmark", "respond", [Deleted(w) EXCEPT !.registered = FALSE])

\* The delay is computed from the tracker's timestamps and sent.
Respond(w) ==
    /\ workers[w].pc = "respond"
    /\ ~Locked
    /\ completed' = Append(completed, [tracker |-> workers[w].held, key |-> workers[w].msg.key, req |-> workers[w].msg.req,
                                       port |-> Tracker(w).port, c0 |-> Tracker(w).c0, t1 |-> Tracker(w).t1])
    /\ workers' = [workers EXCEPT ![w] = Idle]
    /\ UNCHANGED <<net, clientVars, replyVars, trackVars, lastActive, cleanVars, wireVars,
                   added, cut>>

Handle(w) ==
    \/ Register(w) \/ FindPort(w) \/ Hello(w) \/ StoreRtt(w) \/ Lookup(w)
    \/ NotifyRequest(w) \/ ConnectTests(w) \/ CreateSocket(w) \/ Connect(w) \/ Greet(w) \/ RegisterUe(w)
    \/ SendRequest(w) \/ ConnectFailed(w) \/ RegisterUeFailed(w) \/ RequestFailed(w) \/ Escapes(w)
    \/ AddPacket(w) \/ TestRegistered(w) \/ SendDone(w) \/ DoneFailed(w) \/ Respond(w)

-----------------------------------------------------------------------------
(* _cleanup_inactive_ues, holding tracker_lock from "scan" on; time *)

BeginCleanup ==
    /\ cpc = "sleep"
    /\ cpc' = "scan"
    /\ todo' = {k \in Keys : ue_trackers[k] # 0}
    /\ UNCHANGED <<net, clientVars, replyVars, trackVars, lastActive, workers, closing, wireVars, historyVars>>

\* A tracker whose client is silent, or has no entry, leaves the table.
Inspect(k) ==
    /\ cpc = "scan"
    /\ k \in todo
    /\ \/ /\ lastActive[k] = "fresh"
          /\ todo' = todo \ {k}
          /\ UNCHANGED <<cpc, closing, ue_trackers>>
       \/ /\ lastActive[k] # "fresh"
          /\ cpc' = "test"
          /\ closing' = ue_trackers[k]
          /\ ue_trackers' = [ue_trackers EXCEPT ![k] = 0]
          /\ UNCHANGED todo
    /\ UNCHANGED <<net, clientVars, replyVars, trackers, registered_rntis, lastActive, workers, wireVars, historyVars>>

\* UETracker.cleanup: a step for each use of a field; what close() raises is swallowed.
CloseTracker ==
    LET tr == trackers[closing] IN
    /\ \/ /\ cpc = "test"
          /\ cpc' = IF tr.sock # 0 THEN "close" ELSE "forget"
          /\ UNCHANGED <<trackers, sockets>>
       \/ /\ cpc = "close" /\ cpc' = "clear"
          /\ sockets' = Closed(tr.sock)
          /\ UNCHANGED trackers
       \/ /\ cpc = "clear" /\ cpc' = "unmark"
          /\ sockets' = Closed(tr.sock)
          /\ trackers' = [trackers EXCEPT ![closing].sock = 0]
       \/ /\ cpc = "unmark" /\ cpc' = "forget"
          /\ trackers' = [trackers EXCEPT ![closing].registered = FALSE]
          /\ UNCHANGED sockets
    /\ UNCHANGED <<net, clientVars, replyVars, ue_trackers, registered_rntis, lastActive, workers, todo, closing,
                   heard, mishaps, historyVars>>

\* ue_last_active.pop(client_key): a KeyError, if the entry is not there, ends the thread.
Forget(k) ==
    /\ cpc = "forget"
    /\ k \in todo /\ ue_trackers[k] = 0
    /\ \/ lastActive[k] # "absent" /\ cpc' = "scan" /\ todo' = todo \ {k}
       \/ lastActive[k] = "absent" /\ cpc' = "dead" /\ todo' = {}
    /\ lastActive' = [lastActive EXCEPT ![k] = "absent"]
    /\ UNCHANGED <<net, clientVars, replyVars, trackVars, workers, closing, wireVars, historyVars>>

EndCleanup ==
    /\ cpc = "scan"
    /\ todo = {}
    /\ cpc' = "sleep"
    /\ UNCHANGED <<net, clientVars, replyVars, trackVars, lastActive, workers, todo, closing, wireVars, historyVars>>

Cleanup == BeginCleanup \/ EndCleanup \/ CloseTracker \/ \E k \in Keys : Inspect(k) \/ Forget(k)

\* Half a second after a registration.
RegistrationWaitOver(t) ==
    /\ trackers[t].regTime = "recent"
    /\ trackers' = [trackers EXCEPT ![t].regTime = "old"]
    /\ UNCHANGED <<net, clientVars, replyVars, ue_trackers, registered_rntis, lastActive, workers,
                   cleanVars, wireVars, historyVars>>

Underway(k) ==
    (\E m \in net : m.key = k) \/ (\E w \in Workers : workers[w] # Idle /\ workers[w].msg.key = k)

\* Ten seconds without a datagram of k: between two requests, and between two
\* handshakes, which follow the registration at once and are repeated every second.
Silence(k) ==
    /\ "idle" \in Faults
    /\ lastActive[k] = "fresh"
    /\ rtts[k] = hellos[k] /\ hellos[k] > 0
    /\ sent[k] % Packets = 0
    /\ ~Locked
    /\ ~Underway(k)
    /\ lastActive' = [lastActive EXCEPT ![k] = "stale"]
    /\ UNCHANGED <<net, clientVars, replyVars, trackVars, workers, cleanVars, wireVars, historyVars>>

-----------------------------------------------------------------------------

Client(k) == SendRegistration(k) \/ SendHello(k) \/ SendRtt(k) \/ SendPacket(k)

Worker(w) == (\E m \in net : Take(w, m)) \/ Handle(w)

Next ==
    \/ \E k \in Keys : Client(k) \/ Silence(k)
    \/ \E m \in net : Lose(m)
    \/ \E w \in Workers : Worker(w)
    \/ Cleanup
    \/ \E t \in DOMAIN trackers : RegistrationWaitOver(t)

Spec == Init /\ [][Next]_vars

-----------------------------------------------------------------------------
(* Properties *)

Heard == DOMAIN heard

\* A request is reported complete, to the controller or to its client, only when
\* every one of its packets has reached one tracker: repeated packets do not count.
\* A packet once counted stays so, also for a request that is begun anew.
CompleteMeansAllPackets ==
    /\ \A i \in DOMAIN completed : \A s \in SeqNums : <<completed[i].tracker, completed[i].req, s>> \in added
    /\ \A i \in Heard : heard[i].what = "done" =>
           \E t \in DOMAIN trackers : \A s \in SeqNums : <<t, heard[i].req, s>> \in added

\* Two workers that count the last packets of a request at the same time do not both
\* complete it, as long as the network repeats nothing.
CompletesOnce ==
    "duplicate" \notin Faults =>
        \A i, j \in DOMAIN completed :
            completed[i].key = completed[j].key /\ completed[i].req = completed[j].req => i = j

\* The controller is never told that a request begins after it was told that it is
\* done, whichever workers told it, as long as the network repeats nothing.  The order
\* is that of the sends, and the clients have identities of their own: a second client
\* of an identity numbers its requests from the start again.
RequestBeforeDone ==
    "duplicate" \notin Faults =>
        \A i, j \in Heard :
            /\ heard[i].what = "request" /\ heard[j].what = "done"
            /\ heard[i].rnti = heard[j].rnti /\ heard[i].req = heard[j].req
            => i < j

\* A tracker has a closed socket only while the thread that closed it has still to
\* set the field to None: no closed socket stays with a tracker.
ClosedIsDropped ==
    \A t \in DOMAIN trackers :
        trackers[t].sock # 0 /\ sockets[trackers[t].sock] = "closed" =>
            \/ \E w \in Workers : workers[w].pc \in {"open_clear", "ue_clear", "request_clear", "done_clear"}
                                  /\ workers[w].held = t
            \/ cpc = "clear" /\ closing = t

Quiet == net = {} /\ \A w \in Workers : workers[w] = Idle

Answered(k, r) == \E i \in DOMAIN completed : completed[i].key = k /\ completed[i].req = r

\* When nothing is lost, repeated, or cleaned up, and all is handled, a request whose
\* packets were all sent has been answered and no tracker keeps a part of it, unless
\* an exception ended the handling of one of its packets, and that takes a call to the
\* controller that failed.
NothingLeftOver ==
    Faults \subseteq {"controller"} /\ Quiet =>
        \A k \in Keys : \A r \in 1..(sent[k] \div Packets) :
            IF <<k, r>> \in cut THEN mishaps > 0
            ELSE Answered(k, r) /\ (ue_trackers[k] # 0 => trackers[ue_trackers[k]].received[r] = {})

\* "Send regular response first": a request sent whole is answered, also when a call to the
\* controller fails.
EveryRequestAnswered ==
    Faults \subseteq {"controller"} /\ Quiet =>
        \A k \in Keys : \A r \in 1..(sent[k] \div Packets) : Answered(k, r)

\* Whoever waits for tracker_lock or a tracker's lock waits for a thread that can go on:
\* as long as a datagram is being handled, a worker or the clean-up in its round can
\* step, or the model's bound stops it.
NobodyStuck ==
    (\E w \in Workers : workers[w] # Idle) =>
        \/ Len(trackers) = MaxTrackers /\ \E w \in Workers : workers[w].pc \in {"register", "tracker"}
        \/ \E w \in Workers : ENABLED Handle(w)
        \/ ENABLED (EndCleanup \/ CloseTracker \/ \E k \in Keys : Inspect(k) \/ Forget(k))

\* "First connect and send application registration", "Then register the UE": on every
\* connection the controller hears of a request only after the program and the UE
\* have registered on it.
RegisteredFirst ==
    \A i \in Heard : heard[i].what = "request" =>
        \E j \in Heard : j < i /\ heard[j].on = heard[i].on /\ heard[j].what = "new_ue"

\* "Don't remove from registered_rntis to prevent re-registration": the controller
\* is sent one NEW_UE for each identity.
NewUeOnce ==
    \A i, j \in Heard :
        heard[i].what = "new_ue" /\ heard[j].what = "new_ue" /\ heard[i].rnti = heard[j].rnti => i = j

\* "Use the basic formula based on initial handshake": the server's and the client's
\* handshake times and the round-trip time that goes with them are of one handshake.
DelayFromOneHandshake ==
    \A i \in DOMAIN completed :
        completed[i].c0 > 0 /\ completed[i].t1 > 0 => completed[i].c0 = completed[i].t1

\* "port to send responses to": responses go to the port the client registered.
AnswersOnListenPort == \A i \in DOMAIN completed : completed[i].port = "listen"

\* "Periodically clean up inactive UE trackers": the clean-up thread goes on.
CleanupSurvives == cpc # "dead"
=============================================================================
