-------------------------- MODULE PetsServer_proofs --------------------------
(* The PETS server, for any number of clients, worker threads, requests,        *)
(* packets and handshakes, any bound on the trackers and any set of failures.   *)
(* A packet is on its way, with one worker, or counted, and where it is counted *)
(* decides who completes its request.                                           *)
EXTENDS PetsServer, Integers, FiniteSetTheorems, SequenceTheorems, TLAPS

-----------------------------------------------------------------------------
(* The invariant *)

\* The steps of handle_request with a packet that has not been counted yet.
Notifying == NotifySteps \cup ConnectSteps
Before    == Notifying \cup {"lookup", "add"}

\* And those with the last one of its request.
After == LockSteps \cup {"respond"}

Busy == [pc : HandlerSteps, msg : Datagrams, held : Nat, port : Ports]

Tellings == [on : Nat, what : {"app", "new_ue", "request", "done"}, rnti : Rntis, req : Nat]

Completions == [tracker : Nat, key : Keys, req : Requests, port : Ports, c0 : Nat, t1 : Nat]

\* What each step of handle_request has in its hands.
InHand(w) ==
    LET x == workers[w] IN
    /\ x.pc = "rtt" => x.msg.kind = "rtt"
    /\ x.pc \in {"hello", "tracker"} => x.msg.kind = "hello"
    /\ x.pc \in TrackerSteps \cup {"lookup"} => x.msg.kind = "packet"
    /\ x.pc \in Notifying => x.msg.seq = 0
    /\ x.pc \in HandlerSteps \ TrackerSteps => x.held = 0
    /\ x.pc \in TrackerSteps => x.held \in DOMAIN trackers /\ trackers[x.held].key = x.msg.key

ClientType ==
    /\ net \subseteq Datagrams
    /\ hellos \in [Keys -> 0..MaxHellos]
    /\ rtts \in [Keys -> Nat] /\ \A k \in Keys : rtts[k] <= hellos[k]
    /\ sent \in [Keys -> Nat] /\ \A k \in Keys : sent[k] <= MaxRequests * Packets
    /\ acked \subseteq Keys
    /\ welcomed \in [Keys -> SUBSET (1..MaxHellos)]

TableType ==
    /\ trackers \in Seq(Trackers)
    /\ ue_trackers \in [Keys -> Nat]
    /\ \A k \in Keys : ue_trackers[k] # 0 =>
          ue_trackers[k] \in DOMAIN trackers /\ trackers[ue_trackers[k]].key = k
    /\ registered_rntis \subseteq Rntis
    /\ lastActive \in [Keys -> {"absent", "fresh", "stale"}]
    /\ cpc \in {"sleep", "scan", "forget", "dead"} \cup CloseSteps
    /\ todo \subseteq Keys
    /\ closing \in DOMAIN trackers \cup {0}

WorkerType ==
    /\ workers \in [Workers -> Busy \cup {Idle}]
    /\ \A w \in Workers : InHand(w)

WireType ==
    /\ sockets \in Seq({"new", "open", "closed"})
    /\ heard \in Seq(Tellings)
    /\ mishaps \in 0..MaxMishaps
    /\ completed \in Seq(Completions)
    /\ cut \subseteq Keys \X Requests

\* A tracker's socket was made, and no other tracker has it.
SocketsOwned ==
    /\ \A t \in DOMAIN trackers : trackers[t].sock # 0 => trackers[t].sock \in DOMAIN sockets
    /\ \A t, u \in DOMAIN trackers :
          trackers[t].sock # 0 /\ trackers[t].sock = trackers[u].sock => t = u

CountedAll(t, r) == \A s \in SeqNums : <<t, r, s>> \in added

\* What a tracker holds has been counted, and a request that is being completed, or
\* was, has been counted in full.
EntriesCounted ==
    \A t \in DOMAIN trackers : \A r \in Requests : \A s \in trackers[t].received[r] : <<t, r, s>> \in added

WorkersCounted ==
    \A w \in Workers : workers[w].pc \in After => CountedAll(workers[w].held, workers[w].msg.req)

CompletedCounted ==
    \A i \in DOMAIN completed :
        /\ CountedAll(completed[i].tracker, completed[i].req)
        /\ completed[i].tracker \in DOMAIN trackers
        /\ trackers[completed[i].tracker].key = completed[i].key

HeardCounted ==
    \A i \in DOMAIN heard : heard[i].what = "done" =>
        \E t \in DOMAIN trackers : RntiOf[trackers[t].key] = heard[i].rnti /\ CountedAll(t, heard[i].req)

AllCounted == EntriesCounted /\ WorkersCounted /\ CompletedCounted /\ HeardCounted

\* A client sends packet seq of request req when it has sent the i packets before it.
IsSent(k, req, seq) == \E i \in 0..(sent[k] - 1) : req = 1 + i \div Packets /\ seq = i % Packets

Counted(k, req, seq) == \E t \in DOMAIN trackers : trackers[t].key = k /\ <<t, req, seq>> \in added

\* While the network repeats nothing a packet that was sent is in one place at most:
\* on its way, with one worker, or counted.
OnePlace ==
    "duplicate" \notin Faults =>
        /\ \A m \in net : m.kind = "packet" =>
              /\ IsSent(m.key, m.req, m.seq)
              /\ ~Counted(m.key, m.req, m.seq)
              /\ \A w \in Workers : workers[w].pc \in Before => workers[w].msg # m
        /\ \A w \in Workers : workers[w].pc \in Before =>
              /\ IsSent(workers[w].msg.key, workers[w].msg.req, workers[w].msg.seq)
              /\ ~Counted(workers[w].msg.key, workers[w].msg.req, workers[w].msg.seq)
              /\ \A v \in Workers \ {w} : workers[v].pc \in Before => workers[v].msg # workers[w].msg
        /\ \A x \in added : x[1] \in DOMAIN trackers /\ IsSent(trackers[x[1]].key, x[2], x[3])

\* Then one worker at most completes a request, and once.
OneCompletes ==
    "duplicate" \notin Faults =>
        /\ \A v, w \in Workers :
              /\ workers[v].pc \in After /\ workers[w].pc \in After
              /\ workers[v].msg.key = workers[w].msg.key /\ workers[v].msg.req = workers[w].msg.req
              => v = w
        /\ \A w \in Workers : workers[w].pc \in After =>
              \A i \in DOMAIN completed :
                  ~(completed[i].key = workers[w].msg.key /\ completed[i].req = workers[w].msg.req)
        /\ CompletesOnce

\* The clean-up thread has trackers to look at, but for the one it is cleaning up.
TodoTracked ==
    /\ cpc = "scan" => \A k \in todo : ue_trackers[k] # 0
    /\ cpc \in CloseSteps => closing # 0
    /\ cpc \in CloseSteps \cup {"forget"} => \A j, k \in todo : ue_trackers[j] = 0 /\ ue_trackers[k] = 0 => j = k

\* A client that is never silent keeps its tracker.
NothingExpires ==
    "idle" \notin Faults =>
        /\ cpc \in {"sleep", "scan"}
        /\ \A k \in Keys : ue_trackers[k] # 0 => lastActive[k] = "fresh"
        /\ \A t \in DOMAIN trackers : ue_trackers[trackers[t].key] = t
        /\ \A w \in Workers : workers[w].pc # "idle" => lastActive[workers[w].msg.key] = "fresh"

\* Its packets are sent once it has one.
TrackedFirst ==
    "idle" \notin Faults =>
        \A k \in Keys : /\ welcomed[k] # {} => ue_trackers[k] # 0
                        /\ rtts[k] > 0 => ue_trackers[k] # 0
                        /\ sent[k] > 0 => ue_trackers[k] # 0

Reliable == Faults \subseteq {"controller"}

\* Nothing is lost: a packet that was sent is on its way, with a worker, or counted,
\* unless an exception ended the handling of a packet of its request.
Numbered(k, i) == [kind |-> "packet", key |-> k, req |-> 1 + i \div Packets, seq |-> i % Packets]

Found(m) ==
    \/ m \in net
    \/ \E w \in Workers : workers[w].pc \in Before /\ workers[w].msg = m
    \/ <<ue_trackers[m.key], m.req, m.seq>> \in added
    \/ <<m.key, m.req>> \in cut

SomePlace == Reliable => \A k \in Keys : \A i \in 0..(sent[k] - 1) : Found(Numbered(k, i))

\* And a tracker's entry for a request holds what was counted until it is answered.
Open(t, r) ==
    trackers[t].received[r] = {s \in SeqNums : <<t, r, s>> \in added} /\ ~CountedAll(t, r)
Closing(t, r) ==
    \E w \in Workers : workers[w].pc \in LockSteps /\ workers[w].held = t /\ workers[w].msg.req = r
Replied(t, r) ==
    /\ trackers[t].received[r] = {}
    /\ \/ \E w \in Workers : workers[w].pc = "respond" /\ workers[w].held = t /\ workers[w].msg.req = r
       \/ \E i \in DOMAIN completed : completed[i].key = trackers[t].key /\ completed[i].req = r

EntriesClear ==
    Reliable => \A t \in DOMAIN trackers : \A r \in Requests :
        <<trackers[t].key, r>> \in cut \/ Open(t, r) \/ Closing(t, r) \/ Replied(t, r)

\* As long as no call has failed, every tracker has an open socket and is registered.
CalmTrackers ==
    \A t \in DOMAIN trackers :
        /\ trackers[t].sock \in DOMAIN sockets /\ sockets[trackers[t].sock] = "open"
        /\ trackers[t].sock # 0 /\ trackers[t].registered /\ trackers[t].regTime # "none"

CalmSteps == {"idle", "register", "hello", "tracker", "rtt", "lookup", "notify", "check", "elapsed", "request",
              "add", "tell", "done", "respond"}

Calm == Reliable /\ mishaps = 0 => cut = {} /\ CalmTrackers /\ \A w \in Workers : workers[w].pc \in CalmSteps

\* The controller tells two clients apart.
OwnRntis == \A j, k \in Keys : RntiOf[j] = RntiOf[k] => j = k

RequestFirst == OwnRntis => RequestBeforeDone

TypeInv == ClientType /\ TableType /\ WorkerType /\ WireType

IInv ==
    /\ TypeInv /\ TodoTracked /\ SocketsOwned /\ ClosedIsDropped
    /\ AllCounted /\ OnePlace /\ OneCompletes
    /\ NothingExpires /\ TrackedFirst /\ SomePlace /\ EntriesClear
    /\ Calm /\ RequestFirst

-----------------------------------------------------------------------------
(* Sequences and records *)

LEMMA AppendSeq ==
    ASSUME NEW S, NEW s \in Seq(S), NEW x \in S
    PROVE  /\ Append(s, x) \in Seq(S) /\ Len(Append(s, x)) = Len(s) + 1
           /\ DOMAIN s = 1..Len(s) /\ Len(s) \in Nat
           /\ DOMAIN Append(s, x) = 1..(Len(s) + 1)
           /\ \A i \in 1..Len(s) : Append(s, x)[i] = s[i]
           /\ Append(s, x)[Len(s) + 1] = x
  OBVIOUS

LEMMA UpdateSeq ==
    ASSUME NEW S, NEW s \in Seq(S), NEW i \in DOMAIN s, NEW x \in S
    PROVE  /\ [s EXCEPT ![i] = x] \in Seq(S) /\ DOMAIN [s EXCEPT ![i] = x] = DOMAIN s
           /\ Len([s EXCEPT ![i] = x]) = Len(s)
           /\ \A j \in DOMAIN s : [s EXCEPT ![i] = x][j] = IF j = i THEN x ELSE s[j]
  OBVIOUS

LEMMA StoreSeq ==
    ASSUME NEW S, NEW s \in Seq(S), NEW i, NEW x \in S
    PROVE  [s EXCEPT ![i] = x] \in Seq(S)
<1>1. CASE i \in DOMAIN s
  BY <1>1
<1>2. CASE i \notin DOMAIN s
  <2>1. [s EXCEPT ![i] = x] = s
    BY <1>2
  <2> QED
    BY <2>1
<1> QED
  BY <1>1, <1>2

\* A worker that handles a datagram.
LEMMA Handling ==
    ASSUME WorkerType, NEW w \in Workers, workers[w].pc # "idle"
    PROVE  workers[w] \in Busy /\ InHand(w)
  BY DEF WorkerType, Idle

LEMMA PcIsIdle ==
    ASSUME WorkerType, NEW w \in Workers
    PROVE  (workers[w].pc = "idle" <=> workers[w] = Idle) /\ Idle \notin Busy
  BY DEF WorkerType, Idle, Busy, HandlerSteps, TrackerSteps, NotifySteps, ConnectSteps, LockSteps

\* Where a step takes one worker.
LEMMA WorkerMoves ==
    ASSUME WorkerType, NEW w \in Workers, NEW x \in Busy \cup {Idle}, workers' = [workers EXCEPT ![w] = x]
    PROVE  /\ workers' \in [Workers -> Busy \cup {Idle}]
           /\ \A v \in Workers : workers'[v] = IF v = w THEN x ELSE workers[v]
  BY DEF WorkerType

LEMMA DatagramTypes ==
    /\ \A m \in Datagrams : m.key \in Keys
    /\ \A m \in Datagrams : m.kind \in {"hello", "rtt"} => m.round \in 1..MaxHellos
    /\ \A m \in Datagrams : m.kind = "packet" =>
          m.req \in Requests /\ m.seq \in SeqNums
          /\ m = [kind |-> "packet", key |-> m.key, req |-> m.req, seq |-> m.seq]
  BY DEF Datagrams

-----------------------------------------------------------------------------
(* The steps of notify_request *)

NotifyStep(w) ==
    \/ NotifyRequest(w) \/ ConnectTests(w) \/ CreateSocket(w) \/ Connect(w) \/ Greet(w)
    \/ RegisterUe(w) \/ SendRequest(w) \/ ConnectFailed(w) \/ RegisterUeFailed(w) \/ RequestFailed(w)

\* The trackers' clients and what was received are as before.
EntriesKept ==
    /\ trackers' \in Seq(Trackers) /\ DOMAIN trackers' = DOMAIN trackers
    /\ \A t \in DOMAIN trackers : /\ trackers'[t].key = trackers[t].key
                                  /\ trackers'[t].received = trackers[t].received

SocksKept == \A t \in DOMAIN trackers : trackers'[t].sock = trackers[t].sock

\* The controller may be told something, of a request or of none.
ControllerTold(w) ==
    \/ heard' = heard
    \/ \E x \in Tellings :
          /\ heard' = Append(heard, x)
          /\ x.what # "done"
          /\ x.what = "request" => x.rnti = RntiOf[workers[w].msg.key] /\ x.req = workers[w].msg.req

Wired == sockets' \in Seq({"new", "open", "closed"}) /\ mishaps' \in 0..MaxMishaps

\* Where a worker has closed a socket that is still its tracker's.
Clears == {"open_clear", "ue_clear", "request_clear", "done_clear"}

\* The worker's tracker, with the same client, entries and socket.
Stored(w) ==
    \E y \in Trackers :
        /\ y.key = Tracker(w).key /\ y.received = Tracker(w).received /\ y.sock = Sock(w)
        /\ trackers' = [trackers EXCEPT ![workers[w].held] = y]

\* A test, an assignment or a failed call; close(); and "= None".
FieldForm(w) ==
    \/ /\ workers[w].pc \notin Clears /\ Stored(w) /\ UNCHANGED <<sockets, heard>>
       /\ mishaps' = mishaps \/ (mishaps' = mishaps + 1 /\ mishaps < MaxMishaps)
    \/ /\ workers[w].pc \notin Clears /\ workers'[w].pc \in Clears
       /\ sockets' = Closed(Sock(w)) /\ UNCHANGED <<trackers, heard, mishaps>>
    \/ Store(w, [Tracker(w) EXCEPT !.sock = 0]) /\ sockets' = Closed(Sock(w)) /\ UNCHANGED <<heard, mishaps>>

LEMMA HeldTracker ==
    ASSUME TypeInv, NEW w \in Workers, workers[w].pc \in TrackerSteps
    PROVE  /\ workers[w] \in Busy /\ workers[w].msg \in Datagrams /\ workers[w].msg.kind = "packet"
           /\ workers[w].msg.key \in Keys /\ workers[w].msg.req \in Requests /\ workers[w].msg.seq \in SeqNums
           /\ workers[w].held \in DOMAIN trackers /\ Tracker(w) \in Trackers
           /\ Tracker(w) = trackers[workers[w].held] /\ Tracker(w).key = workers[w].msg.key
<1>1. workers[w].pc # "idle"
  BY DEF TrackerSteps, NotifySteps, ConnectSteps, LockSteps
<1>2. workers[w] \in Busy /\ InHand(w)
  BY <1>1, Handling DEF TypeInv
<1>3. workers[w].msg \in Datagrams /\ workers[w].msg.kind = "packet"
  BY <1>2 DEF InHand, Busy
<1>4. workers[w].held \in DOMAIN trackers /\ trackers[workers[w].held].key = workers[w].msg.key
  BY <1>2 DEF InHand
<1>5. trackers[workers[w].held] \in Trackers
  BY <1>4 DEF TypeInv, TableType
<1> QED
  BY <1>2, <1>3, <1>4, <1>5, DatagramTypes DEF Tracker

\* A worker that goes on with its datagram.
LEMMA Goes ==
    ASSUME TypeInv, NEW w \in Workers, workers[w].pc \in TrackerSteps, NEW p, workers' = [workers EXCEPT ![w].pc = p]
    PROVE  /\ \A v \in Workers : v # w => workers'[v] = workers[v]
           /\ workers'[w].pc = p /\ workers'[w].msg = workers[w].msg /\ workers'[w].held = workers[w].held
  BY HeldTracker DEF TypeInv, WorkerType, Busy

\* Storing a tracker of the same client and entries.
LEMMA StoreKeeps ==
    ASSUME TypeInv, NEW w \in Workers, workers[w].pc \in TrackerSteps, NEW y \in Trackers,
           y.key = Tracker(w).key, y.received = Tracker(w).received,
           trackers' = [trackers EXCEPT ![workers[w].held] = y]
    PROVE  EntriesKept
<1>1. trackers \in Seq(Trackers) /\ workers[w].held \in DOMAIN trackers /\ Tracker(w) = trackers[workers[w].held]
  BY HeldTracker DEF TypeInv, TableType
<1> QED
  BY <1>1, UpdateSeq DEF EntriesKept

LEMMA NoStore == ASSUME TypeInv, trackers' = trackers PROVE EntriesKept
  BY DEF TypeInv, TableType, EntriesKept

LEMMA StoredKeeps ==
    ASSUME TypeInv, NEW w \in Workers, workers[w].pc \in TrackerSteps, Stored(w)
    PROVE  EntriesKept /\ SocksKept
<1>1. PICK y \in Trackers :
         /\ y.key = Tracker(w).key /\ y.received = Tracker(w).received /\ y.sock = Sock(w)
         /\ trackers' = [trackers EXCEPT ![workers[w].held] = y]
  BY DEF Stored
<1>2. trackers \in Seq(Trackers) /\ workers[w].held \in DOMAIN trackers /\ Sock(w) = trackers[workers[w].held].sock
  BY HeldTracker DEF TypeInv, TableType, Sock
<1>3. SocksKept
  BY <1>1, <1>2, UpdateSeq DEF SocksKept
<1> QED
  BY <1>1, <1>3, StoreKeeps

\* A tracker's fields.
LEMMA FieldTypes ==
    ASSUME NEW y \in Trackers
    PROVE  /\ \A b \in BOOLEAN :
                  /\ [y EXCEPT !.registered = b] \in Trackers /\ [y EXCEPT !.registered = b].key = y.key
                  /\ [y EXCEPT !.registered = b].received = y.received /\ [y EXCEPT !.registered = b].sock = y.sock
           /\ \A x \in {"none", "recent", "old"} :
                  /\ [y EXCEPT !.regTime = x] \in Trackers /\ [y EXCEPT !.regTime = x].key = y.key
                  /\ [y EXCEPT !.regTime = x].received = y.received /\ [y EXCEPT !.regTime = x].sock = y.sock
           /\ \A n \in Nat :
                  /\ [y EXCEPT !.sock = n] \in Trackers /\ [y EXCEPT !.sock = n].key = y.key
                  /\ [y EXCEPT !.sock = n].received = y.received /\ [y EXCEPT !.sock = n].sock = n
  BY DEF Trackers

LEMMA AssignStored ==
    ASSUME TypeInv, NEW w \in Workers, workers[w].pc \in TrackerSteps,
           \/ \E b \in BOOLEAN : Store(w, [Tracker(w) EXCEPT !.registered = b])
           \/ \E x \in {"none", "recent", "old"} : Store(w, [Tracker(w) EXCEPT !.regTime = x])
           \/ Store(w, Tracker(w))
           \/ trackers' = trackers
    PROVE  Stored(w)
<1>1. /\ Tracker(w) \in Trackers /\ workers[w].held \in DOMAIN trackers /\ Tracker(w) = trackers[workers[w].held]
      /\ trackers \in Seq(Trackers) /\ Sock(w) = Tracker(w).sock
  BY HeldTracker DEF TypeInv, TableType, Sock
<1>2. ASSUME NEW b \in BOOLEAN, Store(w, [Tracker(w) EXCEPT !.registered = b]) PROVE Stored(w)
  BY <1>1, <1>2, FieldTypes DEF Store, Stored
<1>3. ASSUME NEW x \in {"none", "recent", "old"}, Store(w, [Tracker(w) EXCEPT !.regTime = x]) PROVE Stored(w)
  BY <1>1, <1>3, FieldTypes DEF Store, Stored
<1>4. CASE Store(w, Tracker(w))
  BY <1>1, <1>4 DEF Store, Stored
<1>5. CASE trackers' = trackers
  <2>1. trackers' = [trackers EXCEPT ![workers[w].held] = Tracker(w)]
    BY <1>1, <1>5
  <2> QED
    BY <1>1, <2>1 DEF Stored
<1> QED
  BY <1>2, <1>3, <1>4, <1>5

LEMMA ClosedSockets ==
    ASSUME TypeInv, NEW s
    PROVE  /\ Closed(s) \in Seq({"new", "open", "closed"}) /\ DOMAIN Closed(s) = DOMAIN sockets
           /\ Len(Closed(s)) = Len(sockets)
           /\ \A i \in DOMAIN sockets : Closed(s)[i] = IF i = s THEN "closed" ELSE sockets[i]
  BY DEF Closed, TypeInv, WireType

LEMMA FieldFormKeeps ==
    ASSUME TypeInv, NEW w \in Workers, workers[w].pc \in TrackerSteps, FieldForm(w)
    PROVE  EntriesKept /\ heard' = heard /\ Wired
<1>0. mishaps \in 0..MaxMishaps /\ MaxMishaps \in Nat /\ sockets \in Seq({"new", "open", "closed"})
  BY PetsAssumption DEF TypeInv, WireType
<1>1. CASE /\ Stored(w) /\ UNCHANGED <<sockets, heard>>
           /\ mishaps' = mishaps \/ (mishaps' = mishaps + 1 /\ mishaps < MaxMishaps)
  BY <1>0, <1>1, StoredKeeps DEF Wired
<1>2. CASE sockets' = Closed(Sock(w)) /\ UNCHANGED <<trackers, heard, mishaps>>
  BY <1>0, <1>2, NoStore, ClosedSockets DEF Wired
<1>3. CASE Store(w, [Tracker(w) EXCEPT !.sock = 0]) /\ sockets' = Closed(Sock(w)) /\ UNCHANGED <<heard, mishaps>>
  <2> DEFINE y == [Tracker(w) EXCEPT !.sock = 0]
  <2>1. y \in Trackers /\ y.key = Tracker(w).key /\ y.received = Tracker(w).received
    BY HeldTracker, FieldTypes
  <2>2. trackers' = [trackers EXCEPT ![workers[w].held] = y]
    BY <1>3 DEF Store
  <2> HIDE DEF y
  <2>3. EntriesKept
    BY <2>1, <2>2, StoreKeeps
  <2> QED
    BY <1>0, <1>3, <2>3, ClosedSockets DEF Wired
<1> QED
  BY <1>1, <1>2, <1>3 DEF FieldForm

LEMMA SendTells ==
    ASSUME TypeInv, NEW w \in Workers, workers[w].pc \in TrackerSteps, NEW what, 
           what \in {"app", "new_ue", "request", "done"}, Send(w, what)
    PROVE  \E x \in Tellings :
              /\ heard' = Append(heard, x) /\ x.what = what /\ x.rnti = RntiOf[workers[w].msg.key]
              /\ what \in {"request", "done"} => x.req = workers[w].msg.req
<1>1. /\ workers[w].msg.key \in Keys /\ workers[w].msg.req \in Requests /\ Tracker(w).key = workers[w].msg.key
      /\ Sock(w) \in Nat
  BY HeldTracker DEF Sock, Trackers
<1>2. RntiOf[workers[w].msg.key] \in Rntis /\ workers[w].msg.req \in Nat
  BY <1>1, PetsAssumption DEF Requests
<1> DEFINE x == Tell(Sock(w), what, Tracker(w).key, IF what \in {"request", "done"} THEN workers[w].msg.req ELSE 0)
<1>3. x \in Tellings /\ x.what = what /\ x.rnti = RntiOf[workers[w].msg.key]
      /\ (what \in {"request", "done"} => x.req = workers[w].msg.req)
  BY <1>1, <1>2 DEF Tell, Tellings
<1>4. heard' = Append(heard, x)
  BY DEF Send
<1> HIDE DEF x
<1> QED
  BY <1>3, <1>4

LEMMA NotifyMoves ==
    ASSUME TypeInv, NEW w \in Workers, NotifyStep(w)
    PROVE  /\ workers[w].pc \in Notifying
           /\ \E to \in Notifying \cup {"add"} : workers' = [workers EXCEPT ![w].pc = to]
           /\ UNCHANGED <<net, clientVars, replyVars, ue_trackers, registered_rntis, lastActive,
                          cleanVars, historyVars>>
<1>1. ASSUME NEW from \in Notifying, NEW to \in Notifying \cup {"add"}, Goto(w, from, to)
      PROVE  /\ workers[w].pc \in Notifying
             /\ \E x \in Notifying \cup {"add"} : workers' = [workers EXCEPT ![w].pc = x]
             /\ UNCHANGED <<net, clientVars, replyVars, ue_trackers, registered_rntis, lastActive,
                            cleanVars, historyVars>>
  BY <1>1 DEF Goto
<1>2. \E from \in Notifying : \E to \in Notifying \cup {"add"} : Goto(w, from, to)
  <2> USE DEF Notifying, NotifySteps, ConnectSteps
  <2>1. CASE NotifyRequest(w)
    BY <2>1 DEF NotifyRequest, TestSocket, Test
  <2>2. CASE ConnectTests(w)
    BY <2>2 DEF ConnectTests, TestSocket, Test
  <2>3. CASE CreateSocket(w) \/ Connect(w) \/ Greet(w)
    BY <2>3 DEF CreateSocket, Connect, Greet
  <2>4. CASE RegisterUe(w)
    BY <2>4 DEF RegisterUe, Assign
  <2>5. CASE SendRequest(w)
    BY <2>5 DEF SendRequest
  <2>6. CASE ConnectFailed(w)
    BY <2>6 DEF ConnectFailed, TestSocket, Test, CloseSocket, ClearSocket
  <2>7. CASE RegisterUeFailed(w)
    BY <2>7 DEF RegisterUeFailed, CloseSocket, ClearSocket, Assign
  <2>8. CASE RequestFailed(w)
    BY <2>8 DEF RequestFailed, TestSocket, Test, CloseSocket, ClearSocket, Assign
  <2> QED
    BY <2>1, <2>2, <2>3, <2>4, <2>5, <2>6, <2>7, <2>8 DEF NotifyStep
<1> QED
  BY <1>1, <1>2

\* What the forms of a step on the tracker's fields do.
LEMMA TestForm ==
    ASSUME TypeInv, NEW w \in Workers, workers[w].pc \in TrackerSteps \ Clears, Stored(w), UNCHANGED wireVars
    PROVE  FieldForm(w)
  BY DEF FieldForm, wireVars

LEMMA FailForm ==
    ASSUME TypeInv, NEW w \in Workers, workers[w].pc \in TrackerSteps \ Clears, NEW state, Fails(w, state)
    PROVE  FieldForm(w)
<1>1. Stored(w)
  BY AssignStored DEF Fails
<1> QED
  BY <1>1 DEF FieldForm, Fails, MayFail

LEMMA CloseForm ==
    ASSUME TypeInv, NEW w \in Workers, NEW from \in TrackerSteps \ Clears, NEW to \in Clears, CloseSocket(w, from, to)
    PROVE  FieldForm(w)
<1>1. workers[w].pc = from /\ workers' = [workers EXCEPT ![w].pc = to]
  BY DEF CloseSocket, Goto
<1>2. workers'[w].pc = to
  BY <1>1, Goes
<1> QED
  BY <1>1, <1>2 DEF CloseSocket, FieldForm

LEMMA ClearForm ==
    ASSUME TypeInv, NEW w \in Workers, NEW from, NEW to, ClearSocket(w, from, to)
    PROVE  FieldForm(w)
  BY DEF ClearSocket, FieldForm

\* A send; and connect() on a new socket.
SendForm(w) ==
    /\ workers[w].pc \notin Clears /\ Stored(w) /\ UNCHANGED <<sockets, mishaps>>
    /\ \E what \in {"app", "new_ue", "request"} : Send(w, what)

OpenForm(w) ==
    /\ workers[w].pc \notin Clears /\ Is(w, "new")
    /\ sockets' = [sockets EXCEPT ![Sock(w)] = "open"] /\ UNCHANGED <<trackers, heard, mishaps>>

LEMMA NotifyForms ==
    ASSUME TypeInv, NEW w \in Workers, NotifyStep(w)
    PROVE  FieldForm(w) \/ SendForm(w) \/ CreateSocket(w) \/ OpenForm(w)
<1>0. workers[w].pc \in TrackerSteps
  BY NotifyMoves DEF Notifying, TrackerSteps, NotifySteps, ConnectSteps, LockSteps
<1>1. CASE NotifyRequest(w)
  <2>1. workers[w].pc \in {"notify", "known", "reread", "check", "elapsed"} /\ UNCHANGED <<trackers, wireVars>>
    BY <1>1 DEF NotifyRequest, TestSocket, Test, Goto
  <2>2. workers[w].pc \in TrackerSteps \ Clears
    BY <1>0, <2>1 DEF Clears
  <2> QED
    BY <1>0, <2>1, <2>2, AssignStored, TestForm
<1>2. CASE ConnectTests(w)
  <2>1. workers[w].pc \in {"connect", "unknown", "connected"} /\ UNCHANGED <<trackers, wireVars>>
    BY <1>2 DEF ConnectTests, TestSocket, Test, Goto
  <2>2. workers[w].pc \in TrackerSteps \ Clears
    BY <1>0, <2>1 DEF Clears
  <2> QED
    BY <1>0, <2>1, <2>2, AssignStored, TestForm
<1>3. CASE Connect(w)
  <2>1. workers[w].pc = "open"
    BY <1>3 DEF Connect, Goto
  <2>2. workers[w].pc \in TrackerSteps \ Clears
    BY <1>0, <2>1 DEF Clears
  <2>3. Fails(w, "new") \/ OpenForm(w)
    BY <1>3, <2>2 DEF Connect, OpenForm
  <2> QED
    BY <2>2, <2>3, FailForm
<1>4. CASE Greet(w) \/ SendRequest(w)
  <2>1. workers[w].pc \in {"greet", "request"}
    BY <1>4 DEF Greet, SendRequest, Goto
  <2>2. workers[w].pc \in TrackerSteps \ Clears
    BY <1>0, <2>1 DEF Clears
  <2>3. \/ Fails(w, "open")
        \/ UNCHANGED <<trackers, sockets, mishaps>> /\ \E what \in {"app", "new_ue", "request"} : Send(w, what)
    BY <1>4 DEF Greet, SendRequest, Works
  <2> QED
    BY <1>0, <2>2, <2>3, FailForm, AssignStored DEF SendForm
<1>5. CASE RegisterUe(w)
  <2>1. workers[w].pc \in {"new_ue", "mark", "stamp"}
    BY <1>5 DEF RegisterUe, Assign, Goto
  <2>2. workers[w].pc \in TrackerSteps \ Clears
    BY <1>0, <2>1 DEF Clears
  <2>3. \/ Fails(w, "open")
        \/ Store(w, [Tracker(w) EXCEPT !.registered = TRUE]) /\ UNCHANGED wireVars
        \/ Store(w, [Tracker(w) EXCEPT !.regTime = "recent"]) /\ UNCHANGED wireVars
        \/ Store(w, [Tracker(w) EXCEPT !.regTime = "recent"]) /\ UNCHANGED <<sockets, mishaps>> /\ Send(w, "new_ue")
    BY <1>5 DEF RegisterUe, Assign, Works
  <2>4. CASE Store(w, [Tracker(w) EXCEPT !.registered = TRUE])
    BY <1>0, <2>2, <2>3, <2>4, AssignStored, TestForm, FailForm DEF SendForm
  <2>5. CASE Store(w, [Tracker(w) EXCEPT !.regTime = "recent"])
    BY <1>0, <2>2, <2>3, <2>5, AssignStored, TestForm, FailForm DEF SendForm
  <2> QED
    BY <2>2, <2>3, <2>4, <2>5, FailForm
<1>6. CASE ConnectFailed(w)
  <2>1. CASE workers[w].pc = "open_test" /\ UNCHANGED <<trackers, wireVars>>
    <3>1. workers[w].pc \in TrackerSteps \ Clears
      BY <1>0, <2>1 DEF Clears
    <3> QED
      BY <1>0, <2>1, <3>1, AssignStored, TestForm
  <2>2. "open_close" \in TrackerSteps \ Clears /\ "open_clear" \in Clears
    BY DEF TrackerSteps, Clears, NotifySteps, ConnectSteps, LockSteps
  <2>3. \/ workers[w].pc = "open_test" /\ UNCHANGED <<trackers, wireVars>>
        \/ CloseSocket(w, "open_close", "open_clear") \/ ClearSocket(w, "open_clear", "reread")
    BY <1>6 DEF ConnectFailed, TestSocket, Test, Goto
  <2> QED
    BY <2>1, <2>2, <2>3, CloseForm, ClearForm
<1>7. CASE RegisterUeFailed(w)
  <2>1. CASE /\ workers[w].pc \in {"ue_close", "ue_unmark"} /\ UNCHANGED wireVars
             /\ Store(w, Tracker(w)) \/ Store(w, [Tracker(w) EXCEPT !.registered = FALSE])
    <3>1. workers[w].pc \in TrackerSteps \ Clears
      BY <1>0, <2>1 DEF Clears
    <3>2. Stored(w)
      <4>1. CASE Store(w, Tracker(w))
        BY <1>0, <4>1, AssignStored
      <4>2. CASE Store(w, [Tracker(w) EXCEPT !.registered = FALSE])
        BY <1>0, <4>2, AssignStored
      <4> QED
        BY <2>1, <4>1, <4>2
    <3> QED
      BY <2>1, <3>1, <3>2, TestForm
  <2>2. "ue_close" \in TrackerSteps \ Clears /\ "ue_clear" \in Clears
    BY DEF TrackerSteps, Clears, NotifySteps, ConnectSteps, LockSteps
  <2>3. \/ /\ workers[w].pc \in {"ue_close", "ue_unmark"} /\ UNCHANGED wireVars
           /\ Store(w, Tracker(w)) \/ Store(w, [Tracker(w) EXCEPT !.registered = FALSE])
        \/ CloseSocket(w, "ue_close", "ue_clear") \/ ClearSocket(w, "ue_clear", "ue_unmark")
    BY <1>7 DEF RegisterUeFailed, Assign, Goto
  <2> QED
    BY <2>1, <2>2, <2>3, CloseForm, ClearForm
<1>8. CASE RequestFailed(w)
  <2>1. CASE /\ workers[w].pc \in {"request_test", "request_unmark", "request_unstamp"} /\ UNCHANGED wireVars
             /\ \/ trackers' = trackers
                \/ Store(w, [Tracker(w) EXCEPT !.registered = FALSE])
                \/ Store(w, [Tracker(w) EXCEPT !.regTime = "none"])
    <3>1. workers[w].pc \in TrackerSteps \ Clears
      BY <1>0, <2>1 DEF Clears
    <3>2. Stored(w)
      <4>1. CASE trackers' = trackers
        BY <1>0, <4>1, AssignStored
      <4>2. CASE Store(w, [Tracker(w) EXCEPT !.registered = FALSE])
        BY <1>0, <4>2, AssignStored
      <4>3. CASE Store(w, [Tracker(w) EXCEPT !.regTime = "none"])
        BY <1>0, <4>3, AssignStored
      <4> QED
        BY <2>1, <4>1, <4>2, <4>3
    <3> QED
      BY <2>1, <3>1, <3>2, TestForm
  <2>2. "request_close" \in TrackerSteps \ Clears /\ "request_clear" \in Clears
    BY DEF TrackerSteps, Clears, NotifySteps, ConnectSteps, LockSteps
  <2>3. \/ /\ workers[w].pc \in {"request_test", "request_unmark", "request_unstamp"} /\ UNCHANGED wireVars
           /\ \/ trackers' = trackers
              \/ Store(w, [Tracker(w) EXCEPT !.registered = FALSE])
              \/ Store(w, [Tracker(w) EXCEPT !.regTime = "none"])
        \/ CloseSocket(w, "request_close", "request_clear") \/ ClearSocket(w, "request_clear", "request_unmark")
    BY <1>8 DEF RequestFailed, TestSocket, Test, Assign, Goto
  <2> QED
    BY <2>1, <2>2, <2>3, CloseForm, ClearForm
<1> QED
  BY <1>1, <1>2, <1>3, <1>4, <1>5, <1>6, <1>7, <1>8 DEF NotifyStep

LEMMA NotifyStored ==
    ASSUME TypeInv, NEW w \in Workers, NotifyStep(w)
    PROVE  EntriesKept /\ ControllerTold(w) /\ Wired
<1>0. workers[w].pc \in TrackerSteps
  BY NotifyMoves DEF Notifying, TrackerSteps, NotifySteps, ConnectSteps, LockSteps
<1>a. mishaps \in 0..MaxMishaps /\ sockets \in Seq({"new", "open", "closed"}) /\ Len(sockets) \in Nat
  BY DEF TypeInv, WireType
<1>1. CASE FieldForm(w)
  BY <1>0, <1>1, FieldFormKeeps DEF ControllerTold
<1>2. CASE SendForm(w)
  <2>1. EntriesKept /\ Wired
    BY <1>0, <1>2, <1>a, StoredKeeps DEF SendForm, Wired
  <2>2. PICK what \in {"app", "new_ue", "request"} : Send(w, what)
    BY <1>2 DEF SendForm
  <2>3. PICK x \in Tellings : /\ heard' = Append(heard, x) /\ x.what = what /\ x.rnti = RntiOf[workers[w].msg.key]
                              /\ what \in {"request", "done"} => x.req = workers[w].msg.req
    BY <1>0, <2>2, SendTells
  <2> QED
    BY <2>1, <2>3 DEF ControllerTold
<1>3. CASE CreateSocket(w)
  <2> DEFINE y == [Tracker(w) EXCEPT !.sock = Len(sockets) + 1]
  <2>1. /\ heard' = heard /\ mishaps' = mishaps /\ sockets' = Append(Closed(Sock(w)), "new")
        /\ trackers' = [trackers EXCEPT ![workers[w].held] = y]
    BY <1>3 DEF CreateSocket, Store
  <2>0. Len(sockets) + 1 \in Nat /\ Tracker(w) \in Trackers
    BY <1>0, <1>a, HeldTracker
  <2>2. y \in Trackers /\ y.key = Tracker(w).key /\ y.received = Tracker(w).received
    BY <2>0, FieldTypes
  <2> HIDE DEF y
  <2>3. EntriesKept
    BY <1>0, <2>1, <2>2, StoreKeeps
  <2>4. Wired
    BY <1>a, <2>1, ClosedSockets DEF Wired
  <2> QED
    BY <2>1, <2>3, <2>4 DEF ControllerTold
<1>4. CASE OpenForm(w)
  <2>1. sockets' = [sockets EXCEPT ![Sock(w)] = "open"] /\ UNCHANGED <<trackers, heard, mishaps>>
    BY <1>4 DEF OpenForm
  <2>2. sockets' \in Seq({"new", "open", "closed"})
    BY <1>a, <2>1, StoreSeq
  <2> QED
    BY <1>a, <2>1, <2>2, NoStore DEF Wired, ControllerTold
<1> QED
  BY <1>1, <1>2, <1>3, <1>4, NotifyForms

-----------------------------------------------------------------------------
(* A new tracker and its connection *)

Setups == [tr : Trackers, sockets : Seq({"new", "open", "closed"}), heard : Seq(Tellings), mishaps : 0..MaxMishaps]

Begins(s, t) == DOMAIN s \subseteq DOMAIN t /\ \A i \in DOMAIN s : t[i] = s[i]

\* Connecting adds sockets and tells the controller of no request.
Leads(c, d) ==
    /\ d.tr.key = c.tr.key /\ d.tr.received = c.tr.received
    /\ Begins(c.sockets, d.sockets) /\ Begins(c.heard, d.heard)
    /\ \A i \in DOMAIN d.heard \ DOMAIN c.heard : d.heard[i].what \in {"app", "new_ue"}
    /\ \/ d.tr.sock = c.tr.sock
       \/ d.tr.sock \in DOMAIN d.sockets \ DOMAIN c.sockets /\ d.sockets[d.tr.sock] = "open"

LEMMA AppendBegins ==
    ASSUME NEW S, NEW s \in Seq(S), NEW x \in S
    PROVE  /\ Begins(s, Append(s, x))
           /\ \A i \in DOMAIN Append(s, x) \ DOMAIN s : Append(s, x)[i] = x
  BY AppendSeq DEF Begins

LEMMA ConnectionsLead ==
    ASSUME NEW c \in Setups, NEW d \in Connections(c)
    PROVE  d \in Setups /\ Leads(c, d)
<1> DEFINE s == Len(c.sockets) + 1
           app == Tell(s, "app", c.tr.key, 0)
           ue  == Tell(s, "new_ue", c.tr.key, 0)
           opened == Append(c.heard, app)
           refused == [c EXCEPT !.sockets = Append(@, "closed"), !.mishaps = @ + 1]
           States == {"new", "open", "closed"}
<1>1. /\ c.tr \in Trackers /\ c.sockets \in Seq(States) /\ c.heard \in Seq(Tellings)
      /\ c.mishaps \in 0..MaxMishaps /\ c = [tr |-> c.tr, sockets |-> c.sockets, heard |-> c.heard, mishaps |-> c.mishaps]
  BY DEF Setups
<1>2. s \in Nat /\ app \in Tellings /\ ue \in Tellings /\ app.what = "app" /\ ue.what = "new_ue"
  <2>1. s \in Nat /\ c.tr.key \in Keys /\ RntiOf[c.tr.key] \in Rntis
    BY <1>1, PetsAssumption DEF Trackers
  <2> QED
    BY <2>1 DEF Tell, Tellings
<1>3. opened \in Seq(Tellings) /\ Begins(c.heard, opened)
      /\ \A i \in DOMAIN opened \ DOMAIN c.heard : opened[i] = app
  BY <1>1, <1>2, AppendSeq, AppendBegins
<1> HIDE DEF opened, app, ue, s
<1>4. /\ Append(opened, ue) \in Seq(Tellings) /\ Begins(c.heard, Append(opened, ue))
      /\ \A i \in DOMAIN Append(opened, ue) \ DOMAIN c.heard : Append(opened, ue)[i] \in {app, ue}
  <2>1. /\ Append(opened, ue) \in Seq(Tellings) /\ Begins(opened, Append(opened, ue))
        /\ \A i \in DOMAIN Append(opened, ue) \ DOMAIN opened : Append(opened, ue)[i] = ue
    BY <1>2, <1>3, AppendSeq, AppendBegins
  <2> QED
    BY <2>1, <1>3 DEF Begins
<1>5. ASSUME NEW x \in States
      PROVE  /\ Append(c.sockets, x) \in Seq(States) /\ Begins(c.sockets, Append(c.sockets, x))
             /\ s \in DOMAIN Append(c.sockets, x) \ DOMAIN c.sockets /\ Append(c.sockets, x)[s] = x
  BY <1>1, AppendSeq, AppendBegins DEF s
<1>6. Begins(c.sockets, c.sockets) /\ Begins(c.heard, c.heard)
  BY DEF Begins
<1>7. CASE d = c
  BY <1>6, <1>7 DEF Leads
<1>8. CASE d = [c EXCEPT !.sockets = Append(@, "open"), !.heard = opened, !.tr.sock = s]
  <2>1. /\ d.tr = [c.tr EXCEPT !.sock = s] /\ d.sockets = Append(c.sockets, "open") /\ d.heard = opened
        /\ d.mishaps = c.mishaps /\ d = [tr |-> d.tr, sockets |-> d.sockets, heard |-> d.heard, mishaps |-> d.mishaps]
    BY <1>1, <1>8
  <2>2. d.tr \in Trackers /\ d.tr.key = c.tr.key /\ d.tr.received = c.tr.received /\ d.tr.sock = s
    BY <2>1, <1>1, <1>2 DEF Trackers
  <2>3. d \in Setups
    BY <2>1, <2>2, <1>1, <1>3, <1>5 DEF Setups
  <2> QED
    BY <2>1, <2>2, <2>3, <1>2, <1>3, <1>5 DEF Leads
<1>9. CASE d = [c EXCEPT !.sockets = Append(@, "open"), !.heard = Append(opened, ue),
                         !.tr.sock = s, !.tr.registered = TRUE, !.tr.regTime = "recent"]
  <2>1. /\ d.tr = [c.tr EXCEPT !.sock = s, !.registered = TRUE, !.regTime = "recent"]
        /\ d.sockets = Append(c.sockets, "open") /\ d.heard = Append(opened, ue)
        /\ d.mishaps = c.mishaps /\ d = [tr |-> d.tr, sockets |-> d.sockets, heard |-> d.heard, mishaps |-> d.mishaps]
    BY <1>1, <1>9
  <2>2. d.tr \in Trackers /\ d.tr.key = c.tr.key /\ d.tr.received = c.tr.received /\ d.tr.sock = s
    BY <2>1, <1>1, <1>2 DEF Trackers
  <2>3. d \in Setups
    BY <2>1, <2>2, <1>1, <1>4, <1>5 DEF Setups
  <2>4. \A i \in DOMAIN d.heard \ DOMAIN c.heard : d.heard[i].what \in {"app", "new_ue"}
    BY <2>1, <1>2, <1>4
  <2>5. /\ Begins(c.sockets, d.sockets) /\ Begins(c.heard, d.heard)
        /\ d.tr.sock \in DOMAIN d.sockets \ DOMAIN c.sockets /\ d.sockets[d.tr.sock] = "open"
    BY <2>1, <2>2, <1>4, <1>5
  <2> QED
    BY <2>2, <2>3, <2>4, <2>5 DEF Leads
<1>10. CASE d = refused /\ c.mishaps < MaxMishaps
  <2>1. /\ d.tr = c.tr /\ d.sockets = Append(c.sockets, "closed") /\ d.heard = c.heard
        /\ d.mishaps = c.mishaps + 1 /\ d = [tr |-> d.tr, sockets |-> d.sockets, heard |-> d.heard, mishaps |-> d.mishaps]
    BY <1>1, <1>10
  <2>2. d.mishaps \in 0..MaxMishaps
    BY <2>1, <1>1, <1>10, PetsAssumption
  <2>3. d \in Setups
    BY <2>1, <2>2, <1>1, <1>5 DEF Setups
  <2> QED
    BY <2>1, <2>3, <1>5, <1>6 DEF Leads
<1>11. CASE /\ d = [refused EXCEPT !.heard = opened, !.tr.registered = TRUE, !.tr.regTime = "recent"]
            /\ c.mishaps < MaxMishaps
  <2>1. /\ d.tr = [c.tr EXCEPT !.registered = TRUE, !.regTime = "recent"]
        /\ d.sockets = Append(c.sockets, "closed") /\ d.heard = opened
        /\ d.mishaps = c.mishaps + 1 /\ d = [tr |-> d.tr, sockets |-> d.sockets, heard |-> d.heard, mishaps |-> d.mishaps]
    BY <1>1, <1>11
  <2>2. d.tr \in Trackers /\ d.tr.key = c.tr.key /\ d.tr.received = c.tr.received /\ d.tr.sock = c.tr.sock
    BY <2>1, <1>1 DEF Trackers
  <2>3. d.mishaps \in 0..MaxMishaps
    BY <2>1, <1>1, <1>11, PetsAssumption
  <2>4. d \in Setups
    BY <2>1, <2>2, <2>3, <1>1, <1>3, <1>5 DEF Setups
  <2> QED
    BY <2>1, <2>2, <2>4, <1>2, <1>3, <1>5 DEF Leads
<1> QED
  BY <1>7, <1>8, <1>9, <1>10, <1>11 DEF Connections, opened, app, ue, s

\* A tracker that connected, and one that has not yet.
Connected(tr)   == tr.sock # 0 /\ tr.registered /\ tr.regTime # "none"
Unconnected(tr) == tr.sock = 0 /\ ~tr.registered

\* If no call fails it has connected then.
LEMMA ConnectionsCalm ==
    ASSUME NEW c \in Setups, NEW d \in Connections(c), d.mishaps = 0
    PROVE  c.mishaps = 0 /\ (Connected(c.tr) \/ Unconnected(c.tr) => Connected(d.tr))
<1> DEFINE s == Len(c.sockets) + 1
           opened == Append(c.heard, Tell(s, "app", c.tr.key, 0))
           ue == Tell(s, "new_ue", c.tr.key, 0)
           refused == [c EXCEPT !.sockets = Append(@, "closed"), !.mishaps = @ + 1]
<1>1. /\ c.tr \in Trackers /\ c.mishaps \in 0..MaxMishaps /\ MaxMishaps \in Nat /\ s \in Nat /\ s # 0
      /\ c = [tr |-> c.tr, sockets |-> c.sockets, heard |-> c.heard, mishaps |-> c.mishaps]
  BY PetsAssumption DEF Setups
<1> HIDE DEF opened, ue, s
<1>2. CASE c.tr.sock # 0 /\ d = c
  BY <1>2 DEF Connected, Unconnected
<1>3. CASE /\ c.tr.sock = 0 /\ c.tr.registered
           /\ d = [c EXCEPT !.sockets = Append(@, "open"), !.heard = opened, !.tr.sock = s]
  BY <1>1, <1>3 DEF Connected, Unconnected
<1>4. CASE d = [c EXCEPT !.sockets = Append(@, "open"), !.heard = Append(opened, ue),
                         !.tr.sock = s, !.tr.registered = TRUE, !.tr.regTime = "recent"]
  <2>1. d.tr = [c.tr EXCEPT !.sock = s, !.registered = TRUE, !.regTime = "recent"] /\ d.mishaps = c.mishaps
    BY <1>1, <1>4
  <2>2. d.tr.sock = s /\ d.tr.registered /\ d.tr.regTime = "recent"
    BY <1>1, <2>1 DEF Trackers
  <2> QED
    BY <1>1, <2>1, <2>2 DEF Connected
<1>5. CASE d = refused
  BY <1>1, <1>5
<1>6. CASE d = [refused EXCEPT !.heard = opened, !.tr.registered = TRUE, !.tr.regTime = "recent"]
  BY <1>1, <1>6
<1> QED
  BY <1>2, <1>3, <1>4, <1>5, <1>6 DEF Connections, opened, ue, s

\* A new tracker: nothing received, its socket its own.
NewTracker(c, k) ==
    /\ c \in Setups /\ c.tr.key = k /\ c.tr.received = [r \in Requests |-> {}]
    /\ Begins(sockets, c.sockets) /\ Begins(heard, c.heard)
    /\ \A i \in DOMAIN c.heard \ DOMAIN heard : c.heard[i].what \in {"app", "new_ue"}
    /\ c.tr.sock # 0 => c.tr.sock \in DOMAIN c.sockets \ DOMAIN sockets /\ c.sockets[c.tr.sock] = "open"
    /\ c.mishaps = 0 => mishaps = 0 /\ Connected(c.tr)

LEMMA ConstructedTracker ==
    ASSUME TypeInv, NEW k \in Keys, NEW p \in Ports, NEW c \in Constructed(k, p)
    PROVE  NewTracker(c, k)
<1> DEFINE tr == [key |-> k, port |-> p, sock |-> 0, registered |-> FALSE, regTime |-> "none",
                  c0 |-> 0, t1 |-> 0, received |-> [r \in Requests |-> {}]]
           b == [tr |-> tr, sockets |-> sockets, heard |-> heard, mishaps |-> mishaps]
<1>1. tr \in Trackers /\ tr.key = k /\ tr.sock = 0 /\ tr.received = [r \in Requests |-> {}] /\ Unconnected(tr)
  BY DEF Trackers, Unconnected
<1> HIDE DEF tr
<1>2. b \in Setups /\ b.tr = tr /\ b.sockets = sockets /\ b.heard = heard /\ b.mishaps = mishaps
  BY <1>1 DEF Setups, TypeInv, WireType
<1> HIDE DEF b
<1>3. c \in Connections(b)
  BY DEF Constructed, b, tr
<1>4. c \in Setups /\ Leads(b, c)
  BY <1>2, <1>3, ConnectionsLead
<1>5. c.mishaps = 0 => mishaps = 0 /\ Connected(c.tr)
  BY <1>1, <1>2, <1>3, ConnectionsCalm
<1> QED
  BY <1>1, <1>2, <1>4, <1>5 DEF Leads, NewTracker

LEMMA RegisteredTracker ==
    ASSUME TypeInv, NEW k \in Keys, NEW p \in Ports, NEW c \in UNION {Registered(x) : x \in Constructed(k, p)}
    PROVE  NewTracker(c, k)
<1>1. PICK x \in Constructed(k, p) : c \in Registered(x)
  OBVIOUS
<1>2. NewTracker(x, k)
  BY <1>1, ConstructedTracker
<1>a. x \in Setups
  BY <1>2 DEF NewTracker
<1>3. c \in Setups /\ Leads(x, c) /\ (c.mishaps = 0 => mishaps = 0 /\ Connected(c.tr))
  <2>1. CASE c \in Connections(x)
    <3>1. c \in Setups /\ Leads(x, c)
      BY <2>1, <1>a, ConnectionsLead
    <3>2. c.mishaps = 0 => mishaps = 0 /\ Connected(c.tr)
      BY <2>1, <1>a, <1>2, ConnectionsCalm DEF NewTracker
    <3> QED
      BY <3>1, <3>2
  <2>2. CASE c = [x EXCEPT !.tr.registered = TRUE]
    <3>1. /\ x.tr \in Trackers /\ c = [tr |-> [x.tr EXCEPT !.registered = TRUE], sockets |-> x.sockets,
                                       heard |-> x.heard, mishaps |-> x.mishaps]
      BY <2>2, <1>a DEF Setups
    <3>2. [x.tr EXCEPT !.registered = TRUE] \in Trackers
      BY <3>1 DEF Trackers
    <3>3. c \in Setups
      BY <3>1, <3>2, <1>a DEF Setups
    <3>4. /\ c.tr.key = x.tr.key /\ c.tr.received = x.tr.received /\ c.tr.sock = x.tr.sock
          /\ c.sockets = x.sockets /\ c.heard = x.heard
      BY <3>1 DEF Trackers
    <3>5. c.mishaps = x.mishaps /\ (Connected(x.tr) => Connected(c.tr))
      BY <3>1 DEF Trackers, Connected
    <3> QED
      BY <1>2, <3>3, <3>4, <3>5 DEF Leads, Begins, NewTracker
  <2> QED
    BY <1>1, <2>1, <2>2 DEF Registered
<1> QED
  BY <1>2, <1>3 DEF Leads, Begins, NewTracker

-----------------------------------------------------------------------------
(* What every step does to the trackers *)

\* Tracker n joins the trackers for client k, and is the one in use.
TrackerJoins(k, n) ==
    /\ n \in Nat \ {0} /\ n \notin DOMAIN trackers /\ k \in Keys
    /\ ue_trackers[k] = 0 /\ ue_trackers' = [ue_trackers EXCEPT ![k] = n]
    /\ trackers' \in Seq(Trackers) /\ DOMAIN trackers' = DOMAIN trackers \cup {n}
    /\ \A t \in DOMAIN trackers : trackers'[t] = trackers[t]
    /\ trackers'[n].key = k /\ trackers'[n].received = [r \in Requests |-> {}]
    /\ sockets' \in Seq({"new", "open", "closed"}) /\ Begins(sockets, sockets')
    /\ trackers'[n].sock # 0 =>
          trackers'[n].sock \in DOMAIN sockets' \ DOMAIN sockets /\ sockets'[trackers'[n].sock] = "open"
    /\ heard' \in Seq(Tellings) /\ Begins(heard, heard')
    /\ \A i \in DOMAIN heard' \ DOMAIN heard : heard'[i].what \in {"app", "new_ue"}
    /\ mishaps' \in 0..MaxMishaps /\ (mishaps' = 0 => mishaps = 0 /\ Connected(trackers'[n]))

LEMMA AddedJoins ==
    ASSUME TypeInv, NEW k \in Keys, NEW c, NewTracker(c, k), AddTracker(k, c), ue_trackers[k] = 0
    PROVE  TrackerJoins(k, Len(trackers) + 1)
<1> DEFINE n == Len(trackers) + 1
<1>1. c \in Setups /\ c.tr \in Trackers /\ trackers \in Seq(Trackers)
  BY DEF NewTracker, Setups, TypeInv, TableType
<1>2. trackers' = Append(trackers, c.tr)
  BY DEF AddTracker
<1>3. /\ trackers' \in Seq(Trackers) /\ n \in Nat \ {0} /\ n \notin DOMAIN trackers
      /\ DOMAIN trackers' = DOMAIN trackers \cup {n}
      /\ trackers'[n] = c.tr /\ \A t \in DOMAIN trackers : trackers'[t] = trackers[t]
  BY <1>1, <1>2, AppendSeq
<1>4. ue_trackers' = [ue_trackers EXCEPT ![k] = n] /\ sockets' = c.sockets /\ heard' = c.heard /\ mishaps' = c.mishaps
  BY DEF AddTracker
<1> HIDE DEF n
<1>5. sockets' \in Seq({"new", "open", "closed"}) /\ heard' \in Seq(Tellings) /\ mishaps' \in 0..MaxMishaps
  BY <1>1, <1>4 DEF Setups
<1>6. TrackerJoins(k, n)
  BY <1>3, <1>4, <1>5 DEF TrackerJoins, NewTracker
<1> QED
  BY <1>6 DEF n

LEMMA RegisterTracks ==
    ASSUME TypeInv, NEW w \in Workers, Register(w)
    PROVE  /\ workers[w] \in Busy /\ workers[w].msg.key \in Keys
           /\ workers' = [workers EXCEPT ![w] = Idle] /\ acked' = acked \cup {workers[w].msg.key}
           /\ registered_rntis' \subseteq Rntis
           /\ \/ TrackerJoins(workers[w].msg.key, Len(trackers) + 1)
              \/ UNCHANGED <<trackVars, wireVars>>
<1> DEFINE k == workers[w].msg.key
<1>1. workers[w].pc # "idle"
  BY DEF Register
<1>2. workers[w] \in Busy /\ k \in Keys
  BY <1>1, Handling, DatagramTypes DEF TypeInv, Busy
<1>3. workers' = [workers EXCEPT ![w] = Idle] /\ acked' = acked \cup {k}
  BY DEF Register
<1>4. registered_rntis' \subseteq Rntis
  BY <1>2, PetsAssumption DEF Register, TypeInv, TableType, trackVars
<1>5. \/ /\ ue_trackers[k] = 0
         /\ \E c \in UNION {Registered(x) : x \in Constructed(k, "listen")} : AddTracker(k, c)
      \/ UNCHANGED <<trackVars, wireVars>>
  BY DEF Register
<1> HIDE DEF k
<1>6. ASSUME ue_trackers[k] = 0, NEW c \in UNION {Registered(x) : x \in Constructed(k, "listen")}, AddTracker(k, c)
      PROVE  TrackerJoins(k, Len(trackers) + 1)
  <2>1. "listen" \in Ports
    BY DEF Ports
  <2>2. NewTracker(c, k)
    BY <2>1, <1>2, <1>6, RegisteredTracker
  <2> QED
    BY <2>2, <1>2, <1>6, AddedJoins
<1> QED
  BY <1>2, <1>3, <1>4, <1>5, <1>6 DEF k

LEMMA NewHandshakeTracker ==
    ASSUME TypeInv, NEW k \in Keys, NEW c, NewTracker(c, k), NEW n \in Nat
    PROVE  NewTracker([c EXCEPT !.tr.c0 = n], k)
<1> DEFINE d == [c EXCEPT !.tr.c0 = n]
<1>1. c \in Setups /\ c.tr \in Trackers
  BY DEF NewTracker, Setups
<1>2. d = [tr |-> [c.tr EXCEPT !.c0 = n], sockets |-> c.sockets, heard |-> c.heard, mishaps |-> c.mishaps]
  BY <1>1 DEF Setups
<1>3. [c.tr EXCEPT !.c0 = n] \in Trackers
  BY <1>1 DEF Trackers
<1>4. d \in Setups
  BY <1>1, <1>2, <1>3 DEF Setups
<1>5. /\ d.tr.key = c.tr.key /\ d.tr.received = c.tr.received /\ d.tr.sock = c.tr.sock
      /\ d.sockets = c.sockets /\ d.heard = c.heard /\ d.mishaps = c.mishaps
      /\ Connected(c.tr) => Connected(d.tr)
  BY <1>1, <1>2 DEF Trackers, Connected
<1> HIDE DEF d
<1>6. NewTracker(d, k)
  BY <1>4, <1>5 DEF NewTracker
<1> QED
  BY <1>6 DEF d

LEMMA HelloTracks ==
    ASSUME TypeInv, NEW w \in Workers, Hello(w)
    PROVE  /\ workers[w] \in Busy /\ workers[w].msg.key \in Keys /\ workers[w].msg.round \in 1..MaxHellos
           /\ workers' = [workers EXCEPT ![w] = Idle]
           /\ \/ TrackerJoins(workers[w].msg.key, Len(trackers) + 1)
              \/ /\ EntriesKept /\ UNCHANGED <<ue_trackers, wireVars>> /\ ue_trackers[workers[w].msg.key] # 0
                 /\ \A t \in DOMAIN trackers : trackers'[t].sock = trackers[t].sock
           /\ \/ welcomed' = welcomed
              \/ welcomed' = [welcomed EXCEPT ![workers[w].msg.key] = @ \cup {workers[w].msg.round}]
<1> DEFINE k == workers[w].msg.key
           n == workers[w].msg.round
<1>1. workers[w].pc = "tracker"
  BY DEF Hello
<1>2. workers[w] \in Busy /\ InHand(w)
  BY <1>1, Handling DEF TypeInv
<1>3. k \in Keys /\ n \in 1..MaxHellos /\ workers[w].port \in Ports
  BY <1>1, <1>2, DatagramTypes DEF Busy, InHand
<1>4. n \in Nat
  BY <1>3, PetsAssumption
<1>5. workers' = [workers EXCEPT ![w] = Idle]
  BY DEF Hello
<1>6. \/ welcomed' = welcomed
      \/ welcomed' = [welcomed EXCEPT ![k] = @ \cup {n}]
  BY DEF Hello, TypeInv, ClientType
<1>7. \/ /\ ue_trackers[k] = 0
         /\ \E c \in Constructed(k, workers[w].port) : AddTracker(k, [c EXCEPT !.tr.c0 = n])
      \/ /\ ue_trackers[k] # 0
         /\ trackers' = [trackers EXCEPT ![ue_trackers[k]].c0 = n]
         /\ UNCHANGED <<ue_trackers, wireVars>>
  BY DEF Hello
<1> HIDE DEF k, n
<1>8. ASSUME ue_trackers[k] = 0, NEW c \in Constructed(k, workers[w].port), AddTracker(k, [c EXCEPT !.tr.c0 = n])
      PROVE  TrackerJoins(k, Len(trackers) + 1)
  <2>1. NewTracker(c, k)
    BY <1>3, <1>8, ConstructedTracker
  <2>2. NewTracker([c EXCEPT !.tr.c0 = n], k)
    BY <2>1, <1>3, <1>4, NewHandshakeTracker
  <2> QED
    BY <2>2, <1>3, <1>8, AddedJoins
<1>9. ASSUME ue_trackers[k] # 0, trackers' = [trackers EXCEPT ![ue_trackers[k]].c0 = n]
      PROVE  EntriesKept /\ \A t \in DOMAIN trackers : trackers'[t].sock = trackers[t].sock
  <2> DEFINE u == ue_trackers[k]
             y == [trackers[u] EXCEPT !.c0 = n]
  <2>1. trackers \in Seq(Trackers) /\ u \in DOMAIN trackers /\ trackers[u] \in Trackers
    BY <1>3, <1>9 DEF TypeInv, TableType
  <2>2. /\ y \in Trackers /\ y.key = trackers[u].key /\ y.received = trackers[u].received
        /\ y.sock = trackers[u].sock
    BY <2>1, <1>4 DEF Trackers
  <2>3. trackers' = [trackers EXCEPT ![u] = y]
    BY <2>1, <1>9
  <2> HIDE DEF u, y
  <2> QED
    BY <2>1, <2>2, <2>3, UpdateSeq DEF EntriesKept
<1> QED
  BY <1>2, <1>3, <1>5, <1>6, <1>7, <1>8, <1>9 DEF k, n

LEMMA StoreRttKeeps ==
    ASSUME TypeInv, NEW w \in Workers, StoreRtt(w)
    PROVE  /\ EntriesKept /\ workers[w] \in Busy /\ workers' = [workers EXCEPT ![w] = Idle]
           /\ \A t \in DOMAIN trackers : trackers'[t].sock = trackers[t].sock
<1>1. workers[w].pc = "rtt" /\ workers' = [workers EXCEPT ![w] = Idle]
  BY DEF StoreRtt
<1>2. workers[w] \in Busy /\ InHand(w)
  BY <1>1, Handling DEF TypeInv
<1> DEFINE k == workers[w].msg.key
           u == ue_trackers[k]
           y == [trackers[u] EXCEPT !.t1 = workers[w].msg.round]
<1>3. k \in Keys /\ workers[w].msg.round \in Nat
  BY <1>1, <1>2, DatagramTypes, PetsAssumption DEF Busy, InHand
<1>4. trackers' = IF u = 0 THEN trackers ELSE [trackers EXCEPT ![u].t1 = workers[w].msg.round]
  BY DEF StoreRtt
<1>5. CASE u = 0
  BY <1>1, <1>2, <1>4, <1>5, NoStore
<1>6. CASE u # 0
  <2>1. trackers \in Seq(Trackers) /\ u \in DOMAIN trackers /\ trackers[u] \in Trackers
    BY <1>3, <1>6 DEF TypeInv, TableType
  <2>2. /\ y \in Trackers /\ y.key = trackers[u].key /\ y.received = trackers[u].received
        /\ y.sock = trackers[u].sock
    BY <2>1, <1>3 DEF Trackers
  <2>3. trackers' = [trackers EXCEPT ![u] = y]
    BY <2>1, <1>4, <1>6
  <2> HIDE DEF u, y
  <2> QED
    BY <1>1, <1>2, <2>1, <2>2, <2>3, UpdateSeq DEF EntriesKept
<1> QED
  BY <1>5, <1>6

LEMMA WaitOverKeeps ==
    ASSUME TypeInv, NEW t \in DOMAIN trackers, RegistrationWaitOver(t)
    PROVE  EntriesKept /\ \A u \in DOMAIN trackers : trackers'[u].sock = trackers[u].sock
<1> DEFINE y == [trackers[t] EXCEPT !.regTime = "old"]
<1>1. trackers \in Seq(Trackers) /\ trackers[t] \in Trackers
  BY DEF TypeInv, TableType
<1>2. y \in Trackers /\ y.key = trackers[t].key /\ y.received = trackers[t].received /\ y.sock = trackers[t].sock
  BY <1>1 DEF Trackers
<1>3. trackers' = [trackers EXCEPT ![t] = y]
  BY DEF RegistrationWaitOver
<1> HIDE DEF y
<1> QED
  BY <1>1, <1>2, <1>3, UpdateSeq DEF EntriesKept

\* The clean-up thread closes the socket of a tracker and leaves the table alone.
LEMMA CloseTrackerKeeps ==
    ASSUME TypeInv, CloseTracker
    PROVE  /\ EntriesKept /\ sockets' \in Seq({"new", "open", "closed"}) /\ cpc \in CloseSteps
           /\ cpc' \in CloseSteps \cup {"forget"}
           /\ UNCHANGED <<net, clientVars, replyVars, ue_trackers, registered_rntis, lastActive, workers, todo, closing,
                          heard, mishaps, historyVars>>
<1>1. /\ trackers \in Seq(Trackers) /\ sockets \in Seq({"new", "open", "closed"})
      /\ closing \in DOMAIN trackers => trackers[closing] \in Trackers
  BY DEF TypeInv, TableType, WireType
<1>2. sockets' \in Seq({"new", "open", "closed"})
  BY <1>1, ClosedSockets DEF CloseTracker
<1>3. /\ cpc \in CloseSteps /\ cpc' \in CloseSteps \cup {"forget"}
      /\ UNCHANGED <<net, clientVars, replyVars, ue_trackers, registered_rntis, lastActive, workers, todo, closing,
                     heard, mishaps, historyVars>>
  BY DEF CloseTracker, CloseSteps
<1>4. ASSUME NEW y \in Trackers, closing \in DOMAIN trackers, y.key = trackers[closing].key,
             y.received = trackers[closing].received, trackers' = [trackers EXCEPT ![closing] = y]
      PROVE  EntriesKept
  BY <1>1, <1>4, UpdateSeq DEF EntriesKept
<1>5. ASSUME trackers' = trackers PROVE EntriesKept
  BY <1>5, NoStore
<1>6. ASSUME trackers' = [trackers EXCEPT ![closing].sock = 0] PROVE EntriesKept
  <2>1. CASE closing \in DOMAIN trackers
    <3> DEFINE y == [trackers[closing] EXCEPT !.sock = 0]
    <3>1. y \in Trackers /\ y.key = trackers[closing].key /\ y.received = trackers[closing].received
      BY <1>1, <2>1, FieldTypes
    <3>2. trackers' = [trackers EXCEPT ![closing] = y]
      BY <1>1, <1>6, <2>1
    <3> HIDE DEF y
    <3> QED
      BY <1>4, <2>1, <3>1, <3>2
  <2>2. CASE closing \notin DOMAIN trackers
    BY <1>1, <1>5, <1>6, <2>2
  <2> QED
    BY <2>1, <2>2
<1>7. ASSUME trackers' = [trackers EXCEPT ![closing].registered = FALSE] PROVE EntriesKept
  <2>1. CASE closing \in DOMAIN trackers
    <3> DEFINE y == [trackers[closing] EXCEPT !.registered = FALSE]
    <3>1. y \in Trackers /\ y.key = trackers[closing].key /\ y.received = trackers[closing].received
      BY <1>1, <2>1, FieldTypes
    <3>2. trackers' = [trackers EXCEPT ![closing] = y]
      BY <1>1, <1>7, <2>1
    <3> HIDE DEF y
    <3> QED
      BY <1>4, <2>1, <3>1, <3>2
  <2>2. CASE closing \notin DOMAIN trackers
    BY <1>1, <1>5, <1>7, <2>2
  <2> QED
    BY <2>1, <2>2
<1>8. EntriesKept
  BY <1>5, <1>6, <1>7 DEF CloseTracker
<1> QED
  BY <1>2, <1>3, <1>8

\* add_packet and the deletion change one entry of the worker's tracker, to x.
EntryBecomes(w, x) ==
    /\ trackers' \in Seq(Trackers) /\ DOMAIN trackers' = DOMAIN trackers
    /\ \A t \in DOMAIN trackers :
          /\ trackers'[t].key = trackers[t].key
          /\ \A r \in Requests : trackers'[t].received[r] =
                IF t = workers[w].held /\ r = workers[w].msg.req THEN x ELSE trackers[t].received[r]

\* Storing one entry of the worker's tracker, which keeps its client and its socket.
EntryStored(w, x) ==
    \E y \in Trackers :
        /\ y.key = Tracker(w).key /\ y.sock = Sock(w)
        /\ \A r \in Requests : y.received[r] = IF r = workers[w].msg.req THEN x ELSE Tracker(w).received[r]
        /\ trackers' = [trackers EXCEPT ![workers[w].held] = y]

LEMMA StoreEntry ==
    ASSUME TypeInv, NEW w \in Workers, workers[w].pc \in TrackerSteps, NEW x, EntryStored(w, x)
    PROVE  EntryBecomes(w, x) /\ SocksKept
<1>1. PICK y \in Trackers :
         /\ y.key = Tracker(w).key /\ y.sock = Sock(w)
         /\ \A r \in Requests : y.received[r] = IF r = workers[w].msg.req THEN x ELSE Tracker(w).received[r]
         /\ trackers' = [trackers EXCEPT ![workers[w].held] = y]
  BY DEF EntryStored
<1>2. /\ trackers \in Seq(Trackers) /\ workers[w].held \in DOMAIN trackers /\ Tracker(w) = trackers[workers[w].held]
      /\ Sock(w) = trackers[workers[w].held].sock
  BY HeldTracker DEF TypeInv, TableType, Sock
<1>3. /\ trackers' \in Seq(Trackers) /\ DOMAIN trackers' = DOMAIN trackers
      /\ \A t \in DOMAIN trackers : trackers'[t] = IF t = workers[w].held THEN y ELSE trackers[t]
  BY <1>1, <1>2, UpdateSeq
<1>4. EntryBecomes(w, x)
  BY <1>1, <1>2, <1>3 DEF EntryBecomes
<1>5. SocksKept
  BY <1>1, <1>2, <1>3 DEF SocksKept
<1> QED
  BY <1>4, <1>5

LEMMA EntryTypes ==
    ASSUME TypeInv, NEW w \in Workers, workers[w].pc \in TrackerSteps, NEW x \in SUBSET SeqNums
    PROVE  LET y == [Tracker(w) EXCEPT !.received[workers[w].msg.req] = x] IN
           /\ y \in Trackers /\ y.key = Tracker(w).key /\ y.sock = Sock(w)
           /\ \A r \in Requests : y.received[r] = IF r = workers[w].msg.req THEN x ELSE Tracker(w).received[r]
<1>1. Tracker(w) \in Trackers /\ workers[w].msg.req \in Requests
  BY HeldTracker
<1> QED
  BY <1>1 DEF Trackers, Sock

LEMMA AddPacketStores ==
    ASSUME TypeInv, NEW w \in Workers, AddPacket(w)
    PROVE  /\ workers[w].pc = "add" /\ Received(w) \subseteq SeqNums /\ SocksKept
           /\ added' = added \cup {<<workers[w].held, workers[w].msg.req, workers[w].msg.seq>>}
           /\ UNCHANGED <<net, clientVars, replyVars, ue_trackers, registered_rntis, lastActive,
                          cleanVars, wireVars, completed, cut>>
           /\ \/ /\ Received(w) # SeqNums /\ EntryBecomes(w, Received(w))
                 /\ workers' = [workers EXCEPT ![w] = Idle]
              \/ /\ Received(w) = SeqNums /\ EntryBecomes(w, Received(w))
                 /\ workers' = [workers EXCEPT ![w].pc = "tell"]
              \/ /\ Received(w) = SeqNums /\ EntryBecomes(w, {})
                 /\ workers' = [workers EXCEPT ![w].pc = "respond"]
<1> DEFINE q == workers[w].msg.req
           full == Cardinality(Received(w)) = Packets
<1>1. workers[w].pc = "add" /\ workers[w].pc \in TrackerSteps
  BY DEF AddPacket, CountPacket, TrackerSteps, NotifySteps, ConnectSteps, LockSteps
<1>2. q \in Requests /\ workers[w].msg.seq \in SeqNums /\ Tracker(w) \in Trackers
  BY <1>1, HeldTracker
<1>3. Received(w) \subseteq SeqNums
  BY <1>2 DEF Received, Trackers
<1>4. full <=> Received(w) = SeqNums
  <2>1. IsFiniteSet(SeqNums) /\ Cardinality(SeqNums) = Packets
    <3>1. SeqNums = 0..(Packets - 1) /\ Packets \in Nat /\ Packets >= 1
      BY PetsAssumption DEF SeqNums
    <3> QED
      BY <3>1, FS_Interval
  <2> QED
    BY <2>1, <1>3, FS_Subset
<1>5. /\ added' = added \cup {<<workers[w].held, q, workers[w].msg.seq>>}
      /\ UNCHANGED <<net, clientVars, replyVars, ue_trackers, registered_rntis, lastActive,
                     cleanVars, wireVars, completed, cut>>
      /\ \/ /\ ~full /\ workers' = [workers EXCEPT ![w] = Idle]
            /\ Store(w, [Tracker(w) EXCEPT !.received[q] = Received(w)])
         \/ /\ full /\ workers' = [workers EXCEPT ![w].pc = "tell"]
            /\ Store(w, [Tracker(w) EXCEPT !.received[q] = Received(w)])
         \/ /\ full /\ workers' = [workers EXCEPT ![w].pc = "respond"]
            /\ Store(w, [Tracker(w) EXCEPT !.received[q] = {}])
  BY DEF AddPacket, CountPacket, Deleted
<1> HIDE DEF full, q
<1>6. ASSUME NEW x \in SUBSET SeqNums, Store(w, [Tracker(w) EXCEPT !.received[q] = x])
      PROVE  EntryBecomes(w, x) /\ SocksKept
  <2>1. EntryStored(w, x)
    BY <1>1, <1>6, EntryTypes DEF EntryStored, Store, q
  <2> QED
    BY <1>1, <2>1, StoreEntry
<1>7. Received(w) \in SUBSET SeqNums /\ {} \in SUBSET SeqNums
  BY <1>3
<1>8. CASE /\ ~full /\ workers' = [workers EXCEPT ![w] = Idle]
           /\ Store(w, [Tracker(w) EXCEPT !.received[q] = Received(w)])
  BY <1>1, <1>3, <1>4, <1>5, <1>6, <1>7, <1>8 DEF q
<1>9. CASE /\ full /\ workers' = [workers EXCEPT ![w].pc = "tell"]
           /\ Store(w, [Tracker(w) EXCEPT !.received[q] = Received(w)])
  BY <1>1, <1>3, <1>4, <1>5, <1>6, <1>7, <1>9 DEF q
<1>10. CASE /\ full /\ workers' = [workers EXCEPT ![w].pc = "respond"]
            /\ Store(w, [Tracker(w) EXCEPT !.received[q] = {}])
  BY <1>1, <1>3, <1>4, <1>5, <1>6, <1>7, <1>10 DEF q
<1> QED
  BY <1>5, <1>8, <1>9, <1>10

-----------------------------------------------------------------------------
(* The steps of notify_request_completion *)

DoneStep(w) == TestRegistered(w) \/ SendDone(w) \/ DoneFailed(w)

\* The last of them: the entry is deleted.
DeleteForm(w) ==
    /\ workers[w].pc \in {"tell", "done", "done_unmark"} /\ workers' = [workers EXCEPT ![w].pc = "respond"]
    /\ EntryStored(w, {}) /\ UNCHANGED <<sockets, mishaps>>
    /\ heard' = heard \/ Send(w, "done")

LEMMA DoneMoves ==
    ASSUME TypeInv, NEW w \in Workers, DoneStep(w)
    PROVE  /\ workers[w].pc \in LockSteps
           /\ \E to \in After : workers' = [workers EXCEPT ![w].pc = to]
           /\ UNCHANGED <<net, clientVars, replyVars, ue_trackers, registered_rntis, lastActive,
                          cleanVars, historyVars>>
<1>1. ASSUME NEW from \in LockSteps, NEW to \in After, Goto(w, from, to)
      PROVE  /\ workers[w].pc \in LockSteps
             /\ \E x \in After : workers' = [workers EXCEPT ![w].pc = x]
             /\ UNCHANGED <<net, clientVars, replyVars, ue_trackers, registered_rntis, lastActive,
                            cleanVars, historyVars>>
  BY <1>1 DEF Goto
<1>2. \E from \in LockSteps : \E to \in After : Goto(w, from, to)
  <2>1. CASE TestRegistered(w)
    BY <2>1 DEF TestRegistered, Assign, After, LockSteps
  <2>2. CASE SendDone(w)
    BY <2>2 DEF SendDone, After, LockSteps
  <2>3. CASE DoneFailed(w)
    BY <2>3 DEF DoneFailed, TestSocket, Test, CloseSocket, ClearSocket, Assign, After, LockSteps
  <2> QED
    BY <2>1, <2>2, <2>3 DEF DoneStep
<1> QED
  BY <1>1, <1>2

LEMMA DoneForms ==
    ASSUME TypeInv, NEW w \in Workers, DoneStep(w)
    PROVE  \/ FieldForm(w) /\ \E to \in LockSteps : workers' = [workers EXCEPT ![w].pc = to]
           \/ DeleteForm(w)
<1>0. workers[w].pc \in TrackerSteps /\ workers[w].pc \in LockSteps
  BY DoneMoves DEF TrackerSteps, NotifySteps, ConnectSteps, LockSteps
<1> DEFINE Stays == \E to \in LockSteps : workers' = [workers EXCEPT ![w].pc = to]
<1>a. ASSUME NEW from, NEW to \in LockSteps, Goto(w, from, to) PROVE Stays
  BY <1>a DEF Goto
<1>b. /\ "done" \in LockSteps /\ "done_test" \in LockSteps /\ "done_close" \in LockSteps
      /\ "done_clear" \in LockSteps /\ "done_unmark" \in LockSteps
      /\ "done_close" \in TrackerSteps \ Clears /\ "done_clear" \in Clears
  BY DEF LockSteps, TrackerSteps, Clears, NotifySteps, ConnectSteps
<1> HIDE DEF Stays
<1>c. ASSUME Store(w, Deleted(w)) \/ Store(w, [Deleted(w) EXCEPT !.registered = FALSE])
      PROVE  EntryStored(w, {})
  <2> DEFINE y == [Tracker(w) EXCEPT !.received[workers[w].msg.req] = {}]
  <2>1. /\ y \in Trackers /\ y.key = Tracker(w).key /\ y.sock = Sock(w)
        /\ \A r \in Requests : y.received[r] = IF r = workers[w].msg.req THEN {} ELSE Tracker(w).received[r]
    BY <1>0, EntryTypes, {} \in SUBSET SeqNums
  <2>2. Deleted(w) = y
    BY DEF Deleted
  <2> HIDE DEF y
  <2> DEFINE z == [y EXCEPT !.registered = FALSE]
  <2>3. z \in Trackers /\ z.key = y.key /\ z.sock = y.sock /\ z.received = y.received
    BY <2>1, FieldTypes
  <2>4. CASE Store(w, y)
    BY <2>1, <2>4 DEF EntryStored, Store
  <2>5. CASE Store(w, z)
    <3> HIDE DEF z
    <3> QED
      BY <2>1, <2>3, <2>5 DEF EntryStored, Store
  <2> QED
    BY <1>c, <2>2, <2>4, <2>5
<1>1. CASE TestRegistered(w)
  <2>1. CASE Assign(w, "tell", "done", Tracker(w))
    <3>1. workers[w].pc \in TrackerSteps \ Clears /\ Stays
      BY <1>0, <1>a, <1>b, <2>1 DEF Assign, Goto, Clears
    <3> QED
      BY <1>0, <2>1, <3>1, AssignStored, TestForm DEF Assign, Stays
  <2>2. CASE Assign(w, "tell", "respond", Deleted(w))
    BY <1>c, <2>2 DEF Assign, Goto, DeleteForm, wireVars
  <2> QED
    BY <1>1, <2>1, <2>2 DEF TestRegistered
<1>2. CASE SendDone(w)
  <2>1. CASE Goto(w, "done", "respond") /\ Works(w) /\ Send(w, "done") /\ Store(w, Deleted(w)) /\ UNCHANGED sockets
    BY <1>c, <2>1 DEF Goto, Works, DeleteForm
  <2>2. CASE Goto(w, "done", "done_test") /\ Fails(w, "open")
    <3>1. workers[w].pc \in TrackerSteps \ Clears /\ Stays
      BY <1>0, <1>a, <1>b, <2>2 DEF Goto, Clears
    <3> QED
      BY <2>2, <3>1, FailForm DEF Stays
  <2> QED
    BY <1>2, <2>1, <2>2 DEF SendDone
<1>3. CASE DoneFailed(w)
  <2>1. CASE TestSocket(w, "done_test", "done_close", "done_clear")
    <3>1. workers[w].pc = "done_test" /\ UNCHANGED <<trackers, wireVars>> /\ Stays
      BY <2>1, <1>b DEF TestSocket, Test, Goto, Stays
    <3>2. workers[w].pc \in TrackerSteps \ Clears
      BY <1>0, <3>1 DEF Clears
    <3> QED
      BY <1>0, <3>1, <3>2, AssignStored, TestForm DEF Stays
  <2>2. CASE CloseSocket(w, "done_close", "done_clear")
    BY <1>a, <1>b, <2>2, CloseForm DEF CloseSocket, Stays
  <2>3. CASE ClearSocket(w, "done_clear", "done_unmark")
    BY <1>a, <1>b, <2>3, ClearForm DEF ClearSocket, Stays
  <2>4. CASE Assign(w, "done_unmark", "respond", [Deleted(w) EXCEPT !.registered = FALSE])
    BY <1>c, <2>4 DEF Assign, Goto, DeleteForm, wireVars
  <2> QED
    BY <1>3, <2>1, <2>2, <2>3, <2>4 DEF DoneFailed
<1> QED
  BY <1>1, <1>2, <1>3 DEF DoneStep, Stays

\* A step leaves the entry and tells nothing, or deletes it and the request is done.
LEMMA DoneStores ==
    ASSUME TypeInv, NEW w \in Workers, DoneStep(w)
    PROVE  /\ Wired
           /\ \/ /\ EntriesKept /\ heard' = heard
                 /\ \E to \in LockSteps : workers' = [workers EXCEPT ![w].pc = to]
              \/ /\ EntryBecomes(w, {}) /\ SocksKept /\ workers' = [workers EXCEPT ![w].pc = "respond"]
                 /\ \/ heard' = heard
                    \/ \E x \in Tellings : /\ heard' = Append(heard, x) /\ x.what = "done"
                                           /\ x.rnti = RntiOf[workers[w].msg.key] /\ x.req = workers[w].msg.req
<1>0. workers[w].pc \in TrackerSteps
  BY DoneMoves DEF TrackerSteps, NotifySteps, ConnectSteps, LockSteps
<1>a. mishaps \in 0..MaxMishaps /\ sockets \in Seq({"new", "open", "closed"})
  BY DEF TypeInv, WireType
<1>1. CASE FieldForm(w) /\ \E to \in LockSteps : workers' = [workers EXCEPT ![w].pc = to]
  BY <1>0, <1>1, FieldFormKeeps
<1>2. CASE DeleteForm(w)
  <2>1. EntryBecomes(w, {}) /\ SocksKept
    BY <1>0, <1>2, StoreEntry DEF DeleteForm
  <2>2. Wired
    BY <1>a, <1>2 DEF DeleteForm, Wired
  <2>3. CASE heard' = heard
    BY <1>2, <2>1, <2>2, <2>3 DEF DeleteForm
  <2>4. CASE Send(w, "done")
    <3>1. PICK x \in Tellings : /\ heard' = Append(heard, x) /\ x.what = "done" /\ x.rnti = RntiOf[workers[w].msg.key]
                                /\ "done" \in {"request", "done"} => x.req = workers[w].msg.req
      BY <1>0, <2>4, SendTells
    <3> QED
      BY <1>2, <2>1, <2>2, <3>1 DEF DeleteForm
  <2> QED
    BY <1>2, <2>3, <2>4 DEF DeleteForm
<1> QED
  BY <1>1, <1>2, DoneForms

\* An exception ends the handling of a packet.
LEMMA HandlingEnds ==
    ASSUME TypeInv, NEW w \in Workers, Escapes(w)
    PROVE  /\ workers[w].pc \in TrackerSteps /\ workers' = [workers EXCEPT ![w] = Idle]
           /\ workers[w].pc \in {"open_close", "request_close", "done_close", "elapsed"}
           /\ <<workers[w].msg.key, workers[w].msg.req>> \in Keys \X Requests
           /\ cut' = cut \cup {<<workers[w].msg.key, workers[w].msg.req>>}
           /\ UNCHANGED <<net, clientVars, replyVars, trackVars, lastActive, cleanVars, wireVars, added, completed>>
<1>1. workers[w].pc \in {"open_close", "request_close", "done_close", "elapsed"}
  BY DEF Escapes
<1>2. workers[w].pc \in TrackerSteps
  BY <1>1 DEF TrackerSteps, NotifySteps, ConnectSteps, LockSteps
<1>3. workers[w].msg.key \in Keys /\ workers[w].msg.req \in Requests
  BY <1>2, HeldTracker
<1> QED
  BY <1>1, <1>2, <1>3 DEF Escapes

-----------------------------------------------------------------------------
(* The numbering of packets *)

LEMMA Quotient ==
    ASSUME NEW n \in Nat
    PROVE  /\ n \div Packets \in Nat /\ n % Packets \in SeqNums
           /\ n = Packets * (n \div Packets) + (n % Packets)
<1>1. Packets \in Nat /\ Packets > 0
  BY PetsAssumption
<1>2. n \div Packets \in Int /\ n \div Packets >= 0
  BY <1>1
<1>3. n % Packets \in Int /\ n % Packets >= 0 /\ n % Packets < Packets
  BY <1>1
<1>4. n = Packets * (n \div Packets) + (n % Packets)
  BY <1>1
<1>5. n % Packets \in SeqNums
  BY <1>1, <1>3 DEF SeqNums
<1> QED
  BY <1>2, <1>4, <1>5

LEMMA TimesMonotone ==
    ASSUME NEW a \in Nat, NEW b \in Nat, a <= b
    PROVE  Packets * a \in Nat /\ Packets * a <= Packets * b
<1>1. Packets \in Nat
  BY PetsAssumption
<1>2. PICK d \in Nat : b = a + d
  <2>1. b - a \in Nat /\ b = a + (b - a)
    OBVIOUS
  <2> QED
    BY <2>1
<1>3. Packets * b = Packets * a + Packets * d /\ Packets * d \in Nat /\ Packets * a \in Nat
  BY <1>1, <1>2
<1> QED
  BY <1>3

\* The packets of the input have the numbers of requests.
LEMMA PacketInRange ==
    ASSUME NEW n \in Nat, n < MaxRequests * Packets
    PROVE  1 + n \div Packets \in Requests
<1> DEFINE q == n \div Packets
<1>1. q \in Nat /\ Packets * q <= n /\ MaxRequests \in Nat /\ Packets \in Nat
  BY Quotient, PetsAssumption DEF SeqNums
<1> HIDE DEF q
<1>2. q < MaxRequests
  <2> SUFFICES ASSUME MaxRequests <= q PROVE FALSE
    BY <1>1
  <2>1. Packets * MaxRequests <= Packets * q
    BY <1>1, TimesMonotone
  <2>2. MaxRequests * Packets = Packets * MaxRequests
    BY <1>1
  <2> QED
    BY <1>1, <2>1, <2>2
<1>3. 1 + q \in Requests
  BY <1>1, <1>2 DEF Requests
<1> QED
  BY <1>3 DEF q

\* A client sends no packet twice.
LEMMA PacketsDiffer ==
    ASSUME NEW m \in Nat, NEW n \in Nat, m \div Packets = n \div Packets, m % Packets = n % Packets
    PROVE  m = n
<1>1. m = Packets * (m \div Packets) + (m % Packets) /\ n = Packets * (n \div Packets) + (n % Packets)
  BY Quotient
<1> QED
  BY <1>1

\* Every packet of a whole request has been sent.
LEMMA WholeRequest ==
    ASSUME NEW n \in Nat, NEW r \in 1..(n \div Packets), NEW s \in SeqNums
    PROVE  \E i \in 0..(n - 1) : r = 1 + i \div Packets /\ s = i % Packets
<1> DEFINE q == r - 1
           i == Packets * q + s
<1>1. Packets \in Nat /\ Packets > 0 /\ s \in Nat /\ s < Packets /\ q \in Nat /\ q + 1 <= n \div Packets
      /\ n \div Packets \in Nat /\ Packets * (n \div Packets) <= n
  BY Quotient, PetsAssumption DEF SeqNums
<1> HIDE DEF q
<1>2. Packets * (q + 1) <= Packets * (n \div Packets)
  BY <1>1, TimesMonotone
<1>3. Packets * (q + 1) = Packets * q + Packets /\ Packets * q \in Nat
  BY <1>1
<1>4. i \in Nat /\ i < n
  BY <1>1, <1>2, <1>3
<1>5. i \div Packets = q /\ i % Packets = s
  <2>1. i \div Packets = q
    BY <1>1
  <2>2. i = Packets * (i \div Packets) + (i % Packets) /\ i % Packets \in SeqNums
    BY <1>4, Quotient
  <2>3. ASSUME NEW z \in Nat, NEW a \in Nat, NEW b \in Nat, z + a = z + b PROVE a = b
    BY <2>3
  <2> QED
    BY <1>1, <1>3, <2>1, <2>2, <2>3 DEF SeqNums
<1> HIDE DEF i
<1>6. i \in 0..(n - 1) /\ r = 1 + i \div Packets /\ s = i % Packets
  BY <1>1, <1>4, <1>5 DEF q
<1> QED
  BY <1>6

-----------------------------------------------------------------------------
(* Types *)

\* The steps that change none of what the clients have, but for the network.
QuietStep ==
    \/ \E k \in Keys : Silence(k) \/ Inspect(k) \/ Forget(k)
    \/ \E w \in Workers : FindPort(w) \/ StoreRtt(w) \/ Lookup(w) \/ AddPacket(w) \/ Escapes(w) \/ Respond(w)
    \/ BeginCleanup \/ EndCleanup \/ CloseTracker
    \/ \E t \in DOMAIN trackers : RegistrationWaitOver(t)

LEMMA NextSteps ==
    ASSUME Next
    PROVE  \/ \E k \in Keys : SendRegistration(k) \/ SendHello(k) \/ SendRtt(k) \/ SendPacket(k)
           \/ \E m \in net : Lose(m)
           \/ \E w \in Workers : \E m \in net : Take(w, m)
           \/ \E w \in Workers : Register(w) \/ Hello(w) \/ NotifyStep(w) \/ DoneStep(w)
           \/ QuietStep
  BY DEF Next, Client, Worker, Handle, Cleanup, NotifyStep, DoneStep, QuietStep

LEMMA QuietKeeps == QuietStep => UNCHANGED <<net, clientVars, replyVars, registered_rntis, heard, mishaps>>
<1> SUFFICES ASSUME QuietStep PROVE UNCHANGED <<net, clientVars, replyVars, registered_rntis, heard, mishaps>>
  OBVIOUS
<1>1. CASE \E k \in Keys : Silence(k) \/ Inspect(k) \/ Forget(k)
  BY <1>1 DEF Silence, Inspect, Forget, trackVars, wireVars
<1>2. CASE \E w \in Workers : FindPort(w) \/ StoreRtt(w) \/ Lookup(w) \/ AddPacket(w) \/ Escapes(w) \/ Respond(w)
  BY <1>2 DEF FindPort, StoreRtt, Lookup, AddPacket, CountPacket, Escapes, Respond, trackVars, wireVars
<1>3. CASE BeginCleanup \/ EndCleanup \/ CloseTracker \/ \E t \in DOMAIN trackers : RegistrationWaitOver(t)
  BY <1>3 DEF BeginCleanup, EndCleanup, CloseTracker, RegistrationWaitOver, trackVars, wireVars
<1> QED
  BY <1>1, <1>2, <1>3 DEF QuietStep

LEMMA ClientTypeStep == TypeInv /\ Next => ClientType'
<1> SUFFICES ASSUME TypeInv, Next PROVE ClientType'
  OBVIOUS
<1>0. ClientType
  BY DEF TypeInv
<1>1. ASSUME NEW k \in Keys, SendRegistration(k) PROVE ClientType'
  <2>1. [kind |-> "register", key |-> k] \in Datagrams
    BY DEF Datagrams
  <2> QED
    BY <1>0, <1>1, <2>1 DEF SendRegistration, ClientType, clientVars, serverVars, replyVars
<1>2. ASSUME NEW k \in Keys, SendHello(k) PROVE ClientType'
  <2>1. PICK r \in 1..MaxHellos :
          /\ \/ r = hellos[k] + 1 /\ rtts[k] = hellos[k]
             \/ r = hellos[k] /\ rtts[k] < r
          /\ hellos' = [hellos EXCEPT ![k] = r]
          /\ net' = net \cup {[kind |-> "hello", key |-> k, round |-> r]}
    BY <1>2 DEF SendHello
  <2>2. [kind |-> "hello", key |-> k, round |-> r] \in Datagrams
    BY DEF Datagrams
  <2>3. UNCHANGED <<rtts, sent, acked, welcomed>>
    BY <1>2 DEF SendHello, serverVars, replyVars
  <2>4. hellos' \in [Keys -> 0..MaxHellos] /\ \A j \in Keys : rtts[j] <= hellos'[j]
    BY <1>0, <2>1, PetsAssumption DEF ClientType
  <2> QED
    BY <1>0, <2>1, <2>2, <2>3, <2>4 DEF ClientType
<1>3. ASSUME NEW k \in Keys, SendRtt(k) PROVE ClientType'
  <2>1. hellos[k] \in 1..MaxHellos
    BY <1>0, <1>3 DEF SendRtt, ClientType
  <2>2. [kind |-> "rtt", key |-> k, round |-> hellos[k]] \in Datagrams
    BY <2>1 DEF Datagrams
  <2>3. rtts' = [rtts EXCEPT ![k] = hellos[k]] /\ UNCHANGED <<hellos, sent, acked, welcomed>>
        /\ net' = net \cup {[kind |-> "rtt", key |-> k, round |-> hellos[k]]}
    BY <1>3 DEF SendRtt, serverVars, replyVars
  <2>4. rtts' \in [Keys -> Nat] /\ \A j \in Keys : rtts'[j] <= hellos[j]
    BY <1>0, <2>1, <2>3 DEF ClientType
  <2> QED
    BY <1>0, <2>2, <2>3, <2>4 DEF ClientType
<1>4. ASSUME NEW k \in Keys, SendPacket(k) PROVE ClientType'
  <2>1. sent[k] \in Nat /\ sent[k] < MaxRequests * Packets /\ MaxRequests * Packets \in Nat
    BY <1>0, <1>4, PetsAssumption DEF SendPacket, ClientType
  <2>2. 1 + sent[k] \div Packets \in Requests /\ sent[k] % Packets \in SeqNums
    BY <2>1, PacketInRange, Quotient
  <2>3. [kind |-> "packet", key |-> k, req |-> 1 + sent[k] \div Packets, seq |-> sent[k] % Packets] \in Datagrams
    BY <2>2 DEF Datagrams
  <2>4. /\ sent' = [sent EXCEPT ![k] = @ + 1] /\ UNCHANGED <<hellos, rtts, acked, welcomed>>
        /\ net' = net \cup {[kind |-> "packet", key |-> k, req |-> 1 + sent[k] \div Packets, seq |-> sent[k] % Packets]}
    BY <1>4 DEF SendPacket, serverVars, replyVars
  <2>5. sent' \in [Keys -> Nat] /\ \A j \in Keys : sent'[j] <= MaxRequests * Packets
    BY <1>0, <2>1, <2>4 DEF ClientType
  <2> QED
    BY <1>0, <2>3, <2>4, <2>5 DEF ClientType
<1>5. ASSUME NEW m \in net, Lose(m) PROVE ClientType'
  BY <1>0, <1>5 DEF Lose, ClientType, clientVars, serverVars, replyVars
<1>6. ASSUME NEW w \in Workers, NEW m \in net, Take(w, m) PROVE ClientType'
  BY <1>0, <1>6 DEF Take, ClientType, clientVars, replyVars
<1>7. ASSUME NEW w \in Workers, Register(w) PROVE ClientType'
  <2>1. acked' \subseteq Keys
    BY <1>0, <1>7, RegisterTracks DEF ClientType
  <2>2. UNCHANGED <<net, clientVars, welcomed>>
    BY <1>7 DEF Register
  <2> QED
    BY <1>0, <2>1, <2>2 DEF ClientType, clientVars
<1>8. ASSUME NEW w \in Workers, Hello(w) PROVE ClientType'
  <2>1. welcomed' \in [Keys -> SUBSET (1..MaxHellos)]
    <3> DEFINE k == workers[w].msg.key
               n == workers[w].msg.round
    <3>1. k \in Keys /\ n \in 1..MaxHellos
      BY <1>8, HelloTracks
    <3>2. welcomed' = welcomed \/ welcomed' = [welcomed EXCEPT ![k] = @ \cup {n}]
      BY <1>8, HelloTracks
    <3> HIDE DEF k, n
    <3>3. welcomed \in [Keys -> SUBSET (1..MaxHellos)]
      BY <1>0 DEF ClientType
    <3> QED
      BY <3>1, <3>2, <3>3
  <2>2. UNCHANGED <<net, clientVars, acked>>
    BY <1>8 DEF Hello
  <2> QED
    BY <1>0, <2>1, <2>2 DEF ClientType, clientVars
<1>9. ASSUME NEW w \in Workers, NotifyStep(w) \/ DoneStep(w) PROVE ClientType'
  <2>1. UNCHANGED <<net, clientVars, replyVars>>
    BY <1>9, NotifyMoves, DoneMoves
  <2> QED
    BY <1>0, <2>1 DEF ClientType, clientVars, replyVars
<1>10. CASE QuietStep
  BY <1>0, <1>10, QuietKeeps DEF ClientType, clientVars, replyVars
<1> QED
  BY <1>1, <1>2, <1>3, <1>4, <1>5, <1>6, <1>7, <1>8, <1>9, <1>10, NextSteps

\* No tracker is ever forgotten, or goes to another client.
TrackersStay ==
    /\ trackers' \in Seq(Trackers) /\ DOMAIN trackers \subseteq DOMAIN trackers'
    /\ \A t \in DOMAIN trackers : trackers'[t].key = trackers[t].key

LEMMA KeptStay == EntriesKept => TrackersStay
  BY DEF EntriesKept, TrackersStay

LEMMA StayStep == TypeInv /\ Next => TrackersStay
<1> SUFFICES ASSUME TypeInv, Next PROVE TrackersStay
  OBVIOUS
<1>1. CASE trackers' = trackers
  BY <1>1, NoStore, KeptStay
<1>2. ASSUME NEW w \in Workers, Register(w) PROVE TrackersStay
  <2>1. CASE TrackerJoins(workers[w].msg.key, Len(trackers) + 1)
    BY <2>1 DEF TrackerJoins, TrackersStay
  <2> QED
    BY <1>1, <1>2, <2>1, RegisterTracks DEF trackVars
<1>3. ASSUME NEW w \in Workers, Hello(w) PROVE TrackersStay
  <2>1. CASE TrackerJoins(workers[w].msg.key, Len(trackers) + 1)
    BY <2>1 DEF TrackerJoins, TrackersStay
  <2> QED
    BY <1>3, <2>1, HelloTracks, KeptStay
<1>4. ASSUME NEW w \in Workers, NotifyStep(w) \/ StoreRtt(w) PROVE TrackersStay
  BY <1>4, NotifyStored, StoreRttKeeps, KeptStay
<1>5. ASSUME NEW w \in Workers, NEW x, EntryBecomes(w, x) PROVE TrackersStay
  BY <1>5 DEF EntryBecomes, TrackersStay
<1>6. ASSUME NEW w \in Workers, AddPacket(w) \/ DoneStep(w) PROVE TrackersStay
  BY <1>5, <1>6, AddPacketStores, DoneStores, KeptStay
<1>7. CASE CloseTracker
  BY <1>7, CloseTrackerKeeps, KeptStay
<1>8. ASSUME NEW t \in DOMAIN trackers, RegistrationWaitOver(t) PROVE TrackersStay
  BY <1>8, WaitOverKeeps, KeptStay
<1>9. ASSUME NEW k \in Keys,
             SendRegistration(k) \/ SendHello(k) \/ SendRtt(k) \/ SendPacket(k) \/ Silence(k) \/ Inspect(k) \/ Forget(k)
      PROVE  TrackersStay
  BY <1>1, <1>9 DEF SendRegistration, SendHello, SendRtt, SendPacket, Silence, Inspect, Forget, serverVars, trackVars
<1>10. ASSUME NEW w \in Workers, FindPort(w) \/ Lookup(w) \/ Escapes(w) \/ Respond(w) \/ \E m \in net : Take(w, m)
       PROVE  TrackersStay
  BY <1>1, <1>10 DEF FindPort, Lookup, Escapes, Respond, Take, trackVars
<1>11. CASE BeginCleanup \/ EndCleanup \/ \E m \in net : Lose(m)
  BY <1>1, <1>11 DEF BeginCleanup, EndCleanup, Lose, serverVars, trackVars
<1> QED
  BY <1>2, <1>3, <1>4, <1>6, <1>7, <1>8, <1>9, <1>10, <1>11, NextSteps DEF QuietStep

LEMMA TableTypeStep == TypeInv /\ Next => TableType'
<1> SUFFICES ASSUME TypeInv, Next PROVE TableType'
  OBVIOUS
<1> DEFINE UeType == /\ ue_trackers' \in [Keys -> Nat]
                     /\ \A k \in Keys : ue_trackers'[k] # 0 =>
                           ue_trackers'[k] \in DOMAIN trackers' /\ trackers'[ue_trackers'[k]].key = k
           RestType == /\ registered_rntis' \subseteq Rntis
                       /\ lastActive' \in [Keys -> {"absent", "fresh", "stale"}]
                       /\ cpc' \in {"sleep", "scan", "forget", "dead"} \cup CloseSteps /\ todo' \subseteq Keys
                       /\ closing' \in DOMAIN trackers \cup {0}
<1>0. TableType /\ TrackersStay
  BY StayStep DEF TypeInv
<1>1. ASSUME ue_trackers' = ue_trackers PROVE UeType
  BY <1>0, <1>1 DEF TableType, TrackersStay
<1>2. ASSUME NEW k \in Keys, ue_trackers' = [ue_trackers EXCEPT ![k] = 0] PROVE UeType
  BY <1>0, <1>2 DEF TableType, TrackersStay
<1>3. ASSUME NEW k \in Keys, NEW n, TrackerJoins(k, n) PROVE UeType
  <2>1. n \in Nat /\ ue_trackers' = [ue_trackers EXCEPT ![k] = n] /\ n \in DOMAIN trackers' /\ trackers'[n].key = k
    BY <1>3 DEF TrackerJoins
  <2> QED
    BY <1>0, <2>1 DEF TableType, TrackersStay
<1> HIDE DEF UeType
<1>4. ASSUME UeType, RestType PROVE TableType'
  BY <1>0, <1>4 DEF TableType, TrackersStay, UeType
<1>6. ASSUME NEW w \in Workers, Register(w) PROVE TableType'
  <2>1. UeType
    BY <1>1, <1>3, <1>6, RegisterTracks DEF trackVars, UeType
  <2>2. registered_rntis' \subseteq Rntis /\ UNCHANGED <<lastActive, cpc, todo, closing>>
    BY <1>6, RegisterTracks DEF Register, cleanVars
  <2>3. RestType
    BY <1>0, <2>2 DEF TableType
  <2> QED
    BY <1>4, <2>1, <2>3
<1>7. ASSUME NEW w \in Workers, Hello(w) PROVE TableType'
  <2>1. UeType
    BY <1>1, <1>3, <1>7, HelloTracks DEF UeType
  <2>2. UNCHANGED <<registered_rntis, lastActive, cpc, todo, closing>>
    BY <1>7 DEF Hello, cleanVars
  <2>3. RestType
    BY <1>0, <2>2 DEF TableType
  <2> QED
    BY <1>4, <2>1, <2>3
<1>8. ASSUME UNCHANGED <<ue_trackers, registered_rntis>>,
             lastActive' \in [Keys -> {"absent", "fresh", "stale"}],
             cpc' \in {"sleep", "scan", "forget", "dead"} \cup CloseSteps /\ todo' \subseteq Keys,
             closing' = closing
      PROVE  TableType'
  <2>1. UeType
    BY <1>1, <1>8 DEF UeType
  <2>2. RestType
    BY <1>0, <1>8 DEF TableType
  <2> QED
    BY <1>4, <2>1, <2>2
<1>9. ASSUME UNCHANGED <<ue_trackers, registered_rntis, lastActive, cpc, todo, closing>> PROVE TableType'
  BY <1>0, <1>8, <1>9 DEF TableType
<1>10. ASSUME NEW w \in Workers, NotifyStep(w) \/ DoneStep(w) PROVE TableType'
  <2>1. UNCHANGED <<ue_trackers, registered_rntis, lastActive, cleanVars>>
    BY <1>10, NotifyMoves, DoneMoves
  <2> QED
    BY <1>9, <2>1 DEF cleanVars
<1>11. ASSUME NEW w \in Workers, FindPort(w) \/ StoreRtt(w) \/ Lookup(w) \/ AddPacket(w) \/ Escapes(w) \/ Respond(w)
       PROVE  TableType'
  BY <1>9, <1>11 DEF FindPort, StoreRtt, Lookup, AddPacket, CountPacket, Escapes, Respond, trackVars, cleanVars
<1>12. ASSUME NEW k \in Keys, SendRegistration(k) \/ SendHello(k) \/ SendRtt(k) \/ SendPacket(k) PROVE TableType'
  BY <1>9, <1>12 DEF SendRegistration, SendHello, SendRtt, SendPacket, serverVars, trackVars, cleanVars
<1>13. ASSUME NEW t \in DOMAIN trackers, RegistrationWaitOver(t) PROVE TableType'
  BY <1>9, <1>13 DEF RegistrationWaitOver, cleanVars
<1>14. ASSUME NEW m \in net, Lose(m) PROVE TableType'
  BY <1>9, <1>14 DEF Lose, serverVars, trackVars, cleanVars
<1>15. ASSUME NEW w \in Workers, NEW m \in net, Take(w, m) PROVE TableType'
  BY <1>0, <1>8, <1>15 DEF Take, TableType, trackVars, cleanVars
<1>16. ASSUME NEW k \in Keys, Silence(k) PROVE TableType'
  BY <1>0, <1>8, <1>16 DEF Silence, TableType, trackVars, cleanVars
<1>17. ASSUME NEW k \in Keys, Forget(k) PROVE TableType'
  <2>1. cpc' \in {"scan", "dead"} /\ todo' \subseteq Keys /\ closing' = closing
    BY <1>0, <1>17 DEF Forget, TableType
  <2>2. lastActive' = [lastActive EXCEPT ![k] = "absent"] /\ UNCHANGED trackVars
    BY <1>17 DEF Forget
  <2> QED
    BY <1>0, <1>8, <2>1, <2>2 DEF TableType, trackVars
<1>18. ASSUME NEW k \in Keys, Inspect(k) PROVE TableType'
  <2>1. UeType
    BY <1>1, <1>2, <1>18 DEF Inspect, UeType
  <2>2. /\ cpc' \in {"sleep", "scan", "forget", "dead"} \cup CloseSteps /\ todo' \subseteq Keys
        /\ closing' \in DOMAIN trackers \cup {0}
    BY <1>0, <1>18 DEF Inspect, TableType, CloseSteps
  <2>3. UNCHANGED <<registered_rntis, lastActive>>
    BY <1>18 DEF Inspect, trackVars
  <2>4. RestType
    BY <1>0, <2>2, <2>3 DEF TableType
  <2> QED
    BY <1>4, <2>1, <2>4
<1>19. CASE BeginCleanup \/ EndCleanup
  BY <1>0, <1>8, <1>19 DEF BeginCleanup, EndCleanup, TableType, trackVars
<1>20. CASE CloseTracker
  BY <1>0, <1>8, <1>20, CloseTrackerKeeps DEF TableType
<1> QED
  BY <1>20, <1>6, <1>7, <1>10, <1>11, <1>12, <1>13, <1>14, <1>15, <1>16, <1>17, <1>18, <1>19, NextSteps DEF QuietStep

LEMMA StayInHand ==
    ASSUME TypeInv, TrackersStay, NEW v \in Workers, workers'[v] = workers[v]
    PROVE  InHand(v)'
<1>1. InHand(v)
  BY DEF TypeInv, WorkerType
<1> QED
  BY <1>1 DEF InHand, TrackersStay

LEMMA IdleInHand == ASSUME NEW v \in Workers, workers'[v] = Idle PROVE InHand(v)'
  BY DEF InHand, Idle, HandlerSteps, TrackerSteps, Notifying, NotifySteps, ConnectSteps, LockSteps

\* A worker that goes on with the same packet and tracker.
LEMMA GoesOnInHand ==
    ASSUME TypeInv, TrackersStay, NEW w \in Workers, workers[w].pc \in TrackerSteps, NEW p \in TrackerSteps,
           p \in Notifying => workers[w].pc \in Notifying,
           workers' = [workers EXCEPT ![w].pc = p]
    PROVE  WorkerType'
<1>1. workers[w] \in Busy /\ InHand(w) /\ workers[w].msg.kind = "packet" /\ workers[w].held \in DOMAIN trackers
  BY HeldTracker DEF TypeInv, WorkerType
<1> DEFINE x == [workers[w] EXCEPT !.pc = p]
<1>2. x \in Busy /\ x.pc = p /\ x.msg = workers[w].msg /\ x.held = workers[w].held
  BY <1>1 DEF Busy, HandlerSteps
<1>3. workers' = [workers EXCEPT ![w] = x]
  BY DEF TypeInv, WorkerType
<1> HIDE DEF x
<1>4. /\ workers' \in [Workers -> Busy \cup {Idle}]
      /\ \A v \in Workers : workers'[v] = IF v = w THEN x ELSE workers[v]
  BY <1>2, <1>3, WorkerMoves DEF TypeInv
<1>5. InHand(w)'
  <2>1. workers'[w].pc = p /\ workers'[w].msg = workers[w].msg /\ workers'[w].held = workers[w].held
    BY <1>2, <1>4
  <2>2. workers[w].held \in DOMAIN trackers' /\ trackers'[workers[w].held].key = workers[w].msg.key
    BY <1>1, HeldTracker DEF TrackersStay
  <2>3. p \in Notifying => workers[w].msg.seq = 0
    BY <1>1 DEF InHand
  <2>4. p \notin {"rtt", "hello", "tracker"}
    BY DEF TrackerSteps, NotifySteps, ConnectSteps, LockSteps
  <2> QED
    BY <1>1, <2>1, <2>2, <2>3, <2>4 DEF InHand
<1>6. \A v \in Workers : InHand(v)'
  BY <1>4, <1>5, StayInHand
<1> QED
  BY <1>4, <1>6 DEF WorkerType

LEMMA TakeTypes ==
    ASSUME TypeInv, TrackersStay, NEW w \in Workers, NEW m \in net, Take(w, m)
    PROVE  /\ WorkerType' /\ m \in Datagrams
           /\ \A v \in Workers : v # w => workers'[v] = workers[v]
           /\ workers'[w].msg = m /\ workers'[w].pc = (IF m.kind = "packet" THEN "lookup" ELSE m.kind)
<1> DEFINE x == [pc |-> IF m.kind = "packet" THEN "lookup" ELSE m.kind, msg |-> m, held |-> 0, port |-> "source"]
<1>1. m \in Datagrams /\ m.kind \in {"register", "hello", "rtt", "packet"}
  BY DEF TypeInv, ClientType, Datagrams
<1>2. x \in Busy /\ x.pc = (IF m.kind = "packet" THEN "lookup" ELSE m.kind) /\ x.msg = m
  BY <1>1 DEF Busy, HandlerSteps, Ports
<1>3. workers' = [workers EXCEPT ![w] = x]
  BY DEF Take
<1> HIDE DEF x
<1>4. /\ workers' \in [Workers -> Busy \cup {Idle}]
      /\ \A v \in Workers : workers'[v] = IF v = w THEN x ELSE workers[v]
  BY <1>2, <1>3, WorkerMoves DEF TypeInv
<1>5. InHand(w)'
  <2>1. workers'[w] = x /\ x.held = 0
    BY <1>4 DEF x
  <2>2. x.pc \in {"register", "hello", "rtt", "lookup"}
    BY <1>1, <1>2
  <2> QED
    BY <1>1, <1>2, <2>1, <2>2 DEF InHand, TrackerSteps, Notifying, NotifySteps, ConnectSteps, LockSteps
<1>6. \A v \in Workers : InHand(v)'
  BY <1>4, <1>5, StayInHand
<1> QED
  BY <1>1, <1>2, <1>4, <1>6 DEF WorkerType

\* A packet finds its client's tracker, or is dropped.
LEMMA LookupTypes ==
    ASSUME TypeInv, TrackersStay, NEW w \in Workers, Lookup(w)
    PROVE  /\ WorkerType' /\ workers[w] \in Busy /\ workers[w].pc = "lookup" /\ workers[w].msg.key \in Keys
           /\ \A v \in Workers : v # w => workers'[v] = workers[v]
           /\ IF ue_trackers[workers[w].msg.key] = 0 THEN workers'[w] = Idle
              ELSE /\ workers'[w].pc \in Before /\ workers'[w].pc \in {"notify", "add"}
                   /\ workers'[w].msg = workers[w].msg /\ workers'[w].held = ue_trackers[workers[w].msg.key]
<1> DEFINE t == ue_trackers[workers[w].msg.key]
           p == IF workers[w].msg.seq = 0 THEN "notify" ELSE "add"
           y == [workers[w] EXCEPT !.held = t, !.pc = p]
           x == IF t = 0 THEN Idle ELSE y
<1>1. workers[w].pc = "lookup"
  BY DEF Lookup
<1>2. workers[w] \in Busy /\ InHand(w)
  BY <1>1, Handling DEF TypeInv
<1>3. workers[w].msg.kind = "packet" /\ workers[w].msg.key \in Keys
  BY <1>1, <1>2, DatagramTypes DEF InHand, Busy
<1>4. t \in Nat /\ (t # 0 => t \in DOMAIN trackers /\ trackers[t].key = workers[w].msg.key)
  BY <1>3 DEF TypeInv, TableType
<1>5. y \in Busy /\ y.pc = p /\ y.msg = workers[w].msg /\ y.held = t
  BY <1>2, <1>4 DEF Busy, HandlerSteps, TrackerSteps, NotifySteps, ConnectSteps, LockSteps
<1>6. workers' = [workers EXCEPT ![w] = x]
  BY DEF Lookup, TypeInv, WorkerType
<1> HIDE DEF y, t
<1>7. x \in Busy \cup {Idle}
  BY <1>5
<1> HIDE DEF x
<1>8. /\ workers' \in [Workers -> Busy \cup {Idle}]
      /\ \A v \in Workers : workers'[v] = IF v = w THEN x ELSE workers[v]
  BY <1>6, <1>7, WorkerMoves DEF TypeInv
<1>9. InHand(w)'
  <2>1. CASE t = 0
    BY <1>8, <2>1, IdleInHand DEF x
  <2>2. CASE t # 0
    <3>1. workers'[w].pc = p /\ workers'[w].msg = workers[w].msg /\ workers'[w].held = t
      BY <1>5, <1>8, <2>2 DEF x
    <3>2. t \in DOMAIN trackers' /\ trackers'[t].key = workers[w].msg.key
      BY <1>4, <2>2 DEF TrackersStay
    <3>3. p \in TrackerSteps
      BY DEF TrackerSteps, NotifySteps, ConnectSteps, LockSteps
    <3> QED
      BY <1>3, <3>1, <3>2, <3>3 DEF InHand, Notifying, NotifySteps, ConnectSteps
  <2> QED
    BY <2>1, <2>2
<1>10. \A v \in Workers : InHand(v)'
  BY <1>8, <1>9, StayInHand
<1>11. p \in Before /\ p \in {"notify", "add"}
  BY DEF Before, Notifying, NotifySteps, ConnectSteps
<1> HIDE DEF p
<1> QED
  BY <1>1, <1>2, <1>3, <1>5, <1>8, <1>10, <1>11 DEF WorkerType, x, t

LEMMA FindPortTypes ==
    ASSUME TypeInv, TrackersStay, NEW w \in Workers, FindPort(w)
    PROVE  /\ WorkerType' /\ workers[w].pc = "hello" /\ workers[w] \in Busy
           /\ \A v \in Workers : v # w => workers'[v] = workers[v]
           /\ workers'[w].pc = "tracker" /\ workers'[w].msg = workers[w].msg
<1> DEFINE same == {j \in Keys : ue_trackers[j] # 0 /\ RntiOf[j] = RntiOf[workers[w].msg.key]}
<1>1. workers[w].pc = "hello"
  BY DEF FindPort
<1>2. workers[w] \in Busy /\ InHand(w)
  BY <1>1, Handling DEF TypeInv
<1>3. \A j \in same : trackers[ue_trackers[j]].port \in Ports
  <2> SUFFICES ASSUME NEW j \in same PROVE trackers[ue_trackers[j]].port \in Ports
    OBVIOUS
  <2>1. trackers[ue_trackers[j]] \in Trackers
    BY DEF TypeInv, TableType
  <2> QED
    BY <2>1 DEF Trackers
<1>4. PICK p \in IF same = {} THEN {"source"} ELSE {trackers[ue_trackers[j]].port : j \in same} :
         workers' = [workers EXCEPT ![w].port = p, ![w].pc = "tracker"]
  BY DEF FindPort
<1>5. p \in Ports
  BY <1>3, <1>4 DEF Ports
<1> DEFINE x == [workers[w] EXCEPT !.port = p, !.pc = "tracker"]
<1>6. x \in Busy /\ x.pc = "tracker" /\ x.msg = workers[w].msg /\ x.held = 0
  <2>1. workers[w].held = 0
    BY <1>1, <1>2 DEF InHand, HandlerSteps, TrackerSteps, NotifySteps, ConnectSteps, LockSteps
  <2> QED
    BY <1>2, <1>5, <2>1 DEF Busy, HandlerSteps
<1>7. workers' = [workers EXCEPT ![w] = x]
  BY <1>4 DEF TypeInv, WorkerType
<1> HIDE DEF x
<1>8. /\ workers' \in [Workers -> Busy \cup {Idle}]
      /\ \A v \in Workers : workers'[v] = IF v = w THEN x ELSE workers[v]
  BY <1>6, <1>7, WorkerMoves DEF TypeInv
<1>9. InHand(w)'
  <2>1. workers'[w] = x /\ workers[w].msg.kind = "hello"
    BY <1>1, <1>2, <1>8 DEF InHand
  <2> QED
    BY <1>6, <2>1 DEF InHand, TrackerSteps, Notifying, NotifySteps, ConnectSteps, LockSteps
<1>10. \A v \in Workers : InHand(v)'
  BY <1>8, <1>9, StayInHand
<1> QED
  BY <1>1, <1>2, <1>6, <1>8, <1>10 DEF WorkerType

\* A worker that is done with its datagram.
LEMMA GetsIdle ==
    ASSUME TypeInv, TrackersStay, NEW w \in Workers, workers' = [workers EXCEPT ![w] = Idle]
    PROVE  WorkerType' /\ \A v \in Workers : workers'[v] = IF v = w THEN Idle ELSE workers[v]
<1>1. /\ workers' \in [Workers -> Busy \cup {Idle}]
      /\ \A v \in Workers : workers'[v] = IF v = w THEN Idle ELSE workers[v]
  BY WorkerMoves DEF TypeInv
<1>2. \A v \in Workers : InHand(v)'
  BY <1>1, StayInHand, IdleInHand
<1> QED
  BY <1>1, <1>2 DEF WorkerType

LEMMA WorkerTypeStep == TypeInv /\ Next => WorkerType'
<1> SUFFICES ASSUME TypeInv, Next PROVE WorkerType'
  OBVIOUS
<1>0. TrackersStay
  BY StayStep
<1>1. ASSUME workers' = workers PROVE WorkerType'
  <2>1. \A v \in Workers : InHand(v)'
    BY <1>0, <1>1, StayInHand
  <2> QED
    BY <1>1, <2>1 DEF TypeInv, WorkerType
<1>2. ASSUME NEW w \in Workers, Register(w) \/ Hello(w) \/ StoreRtt(w) \/ Escapes(w) \/ Respond(w) PROVE WorkerType'
  <2>1. workers' = [workers EXCEPT ![w] = Idle]
    BY <1>2 DEF Register, Hello, StoreRtt, Escapes, Respond
  <2> QED
    BY <1>0, <2>1, GetsIdle
<1>3. ASSUME NEW w \in Workers, NotifyStep(w) PROVE WorkerType'
  <2>1. PICK p \in Notifying \cup {"add"} : workers' = [workers EXCEPT ![w].pc = p]
    BY <1>3, NotifyMoves
  <2>2. workers[w].pc \in Notifying
    BY <1>3, NotifyMoves
  <2>3. p \in TrackerSteps /\ workers[w].pc \in TrackerSteps
    BY <2>1, <2>2 DEF Notifying, TrackerSteps, NotifySteps, ConnectSteps, LockSteps
  <2> QED
    BY <1>0, <2>1, <2>2, <2>3, GoesOnInHand
<1>4. ASSUME NEW w \in Workers, AddPacket(w) PROVE WorkerType'
  <2>1. workers[w].pc = "add" /\ \/ workers' = [workers EXCEPT ![w] = Idle]
                                 \/ workers' = [workers EXCEPT ![w].pc = "tell"]
                                 \/ workers' = [workers EXCEPT ![w].pc = "respond"]
    BY <1>4, AddPacketStores
  <2>2. {"add", "tell", "respond"} \subseteq TrackerSteps /\ "tell" \notin Notifying /\ "respond" \notin Notifying
    BY DEF TrackerSteps, Notifying, NotifySteps, ConnectSteps, LockSteps
  <2> QED
    BY <1>0, <2>1, <2>2, GetsIdle, GoesOnInHand
<1>5. ASSUME NEW w \in Workers, DoneStep(w) PROVE WorkerType'
  <2>1. PICK p \in After : workers' = [workers EXCEPT ![w].pc = p]
    BY <1>5, DoneMoves
  <2>2. workers[w].pc \in TrackerSteps /\ p \in TrackerSteps /\ p \notin Notifying
    BY <1>5, <2>1, DoneMoves DEF After, TrackerSteps, Notifying, NotifySteps, ConnectSteps, LockSteps
  <2> QED
    BY <1>0, <2>1, <2>2, GoesOnInHand
<1>6. ASSUME NEW k \in Keys,
             SendRegistration(k) \/ SendHello(k) \/ SendRtt(k) \/ SendPacket(k) \/ Silence(k) \/ Forget(k) \/ Inspect(k)
      PROVE  WorkerType'
  BY <1>1, <1>6 DEF SendRegistration, SendHello, SendRtt, SendPacket, Silence, Forget, Inspect, serverVars
<1>7. ASSUME \/ BeginCleanup \/ EndCleanup \/ CloseTracker \/ \E m \in net : Lose(m)
             \/ \E t \in DOMAIN trackers : RegistrationWaitOver(t)
      PROVE  WorkerType'
  BY <1>1, <1>7 DEF BeginCleanup, EndCleanup, CloseTracker, Lose, RegistrationWaitOver, serverVars
<1> QED
  BY <1>0, <1>2, <1>3, <1>4, <1>5, <1>6, <1>7, TakeTypes, LookupTypes, FindPortTypes, NextSteps DEF QuietStep

LEMMA WireTypeStep == TypeInv /\ Next => WireType'
<1> SUFFICES ASSUME TypeInv, Next PROVE WireType'
  OBVIOUS
<1>0. WireType /\ MaxMishaps \in Nat
  BY PetsAssumption DEF TypeInv
<1>1. ASSUME UNCHANGED <<wireVars, completed, cut>> PROVE WireType'
  BY <1>0, <1>1 DEF WireType, wireVars
<1>2. ASSUME NEW w \in Workers, Register(w) \/ Hello(w) PROVE WireType'
  <2>1. completed' = completed /\ cut' = cut
    BY <1>2 DEF Register, Hello, historyVars
  <2>2. ASSUME NEW k, NEW n, TrackerJoins(k, n) PROVE WireType'
    BY <1>0, <2>1, <2>2 DEF TrackerJoins, WireType
  <2> QED
    BY <1>1, <1>2, <2>1, <2>2, RegisterTracks, HelloTracks
<1>3. ASSUME NEW w \in Workers, NotifyStep(w) \/ DoneStep(w) PROVE WireType'
  <2>1. Wired /\ UNCHANGED <<completed, cut>>
    BY <1>3, NotifyStored, NotifyMoves, DoneStores, DoneMoves DEF historyVars
  <2>2. heard' = heard \/ \E x \in Tellings : heard' = Append(heard, x)
    BY <1>3, NotifyStored, DoneStores DEF ControllerTold
  <2>3. heard' \in Seq(Tellings)
    BY <1>0, <2>2, AppendSeq DEF WireType
  <2> QED
    BY <1>0, <2>1, <2>3 DEF WireType, Wired
<1>4. ASSUME NEW w \in Workers, Escapes(w) PROVE WireType'
  BY <1>0, <1>4, HandlingEnds DEF WireType, wireVars
<1>5. ASSUME NEW w \in Workers, Respond(w) PROVE WireType'
  <2>1. workers[w].pc \in TrackerSteps
    BY <1>5 DEF Respond, TrackerSteps, NotifySteps, ConnectSteps, LockSteps
  <2>2. /\ workers[w].msg.key \in Keys /\ workers[w].msg.req \in Requests /\ Tracker(w) \in Trackers
        /\ workers[w].held \in Nat
    BY <2>1, HeldTracker DEF Busy
  <2> DEFINE x == [tracker |-> workers[w].held, key |-> workers[w].msg.key, req |-> workers[w].msg.req,
                   port |-> Tracker(w).port, c0 |-> Tracker(w).c0, t1 |-> Tracker(w).t1]
  <2>3. x \in Completions
    BY <2>2 DEF Completions, Trackers
  <2>4. completed' = Append(completed, x) /\ UNCHANGED <<wireVars, cut>>
    BY <1>5 DEF Respond
  <2> HIDE DEF x
  <2>5. completed' \in Seq(Completions)
    BY <1>0, <2>3, <2>4, AppendSeq DEF WireType
  <2> QED
    BY <1>0, <2>4, <2>5 DEF WireType, wireVars
<1>6. ASSUME NEW w \in Workers, NEW m \in net, Take(w, m) PROVE WireType'
  <2>1. UNCHANGED <<sockets, heard, completed, cut>>
    BY <1>6 DEF Take, historyVars
  <2>2. mishaps' \in 0..MaxMishaps
    BY <1>0, <1>6 DEF Take, WireType
  <2> QED
    BY <1>0, <2>1, <2>2 DEF WireType
<1>7. ASSUME NEW w \in Workers, FindPort(w) \/ StoreRtt(w) \/ Lookup(w) PROVE WireType'
  BY <1>1, <1>7 DEF FindPort, StoreRtt, Lookup, historyVars
<1>8. ASSUME NEW w \in Workers, AddPacket(w) PROVE WireType'
  BY <1>1, <1>8, AddPacketStores
<1>9. ASSUME NEW k \in Keys,
             SendRegistration(k) \/ SendHello(k) \/ SendRtt(k) \/ SendPacket(k) \/ Silence(k) \/ Forget(k) \/ Inspect(k)
      PROVE  WireType'
  BY <1>1, <1>9 DEF SendRegistration, SendHello, SendRtt, SendPacket, Silence, Forget, Inspect, serverVars, historyVars
<1>10. CASE CloseTracker
  BY <1>0, <1>10, CloseTrackerKeeps DEF WireType, historyVars
<1>11. ASSUME \/ BeginCleanup \/ EndCleanup \/ \E m \in net : Lose(m)
              \/ \E t \in DOMAIN trackers : RegistrationWaitOver(t)
       PROVE  WireType'
  BY <1>1, <1>11 DEF BeginCleanup, EndCleanup, Lose, RegistrationWaitOver, serverVars, historyVars
<1> QED
  BY <1>2, <1>3, <1>4, <1>5, <1>6, <1>7, <1>8, <1>9, <1>10, <1>11, NextSteps DEF QuietStep

LEMMA TypeStep == TypeInv /\ Next => TypeInv'
  BY ClientTypeStep, TableTypeStep, WorkerTypeStep, WireTypeStep DEF TypeInv

LEMMA TypeStutter == TypeInv /\ UNCHANGED vars => TypeInv'
<1> SUFFICES ASSUME TypeInv, UNCHANGED vars PROVE TypeInv'
  OBVIOUS
<1> USE DEF vars, clientVars, replyVars, trackVars, cleanVars, wireVars, historyVars
<1>1. ClientType' /\ WireType'
  BY DEF TypeInv, ClientType, WireType
<1>2. TableType'
  BY DEF TypeInv, TableType
<1>3. WorkerType'
  BY DEF TypeInv, WorkerType, InHand
<1> QED
  BY <1>1, <1>2, <1>3 DEF TypeInv

LEMMA TypeInit == Init => TypeInv
<1> SUFFICES ASSUME Init PROVE TypeInv
  OBVIOUS
<1>1. MaxHellos \in Nat /\ MaxRequests * Packets \in Nat /\ MaxMishaps \in Nat
  BY PetsAssumption
<1>2. ClientType
  BY <1>1 DEF Init, ClientType
<1>3. TableType
  BY DEF Init, TableType
<1>4. WorkerType
  BY DEF Init, WorkerType, InHand, Idle, HandlerSteps, TrackerSteps, Notifying, NotifySteps, ConnectSteps, LockSteps
<1>5. WireType
  BY <1>1 DEF Init, WireType
<1> QED
  BY <1>2, <1>3, <1>4, <1>5 DEF TypeInv

-----------------------------------------------------------------------------
(* The clean-up's list and the sockets *)

LEMMA TodoStep == TypeInv /\ TodoTracked /\ Next => TodoTracked'
<1> SUFFICES ASSUME TypeInv, TodoTracked, Next PROVE TodoTracked'
  OBVIOUS
<1>0. ue_trackers \in [Keys -> Nat] /\ todo \subseteq Keys
  BY DEF TypeInv, TableType
<1>1. ASSUME UNCHANGED <<ue_trackers, cleanVars>> PROVE TodoTracked'
  BY <1>1 DEF TodoTracked, cleanVars
<1>2. ASSUME UNCHANGED cleanVars, NEW k, NEW n, TrackerJoins(k, n) PROVE TodoTracked'
  BY <1>0, <1>2 DEF TodoTracked, TrackerJoins, cleanVars
<1>3. ASSUME NEW w \in Workers, Register(w) PROVE TodoTracked'
  BY <1>1, <1>2, <1>3, RegisterTracks DEF Register, trackVars
<1>4. ASSUME NEW w \in Workers, Hello(w) PROVE TodoTracked'
  BY <1>1, <1>2, <1>4, HelloTracks DEF Hello
<1>5. ASSUME NEW w \in Workers, NotifyStep(w) \/ DoneStep(w) PROVE TodoTracked'
  BY <1>1, <1>5, NotifyMoves, DoneMoves
<1>6. ASSUME NEW w \in Workers, FindPort(w) \/ StoreRtt(w) \/ Lookup(w) \/ AddPacket(w) \/ Escapes(w) \/ Respond(w)
      PROVE  TodoTracked'
  BY <1>1, <1>6 DEF FindPort, StoreRtt, Lookup, AddPacket, CountPacket, Escapes, Respond, trackVars
<1>7. ASSUME NEW w \in Workers, NEW m \in net, Take(w, m) PROVE TodoTracked'
  BY <1>1, <1>7 DEF Take, trackVars
<1>8. ASSUME NEW k \in Keys, SendRegistration(k) \/ SendHello(k) \/ SendRtt(k) \/ SendPacket(k) \/ Silence(k)
      PROVE  TodoTracked'
  BY <1>1, <1>8 DEF SendRegistration, SendHello, SendRtt, SendPacket, Silence, serverVars, trackVars
<1>9. ASSUME NEW k \in Keys, Inspect(k) PROVE TodoTracked'
  BY <1>0, <1>9 DEF Inspect, TodoTracked, trackVars, CloseSteps
<1>10. ASSUME NEW k \in Keys, Forget(k) PROVE TodoTracked'
  BY <1>10 DEF Forget, TodoTracked, trackVars, CloseSteps
<1>11. CASE BeginCleanup \/ EndCleanup
  BY <1>11 DEF BeginCleanup, EndCleanup, TodoTracked, trackVars, CloseSteps
<1>12. ASSUME \/ \E m \in net : Lose(m)
              \/ \E t \in DOMAIN trackers : RegistrationWaitOver(t)
       PROVE  TodoTracked'
  BY <1>1, <1>12 DEF Lose, RegistrationWaitOver, serverVars, trackVars
<1>13. CASE CloseTracker
  <2>1. /\ cpc \in CloseSteps /\ cpc' \in CloseSteps \cup {"forget"} /\ UNCHANGED <<ue_trackers, todo, closing>>
    BY <1>13, CloseTrackerKeeps
  <2> QED
    BY <2>1 DEF TodoTracked, CloseSteps
<1> QED
  BY <1>3, <1>4, <1>5, <1>6, <1>7, <1>8, <1>9, <1>10, <1>11, <1>12, <1>13, NextSteps DEF QuietStep

\* The thread that closed the tracker's socket has still to clear the field.
Clearing(t) ==
    \/ \E w \in Workers : workers[w].pc \in Clears /\ workers[w].held = t
    \/ cpc = "clear" /\ closing = t

LEMMA ClosedClearing ==
    ClosedIsDropped <=>
        \A t \in DOMAIN trackers :
            trackers[t].sock # 0 /\ sockets[trackers[t].sock] = "closed" => Clearing(t)
  BY DEF ClosedIsDropped, Clearing, Clears

LEMMA ClosedClearingNow ==
    ClosedIsDropped' <=>
        \A t \in DOMAIN trackers' :
            trackers'[t].sock # 0 /\ sockets'[trackers'[t].sock] = "closed" => Clearing(t)'
  BY DEF ClosedIsDropped, Clearing, Clears

SocketsSound == SocketsOwned /\ ClosedIsDropped

\* A worker that clears no field leaves those that do.
LEMMA ClearingStays ==
    ASSUME NEW w \in Workers, workers[w].pc \notin Clears, \A v \in Workers : v # w => workers'[v] = workers[v],
           UNCHANGED cleanVars
    PROVE  \A t : Clearing(t) => Clearing(t)'
  BY DEF Clearing, cleanVars

LEMMA ClearingSame == UNCHANGED <<workers, cpc, closing>> => \A t : Clearing(t) => Clearing(t)'
  BY DEF Clearing

\* The trackers keep their sockets, and none is closed.
LEMMA SameOwned ==
    ASSUME SocketsSound, DOMAIN trackers' = DOMAIN trackers, SocksKept,
           DOMAIN sockets' = DOMAIN sockets,
           \A i \in DOMAIN sockets : sockets'[i] = "closed" => sockets[i] = "closed",
           \A t : Clearing(t) => Clearing(t)'
    PROVE  SocketsSound'
<1>1. SocketsOwned'
  BY DEF SocketsSound, SocketsOwned, SocksKept
<1>2. ClosedIsDropped'
  BY ClosedClearing, ClosedClearingNow DEF SocketsSound, SocketsOwned, SocksKept
<1> QED
  BY <1>1, <1>2 DEF SocketsSound

\* A tracker's socket is closed, and whoever closed it has to clear the field.
LEMMA CloseOwned ==
    ASSUME TypeInv, SocketsSound, NEW u \in DOMAIN trackers, UNCHANGED trackers,
           sockets' = Closed(trackers[u].sock),
           \A t : Clearing(t) => Clearing(t)', Clearing(u)'
    PROVE  SocketsSound'
<1>1. /\ DOMAIN sockets' = DOMAIN sockets
      /\ \A i \in DOMAIN sockets : i # trackers[u].sock => sockets'[i] = sockets[i]
  BY ClosedSockets
<1>2. SocketsOwned'
  BY <1>1 DEF SocketsSound, SocketsOwned
<1>3. ClosedIsDropped'
  BY <1>1, ClosedClearing, ClosedClearingNow DEF SocketsSound, SocketsOwned
<1> QED
  BY <1>2, <1>3 DEF SocketsSound

\* The field is cleared, with the socket's last reference.
LEMMA ClearOwned ==
    ASSUME TypeInv, SocketsSound, NEW u \in DOMAIN trackers, NEW y \in Trackers, y.sock = 0,
           trackers' = [trackers EXCEPT ![u] = y], sockets' = Closed(trackers[u].sock),
           \A t : t # u /\ Clearing(t) => Clearing(t)'
    PROVE  SocketsSound'
<1>1. /\ DOMAIN sockets' = DOMAIN sockets
      /\ \A i \in DOMAIN sockets : i # trackers[u].sock => sockets'[i] = sockets[i]
  BY ClosedSockets
<1>2. /\ DOMAIN trackers' = DOMAIN trackers /\ trackers'[u].sock = 0
      /\ \A t \in DOMAIN trackers : t # u => trackers'[t].sock = trackers[t].sock
  BY UpdateSeq DEF TypeInv, TableType
<1>3. SocketsOwned'
  BY <1>1, <1>2 DEF SocketsSound, SocketsOwned
<1>4. ClosedIsDropped'
  BY <1>1, <1>2, ClosedClearing, ClosedClearingNow DEF SocketsSound, SocketsOwned
<1> QED
  BY <1>3, <1>4 DEF SocketsSound

LEMMA CreateOwned ==
    ASSUME TypeInv, SocketsSound, NEW w \in Workers, CreateSocket(w)
    PROVE  SocketsSound'
<1> DEFINE n == Len(sockets) + 1
           y == [Tracker(w) EXCEPT !.sock = n]
           s == Closed(Sock(w))
           u == workers[w].held
<1>1. /\ workers[w].pc = "create" /\ sockets' = Append(s, "new") /\ UNCHANGED cleanVars
      /\ trackers' = [trackers EXCEPT ![u] = y] /\ workers' = [workers EXCEPT ![w].pc = "open"]
  BY DEF CreateSocket, Goto, Store
<1>a. workers[w].pc \in TrackerSteps /\ workers[w].pc \notin Clears
  BY <1>1 DEF TrackerSteps, ConnectSteps, Clears
<1>2. /\ trackers \in Seq(Trackers) /\ u \in DOMAIN trackers /\ Tracker(w) = trackers[u]
      /\ Tracker(w) \in Trackers /\ Sock(w) = trackers[u].sock
  BY <1>a, HeldTracker DEF TypeInv, TableType, Sock
<1>3. n \in Nat /\ n > 0 /\ n \notin DOMAIN sockets
  BY DEF TypeInv, WireType
<1>4. y \in Trackers /\ y.sock = n
  BY <1>2, <1>3, FieldTypes
<1>5. s \in Seq({"new", "open", "closed"}) /\ DOMAIN s = DOMAIN sockets /\ n = Len(s) + 1
      /\ \A i \in DOMAIN sockets : i # Sock(w) => s[i] = sockets[i]
  BY ClosedSockets
<1>6. \A t : Clearing(t) => Clearing(t)'
  BY <1>1, <1>a, Goes, ClearingStays
<1> HIDE DEF y, s
<1>7. /\ DOMAIN trackers' = DOMAIN trackers /\ trackers'[u].sock = n
      /\ \A t \in DOMAIN trackers : t # u => trackers'[t].sock = trackers[t].sock
  BY <1>1, <1>2, <1>4, UpdateSeq
<1> HIDE DEF n
<1>8. /\ DOMAIN sockets' = DOMAIN sockets \cup {n} /\ sockets'[n] = "new"
      /\ \A i \in DOMAIN sockets : i # Sock(w) => sockets'[i] = sockets[i]
  BY <1>1, <1>5, AppendSeq
<1>9. SocketsOwned'
  BY <1>2, <1>3, <1>7, <1>8 DEF SocketsSound, SocketsOwned
<1>10. ClosedIsDropped'
  BY <1>2, <1>3, <1>6, <1>7, <1>8, ClosedClearing, ClosedClearingNow DEF SocketsSound, SocketsOwned
<1> QED
  BY <1>9, <1>10 DEF SocketsSound

LEMMA JoinOwned ==
    ASSUME SocketsSound, NEW k, NEW n, TrackerJoins(k, n), \A t : Clearing(t) => Clearing(t)'
    PROVE  SocketsSound'
<1>1. SocketsOwned'
  BY DEF SocketsSound, SocketsOwned, TrackerJoins, Begins
<1>2. ClosedIsDropped'
  BY ClosedClearing, ClosedClearingNow DEF SocketsSound, SocketsOwned, TrackerJoins, Begins
<1> QED
  BY <1>1, <1>2 DEF SocketsSound

LEMMA FieldOwned ==
    ASSUME TypeInv, SocketsSound, NEW w \in Workers, workers[w].pc \in TrackerSteps, FieldForm(w),
           NEW p, workers' = [workers EXCEPT ![w].pc = p], UNCHANGED cleanVars
    PROVE  SocketsSound'
<1> DEFINE u == workers[w].held
<1>1. /\ u \in DOMAIN trackers /\ Tracker(w) \in Trackers /\ Sock(w) = trackers[u].sock
      /\ \A v \in Workers : v # w => workers'[v] = workers[v]
      /\ workers'[w].pc = p /\ workers'[w].held = u
  BY HeldTracker, Goes DEF Sock
<1>2. CASE workers[w].pc \notin Clears /\ Stored(w) /\ UNCHANGED sockets
  BY <1>1, <1>2, StoredKeeps, ClearingStays, SameOwned DEF EntriesKept
<1>3. CASE workers[w].pc \notin Clears /\ workers'[w].pc \in Clears /\ sockets' = Closed(Sock(w)) /\ UNCHANGED trackers
  <2>1. Clearing(u)'
    BY <1>1, <1>3 DEF Clearing
  <2> QED
    BY <1>1, <1>3, <2>1, ClearingStays, CloseOwned
<1>4. CASE Store(w, [Tracker(w) EXCEPT !.sock = 0]) /\ sockets' = Closed(Sock(w))
  <2> DEFINE y == [Tracker(w) EXCEPT !.sock = 0]
  <2>1. y \in Trackers /\ y.sock = 0 /\ trackers' = [trackers EXCEPT ![u] = y]
    BY <1>1, <1>4, FieldTypes DEF Store
  <2>2. \A t : t # u /\ Clearing(t) => Clearing(t)'
    BY <1>1 DEF Clearing, cleanVars
  <2> HIDE DEF y
  <2> QED
    BY <1>1, <1>4, <2>1, <2>2, ClearOwned
<1> QED
  BY <1>2, <1>3, <1>4 DEF FieldForm

LEMMA NotifyOwned ==
    ASSUME TypeInv, SocketsSound, NEW w \in Workers, NotifyStep(w)
    PROVE  SocketsSound'
<1>1. PICK p \in Notifying \cup {"add"} : workers' = [workers EXCEPT ![w].pc = p]
  BY NotifyMoves
<1>2. workers[w].pc \in TrackerSteps /\ UNCHANGED cleanVars
  BY NotifyMoves DEF Notifying, TrackerSteps
<1>3. \A v \in Workers : v # w => workers'[v] = workers[v]
  BY <1>1, <1>2, Goes
<1>4. CASE FieldForm(w)
  BY <1>1, <1>2, <1>4, FieldOwned
<1>5. CASE SendForm(w)
  BY <1>2, <1>3, <1>5, StoredKeeps, ClearingStays, SameOwned DEF SendForm, EntriesKept
<1>6. CASE CreateSocket(w)
  BY <1>6, CreateOwned
<1>7. CASE OpenForm(w)
  <2>1. DOMAIN sockets' = DOMAIN sockets /\ \A i \in DOMAIN sockets : sockets'[i] = "closed" => sockets[i] = "closed"
    BY <1>7 DEF OpenForm, TypeInv, WireType
  <2> QED
    BY <1>2, <1>3, <1>7, <2>1, ClearingStays, SameOwned DEF OpenForm, SocksKept
<1> QED
  BY <1>4, <1>5, <1>6, <1>7, NotifyForms

LEMMA DoneOwned ==
    ASSUME TypeInv, SocketsSound, NEW w \in Workers, DoneStep(w)
    PROVE  SocketsSound'
<1>1. PICK p \in After : workers' = [workers EXCEPT ![w].pc = p]
  BY DoneMoves
<1>2. workers[w].pc \in TrackerSteps /\ UNCHANGED cleanVars
  BY DoneMoves DEF TrackerSteps
<1>3. \A v \in Workers : v # w => workers'[v] = workers[v]
  BY <1>1, <1>2, Goes
<1>4. CASE FieldForm(w)
  BY <1>1, <1>2, <1>4, FieldOwned
<1>5. CASE DeleteForm(w)
  <2>1. workers[w].pc \notin Clears /\ SocksKept /\ DOMAIN trackers' = DOMAIN trackers /\ UNCHANGED sockets
    BY <1>2, <1>5, StoreEntry DEF DeleteForm, Clears, EntryBecomes
  <2> QED
    BY <1>2, <1>3, <2>1, ClearingStays, SameOwned
<1> QED
  BY <1>4, <1>5, DoneForms

LEMMA CleanupOwned ==
    ASSUME TypeInv, TodoTracked, SocketsSound, CloseTracker
    PROVE  SocketsSound'
<1>1. closing \in DOMAIN trackers /\ trackers \in Seq(Trackers) /\ UNCHANGED <<workers, closing>>
  BY CloseTrackerKeeps DEF TypeInv, TableType, TodoTracked
<1>2. trackers[closing] \in Trackers
  BY <1>1
<1>3. CASE cpc = "test" /\ cpc' # "clear" /\ UNCHANGED <<trackers, sockets>>
  <2>1. \A t : Clearing(t) => Clearing(t)'
    BY <1>1, <1>3 DEF Clearing
  <2> QED
    BY <1>3, <2>1, SameOwned DEF SocksKept
<1>4. CASE cpc = "close" /\ cpc' = "clear" /\ sockets' = Closed(trackers[closing].sock) /\ UNCHANGED trackers
  <2>1. Clearing(closing)' /\ \A t : Clearing(t) => Clearing(t)'
    BY <1>1, <1>4 DEF Clearing
  <2> QED
    BY <1>1, <1>4, <2>1, CloseOwned
<1>5. CASE /\ cpc = "clear" /\ sockets' = Closed(trackers[closing].sock)
           /\ trackers' = [trackers EXCEPT ![closing].sock = 0]
  <2> DEFINE y == [trackers[closing] EXCEPT !.sock = 0]
  <2>1. y \in Trackers /\ y.sock = 0 /\ trackers' = [trackers EXCEPT ![closing] = y]
    BY <1>1, <1>2, <1>5, FieldTypes
  <2>2. \A t : t # closing /\ Clearing(t) => Clearing(t)'
    BY <1>1 DEF Clearing
  <2> HIDE DEF y
  <2> QED
    BY <1>1, <1>5, <2>1, <2>2, ClearOwned
<1>6. CASE /\ cpc = "unmark" /\ cpc' = "forget" /\ UNCHANGED sockets
           /\ trackers' = [trackers EXCEPT ![closing].registered = FALSE]
  <2> DEFINE y == [trackers[closing] EXCEPT !.registered = FALSE]
  <2>1. y \in Trackers /\ y.sock = trackers[closing].sock /\ trackers' = [trackers EXCEPT ![closing] = y]
    BY <1>1, <1>2, <1>6, FieldTypes
  <2>2. \A t : Clearing(t) => Clearing(t)'
    BY <1>1, <1>6 DEF Clearing
  <2> HIDE DEF y
  <2>3. DOMAIN trackers' = DOMAIN trackers /\ SocksKept
    BY <1>1, <2>1, UpdateSeq DEF SocksKept
  <2> QED
    BY <1>6, <2>2, <2>3, SameOwned
<1> QED
  BY <1>3, <1>4, <1>5, <1>6 DEF CloseTracker

LEMMA SocketsStep == TypeInv /\ TodoTracked /\ SocketsSound /\ Next => SocketsSound'
<1> SUFFICES ASSUME TypeInv, TodoTracked, SocketsSound, Next PROVE SocketsSound'
  OBVIOUS
<1>0. ASSUME UNCHANGED <<trackers, sockets>>, \A t : Clearing(t) => Clearing(t)' PROVE SocketsSound'
  BY <1>0, SameOwned DEF SocksKept
<1>1. ASSUME NEW w \in Workers, workers[w].pc \notin Clears, UNCHANGED cleanVars,
             NEW x, workers' = [workers EXCEPT ![w] = x]
      PROVE  \A t : Clearing(t) => Clearing(t)'
  <2>1. \A v \in Workers : v # w => workers'[v] = workers[v]
    BY <1>1 DEF TypeInv, WorkerType
  <2> QED
    BY <1>1, <2>1, ClearingStays
<1>2. ASSUME NEW w \in Workers, Register(w) \/ Hello(w) PROVE SocketsSound'
  <2>1. workers[w].pc \notin Clears /\ UNCHANGED cleanVars /\ workers' = [workers EXCEPT ![w] = Idle]
    BY <1>2 DEF Register, Hello, Clears
  <2>2. \A t : Clearing(t) => Clearing(t)'
    BY <1>1, <2>1
  <2> QED
    BY <1>2, <2>2, RegisterTracks, HelloTracks, JoinOwned, SameOwned DEF trackVars, wireVars, SocksKept, EntriesKept
<1>3. ASSUME NEW w \in Workers, StoreRtt(w) PROVE SocketsSound'
  <2>1. workers[w].pc \notin Clears /\ UNCHANGED <<cleanVars, wireVars>>
        /\ workers' = [workers EXCEPT ![w] = Idle]
    BY <1>3 DEF StoreRtt, Clears
  <2> QED
    BY <1>1, <1>3, <2>1, StoreRttKeeps, SameOwned DEF wireVars, SocksKept, EntriesKept
<1>4. ASSUME NEW t \in DOMAIN trackers, RegistrationWaitOver(t) PROVE SocketsSound'
  BY <1>4, WaitOverKeeps, ClearingSame, SameOwned DEF RegistrationWaitOver, wireVars, cleanVars, SocksKept, EntriesKept
<1>5. ASSUME NEW w \in Workers, FindPort(w) \/ Lookup(w) \/ Respond(w) \/ Escapes(w) \/ \E m \in net : Take(w, m)
      PROVE  SocketsSound'
  <2>1. /\ workers[w].pc \notin Clears
        /\ UNCHANGED <<trackers, sockets, cleanVars>>
        /\ \A v \in Workers : v # w => workers'[v] = workers[v]
    <3>1. workers[w].pc \in {"hello", "lookup", "respond", "open_close", "request_close", "done_close", "elapsed", "idle"}
      BY <1>5 DEF FindPort, Lookup, Respond, Escapes, Take, Idle
    <3>2. UNCHANGED <<trackers, sockets, cleanVars>>
      BY <1>5 DEF FindPort, Lookup, Respond, Escapes, Take, trackVars, wireVars
    <3>3. \A v \in Workers : v # w => workers'[v] = workers[v]
      BY <1>5 DEF FindPort, Lookup, Respond, Escapes, Take, TypeInv, WorkerType
    <3> QED
      BY <3>1, <3>2, <3>3 DEF Clears
  <2> QED
    BY <1>0, <2>1, ClearingStays
<1>6. ASSUME NEW k \in Keys,
             SendRegistration(k) \/ SendHello(k) \/ SendRtt(k) \/ SendPacket(k) \/ Silence(k)
      PROVE  SocketsSound'
  BY <1>0, <1>6, ClearingSame
     DEF SendRegistration, SendHello, SendRtt, SendPacket, Silence, serverVars, trackVars, wireVars, cleanVars
<1>7. ASSUME NEW k \in Keys, Forget(k) \/ Inspect(k) PROVE SocketsSound'
  <2>1. UNCHANGED <<trackers, sockets, workers>> /\ cpc # "clear"
    BY <1>7 DEF Forget, Inspect, trackVars, wireVars
  <2> QED
    BY <1>0, <2>1 DEF Clearing
<1>8. ASSUME BeginCleanup \/ EndCleanup \/ \E m \in net : Lose(m) PROVE SocketsSound'
  <2>1. UNCHANGED <<trackers, sockets, workers, closing>> /\ (cpc = "clear" => cpc' = "clear")
    BY <1>8 DEF BeginCleanup, EndCleanup, Lose, serverVars, trackVars, wireVars, cleanVars
  <2> QED
    BY <1>0, <2>1 DEF Clearing
<1>9. ASSUME NEW w \in Workers, AddPacket(w) PROVE SocketsSound'
  <2>1. /\ SocksKept /\ DOMAIN trackers' = DOMAIN trackers /\ workers[w].pc = "add" /\ UNCHANGED <<cleanVars, wireVars>>
        /\ \E x : workers' = [workers EXCEPT ![w] = x]
    <3>1. \E x : workers' = [workers EXCEPT ![w] = x]
      BY <1>9, AddPacketStores DEF TypeInv, WorkerType
    <3> QED
      BY <1>9, <3>1, AddPacketStores DEF EntryBecomes
  <2>2. workers[w].pc \notin Clears
    BY <2>1 DEF Clears
  <2> QED
    BY <1>1, <2>1, <2>2, SameOwned DEF wireVars
<1> QED
  BY <1>2, <1>3, <1>4, <1>5, <1>6, <1>7, <1>8, <1>9, NotifyOwned, DoneOwned, CleanupOwned, NextSteps DEF QuietStep

-----------------------------------------------------------------------------
(* The steps that leave every packet where it is *)

\* No packet is sent, taken or counted, though one may be lost or dropped.
WorkersStay ==
    \A v \in Workers :
        /\ workers[v].pc \in After => workers'[v] = workers[v]
        /\ workers'[v].pc \in After => workers'[v] = workers[v]
        /\ workers'[v].pc \in Before => workers[v].pc \in Before /\ workers'[v].msg = workers[v].msg

NetStays == \A m \in net' : m.kind = "packet" => m \in net

ReceivedStay ==
    \A t \in DOMAIN trackers' :
        trackers'[t].received = IF t \in DOMAIN trackers THEN trackers[t].received ELSE [r \in Requests |-> {}]

\* The controller hears of a request from a worker that has not counted its packet.
HeardStay ==
    /\ Begins(heard, heard')
    /\ \A i \in DOMAIN heard' \ DOMAIN heard :
          /\ heard'[i].what # "done"
          /\ heard'[i].what = "request" =>
                \E w \in Workers : /\ workers[w].pc \in Notifying
                                   /\ heard'[i].rnti = RntiOf[workers[w].msg.key] /\ heard'[i].req = workers[w].msg.req

PacketsStay == UNCHANGED <<sent, added, completed, cut>> /\ NetStays /\ WorkersStay /\ ReceivedStay /\ HeardStay

LEMMA SameWorkers == UNCHANGED workers => WorkersStay
  BY DEF WorkersStay

LEMMA SameHeard == UNCHANGED heard => HeardStay
  BY DEF HeardStay, Begins

LEMMA SameNet == net' \subseteq net => NetStays
  BY DEF NetStays

LEMMA SameReceived == UNCHANGED trackers => ReceivedStay
  BY DEF ReceivedStay

LEMMA KeptReceived == EntriesKept => ReceivedStay
  BY DEF EntriesKept, ReceivedStay

LEMMA JoinStays == ASSUME NEW k, NEW n, TrackerJoins(k, n) PROVE ReceivedStay /\ HeardStay
<1>1. ReceivedStay
  BY DEF TrackerJoins, ReceivedStay
<1>2. HeardStay
  <2>1. Begins(heard, heard') /\ \A i \in DOMAIN heard' \ DOMAIN heard : heard'[i].what \in {"app", "new_ue"}
    BY DEF TrackerJoins
  <2> QED
    BY <2>1 DEF HeardStay
<1> QED
  BY <1>1, <1>2

LEMMA ControllerHears == ASSUME TypeInv, NEW w \in Workers, workers[w].pc \in Notifying, ControllerTold(w) PROVE HeardStay
<1>1. CASE heard' = heard
  BY <1>1, SameHeard
<1>2. ASSUME NEW x \in Tellings, heard' = Append(heard, x), x.what # "done",
             x.what = "request" => x.rnti = RntiOf[workers[w].msg.key] /\ x.req = workers[w].msg.req
      PROVE  HeardStay
  <2>1. Begins(heard, heard') /\ \A i \in DOMAIN heard' \ DOMAIN heard : heard'[i] = x
    BY <1>2, AppendBegins DEF TypeInv, WireType
  <2> QED
    BY <1>2, <2>1 DEF HeardStay
<1> QED
  BY <1>1, <1>2 DEF ControllerTold

\* A worker without a packet that gets idle, and others that stay.
LEMMA OtherWorkersStay ==
    ASSUME NEW w \in Workers, workers[w].pc \notin After, workers'[w].pc \notin Before \cup After,
           \A v \in Workers : v # w => workers'[v] = workers[v]
    PROVE  WorkersStay
  BY DEF WorkersStay

LEMMA PacketsStayStep ==
    ASSUME TypeInv, Next
    PROVE  \/ PacketsStay
           \/ \E k \in Keys : SendPacket(k)
           \/ \E w \in Workers : \E m \in net : Take(w, m) /\ m.kind = "packet"
           \/ \E w \in Workers : AddPacket(w) \/ DoneStep(w) \/ Escapes(w) \/ Respond(w)
<1>0. TrackersStay /\ WorkerType'
  BY StayStep, WorkerTypeStep
<1>i. "idle" \notin Before \cup After /\ "tracker" \notin Before \cup After /\ Idle.pc = "idle"
  BY DEF Before, Notifying, After, Idle, NotifySteps, ConnectSteps, LockSteps
<1>1. ASSUME NEW w \in Workers, workers[w].pc \notin After, workers' = [workers EXCEPT ![w] = Idle] PROVE WorkersStay
  <2>1. \A v \in Workers : workers'[v] = IF v = w THEN Idle ELSE workers[v]
    BY <1>0, <1>1, GetsIdle
  <2> QED
    BY <1>1, <1>i, <2>1, OtherWorkersStay
<1>2. ASSUME NEW w \in Workers, Register(w) PROVE PacketsStay
  <2>1. workers[w].pc \notin After /\ workers' = [workers EXCEPT ![w] = Idle]
    BY <1>2 DEF Register, After, LockSteps
  <2>2. UNCHANGED <<sent, added, completed, cut, net>>
    BY <1>2 DEF Register, clientVars, historyVars
  <2>3. ReceivedStay /\ HeardStay
    BY <1>2, RegisterTracks, JoinStays, SameReceived, SameHeard DEF trackVars, wireVars
  <2> QED
    BY <1>1, <2>1, <2>2, <2>3, SameNet DEF PacketsStay
<1>3. ASSUME NEW w \in Workers, Hello(w) PROVE PacketsStay
  <2>1. workers[w].pc \notin After /\ workers' = [workers EXCEPT ![w] = Idle]
    BY <1>3 DEF Hello, After, LockSteps
  <2>2. UNCHANGED <<sent, added, completed, cut, net>>
    BY <1>3 DEF Hello, clientVars, historyVars
  <2>3. ReceivedStay /\ HeardStay
    BY <1>3, HelloTracks, JoinStays, KeptReceived, SameHeard DEF wireVars
  <2> QED
    BY <1>1, <2>1, <2>2, <2>3, SameNet DEF PacketsStay
<1>4. ASSUME NEW w \in Workers, StoreRtt(w) PROVE PacketsStay
  <2>1. workers[w].pc \notin After /\ workers' = [workers EXCEPT ![w] = Idle]
    BY <1>4 DEF StoreRtt, After, LockSteps
  <2>2. UNCHANGED <<sent, added, completed, cut, net, heard>>
    BY <1>4 DEF StoreRtt, clientVars, historyVars, wireVars
  <2>3. ReceivedStay
    BY <1>4, StoreRttKeeps, KeptReceived
  <2> QED
    BY <1>1, <2>1, <2>2, <2>3, SameNet, SameHeard DEF PacketsStay
<1>5. ASSUME NEW w \in Workers, FindPort(w) PROVE PacketsStay
  <2>1. UNCHANGED <<sent, added, completed, cut, net, heard, trackers>>
    BY <1>5 DEF FindPort, clientVars, historyVars, wireVars, trackVars
  <2>2. WorkersStay
    <3>1. /\ workers[w].pc = "hello" /\ workers'[w].pc = "tracker"
          /\ \A v \in Workers : v # w => workers'[v] = workers[v]
      BY <1>0, <1>5, FindPortTypes
    <3>2. workers[w].pc \notin After
      BY <3>1 DEF After, LockSteps
    <3> QED
      BY <1>i, <3>1, <3>2, OtherWorkersStay
  <2> QED
    BY <2>1, <2>2, SameNet, SameHeard, SameReceived DEF PacketsStay
<1>6. ASSUME NEW w \in Workers, Lookup(w) PROVE PacketsStay
  <2>1. UNCHANGED <<sent, added, completed, cut, net, heard, trackers>>
    BY <1>6 DEF Lookup, clientVars, historyVars, wireVars, trackVars
  <2>2. /\ workers[w].pc \in Before /\ workers[w].pc \notin After
        /\ \A v \in Workers : v # w => workers'[v] = workers[v]
        /\ workers'[w].pc \notin After
        /\ workers'[w].pc \in Before => workers'[w].msg = workers[w].msg
    <3>1. /\ workers[w].pc = "lookup"
          /\ \A v \in Workers : v # w => workers'[v] = workers[v]
          /\ workers'[w] = Idle \/ (workers'[w].pc \in Before /\ workers'[w].msg = workers[w].msg)
      BY <1>0, <1>6, LookupTypes
    <3>2. "lookup" \in Before /\ "lookup" \notin After /\ (\A p \in Before : p \notin After)
      BY DEF Before, Notifying, After, NotifySteps, ConnectSteps, LockSteps
    <3> QED
      BY <1>i, <3>1, <3>2
  <2>3. WorkersStay
    BY <2>2 DEF WorkersStay
  <2> QED
    BY <2>1, <2>3, SameNet, SameHeard, SameReceived DEF PacketsStay
<1>7. ASSUME NEW w \in Workers, NotifyStep(w) PROVE PacketsStay
  <2>1. workers[w].pc \in Notifying /\ UNCHANGED <<sent, added, completed, cut, net>>
    BY <1>7, NotifyMoves DEF clientVars, historyVars
  <2>2. PICK p \in Notifying \cup {"add"} : workers' = [workers EXCEPT ![w].pc = p]
    BY <1>7, NotifyMoves
  <2>3. WorkersStay
    <3>1. workers[w] \in Busy
      BY <2>1, HeldTracker DEF Notifying, TrackerSteps, NotifySteps, ConnectSteps, LockSteps
    <3>2. /\ workers'[w].pc = p /\ workers'[w].msg = workers[w].msg
          /\ \A v \in Workers : v # w => workers'[v] = workers[v]
      BY <2>2, <3>1 DEF TypeInv, WorkerType, Busy
    <3>3. p \in Before /\ p \notin After /\ workers[w].pc \in Before /\ workers[w].pc \notin After
      BY <2>1, <2>2 DEF Before, Notifying, After, NotifySteps, ConnectSteps, LockSteps
    <3> QED
      BY <3>2, <3>3 DEF WorkersStay
  <2>4. ReceivedStay /\ HeardStay
    BY <1>7, <2>1, NotifyStored, KeptReceived, ControllerHears
  <2> QED
    BY <2>1, <2>3, <2>4, SameNet DEF PacketsStay
<1>8. ASSUME NEW w \in Workers, NEW m \in net, Take(w, m), m.kind # "packet" PROVE PacketsStay
  <2>1. UNCHANGED <<sent, added, completed, cut, heard, trackers>> /\ net' \subseteq net /\ workers[w] = Idle
    BY <1>8 DEF Take, clientVars, historyVars, trackVars
  <2>2. workers[w].pc \notin After /\ m.kind \notin Before \cup After
    <3>1. m.kind \in {"register", "hello", "rtt"}
      BY <1>8 DEF TypeInv, ClientType, Datagrams
    <3> QED
      BY <1>i, <2>1, <3>1 DEF Before, Notifying, After, NotifySteps, ConnectSteps, LockSteps
  <2>3. workers'[w].pc = m.kind /\ \A v \in Workers : v # w => workers'[v] = workers[v]
    BY <1>0, <1>8, TakeTypes
  <2> QED
    BY <2>1, <2>2, <2>3, OtherWorkersStay, SameNet, SameHeard, SameReceived DEF PacketsStay
<1>9. ASSUME NEW m \in net, Lose(m) PROVE PacketsStay
  <2>1. UNCHANGED <<sent, added, completed, cut, heard, trackers, workers>> /\ net' \subseteq net
    BY <1>9 DEF Lose, serverVars, clientVars, historyVars, trackVars, wireVars
  <2> QED
    BY <2>1, SameWorkers, SameNet, SameHeard, SameReceived DEF PacketsStay
<1>10. ASSUME NEW k \in Keys, SendRegistration(k) \/ SendHello(k) \/ SendRtt(k) PROVE PacketsStay
  <2>1. UNCHANGED <<sent, added, completed, cut, heard, trackers, workers>>
    BY <1>10 DEF SendRegistration, SendHello, SendRtt, serverVars, clientVars, historyVars, trackVars, wireVars
  <2>2. PICK m : net' = net \cup {m} /\ m.kind # "packet"
    <3>1. CASE SendRegistration(k)
      <4>1. [kind |-> "register", key |-> k].kind # "packet"
        OBVIOUS
      <4> QED
        BY <3>1, <4>1 DEF SendRegistration
    <3>2. CASE SendHello(k)
      <4>1. PICK r : net' = net \cup {[kind |-> "hello", key |-> k, round |-> r]}
        BY <3>2 DEF SendHello
      <4>2. [kind |-> "hello", key |-> k, round |-> r].kind # "packet"
        OBVIOUS
      <4> QED
        BY <4>1, <4>2
    <3>3. CASE SendRtt(k)
      <4>1. [kind |-> "rtt", key |-> k, round |-> hellos[k]].kind # "packet"
        OBVIOUS
      <4> QED
        BY <3>3, <4>1 DEF SendRtt
    <3> QED
      BY <1>10, <3>1, <3>2, <3>3
  <2>3. NetStays
    BY <2>2 DEF NetStays
  <2> QED
    BY <2>1, <2>3, SameWorkers, SameHeard, SameReceived DEF PacketsStay
<1>11. ASSUME NEW k \in Keys, Silence(k) \/ Inspect(k) \/ Forget(k) PROVE PacketsStay
  <2>1. UNCHANGED <<sent, added, completed, cut, heard, trackers, workers, net>>
    BY <1>11 DEF Silence, Inspect, Forget, clientVars, historyVars, trackVars, wireVars
  <2> QED
    BY <2>1, SameNet, SameWorkers, SameHeard, SameReceived DEF PacketsStay
<1>12. CASE CloseTracker
  <2>1. UNCHANGED <<sent, added, completed, cut, heard, workers, net>> /\ EntriesKept
    BY <1>12, CloseTrackerKeeps DEF clientVars, historyVars
  <2> QED
    BY <2>1, KeptReceived, SameNet, SameWorkers, SameHeard DEF PacketsStay
<1>13. ASSUME NEW t \in DOMAIN trackers, RegistrationWaitOver(t) PROVE PacketsStay
  <2>1. UNCHANGED <<sent, added, completed, cut, heard, workers, net>>
    BY <1>13 DEF RegistrationWaitOver, clientVars, historyVars, wireVars
  <2> QED
    BY <1>13, <2>1, WaitOverKeeps, KeptReceived, SameNet, SameWorkers, SameHeard DEF PacketsStay
<1>14. ASSUME BeginCleanup \/ EndCleanup PROVE PacketsStay
  <2>1. UNCHANGED <<sent, added, completed, cut, heard, trackers, workers, net>>
    BY <1>14 DEF BeginCleanup, EndCleanup, clientVars, historyVars, trackVars, wireVars
  <2> QED
    BY <2>1, SameNet, SameWorkers, SameHeard, SameReceived DEF PacketsStay
<1> QED
  BY <1>2, <1>3, <1>4, <1>5, <1>6, <1>7, <1>8, <1>9, <1>10, <1>11, <1>12, <1>13, <1>14, NextSteps DEF QuietStep

-----------------------------------------------------------------------------
(* What the other steps do with a packet *)

SentBy(k) == [kind |-> "packet", key |-> k, req |-> 1 + sent[k] \div Packets, seq |-> sent[k] % Packets]

LEMMA PacketSent ==
    ASSUME TypeInv, NEW k \in Keys, SendPacket(k)
    PROVE  /\ sent' = [sent EXCEPT ![k] = @ + 1] /\ net' = net \cup {SentBy(k)}
           /\ UNCHANGED <<hellos, rtts, acked, welcomed, trackers, ue_trackers, lastActive, workers, cpc, todo,
                          heard, added, completed, cut>>
  BY DEF SendPacket, SentBy, serverVars, replyVars, trackVars, cleanVars, wireVars, historyVars

LEMMA PacketTaken ==
    ASSUME TypeInv, NEW w \in Workers, NEW m \in net, Take(w, m), m.kind = "packet"
    PROVE  /\ UNCHANGED <<sent, trackers, heard, added, completed, cut>>
           /\ net' = net \ {m} \/ (net' = net /\ "duplicate" \in Faults)
           /\ workers[w] = Idle /\ workers'[w].pc = "lookup" /\ workers'[w].msg = m
           /\ \A v \in Workers : v # w => workers'[v] = workers[v]
<1>1. TrackersStay
  <2>1. trackers' = trackers
    BY DEF Take, trackVars
  <2> QED
    BY <2>1, NoStore, KeptStay
<1>2. /\ \A v \in Workers : v # w => workers'[v] = workers[v]
      /\ workers'[w].msg = m /\ workers'[w].pc = "lookup"
  BY <1>1, TakeTypes
<1> QED
  BY <1>2 DEF Take, clientVars, trackVars, historyVars

\* A worker's packet is counted; it is done with it, or completes the request.
LEMMA PacketCounted ==
    ASSUME TypeInv, NEW w \in Workers, AddPacket(w)
    PROVE  LET received == trackers[workers[w].held].received[workers[w].msg.req] \cup {workers[w].msg.seq} IN
           /\ UNCHANGED <<sent, net, heard, completed, cut, ue_trackers, lastActive, cpc, todo>>
           /\ workers[w].pc = "add" /\ workers[w] \in Busy /\ workers[w].held \in DOMAIN trackers
           /\ workers[w].msg.req \in Requests /\ workers[w].msg.seq \in SeqNums
           /\ workers[w].msg.kind = "packet" /\ workers[w].msg \in Datagrams
           /\ trackers[workers[w].held].key = workers[w].msg.key
           /\ Others(w) = {}
           /\ added' = added \cup {<<workers[w].held, workers[w].msg.req, workers[w].msg.seq>>}
           /\ \A v \in Workers : v # w => workers'[v] = workers[v]
           /\ \/ received # SeqNums /\ EntryBecomes(w, received) /\ workers'[w].pc = "idle"
              \/ /\ received = SeqNums
                 /\ \/ EntryBecomes(w, received) /\ workers'[w].pc = "tell"
                    \/ EntryBecomes(w, {}) /\ workers'[w].pc = "respond"
                 /\ workers'[w].msg = workers[w].msg /\ workers'[w].held = workers[w].held
<1> DEFINE received == trackers[workers[w].held].received[workers[w].msg.req] \cup {workers[w].msg.seq}
<1>1. /\ workers[w].pc = "add" /\ UNCHANGED <<sent, net, heard, completed, cut, ue_trackers, lastActive, cpc, todo>>
      /\ Others(w) = {}
  BY AddPacketStores DEF AddPacket, CountPacket, clientVars, wireVars, cleanVars
<1>2. workers[w].pc \in TrackerSteps
  BY <1>1 DEF TrackerSteps, NotifySteps, ConnectSteps, LockSteps
<1>3. /\ workers[w] \in Busy /\ workers[w].msg \in Datagrams /\ workers[w].msg.kind = "packet"
      /\ workers[w].msg.req \in Requests /\ workers[w].msg.seq \in SeqNums
      /\ workers[w].held \in DOMAIN trackers /\ Tracker(w) = trackers[workers[w].held]
      /\ trackers[workers[w].held].key = workers[w].msg.key
  BY <1>2, HeldTracker
<1>4. /\ added' = added \cup {<<workers[w].held, workers[w].msg.req, workers[w].msg.seq>>}
      /\ \/ received # SeqNums /\ EntryBecomes(w, received) /\ workers' = [workers EXCEPT ![w] = Idle]
         \/ received = SeqNums /\ EntryBecomes(w, received) /\ workers' = [workers EXCEPT ![w].pc = "tell"]
         \/ received = SeqNums /\ EntryBecomes(w, {}) /\ workers' = [workers EXCEPT ![w].pc = "respond"]
  BY <1>3, AddPacketStores DEF Received
<1>5. workers \in [Workers -> Busy \cup {Idle}] /\ Idle.pc = "idle"
  BY DEF TypeInv, WorkerType, Idle
<1> HIDE DEF received
<1>6. CASE received # SeqNums /\ EntryBecomes(w, received) /\ workers' = [workers EXCEPT ![w] = Idle]
  BY <1>1, <1>3, <1>4, <1>5, <1>6 DEF received
<1>7. ASSUME NEW p, workers' = [workers EXCEPT ![w].pc = p]
      PROVE  /\ \A v \in Workers : v # w => workers'[v] = workers[v]
             /\ workers'[w].pc = p /\ workers'[w].msg = workers[w].msg /\ workers'[w].held = workers[w].held
  BY <1>3, <1>5, <1>7 DEF Busy
<1>8. CASE received = SeqNums /\ EntryBecomes(w, received) /\ workers' = [workers EXCEPT ![w].pc = "tell"]
  BY <1>1, <1>3, <1>4, <1>7, <1>8 DEF received
<1>9. CASE received = SeqNums /\ EntryBecomes(w, {}) /\ workers' = [workers EXCEPT ![w].pc = "respond"]
  BY <1>1, <1>3, <1>4, <1>7, <1>9 DEF received
<1> QED
  BY <1>4, <1>6, <1>8, <1>9

\* It goes on completing the request, or has: its entry is deleted.
LEMMA RequestDone ==
    ASSUME TypeInv, NEW w \in Workers, DoneStep(w)
    PROVE  /\ UNCHANGED <<sent, net, added, completed, cut, ue_trackers, lastActive, cpc, todo>>
           /\ workers[w].pc \in LockSteps /\ workers[w].held \in DOMAIN trackers /\ workers[w].msg.req \in Requests
           /\ workers[w].msg.key \in Keys /\ trackers[workers[w].held].key = workers[w].msg.key
           /\ \A v \in Workers : v # w => workers'[v] = workers[v]
           /\ workers'[w].msg = workers[w].msg /\ workers'[w].held = workers[w].held
           /\ \/ workers'[w].pc \in LockSteps /\ EntriesKept /\ heard' = heard
              \/ /\ workers'[w].pc = "respond" /\ EntryBecomes(w, {})
                 /\ \/ heard' = heard
                    \/ \E x \in Tellings : /\ heard' = Append(heard, x) /\ x.what = "done"
                                           /\ x.rnti = RntiOf[workers[w].msg.key] /\ x.req = workers[w].msg.req
<1>1. workers[w].pc \in LockSteps /\ workers[w].pc \in TrackerSteps
  BY DoneMoves DEF TrackerSteps
<1>2. /\ workers[w].msg.req \in Requests /\ workers[w].msg.key \in Keys
      /\ workers[w].held \in DOMAIN trackers /\ trackers[workers[w].held].key = workers[w].msg.key
  BY <1>1, HeldTracker
<1>3. UNCHANGED <<sent, net, added, completed, cut, ue_trackers, lastActive, cpc, todo>>
  BY DoneMoves DEF clientVars, cleanVars, historyVars
<1>4. ASSUME NEW p, workers' = [workers EXCEPT ![w].pc = p]
      PROVE  /\ \A v \in Workers : v # w => workers'[v] = workers[v]
             /\ workers'[w].pc = p /\ workers'[w].msg = workers[w].msg /\ workers'[w].held = workers[w].held
  BY <1>1, <1>4, Goes
<1>5. CASE /\ EntriesKept /\ heard' = heard
           /\ \E to \in LockSteps : workers' = [workers EXCEPT ![w].pc = to]
  BY <1>1, <1>2, <1>3, <1>4, <1>5
<1>6. CASE /\ EntryBecomes(w, {}) /\ workers' = [workers EXCEPT ![w].pc = "respond"]
           /\ \/ heard' = heard
              \/ \E x \in Tellings : /\ heard' = Append(heard, x) /\ x.what = "done"
                                     /\ x.rnti = RntiOf[workers[w].msg.key] /\ x.req = workers[w].msg.req
  BY <1>1, <1>2, <1>3, <1>4, <1>6
<1> QED
  BY <1>5, <1>6, DoneStores

\* It leaves its packet: the request has been cut.
LEMMA PacketCut ==
    ASSUME TypeInv, NEW w \in Workers, Escapes(w)
    PROVE  /\ UNCHANGED <<sent, net, added, completed, heard, trackers, ue_trackers, lastActive, cpc, todo>>
           /\ workers[w].pc \in TrackerSteps /\ workers[w].held \in DOMAIN trackers
           /\ trackers[workers[w].held].key = workers[w].msg.key
           /\ workers[w].msg.key \in Keys /\ workers[w].msg.req \in Requests
           /\ workers'[w].pc = "idle" /\ \A v \in Workers : v # w => workers'[v] = workers[v]
           /\ cut' = cut \cup {<<workers[w].msg.key, workers[w].msg.req>>}
<1>1. /\ workers[w].pc \in TrackerSteps /\ workers' = [workers EXCEPT ![w] = Idle]
      /\ cut' = cut \cup {<<workers[w].msg.key, workers[w].msg.req>>}
      /\ UNCHANGED <<sent, net, added, completed, heard, trackers, ue_trackers, lastActive, cpc, todo>>
  BY HandlingEnds DEF clientVars, trackVars, cleanVars, wireVars
<1>2. workers'[w].pc = "idle" /\ \A v \in Workers : v # w => workers'[v] = workers[v]
  BY <1>1 DEF TypeInv, WorkerType, Idle
<1> QED
  BY <1>1, <1>2, HeldTracker

LEMMA RequestAnswered ==
    ASSUME TypeInv, NEW w \in Workers, Respond(w)
    PROVE  /\ UNCHANGED <<sent, net, added, cut, heard, trackers, ue_trackers, lastActive, cpc, todo>>
           /\ workers[w].pc = "respond" /\ workers[w].held \in DOMAIN trackers /\ workers[w].msg.req \in Requests
           /\ workers[w].msg.key \in Keys /\ trackers[workers[w].held].key = workers[w].msg.key
           /\ workers'[w].pc = "idle" /\ \A v \in Workers : v # w => workers'[v] = workers[v]
           /\ completed' \in Seq(Completions) /\ DOMAIN completed' = DOMAIN completed \cup {Len(completed) + 1}
           /\ Len(completed) + 1 \notin DOMAIN completed
           /\ \A i \in DOMAIN completed : completed'[i] = completed[i]
           /\ completed'[Len(completed) + 1].tracker = workers[w].held
           /\ completed'[Len(completed) + 1].key = workers[w].msg.key
           /\ completed'[Len(completed) + 1].req = workers[w].msg.req
<1>1. workers[w].pc = "respond" /\ workers[w].pc \in TrackerSteps
  BY DEF Respond, TrackerSteps, NotifySteps, ConnectSteps, LockSteps
<1>2. /\ workers[w] \in Busy /\ workers[w].msg.req \in Requests /\ workers[w].msg.key \in Keys
      /\ workers[w].held \in DOMAIN trackers /\ trackers[workers[w].held].key = workers[w].msg.key
      /\ Tracker(w) \in Trackers
  BY <1>1, HeldTracker
<1>3. UNCHANGED <<sent, net, added, cut, heard, trackers, ue_trackers, lastActive, cpc, todo>>
  BY DEF Respond, clientVars, trackVars, cleanVars, wireVars
<1>4. workers'[w].pc = "idle" /\ \A v \in Workers : v # w => workers'[v] = workers[v]
  BY DEF Respond, TypeInv, WorkerType, Idle
<1> DEFINE x == [tracker |-> workers[w].held, key |-> workers[w].msg.key, req |-> workers[w].msg.req,
                 port |-> Tracker(w).port, c0 |-> Tracker(w).c0, t1 |-> Tracker(w).t1]
<1>5. /\ x \in Completions /\ x.tracker = workers[w].held /\ x.key = workers[w].msg.key
      /\ x.req = workers[w].msg.req
  BY <1>2 DEF Completions, Trackers, Busy
<1>6. completed' = Append(completed, x) /\ completed \in Seq(Completions)
  BY DEF Respond, TypeInv, WireType
<1> HIDE DEF x
<1>7. /\ completed' \in Seq(Completions) /\ DOMAIN completed' = DOMAIN completed \cup {Len(completed) + 1}
      /\ Len(completed) + 1 \notin DOMAIN completed
      /\ \A i \in DOMAIN completed : completed'[i] = completed[i]
      /\ completed'[Len(completed) + 1] = x
  BY <1>5, <1>6, AppendSeq
<1> QED
  BY <1>1, <1>2, <1>3, <1>4, <1>5, <1>7

-----------------------------------------------------------------------------
(* What is held and what is complete has been counted *)

LEMMA EntriesStep == TypeInv /\ EntriesCounted /\ Next => EntriesCounted'
<1> SUFFICES ASSUME TypeInv, EntriesCounted, Next PROVE EntriesCounted'
  OBVIOUS
<1>0. TrackersStay
  BY StayStep
<1>1. CASE PacketsStay
  BY <1>1 DEF PacketsStay, ReceivedStay, EntriesCounted
<1>2. ASSUME UNCHANGED <<trackers, added>> PROVE EntriesCounted'
  BY <1>2 DEF EntriesCounted
<1>3. ASSUME NEW w \in Workers, NEW x, EntryBecomes(w, x), added \subseteq added',
             \A s \in x : <<workers[w].held, workers[w].msg.req, s>> \in added'
      PROVE  EntriesCounted'
  BY ZenonT(40), <1>3 DEF EntryBecomes, EntriesCounted
<1>4. ASSUME NEW w \in Workers, AddPacket(w) PROVE EntriesCounted'
  <2> DEFINE t == workers[w].held
             r == workers[w].msg.req
             received == trackers[t].received[r] \cup {workers[w].msg.seq}
  <2>1. t \in DOMAIN trackers /\ r \in Requests /\ added' = added \cup {<<t, r, workers[w].msg.seq>>}
    BY <1>4, PacketCounted
  <2>2. \A s \in received : <<t, r, s>> \in added'
    BY <2>1 DEF EntriesCounted
  <2>3. added \subseteq added' /\ (EntryBecomes(w, received) \/ EntryBecomes(w, {}))
    BY <1>4, PacketCounted
  <2> HIDE DEF received
  <2> QED
    BY <1>3, <2>2, <2>3
<1>5. ASSUME NEW w \in Workers, DoneStep(w) PROVE EntriesCounted'
  <2>1. added' = added
    BY <1>5, RequestDone
  <2>2. CASE EntriesKept
    BY <2>1, <2>2 DEF EntriesKept, EntriesCounted
  <2> QED
    BY <1>3, <1>5, <2>1, <2>2, RequestDone
<1> QED
  BY <1>1, <1>2, <1>4, <1>5, PacketsStayStep, PacketSent, PacketTaken, PacketCut, RequestAnswered

LEMMA WorkersCountedStep == TypeInv /\ EntriesCounted /\ WorkersCounted /\ Next => WorkersCounted'
<1> SUFFICES ASSUME TypeInv, EntriesCounted, WorkersCounted, Next PROVE WorkersCounted'
  OBVIOUS
<1>1. ASSUME added \subseteq added', NEW v \in Workers, workers[v].pc \in After,
             workers'[v].msg = workers[v].msg, workers'[v].held = workers[v].held
      PROVE  \A s \in SeqNums : <<workers'[v].held, workers'[v].msg.req, s>> \in added'
  BY <1>1 DEF WorkersCounted, CountedAll, After, LockSteps
<1>2. ASSUME added \subseteq added',
             \A v \in Workers : workers'[v].pc \in After =>
                 /\ workers[v].pc \in After
                 /\ workers'[v].msg = workers[v].msg /\ workers'[v].held = workers[v].held
      PROVE  WorkersCounted'
  BY <1>1, <1>2 DEF WorkersCounted, CountedAll, After, LockSteps
<1>3. CASE PacketsStay
  BY <1>2, <1>3 DEF PacketsStay, WorkersStay
<1>4. ASSUME NEW k \in Keys, SendPacket(k) PROVE WorkersCounted'
  BY <1>2, <1>4, PacketSent
<1>5. ASSUME NEW w \in Workers, NEW m \in net, Take(w, m), m.kind = "packet" PROVE WorkersCounted'
  <2>1. "lookup" \notin After
    BY DEF After, LockSteps
  <2>2. added' = added /\ \A v \in Workers : v # w => workers'[v] = workers[v]
    BY <1>5, PacketTaken
  <2>3. workers'[w].pc \notin After
    BY <1>5, <2>1, PacketTaken
  <2> QED
    BY <1>2, <2>2, <2>3
<1>6. ASSUME NEW w \in Workers, AddPacket(w) PROVE WorkersCounted'
  <2> DEFINE t == workers[w].held
             r == workers[w].msg.req
             received == trackers[t].received[r] \cup {workers[w].msg.seq}
  <2>1. t \in DOMAIN trackers /\ r \in Requests /\ added' = added \cup {<<t, r, workers[w].msg.seq>>}
        /\ \A v \in Workers : v # w => workers'[v] = workers[v]
    BY <1>6, PacketCounted
  <2>2. \A s \in received : <<t, r, s>> \in added'
    BY <2>1 DEF EntriesCounted
  <2>3. \/ workers'[w].pc = "idle"
        \/ received = SeqNums /\ workers'[w].msg = workers[w].msg /\ workers'[w].held = t
    BY <1>6, PacketCounted
  <2>4. "idle" \notin After
    BY DEF After, LockSteps
  <2> HIDE DEF received
  <2>5. ASSUME NEW v \in Workers, workers'[v].pc \in After
        PROVE  \A s \in SeqNums : <<workers'[v].held, workers'[v].msg.req, s>> \in added'
    <3>1. CASE v = w
      BY <2>2, <2>3, <2>4, <2>5, <3>1
    <3>2. CASE v # w
      BY <1>1, <2>1, <2>5, <3>2
    <3> QED
      BY <3>1, <3>2
  <2> QED
    BY <2>5 DEF WorkersCounted, CountedAll, After, LockSteps
<1>7. ASSUME NEW w \in Workers, DoneStep(w) PROVE WorkersCounted'
  <2>1. /\ added' = added /\ workers[w].pc \in After
        /\ workers'[w].msg = workers[w].msg /\ workers'[w].held = workers[w].held
        /\ \A v \in Workers : v # w => workers'[v] = workers[v]
    BY <1>7, RequestDone DEF After
  <2> QED
    BY <1>2, <2>1
<1>8. ASSUME NEW w \in Workers, Respond(w) \/ Escapes(w) PROVE WorkersCounted'
  <2>1. /\ added' = added /\ workers'[w].pc = "idle"
        /\ \A v \in Workers : v # w => workers'[v] = workers[v]
    BY <1>8, RequestAnswered, PacketCut
  <2> QED
    BY <1>2, <2>1 DEF After, LockSteps
<1> QED
  BY <1>3, <1>4, <1>5, <1>6, <1>7, <1>8, PacketsStayStep

LEMMA CompletedStep == TypeInv /\ WorkersCounted /\ CompletedCounted /\ Next => CompletedCounted'
<1> SUFFICES ASSUME TypeInv, WorkersCounted, CompletedCounted, Next PROVE CompletedCounted'
  OBVIOUS
<1>0. TrackersStay
  BY StayStep
<1>1. ASSUME added \subseteq added', completed' = completed PROVE CompletedCounted'
  BY <1>0, <1>1 DEF CompletedCounted, CountedAll, TrackersStay
<1>2. ASSUME NEW w \in Workers, Respond(w) PROVE CompletedCounted'
  <2> DEFINE n == Len(completed) + 1
  <2>1. /\ added' = added /\ trackers' = trackers /\ DOMAIN completed' = DOMAIN completed \cup {n}
        /\ \A i \in DOMAIN completed : completed'[i] = completed[i]
    BY <1>2, RequestAnswered
  <2>2. /\ completed'[n].tracker = workers[w].held /\ completed'[n].req = workers[w].msg.req
        /\ completed'[n].key = workers[w].msg.key
        /\ workers[w].held \in DOMAIN trackers /\ trackers[workers[w].held].key = workers[w].msg.key
    BY <1>2, RequestAnswered
  <2>3. \A s \in SeqNums : <<workers[w].held, workers[w].msg.req, s>> \in added
    BY <1>2, RequestAnswered DEF WorkersCounted, CountedAll, After
  <2> HIDE DEF n
  <2> QED
    BY <2>1, <2>2, <2>3 DEF CompletedCounted, CountedAll
<1>3. ASSUME NEW w \in Workers, AddPacket(w) PROVE added \subseteq added' /\ completed' = completed
  BY <1>3, PacketCounted
<1> QED
  BY <1>1, <1>2, <1>3, PacketsStayStep, PacketSent, PacketTaken, RequestDone, PacketCut DEF PacketsStay

LEMMA HeardStep == TypeInv /\ WorkersCounted /\ HeardCounted /\ Next => HeardCounted'
<1> SUFFICES ASSUME TypeInv, WorkersCounted, HeardCounted, Next PROVE HeardCounted'
  OBVIOUS
<1>0. TrackersStay
  BY StayStep
<1>1. ASSUME added \subseteq added', NEW i \in DOMAIN heard, heard[i].what = "done"
      PROVE  \E t \in DOMAIN trackers' : /\ RntiOf[trackers'[t].key] = heard[i].rnti
                                         /\ \A s \in SeqNums : <<t, heard[i].req, s>> \in added'
  <2>1. PICK t \in DOMAIN trackers : RntiOf[trackers[t].key] = heard[i].rnti /\ CountedAll(t, heard[i].req)
    BY <1>1 DEF HeardCounted
  <2>2. t \in DOMAIN trackers' /\ trackers'[t].key = trackers[t].key
    BY <1>0 DEF TrackersStay
  <2> QED
    BY <1>1, <2>1, <2>2 DEF CountedAll
<1>2. ASSUME added \subseteq added', HeardStay PROVE HeardCounted'
  <2> SUFFICES ASSUME NEW i \in DOMAIN heard', heard'[i].what = "done"
               PROVE  \E t \in DOMAIN trackers' : /\ RntiOf[trackers'[t].key] = heard'[i].rnti
                                                  /\ \A s \in SeqNums : <<t, heard'[i].req, s>> \in added'
    BY DEF HeardCounted, CountedAll
  <2>1. i \in DOMAIN heard /\ heard'[i] = heard[i]
    BY <1>2 DEF HeardStay, Begins
  <2> QED
    BY <1>1, <1>2, <2>1
<1>3. ASSUME NEW w \in Workers, DoneStep(w) PROVE HeardCounted'
  <2>1. added' = added
    BY <1>3, RequestDone
  <2>2. CASE heard' = heard
    BY <1>2, <2>1, <2>2, SameHeard
  <2>3. ASSUME NEW x \in Tellings, heard' = Append(heard, x), x.what = "done",
               x.rnti = RntiOf[workers[w].msg.key], x.req = workers[w].msg.req
        PROVE  HeardCounted'
    <3> SUFFICES ASSUME NEW i \in DOMAIN heard', heard'[i].what = "done"
                 PROVE  \E t \in DOMAIN trackers' : /\ RntiOf[trackers'[t].key] = heard'[i].rnti
                                                    /\ \A s \in SeqNums : <<t, heard'[i].req, s>> \in added'
      BY DEF HeardCounted, CountedAll
    <3>1. (i \in DOMAIN heard /\ heard'[i] = heard[i]) \/ heard'[i] = x
      BY <2>3, AppendBegins DEF TypeInv, WireType, Begins
    <3>2. /\ \A s \in SeqNums : <<workers[w].held, workers[w].msg.req, s>> \in added'
          /\ workers[w].held \in DOMAIN trackers' /\ trackers'[workers[w].held].key = workers[w].msg.key
      <4>1. workers[w].pc \in After /\ workers[w].held \in DOMAIN trackers
            /\ trackers[workers[w].held].key = workers[w].msg.key
        BY <1>3, RequestDone DEF After
      <4> QED
        BY <4>1, <2>1, <1>0 DEF WorkersCounted, CountedAll, TrackersStay
    <3> QED
      BY <1>1, <2>1, <2>3, <3>1, <3>2
  <2> QED
    BY <1>3, <2>2, <2>3, RequestDone
<1>4. ASSUME NEW w \in Workers, AddPacket(w) PROVE added \subseteq added' /\ heard' = heard
  BY <1>4, PacketCounted
<1> QED
  BY <1>2, <1>3, <1>4, PacketsStayStep, SameHeard, PacketSent, PacketTaken, PacketCut, RequestAnswered
     DEF PacketsStay

LEMMA CountedStep == TypeInv /\ AllCounted /\ Next => AllCounted'
  BY EntriesStep, WorkersCountedStep, CompletedStep, HeardStep DEF AllCounted

-----------------------------------------------------------------------------
(* A packet is in one place *)

LEMMA HasPacket ==
    ASSUME TypeInv, NEW w \in Workers, workers[w].pc \in Before
    PROVE  /\ workers[w].msg \in Datagrams /\ workers[w].msg.kind = "packet" /\ workers[w].msg.key \in Keys
           /\ workers[w].msg.req \in Requests /\ workers[w].msg.seq \in SeqNums
<1>1. workers[w].pc # "idle" /\ workers[w].pc \in TrackerSteps \cup {"lookup"}
  BY DEF Before, Notifying, TrackerSteps, NotifySteps, ConnectSteps, LockSteps
<1>2. workers[w] \in Busy /\ InHand(w)
  BY <1>1, Handling DEF TypeInv
<1>3. workers[w].msg \in Datagrams /\ workers[w].msg.kind = "packet"
  BY <1>1, <1>2 DEF InHand, Busy
<1> QED
  BY <1>3, DatagramTypes

\* The next packet is a new one.
LEMMA PacketIsNew ==
    ASSUME TypeInv, NEW k \in Keys
    PROVE  ~IsSent(k, SentBy(k).req, SentBy(k).seq)
<1> SUFFICES ASSUME IsSent(k, SentBy(k).req, SentBy(k).seq) PROVE FALSE
  OBVIOUS
<1>1. sent[k] \in Nat
  BY DEF TypeInv, ClientType
<1>2. PICK i \in 0..(sent[k] - 1) : SentBy(k).req = 1 + i \div Packets /\ SentBy(k).seq = i % Packets
  BY DEF IsSent
<1>3. i \in Nat /\ i < sent[k]
  BY <1>1, <1>2
<1>4. i \div Packets \in Nat /\ sent[k] \div Packets \in Nat
  BY <1>1, <1>3, Quotient
<1>5. 1 + sent[k] \div Packets = 1 + i \div Packets /\ sent[k] % Packets = i % Packets
  BY <1>2 DEF SentBy
<1> DEFINE a == sent[k] \div Packets
           b == i \div Packets
<1>6. a = b
  <2>1. a \in Nat /\ b \in Nat /\ 1 + a = 1 + b
    BY <1>4, <1>5
  <2> HIDE DEF a, b
  <2> QED
    BY <2>1
<1>7. i = sent[k]
  BY <1>1, <1>3, <1>5, <1>6, PacketsDiffer
<1> QED
  BY <1>1, <1>3, <1>7

SentNow(k, req, seq) == \E i \in 0..(sent'[k] - 1) : req = 1 + i \div Packets /\ seq = i % Packets

CountedNow(k, req, seq) == \E t \in DOMAIN trackers' : trackers'[t].key = k /\ <<t, req, seq>> \in added'

LEMMA OnePlaceNow ==
    ASSUME \A m \in net' : m.kind = "packet" =>
               /\ SentNow(m.key, m.req, m.seq) /\ ~CountedNow(m.key, m.req, m.seq)
               /\ \A w \in Workers : workers'[w].pc \in Before => workers'[w].msg # m,
           \A w \in Workers : workers'[w].pc \in Before =>
               /\ SentNow(workers'[w].msg.key, workers'[w].msg.req, workers'[w].msg.seq)
               /\ ~CountedNow(workers'[w].msg.key, workers'[w].msg.req, workers'[w].msg.seq)
               /\ \A v \in Workers \ {w} : workers'[v].pc \in Before => workers'[v].msg # workers'[w].msg,
           \A x \in added' : x[1] \in DOMAIN trackers' /\ SentNow(trackers'[x[1]].key, x[2], x[3])
    PROVE  OnePlace'
  BY DEF OnePlace, IsSent, Counted, SentNow, CountedNow

Places ==
    /\ \A m \in net : m.kind = "packet" =>
          /\ IsSent(m.key, m.req, m.seq) /\ ~Counted(m.key, m.req, m.seq)
          /\ \A w \in Workers : workers[w].pc \in Before => workers[w].msg # m
    /\ \A w \in Workers : workers[w].pc \in Before =>
          /\ IsSent(workers[w].msg.key, workers[w].msg.req, workers[w].msg.seq)
          /\ ~Counted(workers[w].msg.key, workers[w].msg.req, workers[w].msg.seq)
          /\ \A v \in Workers \ {w} : workers[v].pc \in Before => workers[v].msg # workers[w].msg
    /\ \A x \in added : x[1] \in DOMAIN trackers /\ IsSent(trackers[x[1]].key, x[2], x[3])

\* Where nothing is counted.
LEMMA SameCounted ==
    ASSUME TrackersStay, Places, added' = added, NEW k, NEW req, NEW seq, CountedNow(k, req, seq)
    PROVE  Counted(k, req, seq)
<1>1. PICK t \in DOMAIN trackers' : trackers'[t].key = k /\ <<t, req, seq>> \in added
  BY DEF CountedNow
<1>2. <<t, req, seq>>[1] = t
  OBVIOUS
<1>3. t \in DOMAIN trackers
  BY <1>1, <1>2 DEF Places
<1> QED
  BY <1>1, <1>3 DEF TrackersStay, Counted

\* The packets counted were sent.
LEMMA CountedSent ==
    ASSUME TrackersStay, Places, added' = added,
           \A k \in Keys : \A req, seq : IsSent(k, req, seq) => SentNow(k, req, seq), TypeInv
    PROVE  \A x \in added' : x[1] \in DOMAIN trackers' /\ SentNow(trackers'[x[1]].key, x[2], x[3])
<1> SUFFICES ASSUME NEW x \in added PROVE x[1] \in DOMAIN trackers' /\ SentNow(trackers'[x[1]].key, x[2], x[3])
  OBVIOUS
<1>1. x[1] \in DOMAIN trackers /\ IsSent(trackers[x[1]].key, x[2], x[3])
  BY DEF Places
<1>2. trackers[x[1]].key \in Keys
  <2>1. trackers[x[1]] \in Trackers
    BY <1>1 DEF TypeInv, TableType
  <2> QED
    BY <2>1 DEF Trackers
<1> QED
  BY <1>1, <1>2 DEF TrackersStay

\* Where no packet is sent or counted.
LEMMA PlacesStay ==
    ASSUME TypeInv, TrackersStay, Places, UNCHANGED <<sent, added>>, NetStays,
           \A v \in Workers : workers'[v].pc \in Before => workers[v].pc \in Before /\ workers'[v].msg = workers[v].msg
    PROVE  OnePlace'
<1>1. \A k, req, seq : CountedNow(k, req, seq) => Counted(k, req, seq)
  BY SameCounted
<1>2. \A k, req, seq : IsSent(k, req, seq) => SentNow(k, req, seq)
  BY DEF IsSent, SentNow
<1>3. \A x \in added' : x[1] \in DOMAIN trackers' /\ SentNow(trackers'[x[1]].key, x[2], x[3])
  BY <1>2, CountedSent
<1>4. \A m \in net' : m.kind = "packet" =>
         /\ SentNow(m.key, m.req, m.seq) /\ ~CountedNow(m.key, m.req, m.seq)
         /\ \A w \in Workers : workers'[w].pc \in Before => workers'[w].msg # m
  BY <1>1, <1>2 DEF Places, NetStays
<1>5. \A w \in Workers : workers'[w].pc \in Before =>
         /\ SentNow(workers'[w].msg.key, workers'[w].msg.req, workers'[w].msg.seq)
         /\ ~CountedNow(workers'[w].msg.key, workers'[w].msg.req, workers'[w].msg.seq)
         /\ \A v \in Workers \ {w} : workers'[v].pc \in Before => workers'[v].msg # workers'[w].msg
  BY <1>1, <1>2 DEF Places
<1> QED
  BY <1>3, <1>4, <1>5, OnePlaceNow

LEMMA SendPlaces ==
    ASSUME TypeInv, TrackersStay, Places, NEW k \in Keys, SendPacket(k)
    PROVE  OnePlace'
<1> DEFINE p == SentBy(k)
<1>1. /\ sent \in [Keys -> Nat] /\ sent' = [sent EXCEPT ![k] = @ + 1] /\ net' = net \cup {p}
      /\ UNCHANGED <<trackers, workers, added>>
  BY PacketSent DEF TypeInv, ClientType
<1>2. ASSUME NEW j \in Keys, NEW req, NEW seq, IsSent(j, req, seq) PROVE SentNow(j, req, seq)
  <2>1. 0..(sent[j] - 1) \subseteq 0..(sent'[j] - 1)
    BY <1>1
  <2> QED
    BY <1>2, <2>1 DEF IsSent, SentNow
<1>3. SentNow(k, p.req, p.seq) /\ ~IsSent(k, p.req, p.seq) /\ p.key = k
  <2>1. sent[k] \in 0..(sent'[k] - 1)
    BY <1>1
  <2>2. p.req = 1 + sent[k] \div Packets /\ p.seq = sent[k] % Packets
    BY DEF SentBy
  <2>3. SentNow(k, p.req, p.seq)
    BY <2>1, <2>2 DEF SentNow
  <2> QED
    BY <2>3, PacketIsNew DEF SentBy
<1> HIDE DEF p
<1>4. \A j, req, seq : CountedNow(j, req, seq) => Counted(j, req, seq)
  BY <1>1, SameCounted
<1>5. \A x \in added' : x[1] \in DOMAIN trackers' /\ SentNow(trackers'[x[1]].key, x[2], x[3])
  BY <1>1, <1>2, CountedSent
<1>6. ~Counted(k, p.req, p.seq)
  <2> SUFFICES ASSUME NEW t \in DOMAIN trackers, trackers[t].key = k, <<t, p.req, p.seq>> \in added PROVE FALSE
    BY DEF Counted
  <2> DEFINE x == <<t, p.req, p.seq>>
  <2>1. x[1] = t /\ x[2] = p.req /\ x[3] = p.seq
    OBVIOUS
  <2> QED
    BY <1>3, <2>1 DEF Places
<1>7. \A w \in Workers : workers[w].pc \in Before => workers[w].msg # p
  BY <1>3 DEF Places
<1>8. \A m \in net : m.kind = "packet" => m.key \in Keys
  BY DatagramTypes DEF TypeInv, ClientType
<1>9. \A m \in net' : m.kind = "packet" =>
         /\ SentNow(m.key, m.req, m.seq) /\ ~CountedNow(m.key, m.req, m.seq)
         /\ \A w \in Workers : workers'[w].pc \in Before => workers'[w].msg # m
  BY <1>1, <1>2, <1>3, <1>4, <1>6, <1>7, <1>8 DEF Places
<1>10. \A w \in Workers : workers'[w].pc \in Before =>
         /\ SentNow(workers'[w].msg.key, workers'[w].msg.req, workers'[w].msg.seq)
         /\ ~CountedNow(workers'[w].msg.key, workers'[w].msg.req, workers'[w].msg.seq)
         /\ \A v \in Workers \ {w} : workers'[v].pc \in Before => workers'[v].msg # workers'[w].msg
  BY <1>1, <1>2, <1>4, HasPacket DEF Places
<1> QED
  BY <1>5, <1>9, <1>10, OnePlaceNow

LEMMA TakePlaces ==
    ASSUME TypeInv, TrackersStay, Places, "duplicate" \notin Faults,
           NEW w \in Workers, NEW m \in net, Take(w, m), m.kind = "packet"
    PROVE  OnePlace'
<1>1. /\ UNCHANGED <<sent, trackers, added>> /\ net' = net \ {m}
      /\ workers'[w].pc = "lookup" /\ workers'[w].msg = m
      /\ \A v \in Workers : v # w => workers'[v] = workers[v]
  BY PacketTaken
<1>2. \A k, req, seq : CountedNow(k, req, seq) => Counted(k, req, seq)
  BY <1>1, SameCounted
<1>3. \A k, req, seq : IsSent(k, req, seq) => SentNow(k, req, seq)
  BY <1>1 DEF IsSent, SentNow
<1>4. \A x \in added' : x[1] \in DOMAIN trackers' /\ SentNow(trackers'[x[1]].key, x[2], x[3])
  BY <1>1, <1>3, CountedSent
<1>5. \A n \in net' : n.kind = "packet" =>
         /\ SentNow(n.key, n.req, n.seq) /\ ~CountedNow(n.key, n.req, n.seq)
         /\ \A v \in Workers : workers'[v].pc \in Before => workers'[v].msg # n
  BY <1>1, <1>2, <1>3 DEF Places
<1>6. \A v \in Workers : workers'[v].pc \in Before =>
         /\ SentNow(workers'[v].msg.key, workers'[v].msg.req, workers'[v].msg.seq)
         /\ ~CountedNow(workers'[v].msg.key, workers'[v].msg.req, workers'[v].msg.seq)
         /\ \A u \in Workers \ {v} : workers'[u].pc \in Before => workers'[u].msg # workers'[v].msg
  BY <1>1, <1>2, <1>3 DEF Places
<1> QED
  BY <1>4, <1>5, <1>6, OnePlaceNow

LEMMA AddPlaces ==
    ASSUME TypeInv, TrackersStay, Places, NEW w \in Workers, AddPacket(w)
    PROVE  OnePlace'
<1> DEFINE p == workers[w].msg
           h == workers[w].held
<1>1. /\ UNCHANGED <<sent, net>> /\ workers[w].pc = "add" /\ h \in DOMAIN trackers /\ trackers[h].key = p.key
      /\ p \in Datagrams /\ p.kind = "packet"
      /\ added' = added \cup {<<h, p.req, p.seq>>}
      /\ \A v \in Workers : v # w => workers'[v] = workers[v]
  BY PacketCounted
<1>2. workers[w].pc \in Before /\ workers'[w].pc \notin Before
  <2>1. workers'[w].pc \in {"idle", "tell", "respond"}
    BY PacketCounted
  <2> QED
    BY <1>1, <2>1 DEF Before, Notifying, NotifySteps, ConnectSteps
<1>3. EntryBecomes(w, {}) \/ \E x : EntryBecomes(w, x)
  BY PacketCounted
<1>4. DOMAIN trackers' = DOMAIN trackers /\ \A t \in DOMAIN trackers : trackers'[t].key = trackers[t].key
  BY <1>3 DEF EntryBecomes
<1>5. ASSUME NEW k, NEW req, NEW seq, CountedNow(k, req, seq)
      PROVE  Counted(k, req, seq) \/ (k = p.key /\ req = p.req /\ seq = p.seq)
  <2>1. PICK t \in DOMAIN trackers : trackers[t].key = k /\ <<t, req, seq>> \in added'
    BY <1>4, <1>5 DEF CountedNow
  <2>2. <<t, req, seq>> \in added \/ <<t, req, seq>> = <<h, p.req, p.seq>>
    BY <1>1, <2>1
  <2>3. CASE <<t, req, seq>> \in added
    BY <2>1, <2>3 DEF Counted
  <2>4. CASE <<t, req, seq>> = <<h, p.req, p.seq>>
    <3>1. t = h /\ req = p.req /\ seq = p.seq
      BY <2>4
    <3> QED
      BY <1>1, <2>1, <3>1
  <2> QED
    BY <2>2, <2>3, <2>4
<1>6. \A k, req, seq : IsSent(k, req, seq) => SentNow(k, req, seq)
  BY <1>1 DEF IsSent, SentNow
<1>7. \A x \in added' : x[1] \in DOMAIN trackers' /\ SentNow(trackers'[x[1]].key, x[2], x[3])
  <2> SUFFICES ASSUME NEW x \in added' PROVE x[1] \in DOMAIN trackers' /\ SentNow(trackers'[x[1]].key, x[2], x[3])
    OBVIOUS
  <2>1. CASE x \in added
    BY <1>4, <1>6, <2>1 DEF Places
  <2>2. CASE x = <<h, p.req, p.seq>>
    <3>1. x[1] = h /\ x[2] = p.req /\ x[3] = p.seq
      BY <2>2
    <3>2. IsSent(p.key, p.req, p.seq)
      BY <1>2 DEF Places
    <3> QED
      BY <1>1, <1>4, <1>6, <3>1, <3>2
  <2> QED
    BY <1>1, <2>1, <2>2
<1>8. ASSUME NEW m \in Datagrams, m.kind = "packet", m # p, ~Counted(m.key, m.req, m.seq)
      PROVE  ~CountedNow(m.key, m.req, m.seq)
  <2>1. m.key # p.key \/ m.req # p.req \/ m.seq # p.seq
    BY <1>1, <1>8, DatagramTypes
  <2> QED
    BY <1>5, <1>8, <2>1
<1> HIDE DEF p, h
<1>9. \A m \in net' : m.kind = "packet" =>
         /\ SentNow(m.key, m.req, m.seq) /\ ~CountedNow(m.key, m.req, m.seq)
         /\ \A v \in Workers : workers'[v].pc \in Before => workers'[v].msg # m
  <2> SUFFICES ASSUME NEW m \in net, m.kind = "packet"
               PROVE  /\ SentNow(m.key, m.req, m.seq) /\ ~CountedNow(m.key, m.req, m.seq)
                      /\ \A v \in Workers : workers'[v].pc \in Before => workers'[v].msg # m
    BY <1>1
  <2>1. m \in Datagrams /\ m # p
    BY <1>2 DEF Places, p, TypeInv, ClientType
  <2> QED
    BY <1>1, <1>2, <1>6, <1>8, <2>1 DEF Places
<1>10. \A v \in Workers : workers'[v].pc \in Before =>
         /\ SentNow(workers'[v].msg.key, workers'[v].msg.req, workers'[v].msg.seq)
         /\ ~CountedNow(workers'[v].msg.key, workers'[v].msg.req, workers'[v].msg.seq)
         /\ \A u \in Workers \ {v} : workers'[u].pc \in Before => workers'[u].msg # workers'[v].msg
  <2> SUFFICES ASSUME NEW v \in Workers, workers'[v].pc \in Before
               PROVE  /\ SentNow(workers'[v].msg.key, workers'[v].msg.req, workers'[v].msg.seq)
                      /\ ~CountedNow(workers'[v].msg.key, workers'[v].msg.req, workers'[v].msg.seq)
                      /\ \A u \in Workers \ {v} : workers'[u].pc \in Before => workers'[u].msg # workers'[v].msg
    OBVIOUS
  <2>1. v # w /\ workers'[v] = workers[v] /\ workers[v].pc \in Before
    BY <1>1, <1>2
  <2>2. workers[v].msg # p /\ workers[v].msg \in Datagrams /\ workers[v].msg.kind = "packet"
    BY <1>2, <2>1, HasPacket DEF Places, p
  <2> QED
    BY <1>1, <1>2, <1>6, <1>8, <2>1, <2>2 DEF Places
<1> QED
  BY <1>7, <1>9, <1>10, OnePlaceNow

LEMMA OnePlaceStep == TypeInv /\ OnePlace /\ Next => OnePlace'
<1> SUFFICES ASSUME TypeInv, OnePlace, Next PROVE OnePlace'
  OBVIOUS
<1>1. CASE "duplicate" \in Faults
  BY <1>1 DEF OnePlace
<1>2. CASE "duplicate" \notin Faults
  <2>0. TrackersStay /\ Places
    BY <1>2, StayStep DEF OnePlace, Places
  <2>1. CASE PacketsStay
    BY <2>0, <2>1, PlacesStay DEF PacketsStay, WorkersStay
  <2>2. ASSUME NEW w \in Workers, DoneStep(w) \/ Escapes(w) \/ Respond(w) PROVE OnePlace'
    <3>1. /\ UNCHANGED <<sent, added, net>> /\ workers'[w].pc \in LockSteps \cup {"idle", "respond"}
          /\ \A v \in Workers : v # w => workers'[v] = workers[v]
      BY <2>2, RequestDone, PacketCut, RequestAnswered
    <3>2. workers'[w].pc \notin Before
      BY <3>1 DEF Before, Notifying, NotifySteps, ConnectSteps, LockSteps
    <3> QED
      BY <2>0, <3>1, <3>2, PlacesStay, SameNet
  <2> QED
    BY <1>2, <2>0, <2>1, <2>2, PacketsStayStep, SendPlaces, TakePlaces, AddPlaces
<1> QED
  BY <1>1, <1>2

-----------------------------------------------------------------------------
(* A request is completed once, and announced before that *)

\* A worker that completes a request holds its client's tracker.
LEMMA Completing ==
    ASSUME TypeInv, WorkersCounted, NEW w \in Workers, workers[w].pc \in After, NEW s \in SeqNums
    PROVE  Counted(workers[w].msg.key, workers[w].msg.req, s)
<1>1. workers[w].pc \in TrackerSteps
  BY DEF After, TrackerSteps, NotifySteps, ConnectSteps, LockSteps
<1>2. workers[w].held \in DOMAIN trackers /\ trackers[workers[w].held].key = workers[w].msg.key
  BY <1>1, HeldTracker
<1>3. <<workers[w].held, workers[w].msg.req, s>> \in added
  BY DEF WorkersCounted, CountedAll, After, LockSteps
<1> QED
  BY <1>2, <1>3 DEF Counted

LEMMA OneCompletesNow ==
    ASSUME \A v, w \in Workers :
               /\ workers'[v].pc \in After /\ workers'[w].pc \in After
               /\ workers'[v].msg.key = workers'[w].msg.key /\ workers'[v].msg.req = workers'[w].msg.req
               => v = w,
           \A w \in Workers : workers'[w].pc \in After =>
               \A i \in DOMAIN completed' :
                   ~(completed'[i].key = workers'[w].msg.key /\ completed'[i].req = workers'[w].msg.req),
           \A i, j \in DOMAIN completed' :
               completed'[i].key = completed'[j].key /\ completed'[i].req = completed'[j].req => i = j
    PROVE  OneCompletes'
  BY DEF OneCompletes, CompletesOnce, After, LockSteps

LEMMA SameCompletes ==
    ASSUME OneCompletes, "duplicate" \notin Faults, completed' = completed,
           \A v \in Workers : workers'[v].pc \in After => workers[v].pc \in After /\ workers'[v].msg = workers[v].msg
    PROVE  OneCompletes'
<1>1. \A v, w \in Workers :
          /\ workers'[v].pc \in After /\ workers'[w].pc \in After
          /\ workers'[v].msg.key = workers'[w].msg.key /\ workers'[v].msg.req = workers'[w].msg.req
          => v = w
  BY DEF OneCompletes, After, LockSteps
<1>2. \A w \in Workers : workers'[w].pc \in After =>
          \A i \in DOMAIN completed' :
              ~(completed'[i].key = workers'[w].msg.key /\ completed'[i].req = workers'[w].msg.req)
  BY DEF OneCompletes, After, LockSteps
<1>3. \A i, j \in DOMAIN completed' :
          completed'[i].key = completed'[j].key /\ completed'[i].req = completed'[j].req => i = j
  BY DEF OneCompletes, CompletesOnce
<1> QED
  BY <1>1, <1>2, <1>3, OneCompletesNow

LEMMA AddCompletes ==
    ASSUME TypeInv, AllCounted, OnePlace, OneCompletes, "duplicate" \notin Faults, NEW w \in Workers, AddPacket(w)
    PROVE  OneCompletes'
<1> DEFINE p == workers[w].msg
<1>1. /\ completed' = completed /\ workers[w].pc = "add" /\ p.seq \in SeqNums
      /\ \A v \in Workers : v # w => workers'[v] = workers[v]
      /\ workers'[w].pc = "idle" \/ workers'[w].msg = p
  BY PacketCounted
<1>2. workers[w].pc \in Before /\ "idle" \notin After
  BY <1>1 DEF Before, After, LockSteps
<1>3. ~Counted(p.key, p.req, p.seq)
  BY <1>2 DEF OnePlace
<1>4. \A v \in Workers : workers[v].pc \in After => ~(workers[v].msg.key = p.key /\ workers[v].msg.req = p.req)
  BY <1>1, <1>3, Completing DEF AllCounted
<1>5. \A i \in DOMAIN completed : ~(completed[i].key = p.key /\ completed[i].req = p.req)
  BY <1>1, <1>3 DEF AllCounted, CompletedCounted, CountedAll, Counted
<1> HIDE DEF p
<1>6. \A v, u \in Workers :
          /\ workers'[v].pc \in After /\ workers'[u].pc \in After
          /\ workers'[v].msg.key = workers'[u].msg.key /\ workers'[v].msg.req = workers'[u].msg.req
          => v = u
  BY <1>1, <1>2, <1>4 DEF OneCompletes, After, LockSteps
<1>7. \A v \in Workers : workers'[v].pc \in After =>
          \A i \in DOMAIN completed' :
              ~(completed'[i].key = workers'[v].msg.key /\ completed'[i].req = workers'[v].msg.req)
  BY <1>1, <1>2, <1>5 DEF OneCompletes, After, LockSteps
<1>8. \A i, j \in DOMAIN completed' :
          completed'[i].key = completed'[j].key /\ completed'[i].req = completed'[j].req => i = j
  BY <1>1 DEF OneCompletes, CompletesOnce
<1> QED
  BY <1>6, <1>7, <1>8, OneCompletesNow

LEMMA RespondCompletes ==
    ASSUME TypeInv, OneCompletes, "duplicate" \notin Faults, NEW w \in Workers, Respond(w)
    PROVE  OneCompletes'
<1> DEFINE n == Len(completed) + 1
           p == workers[w].msg
<1>1. /\ workers[w].pc \in After /\ workers'[w].pc \notin After
      /\ \A v \in Workers : v # w => workers'[v] = workers[v]
  BY RequestAnswered DEF After, LockSteps
<1>2. /\ DOMAIN completed' = DOMAIN completed \cup {n} /\ n \notin DOMAIN completed
      /\ \A i \in DOMAIN completed : completed'[i] = completed[i]
      /\ completed'[n].key = p.key /\ completed'[n].req = p.req
  BY RequestAnswered
<1>3. \A i \in DOMAIN completed : ~(completed[i].key = p.key /\ completed[i].req = p.req)
  BY <1>1 DEF OneCompletes, After, LockSteps
<1>4. \A v \in Workers : workers[v].pc \in After /\ v # w => ~(workers[v].msg.key = p.key /\ workers[v].msg.req = p.req)
  BY <1>1 DEF OneCompletes, After, LockSteps
<1> HIDE DEF n, p
<1>5. \A v, u \in Workers :
          /\ workers'[v].pc \in After /\ workers'[u].pc \in After
          /\ workers'[v].msg.key = workers'[u].msg.key /\ workers'[v].msg.req = workers'[u].msg.req
          => v = u
  BY <1>1 DEF OneCompletes, After, LockSteps
<1>6. \A v \in Workers : workers'[v].pc \in After =>
          \A i \in DOMAIN completed' :
              ~(completed'[i].key = workers'[v].msg.key /\ completed'[i].req = workers'[v].msg.req)
  <2> SUFFICES ASSUME NEW v \in Workers, workers'[v].pc \in After, NEW i \in DOMAIN completed'
               PROVE  ~(completed'[i].key = workers'[v].msg.key /\ completed'[i].req = workers'[v].msg.req)
    OBVIOUS
  <2>1. v # w /\ workers'[v] = workers[v] /\ workers[v].pc \in After
    BY <1>1
  <2>2. CASE i \in DOMAIN completed
    BY <1>2, <2>1, <2>2 DEF OneCompletes, After, LockSteps
  <2>3. CASE i = n
    BY <1>2, <1>4, <2>1, <2>3
  <2> QED
    BY <1>2, <2>2, <2>3
<1>7. \A i, j \in DOMAIN completed' :
          completed'[i].key = completed'[j].key /\ completed'[i].req = completed'[j].req => i = j
  BY <1>2, <1>3 DEF OneCompletes, CompletesOnce
<1> QED
  BY <1>5, <1>6, <1>7, OneCompletesNow

LEMMA OneCompletesStep == TypeInv /\ AllCounted /\ OnePlace /\ OneCompletes /\ Next => OneCompletes'
<1> SUFFICES ASSUME TypeInv, AllCounted, OnePlace, OneCompletes, Next PROVE OneCompletes'
  OBVIOUS
<1>1. CASE "duplicate" \in Faults
  BY <1>1 DEF OneCompletes
<1>2. CASE "duplicate" \notin Faults
  <2>1. CASE PacketsStay
    BY <1>2, <2>1, SameCompletes DEF PacketsStay, WorkersStay
  <2>2. ASSUME NEW k \in Keys, SendPacket(k) PROVE OneCompletes'
    BY <1>2, <2>2, SameCompletes, PacketSent
  <2>3. ASSUME NEW w \in Workers, NEW m \in net, Take(w, m), m.kind = "packet" PROVE OneCompletes'
    <3>1. /\ completed' = completed /\ workers'[w].pc \notin After
          /\ \A v \in Workers : v # w => workers'[v] = workers[v]
      BY <2>3, PacketTaken DEF After, LockSteps
    <3> QED
      BY <1>2, <3>1, SameCompletes
  <2>4. ASSUME NEW w \in Workers, DoneStep(w) PROVE OneCompletes'
    <3>1. /\ completed' = completed /\ workers[w].pc \in After /\ workers'[w].msg = workers[w].msg
          /\ \A v \in Workers : v # w => workers'[v] = workers[v]
      BY <2>4, RequestDone DEF After
    <3> QED
      BY <1>2, <3>1, SameCompletes
  <2>5. ASSUME NEW w \in Workers, Escapes(w) PROVE OneCompletes'
    <3>1. /\ completed' = completed /\ workers'[w].pc \notin After
          /\ \A v \in Workers : v # w => workers'[v] = workers[v]
      BY <2>5, PacketCut DEF After, LockSteps
    <3> QED
      BY <1>2, <3>1, SameCompletes
  <2> QED
    BY <1>2, <2>1, <2>2, <2>3, <2>4, <2>5, PacketsStayStep, AddCompletes, RespondCompletes
<1> QED
  BY <1>1, <1>2

LEMMA RequestFirstNow ==
    ASSUME "duplicate" \notin Faults => \A i, j \in DOMAIN heard' :
               /\ heard'[i].what = "request" /\ heard'[j].what = "done"
               /\ heard'[i].rnti = heard'[j].rnti /\ heard'[i].req = heard'[j].req
               => i < j
    PROVE  RequestFirst'
  BY DEF RequestFirst, RequestBeforeDone, Heard

LEMMA RequestFirstStep == TypeInv /\ AllCounted /\ OnePlace /\ RequestFirst /\ Next => RequestFirst'
<1> SUFFICES ASSUME TypeInv, AllCounted, OnePlace, RequestFirst, Next, OwnRntis, "duplicate" \notin Faults
             PROVE  RequestFirst'
  BY DEF RequestFirst, OwnRntis, RequestBeforeDone
<1>0. /\ heard \in Seq(Tellings)
      /\ \A i, j \in DOMAIN heard : /\ heard[i].what = "request" /\ heard[j].what = "done"
                                    /\ heard[i].rnti = heard[j].rnti /\ heard[i].req = heard[j].req
                                    => i < j
  BY DEF RequestFirst, RequestBeforeDone, Heard, TypeInv, WireType
<1>1. CASE HeardStay
  <2>1. ASSUME NEW i \in DOMAIN heard', NEW j \in DOMAIN heard',
               heard'[i].what = "request", heard'[j].what = "done",
               heard'[i].rnti = heard'[j].rnti, heard'[i].req = heard'[j].req
        PROVE  i < j
    <3>1. j \in DOMAIN heard /\ heard'[j] = heard[j]
      BY <1>1, <2>1 DEF HeardStay, Begins
    <3>2. CASE i \in DOMAIN heard
      <4>1. heard'[i] = heard[i]
        BY <1>1, <3>2 DEF HeardStay, Begins
      <4> QED
        BY <1>0, <2>1, <3>1, <3>2, <4>1
    <3>3. CASE i \notin DOMAIN heard
      <4>1. PICK w \in Workers : /\ workers[w].pc \in Notifying
                                 /\ heard'[i].rnti = RntiOf[workers[w].msg.key] /\ heard'[i].req = workers[w].msg.req
        BY <1>1, <2>1, <3>3 DEF HeardStay
      <4>2. PICK t \in DOMAIN trackers : RntiOf[trackers[t].key] = heard[j].rnti /\ CountedAll(t, heard[j].req)
        BY <2>1, <3>1 DEF AllCounted, HeardCounted
      <4>3. workers[w].pc \in Before /\ workers[w].msg.key \in Keys /\ workers[w].msg.seq \in SeqNums
        BY <4>1, HasPacket DEF Before
      <4>4. trackers[t].key \in Keys
        <5>1. trackers[t] \in Trackers
          BY DEF TypeInv, TableType
        <5> QED
          BY <5>1 DEF Trackers
      <4>5. trackers[t].key = workers[w].msg.key
        BY <2>1, <3>1, <4>1, <4>2, <4>3, <4>4 DEF OwnRntis
      <4>6. <<t, workers[w].msg.req, workers[w].msg.seq>> \in added
        BY <2>1, <3>1, <4>1, <4>2, <4>3 DEF CountedAll
      <4>7. Counted(workers[w].msg.key, workers[w].msg.req, workers[w].msg.seq)
        BY <4>5, <4>6 DEF Counted
      <4> QED
        BY <4>3, <4>7 DEF OnePlace
    <3> QED
      BY <3>2, <3>3
  <2> QED
    BY <2>1, RequestFirstNow
<1>2. ASSUME NEW w \in Workers, DoneStep(w) PROVE RequestFirst'
  <2>1. CASE heard' = heard
    BY <1>1, <2>1, SameHeard
  <2>2. ASSUME NEW x \in Tellings, heard' = Append(heard, x), x.what = "done" PROVE RequestFirst'
    <3>1. /\ DOMAIN heard = 1..Len(heard) /\ Len(heard) \in Nat /\ DOMAIN heard' = 1..(Len(heard) + 1)
          /\ \A i \in 1..Len(heard) : heard'[i] = heard[i]
          /\ heard'[Len(heard) + 1] = x
      BY <1>0, <2>2, AppendSeq
    <3>2. ASSUME NEW i \in DOMAIN heard', NEW j \in DOMAIN heard',
                 heard'[i].what = "request", heard'[j].what = "done",
                 heard'[i].rnti = heard'[j].rnti, heard'[i].req = heard'[j].req
          PROVE  i < j
      <4>1. i # Len(heard) + 1
        BY <2>2, <3>1, <3>2
      <4>2. i \in DOMAIN heard /\ heard'[i] = heard[i]
        BY <3>1, <3>2, <4>1
      <4>3. CASE j \in DOMAIN heard
        <5>1. heard'[j] = heard[j]
          BY <3>1, <4>3
        <5> QED
          BY <1>0, <3>2, <4>2, <4>3, <5>1
      <4>4. CASE j \notin DOMAIN heard
        BY <3>1, <3>2, <4>2, <4>4
      <4> QED
        BY <4>3, <4>4
    <3> QED
      BY <3>2, RequestFirstNow
  <2> QED
    BY <1>2, <2>1, <2>2, RequestDone
<1>3. CASE heard' = heard
  BY <1>1, <1>3, SameHeard
<1> QED
  BY <1>1, <1>2, <1>3, PacketsStayStep, PacketSent, PacketTaken, PacketCounted, PacketCut, RequestAnswered
     DEF PacketsStay

-----------------------------------------------------------------------------
(* Without silence every client keeps its tracker *)

Expiry ==
    /\ cpc \in {"sleep", "scan"}
    /\ \A k \in Keys : ue_trackers[k] # 0 => lastActive[k] = "fresh"
    /\ \A t \in DOMAIN trackers : ue_trackers[trackers[t].key] = t
    /\ \A w \in Workers : workers[w].pc # "idle" => lastActive[workers[w].msg.key] = "fresh"

\* The clients in the table, and the datagrams in hand.
TableStays ==
    /\ UNCHANGED <<ue_trackers, lastActive>> /\ DOMAIN trackers' = DOMAIN trackers
    /\ \A w \in Workers : workers'[w].pc # "idle" => workers[w].pc # "idle" /\ workers'[w].msg = workers[w].msg
    /\ cpc' \in {"sleep", "scan"}

LEMMA TableExpiry ==
    ASSUME Expiry, TrackersStay, TableStays
    PROVE  Expiry'
  BY DEF Expiry, TrackersStay, TableStays

LEMMA JoinExpiry ==
    ASSUME TypeInv, TrackersStay, Expiry, NEW w \in Workers, workers[w].pc # "idle",
           NEW n, TrackerJoins(workers[w].msg.key, n), UNCHANGED <<lastActive, cpc>>,
           \A v \in Workers : workers'[v] = IF v = w THEN Idle ELSE workers[v]
    PROVE  Expiry'
<1> DEFINE k == workers[w].msg.key
<1>1. /\ k \in Keys /\ n # 0 /\ n \notin DOMAIN trackers /\ DOMAIN trackers' = DOMAIN trackers \cup {n}
      /\ trackers'[n].key = k /\ ue_trackers[k] = 0 /\ ue_trackers' = [ue_trackers EXCEPT ![k] = n]
      /\ ue_trackers \in [Keys -> Nat]
  BY DEF TrackerJoins, TypeInv, TableType
<1>2. lastActive[k] = "fresh" /\ Idle.pc = "idle"
  BY DEF Expiry, Idle
<1>3. \A j \in Keys : ue_trackers'[j] # 0 => lastActive'[j] = "fresh"
  BY <1>1, <1>2 DEF Expiry
<1>4. \A t \in DOMAIN trackers' : ue_trackers'[trackers'[t].key] = t
  <2> SUFFICES ASSUME NEW t \in DOMAIN trackers' PROVE ue_trackers'[trackers'[t].key] = t
    OBVIOUS
  <2>1. CASE t = n
    BY <1>1, <2>1
  <2>2. CASE t \in DOMAIN trackers
    <3>1. trackers \in Seq(Trackers) /\ trackers[t] \in Trackers
      BY <2>2 DEF TypeInv, TableType
    <3>2. t # 0 /\ trackers[t].key \in Keys
      BY <2>2, <3>1 DEF Trackers
    <3>3. ue_trackers[trackers[t].key] = t /\ trackers'[t].key = trackers[t].key
      BY <2>2 DEF Expiry, TrackersStay
    <3> QED
      BY <1>1, <3>2, <3>3
  <2> QED
    BY <1>1, <2>1, <2>2
<1>5. cpc' \in {"sleep", "scan"}
  BY DEF Expiry
<1>6. \A v \in Workers : workers'[v].pc # "idle" => lastActive'[workers'[v].msg.key] = "fresh"
  BY <1>2 DEF Expiry
<1> QED
  BY <1>3, <1>4, <1>5, <1>6 DEF Expiry

LEMMA TakeExpiry ==
    ASSUME TypeInv, TrackersStay, Expiry, NEW w \in Workers, NEW m \in net, Take(w, m)
    PROVE  Expiry'
<1>1. /\ m \in Datagrams /\ workers'[w].msg = m
      /\ \A v \in Workers : v # w => workers'[v] = workers[v]
  BY TakeTypes
<1>2. m.key \in Keys /\ \A v \in Workers : workers[v].pc # "idle" => workers[v].msg.key \in Keys
  <2> SUFFICES ASSUME NEW v \in Workers, workers[v].pc # "idle" PROVE workers[v].msg.key \in Keys
    BY <1>1, DatagramTypes
  <2>1. workers[v].msg \in Datagrams
    BY Handling DEF TypeInv, Busy
  <2> QED
    BY <2>1, DatagramTypes
<1>3. /\ UNCHANGED <<ue_trackers, trackers, cpc>> /\ lastActive' = [lastActive EXCEPT ![m.key] = "fresh"]
      /\ lastActive \in [Keys -> {"absent", "fresh", "stale"}]
  BY DEF Take, trackVars, cleanVars, TypeInv, TableType
<1>4. \A j \in Keys : lastActive[j] = "fresh" => lastActive'[j] = "fresh"
  BY <1>3
<1>5. \A j \in Keys : ue_trackers'[j] # 0 => lastActive'[j] = "fresh"
  BY <1>3, <1>4 DEF Expiry
<1>6. \A v \in Workers : workers'[v].pc # "idle" => lastActive'[workers'[v].msg.key] = "fresh"
  <2> SUFFICES ASSUME NEW v \in Workers, workers'[v].pc # "idle" PROVE lastActive'[workers'[v].msg.key] = "fresh"
    OBVIOUS
  <2>1. CASE v = w
    BY <1>1, <1>2, <1>3, <2>1
  <2>2. CASE v # w
    BY <1>1, <1>2, <1>4, <2>2 DEF Expiry
  <2> QED
    BY <2>1, <2>2
<1> QED
  BY <1>3, <1>5, <1>6 DEF Expiry

LEMMA ExpiryStep ==
    ASSUME TypeInv, TodoTracked, Expiry, "idle" \notin Faults, Next
    PROVE  Expiry' /\ \A k \in Keys : ue_trackers[k] # 0 => ue_trackers'[k] = ue_trackers[k]
<1>0. TrackersStay /\ WorkerType' /\ ue_trackers \in [Keys -> Nat]
  BY StayStep, WorkerTypeStep DEF TypeInv, TableType
<1> DEFINE Goal == Expiry' /\ \A k \in Keys : ue_trackers[k] # 0 => ue_trackers'[k] = ue_trackers[k]
<1>1. ASSUME TableStays PROVE Goal
  <2>1. Expiry' /\ ue_trackers' = ue_trackers
    BY <1>0, <1>1, TableExpiry DEF TableStays
  <2> QED
    BY <2>1
<1>2. ASSUME NEW w \in Workers, workers[w].pc # "idle", workers' = [workers EXCEPT ![w] = Idle],
             UNCHANGED <<lastActive, cpc>>, NEW n, TrackerJoins(workers[w].msg.key, n)
      PROVE  Goal
  <2>1. \A v \in Workers : workers'[v] = IF v = w THEN Idle ELSE workers[v]
    BY <1>0, <1>2, GetsIdle
  <2>2. Expiry'
    BY <1>0, <1>2, <2>1, JoinExpiry
  <2>3. \A k \in Keys : ue_trackers[k] # 0 => ue_trackers'[k] = ue_trackers[k]
    BY <1>0, <1>2 DEF TrackerJoins
  <2> QED
    BY <2>2, <2>3
<1> HIDE DEF Goal
<1>3. ASSUME UNCHANGED <<ue_trackers, lastActive, cpc>>, DOMAIN trackers' = DOMAIN trackers,
             NEW w \in Workers, workers[w].pc # "idle", \A v \in Workers : v # w => workers'[v] = workers[v],
             workers'[w].pc = "idle" \/ workers'[w].msg = workers[w].msg
      PROVE  Goal
  <2>1. TableStays
    BY <1>3 DEF TableStays, Expiry
  <2> QED
    BY <1>1, <2>1
<1>4. ASSUME UNCHANGED <<ue_trackers, lastActive, workers>>, DOMAIN trackers' = DOMAIN trackers, cpc' \in {"sleep", "scan"}
      PROVE  Goal
  <2>1. TableStays
    BY <1>4 DEF TableStays
  <2> QED
    BY <1>1, <2>1
<1>5. cpc \in {"sleep", "scan"}
  BY DEF Expiry
<1>6. ASSUME NEW w \in Workers, Register(w) PROVE Goal
  <2>1. /\ workers[w].pc # "idle" /\ workers' = [workers EXCEPT ![w] = Idle] /\ UNCHANGED <<lastActive, cpc>>
    BY <1>6 DEF Register, cleanVars
  <2>2. \A v \in Workers : workers'[v] = IF v = w THEN Idle ELSE workers[v]
    BY <1>0, <2>1, GetsIdle
  <2>3. CASE UNCHANGED trackVars
    BY <1>3, <2>1, <2>2, <2>3 DEF trackVars, Idle
  <2> QED
    BY <1>2, <1>6, <2>1, <2>3, RegisterTracks
<1>7. ASSUME NEW w \in Workers, Hello(w) PROVE Goal
  <2>1. /\ workers[w].pc # "idle" /\ workers' = [workers EXCEPT ![w] = Idle] /\ UNCHANGED <<lastActive, cpc>>
    BY <1>7 DEF Hello, cleanVars
  <2>2. \A v \in Workers : workers'[v] = IF v = w THEN Idle ELSE workers[v]
    BY <1>0, <2>1, GetsIdle
  <2>3. CASE EntriesKept /\ UNCHANGED ue_trackers
    BY <1>3, <2>1, <2>2, <2>3 DEF EntriesKept, Idle
  <2> QED
    BY <1>2, <1>7, <2>1, <2>3, HelloTracks
<1>8. ASSUME NEW w \in Workers, StoreRtt(w) PROVE Goal
  <2>1. /\ workers[w].pc # "idle" /\ workers' = [workers EXCEPT ![w] = Idle] /\ UNCHANGED <<ue_trackers, lastActive, cpc>>
    BY <1>8 DEF StoreRtt, cleanVars
  <2>2. \A v \in Workers : workers'[v] = IF v = w THEN Idle ELSE workers[v]
    BY <1>0, <2>1, GetsIdle
  <2>3. DOMAIN trackers' = DOMAIN trackers
    BY <1>8, StoreRttKeeps DEF EntriesKept
  <2> QED
    BY <1>3, <2>1, <2>2, <2>3 DEF Idle
<1>9. ASSUME NEW w \in Workers, FindPort(w) PROVE Goal
  <2>1. UNCHANGED <<ue_trackers, lastActive, cpc, trackers>>
    BY <1>9 DEF FindPort, cleanVars, trackVars
  <2>2. /\ workers[w].pc = "hello" /\ workers'[w].msg = workers[w].msg
        /\ \A v \in Workers : v # w => workers'[v] = workers[v]
    BY <1>0, <1>9, FindPortTypes
  <2> QED
    BY <1>3, <2>1, <2>2
<1>10. ASSUME NEW w \in Workers, Lookup(w) PROVE Goal
  <2>1. UNCHANGED <<ue_trackers, lastActive, cpc, trackers>>
    BY <1>10 DEF Lookup, cleanVars, trackVars
  <2>2. /\ workers[w].pc = "lookup" /\ (workers'[w] = Idle \/ workers'[w].msg = workers[w].msg)
        /\ \A v \in Workers : v # w => workers'[v] = workers[v]
    BY <1>0, <1>10, LookupTypes
  <2> QED
    BY <1>3, <2>1, <2>2 DEF Idle
<1>11. ASSUME NEW w \in Workers, NotifyStep(w) PROVE Goal
  <2>1. workers[w].pc \in Notifying /\ UNCHANGED <<ue_trackers, lastActive, cpc>>
    BY <1>11, NotifyMoves DEF cleanVars
  <2>2. PICK p : workers' = [workers EXCEPT ![w].pc = p]
    BY <1>11, NotifyMoves
  <2>3. workers[w] \in Busy /\ workers[w].pc # "idle"
    BY <2>1, HeldTracker DEF Notifying, TrackerSteps, NotifySteps, ConnectSteps, LockSteps
  <2>4. workers'[w].msg = workers[w].msg /\ \A v \in Workers : v # w => workers'[v] = workers[v]
    BY <2>2, <2>3 DEF TypeInv, WorkerType, Busy
  <2>5. DOMAIN trackers' = DOMAIN trackers
    BY <1>11, NotifyStored DEF EntriesKept
  <2> QED
    BY <1>3, <2>1, <2>3, <2>4, <2>5
<1>12. ASSUME NEW w \in Workers, AddPacket(w) PROVE Goal
  <2>1. /\ UNCHANGED <<ue_trackers, lastActive, cpc>> /\ workers[w].pc # "idle"
        /\ \A v \in Workers : v # w => workers'[v] = workers[v]
        /\ workers'[w].pc = "idle" \/ workers'[w].msg = workers[w].msg
    BY <1>12, PacketCounted
  <2>2. DOMAIN trackers' = DOMAIN trackers
    BY <1>12, PacketCounted DEF EntryBecomes
  <2> QED
    BY <1>3, <2>1, <2>2
<1>13. ASSUME NEW w \in Workers, DoneStep(w) PROVE Goal
  <2>1. /\ UNCHANGED <<ue_trackers, lastActive, cpc>> /\ workers[w].pc # "idle"
        /\ \A v \in Workers : v # w => workers'[v] = workers[v]
        /\ workers'[w].msg = workers[w].msg
    BY <1>13, RequestDone DEF LockSteps
  <2>2. DOMAIN trackers' = DOMAIN trackers
    BY <1>13, RequestDone DEF EntryBecomes, EntriesKept
  <2> QED
    BY <1>3, <2>1, <2>2
<1>14. ASSUME NEW w \in Workers, Respond(w) \/ Escapes(w) PROVE Goal
  <2>1. /\ UNCHANGED <<ue_trackers, lastActive, cpc, trackers>> /\ workers[w].pc \in TrackerSteps
        /\ \A v \in Workers : v # w => workers'[v] = workers[v]
        /\ workers'[w].pc = "idle"
    BY <1>14, RequestAnswered, PacketCut DEF TrackerSteps
  <2>2. workers[w].pc # "idle"
    BY <2>1 DEF TrackerSteps, NotifySteps, ConnectSteps, LockSteps
  <2> QED
    BY <1>3, <2>1, <2>2
<1>15. ASSUME NEW w \in Workers, NEW m \in net, Take(w, m) PROVE Goal
  <2>1. ue_trackers' = ue_trackers
    BY <1>15 DEF Take, trackVars
  <2> QED
    BY <1>0, <1>15, <2>1, TakeExpiry DEF Goal
<1>16. ASSUME NEW k \in Keys, SendRegistration(k) \/ SendHello(k) \/ SendRtt(k) \/ SendPacket(k) PROVE Goal
  BY <1>4, <1>5, <1>16 DEF SendRegistration, SendHello, SendRtt, SendPacket, serverVars, trackVars, cleanVars
<1>17. ASSUME NEW k \in Keys, Inspect(k) PROVE Goal
  <2>1. lastActive[k] = "fresh"
    BY <1>17 DEF Inspect, TodoTracked, Expiry
  <2> QED
    BY <1>4, <1>5, <1>17, <2>1 DEF Inspect, trackVars
<1>18. ASSUME NEW k \in Keys, Forget(k) \/ Silence(k) PROVE Goal
  BY <1>5, <1>18 DEF Forget, Silence
<1>19. ASSUME BeginCleanup \/ EndCleanup PROVE Goal
  BY <1>4, <1>19 DEF BeginCleanup, EndCleanup, trackVars
<1>20. ASSUME NEW m \in net, Lose(m) PROVE Goal
  BY <1>4, <1>5, <1>20 DEF Lose, serverVars, trackVars, cleanVars
<1>21. ASSUME NEW t \in DOMAIN trackers, RegistrationWaitOver(t) PROVE Goal
  <2>1. DOMAIN trackers' = DOMAIN trackers
    BY <1>21, WaitOverKeeps DEF EntriesKept
  <2> QED
    BY <1>4, <1>5, <1>21, <2>1 DEF RegistrationWaitOver, cleanVars
<1>22. ~CloseTracker
  BY <1>5, CloseTrackerKeeps DEF CloseSteps
<1>23. Goal
  BY <1>6, <1>7, <1>8, <1>9, <1>10, <1>11, <1>12, <1>13, <1>14, <1>15, <1>16, <1>17, <1>18, <1>19, <1>20, <1>21,
     <1>22, NextSteps DEF QuietStep
<1> QED
  BY <1>23 DEF Goal

LEMMA ExpiresStep == TypeInv /\ TodoTracked /\ NothingExpires /\ Next => NothingExpires'
<1> SUFFICES ASSUME TypeInv, TodoTracked, NothingExpires, Next, "idle" \notin Faults PROVE NothingExpires'
  BY DEF NothingExpires
<1>1. Expiry
  BY DEF NothingExpires, Expiry
<1>2. Expiry'
  BY <1>1, ExpiryStep
<1> QED
  BY <1>2 DEF NothingExpires, Expiry

LEMMA TrackedStep == TypeInv /\ TodoTracked /\ NothingExpires /\ TrackedFirst /\ Next => TrackedFirst'
<1> SUFFICES ASSUME TypeInv, TodoTracked, NothingExpires, TrackedFirst, Next, "idle" \notin Faults PROVE TrackedFirst'
  BY DEF TrackedFirst
<1>0. /\ \A k \in Keys : ue_trackers[k] # 0 => ue_trackers'[k] = ue_trackers[k]
      /\ \A k \in Keys : /\ welcomed[k] # {} => ue_trackers[k] # 0
                         /\ rtts[k] > 0 => ue_trackers[k] # 0
                         /\ sent[k] > 0 => ue_trackers[k] # 0
  <2>1. Expiry
    BY DEF NothingExpires, Expiry
  <2> QED
    BY <2>1, ExpiryStep DEF TrackedFirst
<1>1. /\ welcomed \in [Keys -> SUBSET (1..MaxHellos)] /\ rtts \in [Keys -> Nat] /\ sent \in [Keys -> Nat]
      /\ hellos \in [Keys -> 0..MaxHellos]
  BY DEF TypeInv, ClientType
<1>2. ASSUME UNCHANGED <<welcomed, rtts, sent>> PROVE TrackedFirst'
  BY <1>0, <1>2 DEF TrackedFirst
<1>3. ASSUME NEW k \in Keys, SendRegistration(k) \/ SendHello(k) PROVE TrackedFirst'
  BY <1>2, <1>3 DEF SendRegistration, SendHello, serverVars, replyVars, clientVars
<1>4. ASSUME NEW k \in Keys, SendRtt(k) PROVE TrackedFirst'
  <2>1. /\ welcomed[k] # {} /\ rtts' = [rtts EXCEPT ![k] = hellos[k]] /\ UNCHANGED <<welcomed, sent>>
    BY <1>4 DEF SendRtt, serverVars, replyVars
  <2>2. ue_trackers'[k] # 0 /\ \A j \in Keys : j # k => rtts'[j] = rtts[j]
    BY <1>0, <1>1, <2>1
  <2> QED
    BY <1>0, <2>1, <2>2 DEF TrackedFirst
<1>5. ASSUME NEW k \in Keys, SendPacket(k) PROVE TrackedFirst'
  <2>1. /\ rtts[k] > 0 /\ sent' = [sent EXCEPT ![k] = @ + 1] /\ UNCHANGED <<welcomed, rtts>>
    BY <1>5, PacketSent DEF SendPacket
  <2>2. ue_trackers'[k] # 0 /\ \A j \in Keys : j # k => sent'[j] = sent[j]
    BY <1>0, <1>1, <2>1
  <2> QED
    BY <1>0, <2>1, <2>2 DEF TrackedFirst
<1>6. ASSUME NEW w \in Workers, Hello(w) PROVE TrackedFirst'
  <2> DEFINE k == workers[w].msg.key
  <2>1. UNCHANGED <<rtts, sent>>
    BY <1>6 DEF Hello, clientVars
  <2>2. ue_trackers'[k] # 0 /\ k \in Keys
    <3>1. CASE TrackerJoins(k, Len(trackers) + 1)
      BY <1>6, <3>1, HelloTracks DEF TrackerJoins, TypeInv, TableType
    <3>2. CASE UNCHANGED ue_trackers /\ ue_trackers[k] # 0
      BY <1>6, <3>2, HelloTracks
    <3> QED
      BY <1>6, <3>1, <3>2, HelloTracks
  <2>3. \A j \in Keys : j # k => welcomed'[j] = welcomed[j]
    BY <1>1, <1>6, HelloTracks
  <2> HIDE DEF k
  <2> QED
    BY <1>0, <2>1, <2>2, <2>3 DEF TrackedFirst
<1>7. ASSUME NEW m \in net, Lose(m) PROVE TrackedFirst'
  BY <1>2, <1>7 DEF Lose, clientVars, serverVars, replyVars
<1>8. ASSUME NEW w \in Workers, Register(w) \/ \E m \in net : Take(w, m) PROVE TrackedFirst'
  BY <1>2, <1>8 DEF Register, Take, clientVars, replyVars
<1>9. ASSUME NEW w \in Workers, NotifyStep(w) PROVE TrackedFirst'
  BY <1>2, <1>9, NotifyMoves DEF clientVars, replyVars
<1>10. ASSUME NEW w \in Workers, DoneStep(w) PROVE TrackedFirst'
  BY <1>2, <1>10, DoneMoves DEF clientVars, replyVars
<1>11. CASE QuietStep
  BY <1>2, <1>11, QuietKeeps DEF clientVars, replyVars
<1> QED
  BY <1>3, <1>4, <1>5, <1>6, <1>7, <1>8, <1>9, <1>10, <1>11, NextSteps

-----------------------------------------------------------------------------
(* No packet is lost *)

\* The steps that neither send, take nor count a packet keep every packet.
PacketsKept ==
    /\ \A m \in net : m.kind = "packet" => m \in net'
    /\ \A w \in Workers : workers[w].pc \in Before => workers'[w].pc \in Before /\ workers'[w].msg = workers[w].msg

LEMMA OtherKept ==
    ASSUME NEW w \in Workers, workers[w].pc \notin Before, \A v \in Workers : v # w => workers'[v] = workers[v],
           net \subseteq net'
    PROVE  PacketsKept
  BY DEF PacketsKept

LEMMA PacketsKeptStep ==
    ASSUME TypeInv, NothingExpires, TrackedFirst, OnePlace, Reliable, Next
    PROVE  \/ PacketsKept
           \/ \E k \in Keys : SendPacket(k)
           \/ \E w \in Workers : \E m \in net : Take(w, m) /\ m.kind = "packet"
           \/ \E w \in Workers : AddPacket(w) \/ Escapes(w)
<1>0. TrackersStay /\ WorkerType' /\ "loss" \notin Faults /\ "duplicate" \notin Faults /\ "idle" \notin Faults
  BY StayStep, WorkerTypeStep DEF Reliable
<1>1. ASSUME net \subseteq net', UNCHANGED workers PROVE PacketsKept
  BY <1>1 DEF PacketsKept
<1>2. ASSUME NEW w \in Workers, Register(w) \/ Hello(w) \/ StoreRtt(w) PROVE PacketsKept
  <2>1. /\ workers' = [workers EXCEPT ![w] = Idle] /\ net' = net
        /\ workers[w].pc \in {"register", "tracker", "rtt"}
    BY <1>2 DEF Register, Hello, StoreRtt
  <2>2. \A v \in Workers : workers'[v] = IF v = w THEN Idle ELSE workers[v]
    BY <1>0, <2>1, GetsIdle
  <2>3. workers[w].pc \notin Before
    BY <2>1 DEF Before, Notifying, NotifySteps, ConnectSteps
  <2> QED
    BY <2>1, <2>2, <2>3, OtherKept
<1>3. ASSUME NEW w \in Workers, FindPort(w) PROVE PacketsKept
  <2>1. workers[w].pc = "hello" /\ \A v \in Workers : v # w => workers'[v] = workers[v]
    BY <1>0, <1>3, FindPortTypes
  <2>2. workers[w].pc \notin Before /\ net' = net
    BY <1>3, <2>1 DEF Before, Notifying, FindPort, NotifySteps, ConnectSteps
  <2> QED
    BY <2>1, <2>2, OtherKept
<1>4. ASSUME NEW w \in Workers, Lookup(w) PROVE PacketsKept
  <2> DEFINE p == workers[w].msg
  <2>1. /\ workers[w].pc = "lookup" /\ p.key \in Keys
        /\ \A v \in Workers : v # w => workers'[v] = workers[v]
        /\ IF ue_trackers[p.key] = 0 THEN workers'[w] = Idle
           ELSE workers'[w].pc \in Before /\ workers'[w].msg = p
    BY <1>0, <1>4, LookupTypes
  <2>2. workers[w].pc \in Before
    BY <2>1 DEF Before
  <2>3. ue_trackers[p.key] # 0
    <3>1. IsSent(p.key, p.req, p.seq)
      BY <1>0, <2>2 DEF OnePlace
    <3>2. sent[p.key] > 0
      BY <2>1, <3>1 DEF IsSent, TypeInv, ClientType
    <3> QED
      BY <1>0, <2>1, <3>2 DEF TrackedFirst
  <2>4. net' = net
    BY <1>4 DEF Lookup
  <2> QED
    BY <2>1, <2>2, <2>3, <2>4 DEF PacketsKept
<1>5. ASSUME NEW w \in Workers, NotifyStep(w) PROVE PacketsKept
  <2>1. workers[w].pc \in Notifying /\ net' = net
    BY <1>5, NotifyMoves
  <2>2. PICK p \in Notifying \cup {"add"} : workers' = [workers EXCEPT ![w].pc = p]
    BY <1>5, NotifyMoves
  <2>3. workers[w] \in Busy
    BY <2>1, HeldTracker DEF Notifying, TrackerSteps, NotifySteps, ConnectSteps, LockSteps
  <2>4. /\ workers'[w].pc = p /\ workers'[w].msg = workers[w].msg
        /\ \A v \in Workers : v # w => workers'[v] = workers[v]
    BY <2>2, <2>3 DEF TypeInv, WorkerType, Busy
  <2>5. p \in Before
    BY <2>2 DEF Before
  <2> QED
    BY <2>1, <2>4, <2>5 DEF PacketsKept
<1>6. ASSUME NEW w \in Workers, DoneStep(w) \/ Respond(w) PROVE PacketsKept
  <2>1. /\ workers[w].pc \in LockSteps \cup {"respond"} /\ net' = net
        /\ \A v \in Workers : v # w => workers'[v] = workers[v]
    BY <1>6, RequestDone, RequestAnswered
  <2>2. workers[w].pc \notin Before
    BY <2>1 DEF Before, Notifying, NotifySteps, ConnectSteps, LockSteps
  <2> QED
    BY <2>1, <2>2, OtherKept
<1>7. ASSUME NEW w \in Workers, NEW m \in net, Take(w, m), m.kind # "packet" PROVE PacketsKept
  <2>1. \A v \in Workers : v # w => workers'[v] = workers[v]
    BY <1>0, <1>7, TakeTypes
  <2>2. workers[w].pc \notin Before /\ net' = net \ {m}
    BY <1>0, <1>7 DEF Take, Idle, Before, Notifying, NotifySteps, ConnectSteps
  <2> QED
    BY <1>7, <2>1, <2>2 DEF PacketsKept
<1>8. ASSUME NEW k \in Keys, SendRegistration(k) \/ SendHello(k) \/ SendRtt(k) PROVE PacketsKept
  <2>1. net \subseteq net' /\ UNCHANGED workers
    BY <1>8 DEF SendRegistration, SendHello, SendRtt, serverVars
  <2> QED
    BY <1>1, <2>1
<1>9. ASSUME NEW k \in Keys, Silence(k) \/ Inspect(k) \/ Forget(k) PROVE PacketsKept
  BY <1>1, <1>9 DEF Silence, Inspect, Forget
<1>10. ASSUME BeginCleanup \/ EndCleanup \/ CloseTracker \/ \E t \in DOMAIN trackers : RegistrationWaitOver(t)
       PROVE  PacketsKept
  BY <1>1, <1>10 DEF BeginCleanup, EndCleanup, CloseTracker, RegistrationWaitOver
<1>11. \A m \in net : ~Lose(m)
  BY <1>0 DEF Lose
<1> QED
  BY <1>2, <1>3, <1>4, <1>5, <1>6, <1>7, <1>8, <1>9, <1>10, <1>11, NextSteps DEF QuietStep

\* A request that was cut stays so.
LEMMA CutGrows == ASSUME TypeInv, Next PROVE cut \subseteq cut'
<1>1. ASSUME NEW w \in Workers, Escapes(w) PROVE cut \subseteq cut'
  BY <1>1, PacketCut
<1> QED
  BY <1>1, PacketsStayStep, PacketSent, PacketTaken, PacketCounted, RequestDone, RequestAnswered DEF PacketsStay

LEMMA FoundStays ==
    ASSUME TypeInv, TodoTracked, NothingExpires, TrackedFirst, OnePlace, Reliable, Next,
           NEW k \in Keys, ue_trackers[k] # 0, NEW m \in Datagrams, m.kind = "packet", m.key = k, Found(m)
    PROVE  Found(m)'
<1>0. "loss" \notin Faults /\ "duplicate" \notin Faults /\ "idle" \notin Faults /\ "lookup" \in Before
  BY DEF Reliable, Before
<1>1. Expiry
  BY <1>0 DEF NothingExpires, Expiry
<1>2. ue_trackers'[k] = ue_trackers[k] /\ cut \subseteq cut'
  BY <1>0, <1>1, ExpiryStep, CutGrows
<1>3. ASSUME added \subseteq added', <<ue_trackers[k], m.req, m.seq>> \in added \/ <<m.key, m.req>> \in cut
      PROVE  Found(m)'
  BY <1>2, <1>3 DEF Found
<1>4. ASSUME added \subseteq added', PacketsKept PROVE Found(m)'
  <2>1. CASE m \in net
    BY <1>4, <2>1 DEF PacketsKept, Found
  <2>2. ASSUME NEW w \in Workers, workers[w].pc \in Before, workers[w].msg = m PROVE Found(m)'
    BY <1>4, <2>2 DEF PacketsKept, Found
  <2> QED
    BY <1>3, <1>4, <2>1, <2>2 DEF Found
<1>5. ASSUME NEW w \in Workers, NEW n \in net, Take(w, n), n.kind = "packet" PROVE Found(m)'
  <2>1. /\ added' = added /\ net' = net \ {n} /\ workers[w] = Idle
        /\ workers'[w].pc = "lookup" /\ workers'[w].msg = n
        /\ \A v \in Workers : v # w => workers'[v] = workers[v]
    BY <1>0, <1>5, PacketTaken
  <2>2. CASE m \in net
    BY <1>0, <2>1, <2>2 DEF Found
  <2>3. ASSUME NEW v \in Workers, workers[v].pc \in Before, workers[v].msg = m PROVE Found(m)'
    <3>1. v # w
      BY <2>1, <2>3 DEF Idle, Before, Notifying, NotifySteps, ConnectSteps
    <3> QED
      BY <2>1, <2>3, <3>1 DEF Found
  <2> QED
    BY <1>3, <2>1, <2>2, <2>3 DEF Found
<1>6. ASSUME NEW w \in Workers, AddPacket(w) PROVE Found(m)'
  <2>1. /\ net' = net /\ added' = added \cup {<<workers[w].held, workers[w].msg.req, workers[w].msg.seq>>}
        /\ workers[w].held \in DOMAIN trackers /\ trackers[workers[w].held].key = workers[w].msg.key
        /\ \A v \in Workers : v # w => workers'[v] = workers[v]
    BY <1>6, PacketCounted
  <2>2. CASE m \in net
    BY <2>1, <2>2 DEF Found
  <2>3. ASSUME NEW v \in Workers, workers[v].pc \in Before, workers[v].msg = m PROVE Found(m)'
    <3>1. CASE v # w
      BY <2>1, <2>3, <3>1 DEF Found
    <3>2. CASE v = w
      <4>1. workers[w].held = ue_trackers[k]
        BY <1>1, <2>1, <2>3, <3>2 DEF Expiry
      <4>2. <<ue_trackers[k], m.req, m.seq>> \in added'
        BY <2>1, <2>3, <3>2, <4>1
      <4> QED
        BY <1>2, <4>2 DEF Found
    <3> QED
      BY <3>1, <3>2
  <2> QED
    BY <1>3, <2>1, <2>2, <2>3 DEF Found
<1>7. ASSUME NEW j \in Keys, SendPacket(j) PROVE Found(m)'
  <2>1. added' = added /\ net \subseteq net' /\ workers' = workers
    BY <1>7, PacketSent
  <2>2. PacketsKept
    BY <2>1 DEF PacketsKept
  <2> QED
    BY <1>4, <2>1, <2>2
<1>8. CASE PacketsKept
  <2>1. added \subseteq added'
    <3>1. ASSUME NEW w \in Workers, AddPacket(w) PROVE added \subseteq added'
      BY <3>1, PacketCounted
    <3> QED
      BY <3>1, PacketsStayStep, PacketSent, PacketTaken, RequestDone, PacketCut, RequestAnswered DEF PacketsStay
  <2> QED
    BY <1>4, <1>8, <2>1
<1>9. ASSUME NEW w \in Workers, Escapes(w) PROVE Found(m)'
  <2>1. /\ net' = net /\ added' = added /\ cut' = cut \cup {<<workers[w].msg.key, workers[w].msg.req>>}
        /\ \A v \in Workers : v # w => workers'[v] = workers[v]
    BY <1>9, PacketCut
  <2>2. CASE m \in net
    BY <2>1, <2>2 DEF Found
  <2>3. ASSUME NEW v \in Workers, workers[v].pc \in Before, workers[v].msg = m PROVE Found(m)'
    <3>1. CASE v # w
      BY <2>1, <2>3, <3>1 DEF Found
    <3>2. CASE v = w
      BY <2>1, <2>3, <3>2 DEF Found
    <3> QED
      BY <3>1, <3>2
  <2> QED
    BY <1>3, <2>1, <2>2, <2>3 DEF Found
<1> QED
  BY <1>5, <1>6, <1>7, <1>8, <1>9, PacketsKeptStep

LEMMA NumberedTypes ==
    ASSUME TypeInv, NEW k \in Keys, NEW i \in 0..(sent[k] - 1)
    PROVE  Numbered(k, i) \in Datagrams /\ Numbered(k, i).kind = "packet" /\ Numbered(k, i).key = k /\ sent[k] > 0
<1>1. sent[k] \in Nat /\ sent[k] <= MaxRequests * Packets /\ MaxRequests * Packets \in Nat
  BY PetsAssumption DEF TypeInv, ClientType
<1>2. i \in Nat /\ i < MaxRequests * Packets /\ sent[k] > 0
  BY <1>1
<1>3. 1 + i \div Packets \in Requests /\ i % Packets \in SeqNums
  BY <1>2, PacketInRange, Quotient
<1> QED
  BY <1>2, <1>3 DEF Numbered, Datagrams

LEMMA SomePlaceStep ==
    TypeInv /\ TodoTracked /\ NothingExpires /\ TrackedFirst /\ OnePlace /\ SomePlace /\ Next => SomePlace'
<1> SUFFICES ASSUME TypeInv, TodoTracked, NothingExpires, TrackedFirst, OnePlace, SomePlace, Next, Reliable,
                    NEW k \in Keys, NEW i \in 0..(sent'[k] - 1)
             PROVE  Found(Numbered(k, i))'
  BY DEF SomePlace
<1>0. sent \in [Keys -> Nat] /\ "idle" \notin Faults
  BY DEF TypeInv, ClientType, Reliable
<1>1. CASE i \in 0..(sent[k] - 1)
  <2>1. /\ Numbered(k, i) \in Datagrams /\ Numbered(k, i).kind = "packet" /\ Numbered(k, i).key = k
        /\ ue_trackers[k] # 0
    BY <1>0, <1>1, NumberedTypes DEF TrackedFirst
  <2>2. Found(Numbered(k, i))
    BY <1>1 DEF SomePlace
  <2> QED
    BY <2>1, <2>2, FoundStays
<1>2. ASSUME NEW j \in Keys, SendPacket(j), i \notin 0..(sent[k] - 1) PROVE Found(Numbered(k, i))'
  <2>1. sent' = [sent EXCEPT ![j] = @ + 1] /\ net' = net \cup {SentBy(j)}
    BY <1>2, PacketSent
  <2>2. j = k /\ i = sent[k]
    BY <1>0, <1>2, <2>1
  <2>3. Numbered(k, i) = SentBy(k)
    BY <2>2 DEF Numbered, SentBy
  <2> QED
    BY <2>1, <2>2, <2>3 DEF Found
<1>3. sent' = sent \/ \E j \in Keys : SendPacket(j)
  <2>1. ASSUME NEW w \in Workers, AddPacket(w) PROVE sent' = sent
    BY <2>1, PacketCounted
  <2> QED
    BY <2>1, PacketsStayStep, PacketTaken, RequestDone, PacketCut, RequestAnswered DEF PacketsStay
<1> QED
  BY <1>1, <1>2, <1>3

-----------------------------------------------------------------------------
(* What a tracker keeps of a request *)

Clear(t, r) == Open(t, r) \/ Closing(t, r) \/ Replied(t, r)

\* An entry that a step does not touch.
LEMMA ClearStays ==
    ASSUME NEW t \in DOMAIN trackers, NEW r \in Requests, Clear(t, r), TrackersStay,
           trackers'[t].received[r] = trackers[t].received[r],
           \A s \in SeqNums : <<t, r, s>> \in added' <=> <<t, r, s>> \in added,
           \A w \in Workers : workers[w].pc \in After /\ workers[w].held = t /\ workers[w].msg.req = r =>
               /\ workers[w].pc \in LockSteps => workers'[w].pc \in LockSteps
               /\ workers[w].pc = "respond" => workers'[w].pc = "respond"
               /\ workers'[w].held = t /\ workers'[w].msg.req = r,
           Begins(completed, completed')
    PROVE  Clear(t, r)'
<1>1. CASE Open(t, r)
  BY <1>1 DEF Open, CountedAll, Clear
<1>2. CASE Closing(t, r)
  BY <1>2 DEF Closing, Clear, After, LockSteps
<1>3. CASE Replied(t, r)
  <2>1. trackers'[t].key = trackers[t].key
    BY DEF TrackersStay
  <2> QED
    BY <1>3, <2>1 DEF Replied, Clear, After, Begins, LockSteps
<1> QED
  BY <1>1, <1>2, <1>3 DEF Clear

\* The entry of a worker that has still to count its packet.
LEMMA StillOpen ==
    ASSUME TypeInv, AllCounted, OnePlace, "duplicate" \notin Faults, NEW w \in Workers, workers[w].pc = "add",
           Clear(workers[w].held, workers[w].msg.req)
    PROVE  Open(workers[w].held, workers[w].msg.req)
<1> DEFINE h == workers[w].held
           q == workers[w].msg.req
           k == workers[w].msg.key
           z == workers[w].msg.seq
<1>1. /\ workers[w].pc \in Before /\ h \in DOMAIN trackers /\ trackers[h].key = k /\ z \in SeqNums
      /\ workers[w].pc \in TrackerSteps
  <2>1. workers[w].pc \in Before /\ workers[w].pc \in TrackerSteps
    BY DEF Before, TrackerSteps, NotifySteps, ConnectSteps, LockSteps
  <2> QED
    BY <2>1, HeldTracker
<1>2. \A t \in DOMAIN trackers : trackers[t].key = k => <<t, q, z>> \notin added
  BY <1>1 DEF OnePlace, Counted
<1> HIDE DEF h, q, k, z
<1>3. ASSUME NEW v \in Workers, workers[v].pc \in After, workers[v].held = h, workers[v].msg.req = q
      PROVE  FALSE
  BY <1>1, <1>2, <1>3 DEF AllCounted, WorkersCounted, CountedAll
<1>4. ASSUME NEW i \in DOMAIN completed, completed[i].key = trackers[h].key, completed[i].req = q PROVE FALSE
  BY <1>1, <1>2, <1>4 DEF AllCounted, CompletedCounted, CountedAll
<1>5. ~Closing(h, q) /\ ~Replied(h, q)
  BY <1>3, <1>4 DEF Closing, Replied, After
<1> QED
  BY <1>5 DEF Clear, h, q

LEMMA AddClears ==
    ASSUME TypeInv, TrackersStay, AllCounted, OnePlace, "duplicate" \notin Faults, NEW w \in Workers, AddPacket(w),
           Clear(workers[w].held, workers[w].msg.req), NEW t, t = workers[w].held, NEW r, r = workers[w].msg.req
    PROVE  Clear(t, r)'
<1> DEFINE z == workers[w].msg.seq
           received == trackers[t].received[r] \cup {z}
<1>1. /\ workers[w].pc = "add" /\ t \in DOMAIN trackers /\ r \in Requests /\ z \in SeqNums
      /\ added' = added \cup {<<t, r, z>>}
      /\ \/ received # SeqNums /\ EntryBecomes(w, received) /\ workers'[w].pc = "idle"
         \/ /\ received = SeqNums
            /\ \/ EntryBecomes(w, received) /\ workers'[w].pc = "tell"
               \/ EntryBecomes(w, {}) /\ workers'[w].pc = "respond"
            /\ workers'[w].msg = workers[w].msg /\ workers'[w].held = workers[w].held
  BY PacketCounted
<1>2. Open(t, r)
  BY <1>1, StillOpen
<1>3. received = {s \in SeqNums : <<t, r, s>> \in added'}
  BY <1>1, <1>2 DEF Open
<1> HIDE DEF received, z
<1>4. CASE received # SeqNums /\ EntryBecomes(w, received)
  <2>1. trackers'[t].received[r] = received
    BY <1>1, <1>4 DEF EntryBecomes
  <2>2. ~ \A s \in SeqNums : <<t, r, s>> \in added'
    BY <1>3, <1>4
  <2>3. Open(t, r)'
    BY <1>3, <2>1, <2>2 DEF Open, CountedAll
  <2> QED
    BY <2>3 DEF Clear
<1>5. CASE workers'[w].pc = "tell" /\ workers'[w].msg = workers[w].msg /\ workers'[w].held = workers[w].held
  BY <1>5 DEF Clear, Closing, LockSteps
<1>6. CASE /\ EntryBecomes(w, {}) /\ workers'[w].pc = "respond"
           /\ workers'[w].msg = workers[w].msg /\ workers'[w].held = workers[w].held
  <2>1. trackers'[t].received[r] = {}
    BY <1>1, <1>6 DEF EntryBecomes
  <2> QED
    BY <1>6, <2>1 DEF Clear, Replied
<1> QED
  BY <1>1, <1>4, <1>5, <1>6

\* The entry of the request that is answered.
LEMMA RespondClears ==
    ASSUME TypeInv, TrackersStay, AllCounted, OneCompletes, "duplicate" \notin Faults, NEW w \in Workers, Respond(w),
           Clear(workers[w].held, workers[w].msg.req), NEW t, t = workers[w].held, NEW r, r = workers[w].msg.req
    PROVE  Clear(t, r)'
<1>1. /\ workers[w].pc = "respond" /\ t \in DOMAIN trackers /\ trackers[t].key = workers[w].msg.key
      /\ trackers' = trackers /\ DOMAIN completed' = DOMAIN completed \cup {Len(completed) + 1}
      /\ completed'[Len(completed) + 1].key = workers[w].msg.key
      /\ completed'[Len(completed) + 1].req = workers[w].msg.req
  BY RequestAnswered
<1>2. ~Open(t, r)
  BY <1>1 DEF Open, AllCounted, WorkersCounted, After
<1>3. ~Closing(t, r)
  <2> SUFFICES ASSUME NEW v \in Workers, workers[v].pc \in LockSteps, workers[v].held = t, workers[v].msg.req = r
               PROVE  FALSE
    BY DEF Closing
  <2>1. workers[v].pc \in TrackerSteps /\ workers[v].pc \in After
    BY DEF TrackerSteps, After
  <2>2. workers[v].msg.key = workers[w].msg.key
    BY <1>1, <2>1, HeldTracker
  <2>3. v = w
    BY <1>1, <2>1, <2>2 DEF OneCompletes, After
  <2> QED
    BY <1>1, <2>3 DEF LockSteps
<1>4. trackers[t].received[r] = {}
  BY <1>2, <1>3 DEF Clear, Replied
<1> QED
  BY <1>1, <1>4 DEF Clear, Replied

LEMMA EntriesClearStep ==
    TypeInv /\ AllCounted /\ OnePlace /\ OneCompletes /\ EntriesClear /\ Next => EntriesClear'
<1> SUFFICES ASSUME TypeInv, AllCounted, OnePlace, OneCompletes, EntriesClear, Next, Reliable,
                    NEW t \in DOMAIN trackers', NEW r \in Requests, <<trackers'[t].key, r>> \notin cut'
             PROVE  Clear(t, r)'
  BY DEF EntriesClear, Clear
<1>0. TrackersStay /\ "duplicate" \notin Faults
  BY StayStep DEF Reliable
<1>1. ASSUME t \in DOMAIN trackers PROVE Clear(t, r)
  <2>1. <<trackers[t].key, r>> \notin cut
    BY <1>0, <1>1, CutGrows DEF TrackersStay
  <2> QED
    BY <1>1, <2>1 DEF EntriesClear, Clear
<1>2. Begins(completed, completed)
  BY DEF Begins
<1>3. CASE PacketsStay
  <2>1. CASE t \in DOMAIN trackers
    <3>1. /\ trackers'[t].received[r] = trackers[t].received[r] /\ UNCHANGED <<added, completed>>
          /\ \A w \in Workers : workers[w].pc \in After => workers'[w] = workers[w]
      BY <1>3, <2>1 DEF PacketsStay, ReceivedStay, WorkersStay
    <3> QED
      BY <1>0, <1>1, <1>2, <2>1, <3>1, ClearStays
  <2>2. CASE t \notin DOMAIN trackers
    <3>1. trackers'[t].received[r] = {} /\ added' = added
      BY <1>3, <2>2 DEF PacketsStay, ReceivedStay
    <3>2. \A s : <<t, r, s>> \notin added
      <4> SUFFICES ASSUME NEW s, <<t, r, s>> \in added PROVE FALSE
        OBVIOUS
      <4>1. <<t, r, s>>[1] = t
        OBVIOUS
      <4> QED
        BY <1>0, <2>2, <4>1 DEF OnePlace
    <3>3. 0 \in SeqNums
      BY PetsAssumption DEF SeqNums
    <3>4. Open(t, r)'
      BY <3>1, <3>2, <3>3 DEF Open, CountedAll
    <3> QED
      BY <3>4 DEF Clear
  <2> QED
    BY <2>1, <2>2
<1>4. ASSUME UNCHANGED <<trackers, added, completed>>,
             \A w \in Workers : workers[w].pc \in After => workers'[w] = workers[w]
      PROVE  Clear(t, r)'
  BY <1>0, <1>1, <1>2, <1>4, ClearStays
<1>5. ASSUME NEW k \in Keys, SendPacket(k) PROVE Clear(t, r)'
  BY <1>4, <1>5, PacketSent
<1>6. ASSUME NEW w \in Workers, NEW m \in net, Take(w, m), m.kind = "packet" PROVE Clear(t, r)'
  <2>1. /\ UNCHANGED <<trackers, added, completed>> /\ workers[w] = Idle
        /\ \A v \in Workers : v # w => workers'[v] = workers[v]
    BY <1>6, PacketTaken
  <2> QED
    BY <1>4, <2>1 DEF Idle, After, LockSteps
<1>7. ASSUME NEW w \in Workers, AddPacket(w) PROVE Clear(t, r)'
  <2>1. /\ workers[w].pc = "add" /\ completed' = completed
        /\ added' = added \cup {<<workers[w].held, workers[w].msg.req, workers[w].msg.seq>>}
        /\ \A v \in Workers : v # w => workers'[v] = workers[v]
    BY <1>7, PacketCounted
  <2>2. \E x : EntryBecomes(w, x)
    BY <1>7, PacketCounted
  <2>3. t \in DOMAIN trackers
    BY <2>2 DEF EntryBecomes
  <2>4. CASE t = workers[w].held /\ r = workers[w].msg.req
    BY <1>0, <1>1, <1>7, <2>3, <2>4, AddClears
  <2>5. CASE ~(t = workers[w].held /\ r = workers[w].msg.req)
    <3>1. trackers'[t].received[r] = trackers[t].received[r]
      BY <2>2, <2>3, <2>5 DEF EntryBecomes
    <3>2. \A s \in SeqNums : <<t, r, s>> \in added' <=> <<t, r, s>> \in added
      BY <2>1, <2>5
    <3>3. \A v \in Workers : workers[v].pc \in After => workers'[v] = workers[v]
      BY <2>1 DEF After, LockSteps
    <3> QED
      BY <1>0, <1>1, <1>2, <2>1, <2>3, <3>1, <3>2, <3>3, ClearStays
  <2> QED
    BY <2>4, <2>5
<1>8. ASSUME NEW w \in Workers, DoneStep(w), workers'[w].pc \in LockSteps, EntriesKept PROVE Clear(t, r)'
  <2>1. /\ workers[w].pc \in LockSteps /\ UNCHANGED <<added, completed>>
        /\ \A v \in Workers : v # w => workers'[v] = workers[v]
        /\ workers'[w].msg = workers[w].msg /\ workers'[w].held = workers[w].held
    BY <1>8, RequestDone
  <2>2. t \in DOMAIN trackers /\ trackers'[t].received[r] = trackers[t].received[r]
    BY <1>8 DEF EntriesKept
  <2>3. workers[w].pc # "respond"
    BY <2>1 DEF LockSteps
  <2> QED
    BY <1>0, <1>1, <1>2, <1>8, <2>1, <2>2, <2>3, ClearStays
<1>10. ASSUME NEW w \in Workers, DoneStep(w), workers'[w].pc = "respond", EntryBecomes(w, {}) PROVE Clear(t, r)'
  <2>1. /\ UNCHANGED <<added, completed>> /\ EntryBecomes(w, {})
        /\ \A v \in Workers : v # w => workers'[v] = workers[v]
        /\ workers'[w].pc = "respond" /\ workers'[w].msg = workers[w].msg /\ workers'[w].held = workers[w].held
    BY <1>10, RequestDone
  <2>2. t \in DOMAIN trackers
    BY <2>1 DEF EntryBecomes
  <2>3. CASE t = workers[w].held /\ r = workers[w].msg.req
    <3>1. trackers'[t].received[r] = {}
      BY <2>1, <2>2, <2>3 DEF EntryBecomes
    <3> QED
      BY <2>1, <2>3, <3>1 DEF Clear, Replied
  <2>4. CASE ~(t = workers[w].held /\ r = workers[w].msg.req)
    <3>1. trackers'[t].received[r] = trackers[t].received[r]
      BY <2>1, <2>2, <2>4 DEF EntryBecomes
    <3>2. \A v \in Workers : workers[v].pc \in After /\ workers[v].held = t /\ workers[v].msg.req = r =>
               workers'[v].pc = workers[v].pc /\ workers'[v].held = t /\ workers'[v].msg.req = r
      BY <2>1, <2>4
    <3> QED
      BY <1>0, <1>1, <1>2, <2>1, <2>2, <3>1, <3>2, ClearStays
  <2> QED
    BY <2>3, <2>4
<1>9. ASSUME NEW w \in Workers, Respond(w) PROVE Clear(t, r)'
  <2>1. /\ UNCHANGED <<added, trackers>>
        /\ \A v \in Workers : v # w => workers'[v] = workers[v]
        /\ DOMAIN completed' = DOMAIN completed \cup {Len(completed) + 1}
        /\ \A i \in DOMAIN completed : completed'[i] = completed[i]
    BY <1>9, RequestAnswered
  <2>2. CASE t = workers[w].held /\ r = workers[w].msg.req
    BY <1>0, <1>1, <1>9, <2>1, <2>2, RespondClears
  <2>3. CASE ~(t = workers[w].held /\ r = workers[w].msg.req)
    <3>1. Begins(completed, completed')
      BY <2>1 DEF Begins
    <3>2. \A v \in Workers : workers[v].pc \in After /\ workers[v].held = t /\ workers[v].msg.req = r =>
               workers'[v].pc = workers[v].pc /\ workers'[v].held = t /\ workers'[v].msg.req = r
      BY <2>1, <2>3
    <3> QED
      BY <1>0, <1>1, <2>1, <3>1, <3>2, ClearStays
  <2> QED
    BY <2>2, <2>3
<1>11. ASSUME NEW w \in Workers, Escapes(w) PROVE Clear(t, r)'
  <2>1. /\ UNCHANGED <<added, completed, trackers>> /\ workers[w].held \in DOMAIN trackers
        /\ trackers[workers[w].held].key = workers[w].msg.key
        /\ \A v \in Workers : v # w => workers'[v] = workers[v]
        /\ cut' = cut \cup {<<workers[w].msg.key, workers[w].msg.req>>}
    BY <1>11, PacketCut
  <2>2. ~(workers[w].held = t /\ workers[w].msg.req = r)
    BY <2>1
  <2> QED
    BY <1>0, <1>1, <1>2, <2>1, <2>2, ClearStays
<1> QED
  BY <1>3, <1>5, <1>6, <1>7, <1>8, <1>9, <1>10, <1>11, PacketsStayStep, RequestDone

-----------------------------------------------------------------------------
(* While no call has failed *)

LEMMA MishapsStep == TypeInv /\ Next /\ mishaps' = 0 => mishaps = 0
<1> SUFFICES ASSUME TypeInv, Next PROVE mishaps' = 0 => mishaps = 0
  OBVIOUS
<1>0. mishaps \in Nat
  BY PetsAssumption DEF TypeInv, WireType
<1>1. ASSUME mishaps' = mishaps \/ mishaps' = mishaps + 1 PROVE mishaps' = 0 => mishaps = 0
  BY <1>0, <1>1
<1>2. ASSUME NEW w \in Workers, NotifyStep(w) PROVE mishaps' = 0 => mishaps = 0
  BY <1>1, <1>2, NotifyForms DEF FieldForm, SendForm, CreateSocket, OpenForm
<1>3. ASSUME NEW w \in Workers, DoneStep(w) PROVE mishaps' = 0 => mishaps = 0
  BY <1>1, <1>3, DoneForms DEF FieldForm, DeleteForm
<1>4. ASSUME NEW w \in Workers, Register(w) \/ Hello(w) PROVE mishaps' = 0 => mishaps = 0
  BY <1>4, RegisterTracks, HelloTracks DEF TrackerJoins, wireVars
<1>5. ASSUME NEW w \in Workers, NEW m \in net, Take(w, m) PROVE mishaps' = 0 => mishaps = 0
  BY <1>1, <1>5 DEF Take
<1>6. ASSUME NEW k \in Keys,
             SendRegistration(k) \/ SendHello(k) \/ SendRtt(k) \/ SendPacket(k)
      PROVE  mishaps' = mishaps
  BY <1>6 DEF SendRegistration, SendHello, SendRtt, SendPacket, serverVars, wireVars
<1>7. ASSUME NEW m \in net, Lose(m) PROVE mishaps' = mishaps
  BY <1>7 DEF Lose, serverVars, wireVars
<1> QED
  BY <1>1, <1>2, <1>3, <1>4, <1>5, <1>6, <1>7, QuietKeeps, NextSteps

\* The trackers' sockets and registrations are as before.
FieldsKept ==
    /\ DOMAIN trackers' = DOMAIN trackers
    /\ \A t \in DOMAIN trackers :
          /\ trackers'[t].sock = trackers[t].sock /\ trackers'[t].registered = trackers[t].registered
          /\ trackers[t].regTime # "none" => trackers'[t].regTime # "none"

LEMMA CalmKept == CalmTrackers /\ FieldsKept /\ sockets' = sockets => CalmTrackers'
  BY DEF CalmTrackers, FieldsKept

LEMMA SameFields == trackers' = trackers => FieldsKept
  BY DEF FieldsKept

LEMMA StoredFields ==
    ASSUME TypeInv, NEW t \in DOMAIN trackers, NEW y, trackers' = [trackers EXCEPT ![t] = y],
           y.sock = trackers[t].sock, y.registered = trackers[t].registered,
           trackers[t].regTime # "none" => y.regTime # "none"
    PROVE  FieldsKept
<1>1. DOMAIN trackers' = DOMAIN trackers /\ \A u \in DOMAIN trackers : trackers'[u] = IF u = t THEN y ELSE trackers[u]
  BY DEF TypeInv, TableType
<1> QED
  BY <1>1 DEF FieldsKept

LEMMA CalmJoins ==
    ASSUME CalmTrackers, NEW k, NEW n, TrackerJoins(k, n), mishaps' = 0
    PROVE  CalmTrackers'
  BY DEF CalmTrackers, TrackerJoins, Connected, Begins

\* notify_request tests the socket and the time, and sends.
LEMMA CalmNotify ==
    ASSUME TypeInv, CalmTrackers, NEW w \in Workers, workers[w].pc \in CalmSteps, NotifyStep(w),
           mishaps = 0, mishaps' = 0
    PROVE  UNCHANGED <<trackers, sockets>> /\ \E p \in CalmSteps : workers' = [workers EXCEPT ![w].pc = p]
<1>1. workers[w].pc \in {"notify", "check", "elapsed", "request"} /\ workers[w].pc \in TrackerSteps
  BY NotifyMoves DEF CalmSteps, Notifying, TrackerSteps, NotifySteps, ConnectSteps, LockSteps
<1>2. Is(w, "open") /\ Sock(w) # 0 /\ Tracker(w).regTime # "none"
  BY <1>1, HeldTracker DEF CalmTrackers, Is, Sock
<1>3. CASE NotifyRequest(w)
  <2>1. UNCHANGED <<trackers, sockets>>
    BY <1>3 DEF NotifyRequest, TestSocket, Test, wireVars
  <2>2. \E p \in {"check", "elapsed", "add", "request"} : workers' = [workers EXCEPT ![w].pc = p]
    BY <1>1, <1>2, <1>3 DEF NotifyRequest, TestSocket, Test, Goto
  <2> QED
    BY <2>1, <2>2 DEF CalmSteps
<1>4. CASE SendRequest(w)
  <2>1. ~Fails(w, "open")
    BY <1>2 DEF Fails
  <2>2. UNCHANGED <<trackers, sockets>> /\ workers' = [workers EXCEPT ![w].pc = "add"]
    BY <1>4, <2>1 DEF SendRequest, Goto
  <2> QED
    BY <2>2 DEF CalmSteps
<1>5. ~ConnectTests(w)
  BY <1>1 DEF ConnectTests, TestSocket, Test, Goto
<1>6. ~CreateSocket(w) /\ ~Connect(w) /\ ~Greet(w) /\ ~RegisterUe(w)
  BY <1>1 DEF CreateSocket, Connect, Greet, RegisterUe, Assign, Goto
<1>7. ~ConnectFailed(w) /\ ~RegisterUeFailed(w) /\ ~RequestFailed(w)
  BY <1>1 DEF ConnectFailed, RegisterUeFailed, RequestFailed, TestSocket, Test, CloseSocket, ClearSocket, Assign, Goto
<1> QED
  BY <1>3, <1>4, <1>5, <1>6, <1>7 DEF NotifyStep

\* notify_request_completion tests the registration, and sends.
LEMMA CalmDone ==
    ASSUME TypeInv, CalmTrackers, NEW w \in Workers, workers[w].pc \in CalmSteps, DoneStep(w),
           mishaps = 0, mishaps' = 0
    PROVE  /\ FieldsKept /\ sockets' = sockets
           /\ \E p \in CalmSteps : workers' = [workers EXCEPT ![w].pc = p]
<1>1. workers[w].pc \in {"tell", "done"} /\ workers[w].pc \in TrackerSteps
  BY DoneMoves DEF CalmSteps, LockSteps, TrackerSteps
<1>2. /\ workers[w].held \in DOMAIN trackers /\ Tracker(w) = trackers[workers[w].held] /\ Tracker(w) \in Trackers
      /\ Is(w, "open") /\ Tracker(w).registered
  BY <1>1, HeldTracker DEF CalmTrackers, Is, Sock
<1>3. CASE TestRegistered(w)
  <2>1. /\ workers' = [workers EXCEPT ![w].pc = "done"] /\ sockets' = sockets
        /\ trackers' = [trackers EXCEPT ![workers[w].held] = Tracker(w)]
    BY <1>2, <1>3 DEF TestRegistered, Assign, Goto, Store, wireVars
  <2>2. FieldsKept
    BY <1>2, <2>1, StoredFields
  <2> QED
    BY <2>1, <2>2 DEF CalmSteps
<1>4. CASE SendDone(w)
  <2>1. ~Fails(w, "open")
    BY <1>2 DEF Fails
  <2>2. workers' = [workers EXCEPT ![w].pc = "respond"] /\ sockets' = sockets /\ Store(w, Deleted(w))
    BY <1>4, <2>1 DEF SendDone, Goto
  <2>3. /\ Deleted(w).sock = Tracker(w).sock /\ Deleted(w).registered = Tracker(w).registered
        /\ Deleted(w).regTime = Tracker(w).regTime
    BY <1>2 DEF Deleted, Trackers
  <2>4. FieldsKept
    BY <1>2, <2>2, <2>3, StoredFields DEF Store
  <2> QED
    BY <2>2, <2>4 DEF CalmSteps
<1>5. ~DoneFailed(w)
  BY <1>1 DEF DoneFailed, TestSocket, Test, CloseSocket, ClearSocket, Assign, Goto
<1> QED
  BY <1>3, <1>4, <1>5 DEF DoneStep

LEMMA CalmAdd ==
    ASSUME TypeInv, NEW w \in Workers, AddPacket(w)
    PROVE  FieldsKept /\ sockets' = sockets
<1>1. workers[w].pc \in TrackerSteps /\ sockets' = sockets
  BY DEF AddPacket, CountPacket, wireVars, TrackerSteps, NotifySteps, ConnectSteps, LockSteps
<1>2. /\ workers[w].held \in DOMAIN trackers /\ Tracker(w) = trackers[workers[w].held] /\ Tracker(w) \in Trackers
  BY <1>1, HeldTracker
<1>3. \E x : trackers' = [trackers EXCEPT ![workers[w].held] = [Tracker(w) EXCEPT !.received[workers[w].msg.req] = x]]
  BY DEF AddPacket, CountPacket, Store, Deleted
<1>4. PICK x : trackers' = [trackers EXCEPT ![workers[w].held] = [Tracker(w) EXCEPT !.received[workers[w].msg.req] = x]]
  BY <1>3
<1> DEFINE y == [Tracker(w) EXCEPT !.received[workers[w].msg.req] = x]
<1>5. y.sock = Tracker(w).sock /\ y.registered = Tracker(w).registered /\ y.regTime = Tracker(w).regTime
  BY <1>2 DEF Trackers
<1> HIDE DEF y
<1>6. FieldsKept
  BY <1>2, <1>4, <1>5, StoredFields DEF y
<1> QED
  BY <1>1, <1>6

LEMMA CalmStep == TypeInv /\ NothingExpires /\ Calm /\ Next => Calm'
<1> SUFFICES ASSUME TypeInv, NothingExpires, Calm, Next, Reliable, mishaps' = 0
             PROVE  cut' = {} /\ CalmTrackers' /\ \A w \in Workers : workers'[w].pc \in CalmSteps
  BY DEF Calm
<1> DEFINE Goal == cut' = {} /\ CalmTrackers' /\ \A w \in Workers : workers'[w].pc \in CalmSteps
<1>0. /\ mishaps = 0 /\ cut = {} /\ CalmTrackers /\ \A w \in Workers : workers[w].pc \in CalmSteps
      /\ "idle" \notin Faults
  BY MishapsStep DEF Calm, Reliable
<1>t. TrackersStay /\ workers \in [Workers -> Busy \cup {Idle}]
  BY StayStep DEF TypeInv, WorkerType
<1>1. ASSUME cut' = cut, CalmTrackers', NEW w \in Workers, workers'[w].pc \in CalmSteps,
             \A v \in Workers : v # w => workers'[v] = workers[v]
      PROVE  Goal
  BY <1>0, <1>1
<1>2. ASSUME cut' = cut, FieldsKept, sockets' = sockets, NEW w \in Workers, workers'[w].pc \in CalmSteps,
             \A v \in Workers : v # w => workers'[v] = workers[v]
      PROVE  Goal
  BY <1>0, <1>1, <1>2, CalmKept
<1>3. ASSUME UNCHANGED <<cut, sockets, workers>>, FieldsKept PROVE Goal
  BY <1>0, <1>3, CalmKept
<1> HIDE DEF Goal
<1>4. "idle" \in CalmSteps /\ Idle.pc = "idle"
  BY DEF CalmSteps, Idle
<1>5. ASSUME NEW w \in Workers, Register(w) \/ Hello(w) PROVE Goal
  <2>1. workers' = [workers EXCEPT ![w] = Idle] /\ cut' = cut
    BY <1>5 DEF Register, Hello, historyVars
  <2>2. \A v \in Workers : workers'[v] = IF v = w THEN Idle ELSE workers[v]
    BY <1>t, <2>1, GetsIdle
  <2>3. CASE \E k, n : TrackerJoins(k, n)
    BY <1>0, <1>1, <1>4, <2>1, <2>2, <2>3, CalmJoins
  <2>4. CASE UNCHANGED <<trackVars, wireVars>>
    BY <1>2, <1>4, <2>1, <2>2, <2>4, SameFields DEF trackVars, wireVars
  <2>5. ASSUME Hello(w), UNCHANGED wireVars, EntriesKept, ue_trackers[workers[w].msg.key] # 0 PROVE Goal
    <3> DEFINE u == ue_trackers[workers[w].msg.key]
               y == [trackers[u] EXCEPT !.c0 = workers[w].msg.round]
    <3>1. u \in DOMAIN trackers /\ trackers[u] \in Trackers
      BY <2>5, HelloTracks DEF TypeInv, TableType
    <3>2. trackers' = [trackers EXCEPT ![u] = y]
      BY <2>5 DEF Hello
    <3>3. y.sock = trackers[u].sock /\ y.registered = trackers[u].registered /\ y.regTime = trackers[u].regTime
      BY <3>1 DEF Trackers
    <3> HIDE DEF u, y
    <3>4. FieldsKept
      BY <3>1, <3>2, <3>3, StoredFields
    <3> QED
      BY <1>2, <1>4, <2>1, <2>2, <2>5, <3>4 DEF wireVars
  <2> QED
    BY <1>5, <2>3, <2>4, <2>5, RegisterTracks, HelloTracks
<1>6. ASSUME NEW w \in Workers, StoreRtt(w) PROVE Goal
  <2> DEFINE u == ue_trackers[workers[w].msg.key]
             y == [trackers[u] EXCEPT !.t1 = workers[w].msg.round]
  <2>1. workers' = [workers EXCEPT ![w] = Idle] /\ cut' = cut /\ sockets' = sockets /\ workers[w].pc = "rtt"
    BY <1>6 DEF StoreRtt, historyVars, wireVars
  <2>2. \A v \in Workers : workers'[v] = IF v = w THEN Idle ELSE workers[v]
    BY <1>t, <2>1, GetsIdle
  <2>3. CASE u = 0
    <3>1. trackers' = trackers
      BY <1>6, <2>3 DEF StoreRtt
    <3> QED
      BY <1>2, <1>4, <2>1, <2>2, <3>1, SameFields
  <2>4. CASE u # 0
    <3>1. workers[w].msg.key \in Keys
      BY <2>1, Handling, DatagramTypes DEF TypeInv, Busy
    <3>2. u \in DOMAIN trackers /\ trackers[u] \in Trackers
      BY <2>4, <3>1 DEF TypeInv, TableType
    <3>3. trackers' = [trackers EXCEPT ![u] = y]
      BY <1>6, <2>4 DEF StoreRtt
    <3>4. y.sock = trackers[u].sock /\ y.registered = trackers[u].registered /\ y.regTime = trackers[u].regTime
      BY <3>2 DEF Trackers
    <3> HIDE DEF u, y
    <3>5. FieldsKept
      BY <3>2, <3>3, <3>4, StoredFields
    <3> QED
      BY <1>2, <1>4, <2>1, <2>2, <3>5
  <2> QED
    BY <2>3, <2>4
<1>7. ASSUME NEW w \in Workers, FindPort(w) \/ Lookup(w) PROVE Goal
  <2>1. UNCHANGED <<cut, trackers, sockets>>
    BY <1>7 DEF FindPort, Lookup, trackVars, wireVars, historyVars
  <2>2. workers'[w].pc \in {"idle", "tracker", "notify", "add"} /\ \A v \in Workers : v # w => workers'[v] = workers[v]
    BY <1>t, <1>4, <1>7, FindPortTypes, LookupTypes
  <2> QED
    BY <1>2, <2>1, <2>2, SameFields DEF CalmSteps
<1>8. ASSUME NEW w \in Workers, NEW p \in CalmSteps, workers[w].pc \in TrackerSteps, workers' = [workers EXCEPT ![w].pc = p]
      PROVE  workers'[w].pc \in CalmSteps /\ \A v \in Workers : v # w => workers'[v] = workers[v]
  BY <1>8, Goes
<1>9. ASSUME NEW w \in Workers, NotifyStep(w) PROVE Goal
  <2>1. workers[w].pc \in TrackerSteps /\ cut' = cut
    BY <1>9, NotifyMoves DEF historyVars, Notifying, TrackerSteps
  <2>2. UNCHANGED <<trackers, sockets>> /\ \E p \in CalmSteps : workers' = [workers EXCEPT ![w].pc = p]
    BY <1>0, <1>9, CalmNotify
  <2> QED
    BY <1>2, <1>8, <2>1, <2>2, SameFields
<1>10. ASSUME NEW w \in Workers, DoneStep(w) PROVE Goal
  <2>1. workers[w].pc \in TrackerSteps /\ cut' = cut
    BY <1>10, DoneMoves DEF historyVars, TrackerSteps
  <2>2. FieldsKept /\ sockets' = sockets /\ \E p \in CalmSteps : workers' = [workers EXCEPT ![w].pc = p]
    BY <1>0, <1>10, CalmDone
  <2> QED
    BY <1>2, <1>8, <2>1, <2>2
<1>11. ASSUME NEW w \in Workers, AddPacket(w) PROVE Goal
  <2>1. cut' = cut /\ workers'[w].pc \in {"idle", "tell", "respond"} /\ \A v \in Workers : v # w => workers'[v] = workers[v]
    BY <1>11, PacketCounted
  <2> QED
    BY <1>2, <1>11, <2>1, CalmAdd DEF CalmSteps
<1>12. ASSUME NEW w \in Workers, Respond(w) PROVE Goal
  <2>1. /\ UNCHANGED <<cut, trackers>> /\ workers'[w].pc = "idle"
        /\ \A v \in Workers : v # w => workers'[v] = workers[v]
    BY <1>12, RequestAnswered
  <2>2. sockets' = sockets
    BY <1>12 DEF Respond, wireVars
  <2> QED
    BY <1>2, <1>4, <2>1, <2>2, SameFields
<1>13. ASSUME NEW w \in Workers PROVE ~Escapes(w)
  <2> SUFFICES ASSUME Escapes(w) PROVE FALSE
    OBVIOUS
  <2>1. workers[w].pc = "elapsed" /\ Tracker(w).regTime = "none"
    BY <1>0 DEF Escapes, CalmSteps
  <2>2. workers[w].pc \in TrackerSteps
    BY <2>1 DEF TrackerSteps, NotifySteps
  <2> QED
    BY <1>0, <2>1, <2>2, HeldTracker DEF CalmTrackers
<1>14. ASSUME NEW w \in Workers, NEW m \in net, Take(w, m) PROVE Goal
  <2>1. UNCHANGED <<cut, trackers, sockets>>
    BY <1>14 DEF Take, trackVars, historyVars
  <2>2. m.kind \in {"register", "hello", "rtt", "packet"}
    BY DEF TypeInv, ClientType, Datagrams
  <2>3. /\ workers'[w].pc = (IF m.kind = "packet" THEN "lookup" ELSE m.kind)
        /\ \A v \in Workers : v # w => workers'[v] = workers[v]
    BY <1>t, <1>14, TakeTypes
  <2> QED
    BY <1>2, <2>1, <2>2, <2>3, SameFields DEF CalmSteps
<1>15. ASSUME NEW k \in Keys, SendRegistration(k) \/ SendHello(k) \/ SendRtt(k) \/ SendPacket(k) PROVE Goal
  BY <1>3, <1>15, SameFields DEF SendRegistration, SendHello, SendRtt, SendPacket, serverVars, trackVars, wireVars,
                       historyVars
<1>16. ASSUME NEW m \in net, Lose(m) PROVE Goal
  BY <1>3, <1>16, SameFields DEF Lose, serverVars, trackVars, wireVars,
                       historyVars
<1>17. ASSUME NEW k \in Keys, Silence(k) \/ Inspect(k) \/ Forget(k) PROVE Goal
  BY <1>3, <1>17, SameFields DEF Silence, Inspect, Forget, trackVars, wireVars,
                       historyVars
<1>18. ASSUME BeginCleanup \/ EndCleanup PROVE Goal
  BY <1>3, <1>18, SameFields DEF BeginCleanup, EndCleanup, trackVars, wireVars,
                       historyVars
<1>19. ~CloseTracker
  BY <1>0, CloseTrackerKeeps DEF NothingExpires, CloseSteps
<1>20. ASSUME NEW t \in DOMAIN trackers, RegistrationWaitOver(t) PROVE Goal
  <2> DEFINE y == [trackers[t] EXCEPT !.regTime = "old"]
  <2>1. trackers[t] \in Trackers /\ trackers' = [trackers EXCEPT ![t] = y] /\ UNCHANGED <<cut, sockets, workers>>
    BY <1>20 DEF RegistrationWaitOver, TypeInv, TableType, wireVars, historyVars
  <2>2. y.sock = trackers[t].sock /\ y.registered = trackers[t].registered /\ y.regTime # "none"
    BY <2>1 DEF Trackers
  <2> HIDE DEF y
  <2>3. FieldsKept
    BY <1>20, <2>1, <2>2, StoredFields
  <2> QED
    BY <1>3, <2>1, <2>3
<1>21. Goal
  BY <1>5, <1>6, <1>7, <1>9, <1>10, <1>11, <1>12, <1>13, <1>14, <1>15, <1>16, <1>17, <1>18, <1>19, <1>20,
     NextSteps DEF QuietStep
<1> QED
  BY <1>21 DEF Goal

-----------------------------------------------------------------------------
(* The theorems *)

LEMMA InvInit == Init => IInv
<1> SUFFICES ASSUME Init PROVE IInv
  OBVIOUS
<1>1. TypeInv
  BY TypeInit
<1>2. /\ net = {} /\ trackers = <<>> /\ sockets = <<>> /\ heard = <<>> /\ completed = <<>> /\ added = {}
      /\ cpc = "sleep" /\ \A w \in Workers : workers[w].pc = "idle"
      /\ \A k \in Keys : /\ ue_trackers[k] = 0 /\ sent[k] = 0 /\ rtts[k] = 0 /\ welcomed[k] = {}
  BY DEF Init, Idle
<1>3. DOMAIN trackers = {} /\ DOMAIN sockets = {} /\ DOMAIN heard = {} /\ DOMAIN completed = {}
  BY <1>2
<1>4. TodoTracked /\ SocketsOwned /\ ClosedIsDropped
  BY <1>2, <1>3 DEF TodoTracked, SocketsOwned, ClosedIsDropped, CloseSteps
<1>5. AllCounted
  <2>1. EntriesCounted /\ CompletedCounted /\ HeardCounted
    BY <1>3 DEF EntriesCounted, CompletedCounted, HeardCounted
  <2>2. WorkersCounted
    BY <1>2 DEF WorkersCounted, After, LockSteps
  <2> QED
    BY <2>1, <2>2 DEF AllCounted
<1>6. "idle" \notin Before
  BY DEF Before, Notifying, NotifySteps, ConnectSteps
<1>7. OnePlace
  BY <1>2, <1>6 DEF OnePlace
<1>8. OneCompletes
  <2>1. "idle" \notin After
    BY DEF After, LockSteps
  <2> QED
    BY <1>2, <1>3, <2>1 DEF OneCompletes, CompletesOnce
<1>9. NothingExpires /\ TrackedFirst
  BY <1>2, <1>3 DEF NothingExpires, TrackedFirst
<1>10. SomePlace
  BY <1>2 DEF SomePlace
<1>11. EntriesClear
  BY <1>3 DEF EntriesClear
<1>12. RequestFirst
  BY <1>3 DEF RequestFirst, RequestBeforeDone, Heard
<1>13. Calm
  <2>1. cut = {} /\ CalmTrackers
    BY <1>3 DEF Init, CalmTrackers
  <2> QED
    BY <1>2, <2>1 DEF Calm, CalmSteps
<1> QED
  BY <1>1, <1>4, <1>5, <1>7, <1>8, <1>9, <1>10, <1>11, <1>12, <1>13 DEF IInv

LEMMA InvStutter == IInv /\ UNCHANGED vars => IInv'
<1> SUFFICES ASSUME IInv, UNCHANGED vars PROVE IInv'
  OBVIOUS
<1>1. TypeInv'
  BY TypeStutter DEF IInv
<1>2. /\ UNCHANGED <<net, sent, rtts, welcomed, trackers, ue_trackers, lastActive, workers, cpc, todo>>
      /\ UNCHANGED <<sockets, heard, mishaps, closing, added, completed, cut>>
  BY DEF vars, clientVars, replyVars, trackVars, cleanVars, wireVars, historyVars
<1>3. TodoTracked' /\ SocketsOwned' /\ ClosedIsDropped'
  BY <1>2 DEF IInv, TodoTracked, SocketsOwned, ClosedIsDropped
<1>4. AllCounted'
  BY <1>2 DEF IInv, AllCounted, EntriesCounted, WorkersCounted, CompletedCounted, HeardCounted, CountedAll
<1>5. OnePlace'
  BY <1>2 DEF IInv, OnePlace, IsSent, Counted
<1>6. OneCompletes'
  BY <1>2 DEF IInv, OneCompletes, CompletesOnce
<1>7. NothingExpires' /\ TrackedFirst'
  BY <1>2 DEF IInv, NothingExpires, TrackedFirst
<1>8. SomePlace'
  BY <1>2 DEF IInv, SomePlace, Found
<1>9. EntriesClear'
  BY <1>2 DEF IInv, EntriesClear, Open, Closing, Replied, CountedAll
<1>10. RequestFirst'
  BY <1>2 DEF IInv, RequestFirst, RequestBeforeDone, Heard
<1>11. Calm'
  BY <1>2 DEF IInv, Calm, CalmTrackers
<1> QED
  BY <1>1, <1>3, <1>4, <1>5, <1>6, <1>7, <1>8, <1>9, <1>10, <1>11 DEF IInv

LEMMA InvStep == IInv /\ [Next]_vars => IInv'
<1>1. IInv /\ Next => IInv'
  BY TypeStep, TodoStep, SocketsStep, CountedStep, OnePlaceStep, OneCompletesStep, ExpiresStep, TrackedStep,
     SomePlaceStep, EntriesClearStep, CalmStep, RequestFirstStep DEF IInv, SocketsSound
<1> QED
  BY <1>1, InvStutter

LEMMA Invariance == Spec => []IInv
  BY InvInit, InvStep, PTL DEF Spec

LEMMA TypesOK == IInv => TypeOK
<1> SUFFICES ASSUME IInv PROVE TypeOK
  OBVIOUS
<1>1. ClientType /\ TableType /\ WorkerType /\ WireType /\ SocketsOwned /\ MaxRequests * Packets \in Nat
      /\ MaxHellos \in Nat
  BY PetsAssumption DEF IInv, TypeInv
<1>2. \A k \in Keys : rtts[k] \in 0..hellos[k]
  BY <1>1 DEF ClientType
<1>3. sent \in [Keys -> 0..(MaxRequests * Packets)]
  BY <1>1 DEF ClientType
<1>4. ue_trackers \in [Keys -> 0..Len(trackers)] /\ Len(trackers) \in Nat /\ DOMAIN trackers = 1..Len(trackers)
  BY <1>1 DEF TableType
<1>5. \A w \in Workers : \/ workers[w] = Idle
                         \/ /\ workers[w].pc \in HandlerSteps /\ workers[w].msg \in Datagrams
                            /\ workers[w].held \in Nat /\ workers[w].port \in Ports
  BY <1>1 DEF WorkerType, Busy
<1>6. \A w \in Workers : workers[w] # Idle => workers[w].held \in 0..Len(trackers)
                                              /\ (workers[w].pc \in TrackerSteps => workers[w].held # 0)
  <2>1. ASSUME NEW w \in Workers, workers[w].pc \in TrackerSteps PROVE workers[w].held \in 1..Len(trackers)
    BY <1>4, <2>1, HeldTracker DEF IInv
  <2>2. ASSUME NEW w \in Workers, workers[w] # Idle, workers[w].pc \notin TrackerSteps
        PROVE  workers[w].held = 0
    BY <1>1, <1>5, <2>2 DEF WorkerType, InHand
  <2> QED
    BY <1>4, <2>1, <2>2
<1>7. \A t \in DOMAIN trackers : trackers[t].sock \in 0..Len(sockets)
  <2>1. sockets \in Seq({"new", "open", "closed"}) /\ Len(sockets) \in Nat /\ DOMAIN sockets = 1..Len(sockets)
    BY <1>1 DEF WireType
  <2> QED
    BY <1>1, <2>1 DEF SocketsOwned
<1>8. closing \in 0..Len(trackers) /\ cut \subseteq Keys \X Requests
  BY <1>1, <1>4 DEF TableType, WireType
<1> QED
  BY <1>1, <1>2, <1>3, <1>4, <1>5, <1>6, <1>7, <1>8 DEF TypeOK, ClientType, TableType, WorkerType, WireType

-----------------------------------------------------------------------------
(* The theorems *)

\* Once all is handled, a request whose packets were all sent, and all were handled
\* to the end, has been counted by its client's tracker.
LEMMA QuietCounted ==
    ASSUME IInv, Reliable, Quiet, NEW k \in Keys, NEW r \in 1..(sent[k] \div Packets), <<k, r>> \notin cut
    PROVE  ue_trackers[k] # 0 /\ r \in Requests /\ CountedAll(ue_trackers[k], r)
<1>1. sent[k] \in Nat /\ TypeInv
  BY DEF IInv, TypeInv, ClientType
<1>2. ASSUME NEW s \in SeqNums
      PROVE  sent[k] > 0 /\ r \in Requests /\ <<ue_trackers[k], r, s>> \in added
  <2>1. PICK i \in 0..(sent[k] - 1) : r = 1 + i \div Packets /\ s = i % Packets
    BY <1>1, <1>2, WholeRequest
  <2>2. Numbered(k, i) = [kind |-> "packet", key |-> k, req |-> r, seq |-> s]
    BY <2>1 DEF Numbered
  <2>3. Numbered(k, i) \in Datagrams /\ sent[k] > 0
    BY <1>1, NumberedTypes
  <2>4. r \in Requests
    BY <2>2, <2>3, DatagramTypes
  <2>5. Found(Numbered(k, i))
    BY DEF IInv, SomePlace
  <2>6. \A w \in Workers : workers[w].pc \notin Before
    BY DEF Quiet, Idle, Before, Notifying, NotifySteps, ConnectSteps
  <2>7. <<ue_trackers[k], r, s>> \in added
    BY <2>2, <2>5, <2>6 DEF Found, Quiet
  <2> QED
    BY <2>3, <2>4, <2>7
<1>3. 0 \in SeqNums
  BY PetsAssumption DEF SeqNums
<1>4. "idle" \notin Faults
  BY DEF Reliable
<1>5. ue_trackers[k] # 0
  BY <1>2, <1>3, <1>4 DEF IInv, TrackedFirst
<1> QED
  BY <1>2, <1>3, <1>5 DEF CountedAll

LEMMA QuietLeavesNothing == IInv => NothingLeftOver
<1> SUFFICES ASSUME IInv, Faults \subseteq {"controller"}, Quiet,
                    NEW k \in Keys, NEW r \in 1..(sent[k] \div Packets)
             PROVE  IF <<k, r>> \in cut THEN mishaps > 0
                    ELSE /\ \E i \in DOMAIN completed : completed[i].key = k /\ completed[i].req = r
                         /\ ue_trackers[k] # 0 => trackers[ue_trackers[k]].received[r] = {}
  BY DEF NothingLeftOver, Answered
<1>r. Reliable
  BY DEF Reliable
<1>c. <<k, r>> \in cut => mishaps > 0
  BY <1>r, PetsAssumption DEF IInv, Calm, TypeInv, WireType
<1> SUFFICES ASSUME <<k, r>> \notin cut
             PROVE  /\ \E i \in DOMAIN completed : completed[i].key = k /\ completed[i].req = r
                    /\ ue_trackers[k] # 0 => trackers[ue_trackers[k]].received[r] = {}
  BY <1>c
<1>1. ue_trackers[k] # 0 /\ r \in Requests /\ CountedAll(ue_trackers[k], r)
  BY <1>r, QuietCounted
<1>2. ue_trackers[k] \in DOMAIN trackers /\ trackers[ue_trackers[k]].key = k
  BY <1>1 DEF IInv, TypeInv, TableType
<1>3. Open(ue_trackers[k], r) \/ Closing(ue_trackers[k], r) \/ Replied(ue_trackers[k], r)
  BY <1>r, <1>1, <1>2 DEF IInv, EntriesClear
<1>4. \A w \in Workers : workers[w].pc = "idle"
  BY DEF Quiet, Idle
<1>5. Replied(ue_trackers[k], r)
  BY <1>1, <1>3, <1>4 DEF Open, Closing, LockSteps
<1> QED
  BY <1>2, <1>4, <1>5 DEF Replied

\* Every variable keeps its type: a worker that handles a packet holds a tracker that
\* was made, a tracker in use is its client's, and a tracker's socket was made.
THEOREM PetsServerType == Spec => []TypeOK
  BY Invariance, TypesOK, PTL

\* Whichever threads close sockets, assign them and set them to None, a tracker has a
\* closed one only as long as a thread that closed one has its "= None" before it.
THEOREM PetsServerSockets == Spec => []ClosedIsDropped
<1>1. IInv => ClosedIsDropped
  BY DEF IInv
<1> QED
  BY <1>1, Invariance, PTL

\* A request is reported complete, to its client or to the controller, when one
\* tracker has counted all its packets, whatever the network and the controller do.
THEOREM PetsServerCounts == Spec => []CompleteMeansAllPackets
<1>1. IInv => CompleteMeansAllPackets
  BY DEF IInv, AllCounted, CompletedCounted, HeardCounted, CountedAll, CompleteMeansAllPackets, Heard
<1> QED
  BY <1>1, Invariance, PTL

\* Workers that count the last packets of a request at the same time do not both
\* complete it, unless the network repeats packets.
THEOREM PetsServerOnce == Spec => []CompletesOnce
<1>1. IInv => CompletesOnce
  BY DEF IInv, OneCompletes, CompletesOnce
<1> QED
  BY <1>1, Invariance, PTL

\* When nothing is lost, repeated or cleaned up, and all is handled, a request whose
\* packets were all sent has been answered and its tracker keeps nothing of it, unless
\* an exception ended the handling of one of them, which takes a call that failed.
THEOREM PetsServerLeavesNothing == Spec => []NothingLeftOver
  BY QuietLeavesNothing, Invariance, PTL

\* When the controller tells the clients apart, it does not hear that a request begins
\* after it heard that it is done, unless the network repeats packets.
THEOREM PetsServerAnnounces == Spec => [](OwnRntis => RequestBeforeDone)
<1>1. IInv => (OwnRntis => RequestBeforeDone)
  BY DEF IInv, RequestFirst
<1> QED
  BY <1>1, Invariance, PTL
=============================================================================
