# Edge use cases: a TLA+ verification project

This directory keeps a formal model of the programs of this repository that carry logic of
their own: the live transcoding servers and the clients that measure them, the video-tracking pair
with its detector split over a C++ and a Python process, and the request services with their
clients. Each definition is written from the source lines `PROJECT.json` ("map") names for it, is
model-checked with TLC on small instances, and the core ones have theorems checked by TLAPS.

## 1. Inventory

| Component | Source | State | Operations and interactions | Hard behaviours | Modules |
|---|---|---|---|---|---|
| Thread queues `FrameQueue`, `PacketQueue` | `transcoding-tcp-udp.cpp` 46-122, copied into every server | a queue, `finished_`, a mutex, a condition variable | `push`, `pop`, `set_finished`, called by different threads | lost wakeups, the end told too early | `ClosableQueue`, `FrameQueue` |
| Transcoding servers: seven in `transcoding-apps/transcoding`, five in `smart-stadium-transcoding` | twelve programs | packet queue, a frame queue for each output, codecs, counters, success flags | reader, decoding thread, an encoder for each output, main's joins | early returns in any thread, frames inside codecs, order across threads, late initialisation | `ServerThreads`, `TranscodingServers`, `StadiumServers`, `Transcoder` |
| Filtering server `video-processing-tcp` | `video-processing.cpp` | as above, a decode queue, frames with one owner | a filter thread between decoder and encoders, encoders set up by main | who frees a frame, one output's failure reaching another | `VideoProcessing` |
| Clients of the servers: seven in `transcoding-apps/streaming`, seven in `smart-stadium-transcoding` | fourteen programs | `push_timestamps`, `frame_count` of each thread, logs | ping, a push thread, a pull thread for each stream | a map without a lock, frames matched by position, listening for a server that does not come | `ClientThreads`, `StreamingClients`, `StadiumClients`, `PushPullClient` |
| Detector: shared-memory exchange | `detecting_tcp.cpp`, `yolo_detection_shm.py`, `run.py` | two shared buffers, four named semaphores, thread flags | frame thread, result reader, Python loop and monitor, start and exit of both processes | crash with semaphores left over, buffer given back too early, one-sided exits | `YoloShm` |
| Detector's result server and tracking clients, over TCP and RTP | `detecting_tcp.cpp`, `detecting_rtp.cpp`, `streaming_tcp.cpp`, `streaming_rtp.cpp` | result queue, connection, checker threads, `frame_timestamps`, counters | wait with a timeout, send; push thread, receiver, log | threads that outlive their waits, results lost with their connection, numbers given by two sides, a deadline behind a blocking call | `Tracking` |
| PETS request server | `udp-request-wired-DL-timestamp/server.py` | a tracker per client, worker pool, controller connections, clean-up thread | registration, handshake, packets of requests, clean-up | eight workers, a socket field without a lock, UDP loss and repetition, clean-up racing with workers | `PetsServer` |
| Request clients: three PETS, two Tutti | five `client.py` | `send_times`, events, handshake values, result files | sender, receiver, handshake thread, file transfers, one configuration after another | a timeout that restarts itself, a receive without one, responses late, twice or of an earlier session | `PetsClient` |
| PETS file transfer | `server.py` 178-282 | a connection per file | registration line, data, answer | a line that comes together with data | `PetsClient` |

Not modelled, with the reason:

* the older PETS servers and the Tutti servers: the trackers, workers and clean-up of `PetsServer` with
  fewer messages; `PetsClient` has what their clients see of them;
* `push_stream`, `decode` and `encode` threads of several clients and the bounded queue between them: no `main` starts them;
* the traffic pairs of `emulation`, `adu-E2E` and `aws-test`, the one-way latency measurement: a loop of send and receive at each
  end, no shared state;
* the pressure tools, the batch tracker, analysis and set-up scripts;
* inside modelled programs: the contents of request, response and timestamp packets (with the byte stuffing the RTP
  programs do to them), pictures, logging, wording, statistics, pacing.

What makes each of them correct:

* queues: first in first out, nothing lost, `false` only when finished and drained, no sleeper left;
* servers: every output shows the frames in order and once, responses never run ahead of requests, nothing is
  pushed to a queue whose reader was told the end, a frame is freed once, the program ends;
* their clients: a frame's time is noted before it can be looked up, and a latency is that of its frame;
* detector and tracking pair: each shared buffer has one owner, results are handed over and sent once and in order, a
  latency belongs to its result, both ends end;
* request services: the controller hears of a request before its end, a request is complete only with all its packets, what a
  client records was served, its configurations follow one another to the end.

## 2. Modules

    ClosableQueue <--refines-- FrameQueue
          | (the queues of the programs below)
    ServerThreads <- TranscodingServers, StadiumServers <- Transcoder --refines--> LossyStream
    ClientThreads <- StreamingClients, StadiumClients <- PushPullClient
    VideoProcessing     YoloShm     Tracking     PetsServer     PetsClient

`*_proofs` holds the theorems about the module of that name, `MC*` the constants of the instances;
`OrderedSequences` defines what it is for a sequence to increase.

**Families.** The servers and the clients are copies of each other with small differences. The steps the copies
share are in `ServerThreads` and `ClientThreads`, with what differs as parameters; `TranscodingServers`, `StadiumServers`,
`StreamingClients` and `StadiumClients` say for each program which steps each of its threads takes; `Transcoder` and
`PushPullClient` choose the program in the initial state and state the properties of all of them. `PetsClient` does the
same for its five programs in one module, and `Tracking` for its two pairs. A run therefore explores every program.

**FrameQueue.** `Lock`, `push`, `PopWaits`, `PopReturnsFrame`, `PopReturnsFalse` and `set_finished` are the critical
sections of lines 56-88. A waiter is a thread whose `pc` is "waiting"; `notify_one` moves one of them to where it competes for
the mutex again, `notify_all` all, and `SpuriousWakeup` may move any at any time. The other modules use closable queues: a
pop is enabled when there is an item, or the queue is finished and empty.

**Servers.** One program counter for each thread (`rpc`, `dpc`, `epc[e]`, `mpc`). Packets are numbered by their request. A
codec is external: the sequence of the frames inside it, given back in order, at most `CodecDepth` kept before one must come
out, all of them on a flush; it may refuse or fail. `output` and `stamps` are what was written and with which
timestamp. Each early return of the code is an action or a disjunct enabled by a kind in `Faults`: "init" (opening input, codecs,
outputs), "alloc" (packets, frames, clones), "codec", "convert" (`sws_scale`, filters), "write". What a thread does on its way
out, finishing queues, raising its flag, is part of that action. `simple-transcode` subtracts the first frame's time from those it decodes
before the flush and not from those the flush gives (`SimplePts`); the input's time is taken to start at 0, as a lost first frame is the
only way for the two to differ here: a stream that starts later makes the flushed ones later still, one that starts below 0 is not modelled.

**VideoProcessing.** The same with a filter thread. A frame is a handle, the picture and the output its clone was made
for; whoever takes a handle from a queue frees it, and `freed` is what was freed. `depth` is what the filter graph keeps back:
the filter string of the program keeps nothing (0), and 1 shows what the flush loop would do with a filter that does.

**Clients.** `times` is the map, `sent` what was written, `log[i]` the log of pull thread i: the number logged, the frame it was for, the
time it found. Lookup and insertion take no lock: a search that races an insertion finds the entry, finds nothing
(`operator[]` then gives 0) or crashes, the outcomes undefined behaviour has here. The server and the network are
external (`ServerConnects`, `ServerForwards`, ...): frames come in order and some do not come. Thirteen clients count what they get
and look a time up by position (`ByPosition`). `streaming-rtp` looks it up by the number the server writes into the packet:
`transcoding-rtp` computes that from the frame's timestamp as if there were sixty frames a second, gives an encoder's packet the number of
the frame popped last, and 0 to a flushed one. The model leaves it open (`Numbers`), and a packet without a usable one is passed over
(`PassesOver`).

**YoloShm.** `ppc` is `process_frames_for_yolo_shm`, `rpc` is `yolo_result_reader_thread`, `ypc` the Python program, `main` the C++
process. A frame is the run it was decoded in and its number, so that one left by an earlier run can be told from a
new one. Named semaphores keep their values when a process dies (`DetectorDies`, `MonitorExits`); `linked` says which names exist. The packet
reader and decoder are one action, `DecodeFrame`. `StartYolo` takes the three seconds `run.py` waits to be long enough for the
names to exist. `Faults`: "open", "shm", "convert", "crash" (killed anywhere), "stall", "late_reader" (the input ends before the
reader thread's first lines), "result" (an exception while a result is acquired or written, which is swallowed with the token,
`ResultFails`), "raise" (any other exception or Ctrl-C, whose finally clause unlinks every name, `YoloRaises`). The text of a frame's number
left by an earlier start may be longer than the new one, and then `ReadMetadata` raises.

**Tracking.** `ppc`, `vpc`, `cmain` are the client's threads, `dmain`, `spc` the detector's main and result server. A wait of the
server starts a detached thread that pops `yolo_result_queue`; `checker` says that the one of this wait has not popped, `stale`
counts those of waits that timed out. `slot` is the result a wait was given. Detecting a frame is one step (`YoloShm`
has it in detail): it gets the next number or is lost, before or after numbering. A short `recv` sets `desync`; a search that races an
insertion misses or crashes. The first send to a client that has hung up fails or goes nowhere, a later one may end the detector by
SIGPIPE (`SendKills`).

**PetsServer.** A worker is idle or in `handle_request` with a datagram. Sockets and `request_queue` are one set of datagrams,
`net`: UDP reorders, and eight workers reorder again. A critical section of `tracker_lock` is one step, and so is the counting of a packet. `controller_socket`,
`registered` and `registration_time` are shared under no common lock (`notify_request_completion` holds the tracker's, `cleanup`
holds `tracker_lock`, `notify_request` and `connect_to_controller` none), and each use of one is a step: a test, a call on the socket, its close,
the assignment of None. A call on None raises; in a try block it is caught, in the except clause it
leaves the handler (`Escapes`) and with it the packet uncounted or the request unanswered, which `cut` remembers. `Silence`, ten seconds
without a datagram, is possible only where the client really waits.

**PetsClient.** `mpc` is `run_ue_configs`, `spc` the sender (UDP or files), `rpc` the receiver, `hpc` `perform_handshake`, which the sender runs
first and then a thread of its own. Datagrams carry no session in the program; the model writes it in them for the
properties only. Two datagrams with the same contents are one. `cut`, `doubled` and `unsure` are histories: an exchange the session waits for was cut
short, something came twice, a handshake was repeated or abandoned. Of the server the model keeps what decides whether it answers: `tracker`, by
session none, one with the client's port, or one made by a handshake with the port nobody reads ("astray"). `Forget` is its
clean-up after ten seconds of silence; a request without a tracker is passed over, one whose handling raises is dropped
(`FailRequest`), and either sets `cut`. `ReadLine` is the server's first `recv` of a file: it gets the line alone, or the
line and data, which is no number.

## 3. Runs

| Run | Instance | What it shows |
|---|---|---|
| `frame_queue` | 2 consumers, 3 pushes | refinement of `ClosableQueue`; no wakeup is lost: while a consumer sleeps the queue is not finished, and each frame in it has a consumer awake in `pop`; every consumer ends |
| `servers_faults` | 12 servers, 2 outputs, 2 packets, codec depth 1, every fault | each output is a lossy stream (order, responses behind requests), no push after finished, an encoder that refused no frame returns only when drained, timestamps never decrease; but for two start-up failures no thread waits for one that has returned and each server ends; each step leaves less work |
| `servers_clean` | 12 servers, 2 outputs, 3 packets, no fault | a clean run delivers everything to every output |
| `video_processing` | 2 outputs, 2 packets, codec depth 1, filter depths 0 and 1, every fault | order, one owner for each frame, failures stay with their output, no thread waits for one that has returned, each step leaves less work, termination |
| `clients` | 14 clients, 2 streams, 2 frames, every fault | logs in order and complete, termination; in the thirteen that count, times are noted before they are looked up and latencies belong to their frames |
| `yolo_restart` | 2 frames, 3 runs, every fault | each buffer has one owner, results handed over once and in order, across crashes, exceptions and restarts |
| `yolo_once` | 4 frames, 1 run, failing conversions | frames taken over are those posted, both programs end |
| `tracking` | both pairs, 3 frames, 1 orphaned checker, every fault | results kept, sent once and in order, latencies of their own frames, a count that agrees means all answered, both programs end when told |
| `tracking_ends` (violation) | RTP pair, 2 frames | the client is not told that all frames are sent and does not end |
| `pets_ordered` | 1 client, 2 requests of 2 packets, 2 workers, 2 failing calls | each request completes once, is announced before it is reported done, leaves nothing behind unless an exception ended the handling of a packet |
| `pets_faults` | 1 request of 2 packets, 2 handshakes, every fault | complete only with all packets, no worker stuck on a lock |
| `pets_client` | 5 clients, 2 configurations (1 with handshakes) of 2 requests or files in 2 chunks, every fault | files complete and in order, what is recorded was served, a round-trip time is of its handshake, configurations end unless an exchange they need was cut |

Many properties hold up to something the code does not guard against, and say so: `LatencyIsItsFrames` while no frame
is lost and only where frames are matched by position, `NothingLeftOver` unless a failed call to the controller let an exception out, `RecordedMeansServed` while nothing is delivered twice, `Terminates` but for a thread that
listens for a server that never came. The condition is the exact place where the program gives up, and the part before it is
what a change could break; each property has a mutant of the code that breaks it.

**Bounds.** Two outputs are enough for a loop over the outputs to be between two of them and for one to fail while the other goes on; the
outputs share nothing else. Two packets with a codec that keeps one fill a queue and a codec at once; the flush gives
back what is left. Two consumers suffice for a notification to go to the wrong thread, three pushes for a consumer to be
overtaken. Each buffer of the detector holds one frame, so the second frame is where the producer first waits, the second run where it
first finds something, and the third where a token lost in the second is missed. In `tracking` one orphaned checker takes the result of a later wait, and the third frame shows what
follows. For the clients the second frame is the one a lost first can be taken for. In the PETS server clients share only `tracker_lock`,
the workers and the table of identities; two packets and two workers make the race for the last packet, two requests the
one between requests, two handshakes the renewal of the timestamps. In `pets_client` two configurations let a
datagram of one come in the next, two requests an answer overtake another, three chunks of a file (line and two) a
coalesced and a separate read; `MaxMishaps` bounds what the network does, `MaxHandshakes` how often the handshake is repeated. With two configurations
the client with handshakes has too many states for a regular run.

**Deadlock** is checked where a run's configuration does not say otherwise. It is off where the program may really
stop for good or wait for another that need not act: detector, clients, tracking, request services.

**Fairness.** Every thread of a live process is scheduled: weak fairness of its actions as a whole, never of a choice inside it. A mutex
may be lost to another thread any number of times, so its acquisition has strong fairness. The input is finite (a file, or a
stream that is closed), which the programs assume too. An external server or network that has not failed delivers. No fairness
is put on a fault, a crash, a spurious wakeup or a repeated handshake, nor on `Terminated` steps. `YoloShm` assumes that the
monitor, which looks every tenth of a second, ends a blocked process once the C++ program has gone. `PetsServer` asks nothing:
its properties are safety, freedom from deadlock (`NobodyStuck`) among them.

### Findings

`tracking_ends` is a disagreement between the RTP client and a comment of its own: `all_frames_sent` is never set (the
assignment is commented out) and is looked at only between blocking reads, so that a detector that misses the end
of the video leaves main joining for ever.

Further disagreements met while modelling, each with a configuration whose one property TLC finds violated:

| Configuration | Property | The code |
|---|---|---|
| `MCServersSuccess.cfg` | `SuccessMeansEncoded` | main reports success although an output gave up with frames queued (`transcoding-tcp-udp.cpp` 1215) |
| `MCServersLate.cfg` | `EndsWhateverFails` | in tcp, udp and rtp encoders wait for an announcement that a failed initialisation never makes; in `simple-transcode` a decoder that cannot be made leaves its queue unfinished |
| `MCClientsMap.cfg` | `MapIsGuarded` | `push_mutex` is declared for the maps and not taken by the threads that run |
| `MCYoloPixels.cfg` | `DetectionOfItsFrame` | the frame buffer is given back before inference reads it |
| `MCYoloStale.cfg` | `ReadyMeansNewFrame` | the frame semaphores are not cleared at a start |
| `MCYoloBothEnd.cfg` | `BothEnd` | the monitor never ends a Python program that saw no frame |
| `MCYoloStop.cfg` | `DetectorEnds` | the result reader raises its flag after main lowered it; main waits for ever |
| `MCPetsCut.cfg` | `EveryRequestAnswered` | a worker closes `controller_socket` after another set it to None: the exception leaves the except clause, and the request is not answered (`server.py` 129-133, 145-148) |
| `MCPetsRegister.cfg` | `RegisteredFirst` | a UE is marked as registered after NEW_UE failed (`server.py` 87) |
| `MCPetsNewUe.cfg` | `NewUeOnce` | a client that was cleaned up and shakes hands again is registered a second time (332, 378) |
| `MCPetsDelay.cfg` | `DelayFromOneHandshake` | a periodic handshake replaces two of the three timestamps of a delay at once and the third later (389, 408) |
| `MCPetsPort.cfg` | `AnswersOnListenPort` | a tracker made by a handshake answers on the port the client sends from (376) |
| `MCPetsCleanup.cfg` | `CleanupSurvives` | the clean-up thread ends with a KeyError after a race with a worker (331) |

## 4. Proofs

| Module | Theorems | Argument |
|---|---|---|
| `FrameQueue_proofs` | `FrameQueueType`, `FrameQueueImplements`, `FrameQueueWakes` | the type invariant makes critical sections exclusive; with it each step is a step of `ClosableQueue` or a stutter; wakeups: see below |
| `Transcoder_proofs` | `StreamPromises`, `TranscoderType`, `TranscoderStreams`, `TranscoderInOrder`, `TranscoderResponses`, `TranscoderNoPushAfterFinished`, `TranscoderReturnsAfterDrained`, `TranscoderCleanRun`, `TranscoderStamps`, `TranscoderProgress` | every step of each of the twelve programs moves, drops or writes a frame of one output's `Pipe` (`Flows`), which is a step of `LossyStream`; order and responses follow from the invariant of the abstract stream; see below |
| `PushPullClient_proofs` | `ClientTypes`, `ClientTimes`, `ClientLatencies`, `ClientLogOrder`, `ClientLogWhole`, `ClientIsKnown` | see below |
| `VideoProcessing_proofs` | `VideoProcessingType`, `VideoProcessingInOrder`, `VideoProcessingOwners`, `VideoProcessingIsolated`, `VideoProcessingDrains`, `VideoProcessingProgress` | see below |
| `YoloShm_proofs` | `YoloShmType`, `BuffersOwned`, `ResultsHandedOver`, `ResultsPushedInOrder`, `FramesHandedOver`, `FirstRunHandOver` | see below |
| `Tracking_proofs` | `TrackingType`, `TrackingKeepsResults`, `TrackingInOrder`, `TrackingLatencies`, `TrackingLogs`, `TrackingCounts` | see below |
| `PetsServer_proofs` | `PetsServerType`, `PetsServerSockets`, `PetsServerCounts`, `PetsServerOnce`, `PetsServerLeavesNothing`, `PetsServerAnnounces` | see below |
| `PetsClient_proofs` | `PetsClientServed`, `PetsClientRtt`, `PetsClientRecords` | see below |

The theorems hold for all values of the constants that satisfy the named assumptions (`TranscoderAssumption`, `YoloAssumption`,
`TrackingAssumption`, ...): any number of packets, frames, restarts, orphaned checkers, any codec depth, any set of faults, every
program; up to six outputs, which is the limit of the programs. The properties alone are not inductive:

* order on the wire says nothing of frames still inside: the invariant puts output, encoder, popped frame, queue, the frame
  being cloned, decoder and packet queue in one sequence, `Pipe`, and asks that it increases;
* that a response is behind its request needs a bound for every frame inside: as many requests lie between it and the
  last response as there are frames ahead of it;
* that a clean run is complete needs the same sequence and the history of the input: without failures output and `Pipe` together are the
  video stream at any time (`Complete`), so it remains to show that the pipe is empty when main reports success. That is `EndsInTurn`:
  the flush begins once the reader has ended and the packet queue is empty, the decoder closes with nothing in its codec, and an
  encoder ends with nothing in its own;
* timestamps do not decrease for two different reasons. Five programs count: then written stamps and those inside the codec, in a row, do
  not decrease and are below the count, until the flush, which writes the count itself (`CountsUp`). In the others each packet carries the
  time its own frame is shown at (`ShowsTime`), and order is that of the frames, since rescaling is monotone for any frame rate. Which
  program does which is `EncoderIsStamped`;
* one owner of a buffer needs to know how the semaphores are made: the second one only with the first, and no Python program attached
  while the C++ side sets up; then the sum of both semaphores and both owners is at most one, which every
  action keeps, crashes included because they only lose a token;
* results in order need what is still queued and held: sent, held and queued results with the next number form one
  increasing sequence, of which an orphaned checker only drops members; that a wait holds at most one result, and none that a second
  checker could replace, is part of the type invariant;
* latencies need the numbers to agree all along the way, from the frames in the stream over the queue and the connection to the log;
  the log is in order because its entries come from what was sent, which is, and a receiver that counts as many answers as
  frames has one for each, since those answers are distinct numbers below the count;
* the hand-over between the detector's processes needs to say what a token means: while a result's token is out, or its owner is at
  work, what was written is what was received and that one result; a frame announced is later, by run and number, than every
  frame taken over, and what was posted is what was seen, or one more. A frame of an earlier start is what `FramesHandedOver`
  excludes by its hypothesis; `FirstRunHandOver` shows that the hypothesis is met in every deployment started once;
* in the filtering server, order is per output on the way output, encoder, popped frame, queue, frame at the filter. One owner of
  a frame needs that a clone carries its output's mark and that, while the filter keeps nothing back, nothing is shared at all
  (`Unshared`). That a failure stays with its output needs the stages to be numbered through, counting back from the last packet
  read (`FirstPacket`, `FirstDecoding`, ..., `FirstCoding`): then an output whose thread is done, with everything in front of it
  drained, has written 0 to the last one;
* that no wakeup is lost needs a count: one push wakes one consumer, and that one may find its frame taken by another that never
  slept. While one sleeps there are at least as many consumers awake in `pop` as frames in the queue (`NoLostWakeup`), each push adds
  one of both, and who takes a frame leaves with it; a spurious wakeup only adds to the awake ones;
* that no thread waits for one that has returned (`WaitsAreAnswered` of both servers) needs what a thread leaves behind: one that
  has returned told the one it feeds, and one that tells its outputs one after the other has told those it passed
  (`ToldInv`). In `Transcoder` it also needs which threads start together, and that only programs that make their decoder late run
  without one (`StartedInv`); in `VideoProcessing` that main starts no thread without an output, so that a loop over the
  outputs has one to visit;
* that work runs out (`WorkRunsOut` of both servers) is a measure for each thread: the packets or frames that may still
  reach it, what its codec or filter holds, where it is. They are natural numbers (`LeftOK`, part of the theorem), compared in dictionary
  order. Each step lowers the measure of the thread that takes it, and a frame that moves on raises none, because what a
  thread may still get counts all that lies in front of it. The two together are `Progress`, what termination rests on
  besides scheduling: a bounded number of steps, and no thread waiting in vain;
* in the clients the frames written are numbered through and the time of each is noted first (`PushInv`); those a stream has counted, holds
  and has on its way are no more than the server has dealt with, which are no more than were pushed (`CountInv`), so an index
  looked up by position is below `pushed`. Order is that of log, hands and network in a row (`OrderInv`). While nothing of a stream was lost the
  row is without a gap (`WholeInv`), so that position and frame agree and, when the thread has ended, only what the decoder keeps back is not
  logged. All fourteen programs are reduced to one set of shared steps first (`StepsAreShared`). What the RTP client makes of
  the numbers it is sent is left out of `TimeIsRecorded` and `LatencyIsItsFrames`, and its log is in order of frames whatever they are;
* in the PETS server a packet that was sent is on its way, with one worker that has not counted it, or counted, and in one of these
  places only while nothing is repeated (`OnePlace`). So of the workers that add the packets of a request one finds it full, and it
  alone is in `done` or `respond` (`OneCompletes`). The first packet is counted after its worker has announced the request, and DONE
  comes after all are counted, so a REQUEST under way excludes a DONE. When nothing is lost the packet is in one place at least (`SomePlace`),
  and an entry of a tracker is open, being closed, or answered and empty (`EntriesClear`); once all is handled only the last is left. This
  needs that a tracker is not replaced under a request: without silence nothing expires (`NothingExpires`) and packets come after the tracker
  (`TrackedFirst`), and that no exception leaves an except clause until a call to the controller fails (`Calm`: every tracker has no socket or an
  open one of its own). That a closed socket stays with no tracker (`ClosedIsDropped`) needs each socket to have one owner, the tracker it was
  made for or the worker that is about to assign it (`SocketsOwned`). `PetsServerAnnounces` has the hypothesis `OwnRntis`, that the controller tells the clients apart: requests are
  numbered by client, and the controller is told the radio identity only;
* what a client records needs that no session leaves a request or a response behind: each one under way is of the session main
  waits for and of a request not complete yet (`Pending`), so that a receiver that ends, having all requests complete, ends
  with none; a round-trip time needs that a hello and its answer are never under way together, and none but while the
  client waits (`Greeted`). Both fail as soon as a datagram may come twice, which is why the properties say so. The lines of the
  latency file follow the completed requests without a gap (`Lined`), which the loop over pending lines keeps; where it stops
  is a least number, from the library's well-foundedness of the naturals.

Model-checked only. Liveness, and `NobodyStuck` of `PetsServer`, since fairness and ENABLED are outside what TLAPS does here: of the
termination of the queues and the servers the theorems show the part that needs neither. Every other safety property of the passing runs,
and every action property, has a theorem.
Proved and in no run: the type invariants, which every proof uses; that the queues of the filtering server are empty
when main deletes them (`QueuesAreDrained`); that a client that waits for a pong streams only to a server that knows it
(`ServerKnowsTheClient`). What a
recursive definition computes cannot be proved here (the library's induction theorems take an operator as a parameter), nor
anything in a module that reaches a RECURSIVE operator; no module here declares one.

## 5. Plan

Done: the queues, both families of servers and of clients, the filtering server, the detector, the tracking pair, the PETS
server and the request clients. Left, in this order:

1. `PetsServer` with the programs of the older PETS and the Tutti servers, chosen in the initial state as in the other families.
2. `PetsClient` composed with `PetsServer` in place of the server its clients see.

## 6. Running

    tlc -workers 2 -config MCServersFaults.cfg MCTranscoder
    tlapm Transcoder_proofs.tla
