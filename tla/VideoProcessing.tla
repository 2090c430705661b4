--------------------------- MODULE VideoProcessing ----------------------------
(***************************************************************************)
(* video-processing-tcp: a transcoding server with one more thread.  The   *)
(* decoder's frames go to one queue, a filter thread takes them, filters   *)
(* them once and hands each filtered frame to the queue of every output.   *)
(* main sets up the encoders itself, before the threads, and goes on       *)
(* without those it could not set up.                                      *)
(*                                                                         *)
(* An AVFrame is a handle: the frame it shows and the output its clone was *)
(* made for, 0 for the one the filter gave.  Whoever takes a handle from a *)
(* queue frees it, so a handle must be in one place only.  A frame of a    *)
(* stream that is not video changes nothing and is left out.  Codecs and   *)
(* the filter graph are external: fed in order, they give back in order.   *)
(***************************************************************************)
EXTENDS OrderedSequences, FiniteSets

CONSTANTS NumOutputs,    \* outputs on the command line, at most 6
          MaxPackets,    \* bound: video packets the input delivers
          CodecDepth,    \* bound: frames a codec keeps before giving one back
          FilterDepths,  \* bounds: frames a filter keeps before giving one back
          Faults         \* the kinds of failure that may happen

FaultKinds == {"init", "alloc", "codec", "filter", "convert", "write"}

ASSUME VideoProcessingAssumption ==
    /\ NumOutputs \in 1..6
    /\ MaxPackets \in Nat
    /\ CodecDepth \in Nat
    /\ FilterDepths \subseteq Nat
    /\ FilterDepths # {}
    /\ Faults \subseteq FaultKinds

Outputs == 1..NumOutputs
Frames  == 0..(MaxPackets - 1)
NoFrame == MaxPackets       \* a null pointer

VARIABLES
    mpc,          \* main
    opened,       \* the outputs whose encoder main has set up: encoder_infos
    depth,        \* frames the filter of filter_descr keeps back
    rpc,          \* packet_reading_thread: where it is
    packets,      \* video packets read
    packetQ,      \* the PacketQueue
    packetsDone,  \* its finished_ flag
    dpc,          \* decoding_thread: where it is
    decoding,     \* frames inside the decoder
    decodeQ,      \* decode_queue; a clone that failed is a null pointer in it
    decodeDone,   \* its finished_ flag
    fpc,          \* filter_thread_func: where it is
    filterEof,    \* the filter graph was told there is no more to come
    filtering,    \* frames inside the filter graph
    filtered,     \* the frame being distributed
    todo,         \* outputs the loop over encoder_queues has still to visit
    frameQ,       \* the FrameQueue of each output: handles
    finished,     \* their finished_ flags
    epc,          \* encode_frames of each output: where it is
    taken,        \* the handle it popped and has not freed
    coding,       \* frames inside the encoder
    output,       \* frames written to the network
    freed,        \* history: the handles that were freed
    failed        \* history: the outputs that met a failure; 0 is all of them

mainVars    == <<mpc, opened, depth>>
readerVars  == <<rpc, packets, packetQ, packetsDone>>
decoderVars == <<dpc, decoding, decodeQ, decodeDone>>
filterVars  == <<fpc, filterEof, filtering, filtered, todo, frameQ, finished>>
encoderVars == <<epc, taken, coding, output, freed>>
vars == <<mainVars, readerVars, decoderVars, filterVars, encoderVars, failed>>

Handles == [frame : Frames, clone : 0..NumOutputs]

TypeOK ==
    /\ mpc \in {"init", "encoders", "filter", "join", "success", "exit", "crashed"}
    /\ opened \subseteq Outputs
    /\ depth \in FilterDepths
    /\ rpc \in {"alloc", "read", "close", "done"}
    /\ packets \in 0..MaxPackets
    /\ packetQ \in Seq(Frames) /\ packetsDone \in BOOLEAN
    /\ dpc \in {"alloc", "pop", "receive", "flush", "close", "done"}
    /\ decoding \in Seq(Frames)
    /\ decodeQ \in Seq(Frames \cup {NoFrame}) /\ decodeDone \in BOOLEAN
    /\ fpc \in {"pop", "pull", "distribute", "flush", "share", "close", "done"}
    /\ filterEof \in BOOLEAN
    /\ filtering \in Seq(Frames)
    /\ filtered \in Frames \cup {NoFrame}
    /\ fpc \in {"distribute", "share"} => filtered # NoFrame
    /\ todo \subseteq opened
    /\ frameQ \in [Outputs -> Seq(Handles)]
    /\ finished \in [Outputs -> BOOLEAN]
    /\ epc \in [Outputs -> {"pop", "encode", "receive", "flush", "done"}]
    /\ taken \in [Outputs -> Seq(Handles)]
    /\ \A e \in Outputs : Len(taken[e]) = IF epc[e] \in {"encode", "receive"} THEN 1 ELSE 0
    /\ coding \in [Outputs -> Seq(Frames)]
    /\ output \in [Outputs -> Seq(Frames)]
    /\ freed \subseteq Handles
    /\ failed \subseteq 0..NumOutputs

Init ==
    /\ mpc = "init" /\ opened = {} /\ depth \in FilterDepths
    /\ rpc = "alloc" /\ packets = 0 /\ packetQ = <<>> /\ packetsDone = FALSE
    /\ dpc = "alloc" /\ decoding = <<>> /\ decodeQ = <<>> /\ decodeDone = FALSE
    /\ fpc = "pop" /\ filterEof = FALSE /\ filtering = <<>> /\ filtered = NoFrame /\ todo = {}
    /\ frameQ = [e \in Outputs |-> <<>>]
    /\ finished = [e \in Outputs |-> FALSE]
    /\ epc = [e \in Outputs |-> "pop"]
    /\ taken = [e \in Outputs |-> <<>>]
    /\ coding = [e \in Outputs |-> <<>>]
    /\ output = [e \in Outputs |-> <<>>]
    /\ freed = {}
    /\ failed = {}

\* A failure of kind k happens, to output e or, for 0, to what all share.
Fails(k, e) == k \in Faults /\ failed' = failed \cup {e}

-----------------------------------------------------------------------------
(* main *)

InitializeDecoder ==
    /\ mpc = "init"
    /\ \/ mpc' = "encoders" /\ UNCHANGED failed
       \/ Fails("init", 0) /\ mpc' = "exit"
    /\ UNCHANGED <<opened, depth, readerVars, decoderVars, filterVars, encoderVars>>

\* initialize_encoder for each output: those that fail are passed over, and main
\* goes on if there is one left.
InitializeEncoders ==
    /\ mpc = "encoders"
    /\ opened' \in SUBSET Outputs
    /\ \/ opened' = Outputs /\ UNCHANGED failed
       \/ "init" \in Faults /\ opened' # Outputs /\ failed' = failed \cup (Outputs \ opened')
    /\ mpc' = IF opened' = {} THEN "exit" ELSE "filter"
    /\ UNCHANGED <<depth, readerVars, decoderVars, filterVars, encoderVars>>

\* init_filter_graph, then the threads are started.
InitializeFilter ==
    /\ mpc = "filter"
    /\ \/ mpc' = "join" /\ UNCHANGED failed
       \/ Fails("init", 0) /\ mpc' = "exit"
    /\ UNCHANGED <<opened, depth, readerVars, decoderVars, filterVars, encoderVars>>

\* All threads are joined; enc_finished_flags has one flag for each encoder that
\* was set up, and encode_frames sets it whatever happened.
JoinAndReport ==
    /\ mpc = "join"
    /\ rpc = "done" /\ dpc = "done" /\ fpc = "done"
    /\ \A e \in opened : epc[e] = "done"
    /\ mpc' = "success"
    /\ UNCHANGED <<opened, depth, readerVars, decoderVars, filterVars, encoderVars, failed>>

Main == InitializeDecoder \/ InitializeEncoders \/ InitializeFilter \/ JoinAndReport

-----------------------------------------------------------------------------
(* packet_reading_thread *)

ReaderStart ==
    /\ rpc = "alloc"
    /\ \/ rpc' = "read" /\ UNCHANGED failed
       \/ Fails("alloc", 0) /\ rpc' = "close"
    /\ UNCHANGED <<mainVars, packets, packetQ, packetsDone, decoderVars, filterVars, encoderVars>>

\* The packet goes to the queue, and a new one is allocated for the next read.
ReadPacket ==
    /\ rpc = "read"
    /\ packets < MaxPackets
    /\ packets' = packets + 1
    /\ packetQ' = Append(packetQ, packets)
    /\ \/ UNCHANGED rpc
       \/ "alloc" \in Faults /\ rpc' = "close"
    /\ UNCHANGED <<mainVars, packetsDone, decoderVars, filterVars, encoderVars, failed>>

\* End of the input, or an error of av_read_frame: the loop ends either way.
ReadEnds ==
    /\ rpc = "read"
    /\ rpc' = "close"
    /\ UNCHANGED <<mainVars, packets, packetQ, packetsDone, decoderVars, filterVars, encoderVars,
                   failed>>

ReaderFinishes ==
    /\ rpc = "close"
    /\ packetsDone' = TRUE
    /\ rpc' = "done"
    /\ UNCHANGED <<mainVars, packets, packetQ, decoderVars, filterVars, encoderVars, failed>>

Reader ==
    /\ mpc = "join"
    /\ ReaderStart \/ ReadPacket \/ ReadEnds \/ ReaderFinishes

-----------------------------------------------------------------------------
(* decoding_thread *)

\* A thread that gets no memory goes on to finish its queue.
DecoderStart ==
    /\ dpc = "alloc"
    /\ \/ dpc' = "pop" /\ UNCHANGED failed
       \/ Fails("alloc", 0) /\ dpc' = "close"
    /\ UNCHANGED <<mainVars, readerVars, decoding, decodeQ, decodeDone, filterVars, encoderVars>>

\* A packet is sent to the codec; one it refuses is lost.
PopPacket ==
    /\ dpc = "pop"
    /\ packetQ # <<>>
    /\ packetQ' = Tail(packetQ)
    /\ \/ decoding' = Append(decoding, Head(packetQ)) /\ dpc' = "receive" /\ UNCHANGED failed
       \/ Fails("codec", 0) /\ UNCHANGED <<decoding, dpc>>
    /\ UNCHANGED <<mainVars, rpc, packets, packetsDone, decodeQ, decodeDone, filterVars, encoderVars>>

PacketsEnd ==
    /\ dpc = "pop"
    /\ packetQ = <<>>
    /\ packetsDone
    /\ dpc' = "flush"
    /\ UNCHANGED <<mainVars, readerVars, decoding, decodeQ, decodeDone, filterVars, encoderVars, failed>>

\* A decoded frame is cloned into decode_queue; nothing looks whether the clone
\* was made, and a null pointer is pushed when it was not.
ReceiveFrame ==
    /\ dpc \in {"receive", "flush"}
    /\ decoding # <<>>
    /\ decoding' = Tail(decoding)
    /\ \/ decodeQ' = Append(decodeQ, Head(decoding)) /\ UNCHANGED failed
       \/ Fails("alloc", 0) /\ decodeQ' = Append(decodeQ, NoFrame)
    /\ UNCHANGED <<mainVars, readerVars, dpc, decodeDone, filterVars, encoderVars>>

\* Mutant: the flush is inside the loop over the packets.
MutFlushInLoop ==
    /\ dpc \in {"receive", "flush"}
    /\ \/ (IF dpc = "flush" THEN decoding = <<>> ELSE Len(decoding) <= CodecDepth) /\ UNCHANGED failed
       \/ decoding # <<>> /\ Fails("codec", 0)
    /\ dpc' = "pop"
    /\ UNCHANGED <<mainVars, readerVars, decoding, decodeQ, decodeDone, filterVars, encoderVars>>

\* EAGAIN while packets may come, EOF after the flush, or an error.
ReceiveEnds ==
    /\ dpc \in {"receive", "flush"}
    /\ \/ (IF dpc = "flush" THEN decoding = <<>> ELSE Len(decoding) <= CodecDepth) /\ UNCHANGED failed
       \/ decoding # <<>> /\ Fails("codec", 0)
    /\ dpc' = IF dpc = "flush" THEN "close" ELSE "pop"
    /\ UNCHANGED <<mainVars, readerVars, decoding, decodeQ, decodeDone, filterVars, encoderVars>>

DecoderFinishes ==
    /\ dpc = "close"
    /\ decodeDone' = TRUE
    /\ dpc' = "done"
    /\ UNCHANGED <<mainVars, readerVars, decoding, decodeQ, filterVars, encoderVars, failed>>

Decoder ==
    /\ mpc = "join"
    /\ \/ DecoderStart \/ PopPacket \/ PacketsEnd
       \/ ReceiveFrame \/ ReceiveEnds \/ DecoderFinishes

-----------------------------------------------------------------------------
(* filter_thread_func *)

\* A frame is fed to the filter graph, which refuses it or, after a null pointer,
\* refuses every frame; a frame refused is lost.
PopDecoded ==
    /\ fpc = "pop"
    /\ decodeQ # <<>>
    /\ decodeQ' = Tail(decodeQ)
    /\ \/ /\ Head(decodeQ) # NoFrame /\ ~filterEof
          /\ filtering' = Append(filtering, Head(decodeQ))
          /\ fpc' = "pull"
          /\ UNCHANGED failed
       \/ Head(decodeQ) # NoFrame /\ Fails("filter", 0) /\ UNCHANGED <<fpc, filtering>>
       \/ Head(decodeQ) # NoFrame /\ filterEof /\ UNCHANGED <<fpc, filtering, failed>>
       \/ Head(decodeQ) = NoFrame /\ fpc' = "pull" /\ UNCHANGED <<filtering, failed>>
    /\ filterEof' = (filterEof \/ Head(decodeQ) = NoFrame)
    /\ UNCHANGED <<mainVars, readerVars, dpc, decoding, decodeDone, filtered, todo, frameQ, finished,
                   encoderVars>>

\* No more frames: the filter graph is told so and gives what it kept.
FramesEnd ==
    /\ fpc = "pop"
    /\ decodeQ = <<>> /\ decodeDone
    /\ filterEof' = TRUE
    /\ fpc' = "flush"
    /\ UNCHANGED <<mainVars, readerVars, decoderVars, filtering, filtered, todo, frameQ, finished,
                   encoderVars, failed>>

\* av_buffersink_get_frame gives a frame, and the loop over the queues starts.
PullFiltered ==
    /\ fpc \in {"pull", "flush"}
    /\ filtering # <<>>
    /\ filterEof \/ Len(filtering) > depth
    /\ filtered' = Head(filtering)
    /\ filtering' = Tail(filtering)
    /\ todo' = opened
    /\ fpc' = IF fpc = "pull" THEN "distribute" ELSE "share"
    /\ UNCHANGED <<mainVars, readerVars, decoderVars, filterEof, frameQ, finished, encoderVars, failed>>

\* EAGAIN, EOF, or, with no memory for a frame or an error of the filter, early.
PullEnds ==
    /\ fpc \in {"pull", "flush"}
    /\ \/ filtering = <<>> /\ UNCHANGED failed
       \/ ~filterEof /\ Len(filtering) <= depth /\ UNCHANGED failed
       \/ Fails("filter", 0)
    /\ fpc' = IF fpc = "pull" THEN "pop" ELSE "close"
    /\ todo' = IF fpc = "pull" THEN {} ELSE opened
    /\ UNCHANGED <<mainVars, readerVars, decoderVars, filterEof, filtering, filtered, frameQ, finished,
                   encoderVars>>

\* The next turn of a loop over encoder_queues.
NextOutput(e) == e \in todo /\ \A x \in todo : e <= x

\* Mutant: the frame itself is pushed, as in the flush.
MutDistribute(e) ==
    /\ fpc = "distribute"
    /\ NextOutput(e)
    /\ frameQ' = [frameQ EXCEPT ![e] = Append(@, [frame |-> filtered, clone |-> 0])]
    /\ todo' = todo \ {e}
    /\ fpc' = IF todo' = {} THEN "pull" ELSE fpc
    /\ filtered' = IF todo' = {} THEN NoFrame ELSE filtered
    /\ UNCHANGED <<mainVars, readerVars, decoderVars, filterEof, filtering, finished, encoderVars, failed>>

\* Mutant: a clone that fails ends the loop over the outputs.
MutDistributeStops(e) ==
    /\ fpc = "distribute"
    /\ NextOutput(e)
    /\ \/ /\ frameQ' = [frameQ EXCEPT ![e] = Append(@, [frame |-> filtered, clone |-> e])]
          /\ todo' = todo \ {e}
          /\ UNCHANGED failed
       \/ Fails("alloc", e) /\ todo' = {} /\ UNCHANGED frameQ
    /\ fpc' = IF todo' = {} THEN "pull" ELSE fpc
    /\ filtered' = IF todo' = {} THEN NoFrame ELSE filtered
    /\ UNCHANGED <<mainVars, readerVars, decoderVars, filterEof, filtering, finished, encoderVars>>

\* A clone of the filtered frame is pushed, or this output goes without; after
\* the last output the filtered frame is freed, and no queue has it.
Distribute(e) ==
    /\ fpc = "distribute"
    /\ NextOutput(e)
    /\ \/ frameQ' = [frameQ EXCEPT ![e] = Append(@, [frame |-> filtered, clone |-> e])]
          /\ UNCHANGED failed
       \/ Fails("alloc", e) /\ UNCHANGED frameQ
    /\ todo' = todo \ {e}
    /\ fpc' = IF todo' = {} THEN "pull" ELSE fpc
    /\ filtered' = IF todo' = {} THEN NoFrame ELSE filtered
    /\ UNCHANGED <<mainVars, readerVars, decoderVars, filterEof, filtering, finished, encoderVars>>

\* In the flush the filtered frame itself is pushed, the same to every output.
Share(e) ==
    /\ fpc = "share"
    /\ NextOutput(e)
    /\ frameQ' = [frameQ EXCEPT ![e] = Append(@, [frame |-> filtered, clone |-> 0])]
    /\ todo' = todo \ {e}
    /\ fpc' = IF todo' = {} THEN "flush" ELSE fpc
    /\ filtered' = IF todo' = {} THEN NoFrame ELSE filtered
    /\ UNCHANGED <<mainVars, readerVars, decoderVars, filterEof, filtering, finished, encoderVars, failed>>

FinishQueue(e) ==
    /\ fpc = "close"
    /\ NextOutput(e)
    /\ finished' = [finished EXCEPT ![e] = TRUE]
    /\ todo' = todo \ {e}
    /\ fpc' = IF todo' = {} THEN "done" ELSE fpc
    /\ UNCHANGED <<mainVars, readerVars, decoderVars, filterEof, filtering, filtered, frameQ, encoderVars,
                   failed>>

Filter ==
    /\ mpc = "join"
    /\ \/ PopDecoded \/ FramesEnd \/ PullFiltered \/ PullEnds
       \/ \E e \in Outputs : Distribute(e) \/ Share(e) \/ FinishQueue(e)

-----------------------------------------------------------------------------
(* encode_frames, one thread for each output main could set up *)

\* Mutant: front() without pop().
MutPopFrame(e) ==
    /\ epc[e] = "pop"
    /\ frameQ[e] # <<>>
    /\ taken' = [taken EXCEPT ![e] = <<Head(frameQ[e])>>]
    /\ epc' = [epc EXCEPT ![e] = "encode"]
    /\ UNCHANGED <<mainVars, readerVars, decoderVars, filterVars, coding, output, freed, failed>>

PopFrame(e) ==
    /\ epc[e] = "pop"
    /\ frameQ[e] # <<>>
    /\ taken' = [taken EXCEPT ![e] = <<Head(frameQ[e])>>]
    /\ frameQ' = [frameQ EXCEPT ![e] = Tail(@)]
    /\ epc' = [epc EXCEPT ![e] = "encode"]
    /\ UNCHANGED <<mainVars, readerVars, decoderVars, fpc, filterEof, filtering, filtered, todo,
                   finished, coding, output, freed, failed>>

\* Mutant: the flag is not looked at when pop returns false, the loop polls.
MutPollForEver(e) ==
    /\ epc[e] = "pop"
    /\ frameQ[e] = <<>> /\ finished[e]
    /\ UNCHANGED vars

QueueEnds(e) ==
    /\ epc[e] = "pop"
    /\ frameQ[e] = <<>> /\ finished[e]
    /\ epc' = [epc EXCEPT ![e] = "flush"]
    /\ UNCHANGED <<mainVars, readerVars, decoderVars, filterVars, taken, coding, output, freed, failed>>

\* av_frame_free on the frame popped, and on to the next.
FreeTaken(e) ==
    /\ taken' = [taken EXCEPT ![e] = <<>>]
    /\ freed' = freed \cup {Head(taken[e])}
    /\ epc' = [epc EXCEPT ![e] = "pop"]

\* The frame cannot be converted or the encoder refuses it: it is skipped.
SkipFrame(e) ==
    /\ epc[e] = "encode"
    /\ FreeTaken(e)
    /\ Fails("convert", e) \/ Fails("codec", e)
    /\ UNCHANGED <<mainVars, readerVars, decoderVars, filterVars, coding, output>>

\* The encoder takes the frame's pixels, the frame itself stays until the turn ends.
SendFrame(e) ==
    /\ epc[e] = "encode"
    /\ coding' = [coding EXCEPT ![e] = Append(@, Head(taken[e]).frame)]
    /\ epc' = [epc EXCEPT ![e] = "receive"]
    /\ UNCHANGED <<mainVars, readerVars, decoderVars, filterVars, taken, output, freed, failed>>

\* A packet comes out and is written.
WritePacket(e) ==
    /\ epc[e] \in {"receive", "flush"}
    /\ coding[e] # <<>>
    /\ coding' = [coding EXCEPT ![e] = Tail(@)]
    /\ output' = [output EXCEPT ![e] = Append(@, Head(coding[e]))]
    /\ UNCHANGED <<mainVars, readerVars, decoderVars, filterVars, epc, taken, freed, failed>>

\* The write fails: the packet is lost and the frame's turn is over, or the flush.
WriteFails(e) ==
    /\ epc[e] \in {"receive", "flush"}
    /\ coding[e] # <<>>
    /\ coding' = [coding EXCEPT ![e] = Tail(@)]
    /\ Fails("write", e)
    /\ IF epc[e] = "receive"
       THEN FreeTaken(e)
       ELSE epc' = [epc EXCEPT ![e] = "done"] /\ UNCHANGED <<taken, freed>>
    /\ UNCHANGED <<mainVars, readerVars, decoderVars, filterVars, output>>

\* EAGAIN, no memory for a packet, or an error of the encoder.
PacketsDry(e) ==
    /\ epc[e] = "receive"
    /\ \/ Len(coding[e]) <= CodecDepth /\ UNCHANGED failed
       \/ Fails("codec", e)
    /\ FreeTaken(e)
    /\ UNCHANGED <<mainVars, readerVars, decoderVars, filterVars, coding, output>>

\* The encoder is empty or fails; the trailer, the log, encode_finished = true.
FlushEnds(e) ==
    /\ epc[e] = "flush"
    /\ \/ coding[e] = <<>> /\ UNCHANGED failed
       \/ Fails("codec", e)
    /\ epc' = [epc EXCEPT ![e] = "done"]
    /\ UNCHANGED <<mainVars, readerVars, decoderVars, filterVars, taken, coding, output, freed>>

\* A frame another encoder has freed is used or freed again: anything may happen,
\* and the program may end there.
UseFreed(e) ==
    /\ epc[e] \in {"encode", "receive"}
    /\ Head(taken[e]) \in freed
    /\ mpc' = "crashed"
    /\ UNCHANGED <<opened, depth, readerVars, decoderVars, filterVars, encoderVars, failed>>

Encoder(e) ==
    /\ mpc = "join" /\ e \in opened
    /\ \/ PopFrame(e) \/ QueueEnds(e) \/ SkipFrame(e) \/ SendFrame(e) \/ UseFreed(e)
       \/ WritePacket(e) \/ WriteFails(e) \/ PacketsDry(e) \/ FlushEnds(e)

-----------------------------------------------------------------------------

Ended == mpc \in {"success", "exit", "crashed"}

Terminated == Ended /\ UNCHANGED vars

Next ==
    \/ Main \/ Reader \/ Decoder \/ Filter
    \/ \E e \in Outputs : Encoder(e)
    \/ Terminated

\* Every thread keeps running; the input ends (a bounded number of packets).
Fairness ==
    /\ WF_vars(Main) /\ WF_vars(Reader) /\ WF_vars(Decoder) /\ WF_vars(Filter)
    /\ \A e \in Outputs : WF_vars(Encoder(e))

Spec     == Init /\ [][Next]_vars
FairSpec == Spec /\ Fairness

-----------------------------------------------------------------------------
(* Properties *)

Held(e) == frameQ[e] \o taken[e]

HandlesOf(s) == {s[i] : i \in DOMAIN s}

\* The filter of filter_descr, removegrain, keeps no frame back; unless the filter
\* thread failed to pull one, each AVFrame in a queue or in an encoder's hands is
\* then there once and not freed: the flush finds no frame to share.
FramesAreOwned ==
    depth = 0 /\ 0 \notin failed =>
        /\ \A e \in Outputs : HandlesOf(Held(e)) \cap freed = {}
        /\ \A d, e \in Outputs : d # e => HandlesOf(Held(d)) \cap HandlesOf(Held(e)) = {}

\* Two threads and two codecs, a filter and three queues on the way of a frame may
\* lose it; what an output wrote is in the order it was read, each frame once.
OutputsInOrder == \A e \in Outputs : Increasing(output[e])

\* A failure of one output costs the others nothing: an output that met none, in
\* a run in which what all share met none, has written every frame that was read.
OutputsAreIsolated ==
    mpc = "success" /\ 0 \notin failed =>
        \A e \in opened \ failed : output[e] = [i \in 1..packets |-> i - 1]

\* main deletes the queues when it has joined the threads: whatever failed, the queues
\* that hold AVFrames are empty and no encoder has one it did not free.
QueuesAreDrained ==
    mpc = "success" => decodeQ = <<>> /\ \A e \in opened : frameQ[e] = <<>> /\ taken[e] = <<>>

\* No thread waits for one that has returned: while a pop can still be answered, the
\* thread that answers it runs, whichever threads failed or gave up early.
WaitsAreAnswered ==
    /\ dpc = "pop" /\ packetQ = <<>> /\ ~packetsDone => rpc # "done"
    /\ fpc = "pop" /\ decodeQ = <<>> /\ ~decodeDone => dpc # "done"
    /\ fpc \in {"distribute", "share", "close"} => todo # {}
    /\ \A e \in opened : epc[e] = "pop" /\ frameQ[e] = <<>> /\ ~finished[e] => fpc # "done"

\* What each thread still has to do, the most significant number first: the packets
\* or frames that may still reach it, what its codec or filter holds, where it is, and
\* for the filter thread the outputs its loop has still to visit.
ToRead   == MaxPackets - packets
ToDecode == ToRead + Len(packetQ)
ToFilter == ToDecode + Len(decoding) + Len(decodeQ)

\* The filtered frame has still to be handed to output e.
Waiting(e) == fpc \in {"distribute", "share"} /\ e \in todo

ToEncode(e) ==
    ToFilter + Len(filtering) + (IF Waiting(e) THEN 1 ELSE 0) + Len(frameQ[e])
        + (IF epc[e] = "encode" THEN 1 ELSE 0)

MainTurns ==
    CASE mpc = "init" -> 4 [] mpc = "encoders" -> 3 [] mpc = "filter" -> 2 [] mpc = "join" -> 1 [] OTHER -> 0

ReaderTurns == CASE rpc = "alloc" -> 3 [] rpc = "read" -> 2 [] rpc = "close" -> 1 [] OTHER -> 0

DecoderTurns ==
    CASE dpc = "alloc" -> 5 [] dpc = "receive" -> 4 [] dpc = "pop" -> 3 [] dpc = "flush" -> 2
      [] dpc = "close" -> 1 [] OTHER -> 0

FilterTurns ==
    CASE fpc = "distribute" -> 6 [] fpc = "pull" -> 5 [] fpc = "pop" -> 4 [] fpc = "share" -> 3
      [] fpc = "flush" -> 2 [] fpc = "close" -> 1 [] OTHER -> 0

EncoderTurns(e) ==
    CASE epc[e] = "receive" -> 4 [] epc[e] = "pop" -> 3 [] epc[e] = "encode" -> 2 [] epc[e] = "flush" -> 1
      [] OTHER -> 0

MainLeft       == <<MainTurns>>
ReaderLeft     == <<ToRead, ReaderTurns>>
DecoderLeft    == <<ToDecode, Len(decoding), DecoderTurns>>
FilterLeft     == <<ToFilter, Len(filtering), FilterTurns, Cardinality(todo)>>
EncoderLeft(e) == <<ToEncode(e), Len(coding[e]), EncoderTurns(e)>>

\* The program does not run for ever: a step of any thread leaves one of them less to
\* do and none of them more, lost frames, failures and the three flushes included.
LeavesLess ==
    /\ NotHigher(MainLeft', MainLeft)
    /\ NotHigher(ReaderLeft', ReaderLeft)
    /\ NotHigher(DecoderLeft', DecoderLeft)
    /\ NotHigher(FilterLeft', FilterLeft)
    /\ \A e \in Outputs : NotHigher(EncoderLeft(e)', EncoderLeft(e))
    /\ \/ Lower(MainLeft', MainLeft)
       \/ Lower(ReaderLeft', ReaderLeft)
       \/ Lower(DecoderLeft', DecoderLeft)
       \/ Lower(FilterLeft', FilterLeft)
       \/ \E e \in Outputs : Lower(EncoderLeft(e)', EncoderLeft(e))

\* Every step of the program does, so it can make a bounded number of them only.
WorkRunsOut == [][LeavesLess]_vars

\* What Terminates rests on besides scheduling: after every step no thread
\* waits for one that has returned, and there is less left to do.
Progress == [][WaitsAreAnswered' /\ LeavesLess]_vars

\* Once the input ends the program ends, whatever failed.
Terminates == <>Ended
=============================================================================
