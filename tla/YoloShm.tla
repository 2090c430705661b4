------------------------------- MODULE YoloShm -------------------------------
(***************************************************************************)
(* The detector: detecting_tcp decodes frames and hands them to a Python   *)
(* process, yolo_detection_shm.py, through a shared-memory buffer guarded  *)
(* by two named semaphores; the detections come back through a second      *)
(* buffer with two semaphores of its own.  run.py starts the C++ program,  *)
(* then the Python one, and waits for both.                                *)
(*                                                                         *)
(* Named semaphores and shared memory outlive the processes: what a crash  *)
(* leaves behind, the next start finds.  The frame channel is opened as it *)
(* was left, the result channel is unlinked first.                         *)
(***************************************************************************)
EXTENDS Naturals, Sequences

CONSTANTS MaxFrames,  \* bound: frames decoded in one run
          MaxStarts,  \* bound: times run.py is run
          Faults      \* the kinds of failure that may happen

FaultKinds == {"open", "shm", "convert", "crash", "stall", "late_reader", "raise", "result"}

ASSUME YoloAssumption ==
    /\ MaxFrames \in Nat
    /\ MaxStarts \in Nat
    /\ Faults \subseteq FaultKinds

VARIABLES
    starts,        \* times the detector was started
    main,          \* main of detecting_tcp; "down": the process does not exist
    decoded,       \* frames pushed to frame_queue in this run
    inputEnded,    \* the decoding thread has finished frame_queue and ended
    ppc,           \* process_frames_for_yolo_shm
    frameCounter,  \* frame_counter: frames popped from frame_queue
    posted,        \* history: frames announced with sem_post(sem_ready)
    linked,        \* which of the frame channel's names exist
    frameReady,    \* value of the semaphore /frame_ready
    frameDone,     \* value of the semaphore /frame_processed
    meta,          \* the frame named in the buffer's metadata
    pixels,        \* the frame whose pixels are in the buffer
    rpc,           \* yolo_result_reader_thread
    readerRunning, \* yolo_result_thread_running
    resultLinked,  \* the names of the result channel made by this run exist
    resultReady,   \* value of the semaphore /result_ready
    resultDone,    \* value of the semaphore /result_processed
    resultBuf,     \* the result in the result buffer
    received,      \* history: results pushed to yolo_result_queue
    ypc,           \* the Python process; "down": it has ended
    job,           \* frame_num of its current frame
    jobPixels,     \* what the model saw
    framesYolo,    \* its frame_counter
    seen,          \* history: frames it took over, in order
    written        \* history: results it wrote

frameVars  == <<posted, linked, frameReady, frameDone, meta, pixels>>
sourceVars == <<decoded, inputEnded>>
resultVars == <<resultLinked, resultReady, resultDone, resultBuf, written>>
readerVars == <<rpc, readerRunning, received>>
yoloVars   == <<ypc, job, jobPixels, framesYolo, seen>>
vars == <<starts, main, sourceVars, ppc, frameCounter, frameVars, resultVars, readerVars, yoloVars>>

Names == {"shm", "ready", "processed"}

\* A frame is named by the run it was decoded in, from 1, and its number in it.
Images  == Nat \X Nat
NoFrame == <<0, 0>>
Torn    == <<0, 1>>  \* pixels half converted
Results == [frame : Images, image : Images]
NoResult == [frame |-> NoFrame, image |-> NoFrame]

TypeOK ==
    /\ starts \in 0..MaxStarts
    /\ main \in {"down", "init", "run", "stop"}
    /\ decoded \in 0..MaxFrames
    /\ inputEnded \in BOOLEAN
    /\ ppc \in {"setup", "pop", "wait", "metadata", "scale", "convert", "post", "skip", "cleanup", "done"}
    /\ frameCounter \in 0..decoded
    /\ ppc \in {"wait", "metadata"} => frameCounter < decoded
    /\ posted \in Seq(Images)
    /\ linked \in SUBSET Names
    /\ frameReady \in Nat
    /\ frameDone \in Nat
    /\ meta \in Images
    /\ pixels \in Images
    /\ rpc \in {"setup", "wait", "read", "post", "done"}
    /\ readerRunning \in BOOLEAN
    /\ resultLinked \in BOOLEAN
    /\ resultReady \in Nat
    /\ resultDone \in Nat
    /\ resultBuf \in Results
    /\ received \in Seq(Results)
    /\ ypc \in {"off", "attach", "wait", "metadata", "release", "infer", "acquire", "write",
                "publish", "down"}
    /\ job \in Images
    /\ jobPixels \in Images
    /\ framesYolo \in Nat
    /\ seen \in Seq(Images)
    /\ written \in Seq(Results)

Init ==
    /\ starts = 0
    /\ main = "down"
    /\ decoded = 0
    /\ inputEnded = FALSE
    /\ ppc = "done"
    /\ frameCounter = 0
    /\ posted = <<>>
    /\ linked = {}
    /\ frameReady = 0
    /\ frameDone = 0
    /\ meta = NoFrame
    /\ pixels = NoFrame
    /\ rpc = "done"
    /\ readerRunning = FALSE
    /\ resultLinked = FALSE
    /\ resultReady = 0
    /\ resultDone = 0
    /\ resultBuf = NoResult
    /\ received = <<>>
    /\ ypc = "down"
    /\ job = NoFrame
    /\ jobPixels = NoFrame
    /\ framesYolo = 0
    /\ seen = <<>>
    /\ written = <<>>

-----------------------------------------------------------------------------
(* run.py, main and the process as a whole *)

\* run.py starts detecting_tcp: main starts its threads, then opens the input.
StartDetector ==
    /\ main = "down"
    /\ ypc = "down"
    /\ starts < MaxStarts
    /\ starts' = starts + 1
    /\ main' = "init"
    /\ decoded' = 0
    /\ inputEnded' = FALSE
    /\ ppc' = "setup"
    /\ frameCounter' = 0
    /\ posted' = <<>>
    /\ rpc' = "setup"
    /\ readerRunning' = FALSE
    /\ received' = <<>>
    /\ ypc' = "off"
    /\ framesYolo' = 0
    /\ seen' = <<>>
    /\ written' = <<>>
    /\ UNCHANGED <<linked, frameReady, frameDone, meta, pixels, resultLinked, resultReady,
                   resultDone, resultBuf, job, jobPixels>>

\* Three seconds later it starts the Python program, which is taken to be long
\* enough for the C++ threads to create their names.
StartYolo ==
    /\ ypc = "off"
    /\ ppc # "setup" /\ rpc # "setup"
    /\ ypc' = "attach"
    /\ UNCHANGED <<starts, main, sourceVars, ppc, frameCounter, frameVars, resultVars, readerVars,
                   job, jobPixels, framesYolo, seen>>

OpenInput ==
    /\ main = "init"
    /\ main' = "run"
    /\ UNCHANGED <<starts, sourceVars, ppc, frameCounter, frameVars, resultVars, readerVars, yoloVars>>

\* The process dies with its threads wherever they are: killed or aborted, or
\* main returned on a failed initialize_decoder with its threads joinable.
DetectorDies ==
    /\ \/ "crash" \in Faults /\ main # "down"
       \/ "open" \in Faults /\ main = "init"
    /\ main' = "down"
    /\ ppc' = "done"
    /\ rpc' = "done"
    /\ UNCHANGED <<starts, sourceVars, frameCounter, frameVars, resultVars, readerRunning,
                   received, yoloVars>>

\* main has joined the decoder and the frame thread: it tells the reader to end.
\* The reader sets that flag itself when it starts; it has done so by now, unless
\* the input was very short ("late_reader").
StopThreads ==
    /\ main = "run"
    /\ inputEnded
    /\ ppc = "done"
    /\ "late_reader" \in Faults \/ rpc # "setup"
    /\ main' = "stop"
    /\ readerRunning' = FALSE
    /\ UNCHANGED <<starts, sourceVars, ppc, frameCounter, frameVars, resultVars, rpc, received, yoloVars>>

\* The reader is joined, cleanup() unlinks every name and leaves with _exit.
ExitDetector ==
    /\ main = "stop"
    /\ rpc = "done"
    /\ main' = "down"
    /\ linked' = {}
    /\ resultLinked' = FALSE
    /\ UNCHANGED <<starts, sourceVars, ppc, frameCounter, posted, frameReady, frameDone, meta, pixels,
                   resultReady, resultDone, resultBuf, written, readerVars, yoloVars>>

\* decoding_thread pushes a frame, or finishes frame_queue and ends.
DecodeFrame ==
    /\ main = "run"
    /\ ~inputEnded
    /\ decoded < MaxFrames
    /\ decoded' = decoded + 1
    /\ UNCHANGED <<starts, main, inputEnded, ppc, frameCounter, frameVars, resultVars, readerVars, yoloVars>>

DecodeEnds ==
    /\ main = "run"
    /\ ~inputEnded
    /\ inputEnded' = TRUE
    /\ UNCHANGED <<starts, main, decoded, ppc, frameCounter, frameVars, resultVars, readerVars, yoloVars>>

Main == OpenInput \/ StopThreads \/ ExitDetector

-----------------------------------------------------------------------------
(* process_frames_for_yolo_shm *)

\* shm_open and sem_open with O_CREAT: a name that exists is used as it is.
OpenFrameChannel ==
    /\ ppc = "setup"
    /\ linked' = Names
    /\ frameReady' = IF "ready" \in linked THEN frameReady ELSE 0
    /\ frameDone' = IF "processed" \in linked THEN frameDone ELSE 1
    /\ meta' = IF "shm" \in linked THEN meta ELSE NoFrame
    /\ pixels' = IF "shm" \in linked THEN pixels ELSE NoFrame
    /\ \/ ppc' = "pop"
       \* no memory for the BGR frame: the thread leaves everything as it is
       \/ "shm" \in Faults /\ ppc' = "done"
    /\ UNCHANGED <<starts, main, sourceVars, frameCounter, posted, resultVars, readerVars, yoloVars>>

\* The shared memory cannot be opened, sized or mapped.
OpenFrameChannelFails ==
    /\ ppc = "setup"
    /\ "shm" \in Faults
    /\ linked' \in {linked, linked \ {"shm"}}
    /\ ppc' = "done"
    /\ UNCHANGED <<starts, main, sourceVars, frameCounter, posted, frameReady, frameDone, meta, pixels,
                   resultVars, readerVars, yoloVars>>

\* frame_queue->pop
PopFrame ==
    /\ ppc = "pop"
    /\ frameCounter < decoded
    /\ ppc' = "wait"
    /\ UNCHANGED <<starts, main, sourceVars, frameCounter, frameVars, resultVars, readerVars, yoloVars>>

FramesEnd ==
    /\ ppc = "pop"
    /\ frameCounter = decoded
    /\ inputEnded
    /\ ppc' = "cleanup"
    /\ UNCHANGED <<starts, main, sourceVars, frameCounter, frameVars, resultVars, readerVars, yoloVars>>

\* Mutant: the buffer is taken over without waiting for the consumer.
MutNoWait ==
    /\ ppc = "wait"
    /\ ppc' = "metadata"
    /\ UNCHANGED <<starts, main, sourceVars, frameCounter, frameVars, resultVars, readerVars, yoloVars>>

\* sem_wait(sem_processed)
WaitProcessed ==
    /\ ppc = "wait"
    /\ frameDone > 0
    /\ frameDone' = frameDone - 1
    /\ ppc' = "metadata"
    /\ UNCHANGED <<starts, main, sourceVars, frameCounter, posted, linked, frameReady, meta, pixels,
                   resultVars, readerVars, yoloVars>>

WriteMetadata ==
    /\ ppc = "metadata"
    /\ meta' = <<starts, frameCounter>>
    /\ frameCounter' = frameCounter + 1
    /\ \/ ppc' = "scale"
       \/ "convert" \in Faults /\ ppc' = "skip"
    /\ UNCHANGED <<starts, main, sourceVars, posted, linked, frameReady, frameDone, pixels, resultVars,
                   readerVars, yoloVars>>

\* sws_scale writes straight into the shared buffer.
StartScale ==
    /\ ppc = "scale"
    /\ pixels' = Torn
    /\ ppc' = "convert"
    /\ UNCHANGED <<starts, main, sourceVars, frameCounter, posted, linked, frameReady, frameDone, meta,
                   resultVars, readerVars, yoloVars>>

EndScale ==
    /\ ppc = "convert"
    /\ \/ pixels' = meta /\ ppc' = "post"
       \/ "convert" \in Faults /\ UNCHANGED pixels /\ ppc' = "skip"
    /\ UNCHANGED <<starts, main, sourceVars, frameCounter, posted, linked, frameReady, frameDone, meta,
                   resultVars, readerVars, yoloVars>>

\* Mutant: both ways out announce a frame.
MutSkipPostsReady ==
    /\ ppc = "skip"
    /\ frameReady' = frameReady + 1
    /\ ppc' = "pop"
    /\ UNCHANGED <<starts, main, sourceVars, frameCounter, posted, linked, frameDone, meta, pixels,
                   resultVars, readerVars, yoloVars>>

\* Mutant: a failed conversion does not give the buffer back.
MutSkipKeepsToken ==
    /\ ppc = "skip"
    /\ ppc' = "pop"
    /\ UNCHANGED <<starts, main, sourceVars, frameCounter, frameVars, resultVars, readerVars, yoloVars>>

\* The conversion failed: sem_post(sem_processed), on to the next frame.
SkipFrame ==
    /\ ppc = "skip"
    /\ frameDone' = frameDone + 1
    /\ ppc' = "pop"
    /\ UNCHANGED <<starts, main, sourceVars, frameCounter, posted, linked, frameReady, meta, pixels,
                   resultVars, readerVars, yoloVars>>

\* sem_post(sem_ready)
PostFrame ==
    /\ ppc = "post"
    /\ frameReady' = frameReady + 1
    /\ posted' = Append(posted, meta)
    /\ ppc' = "pop"
    /\ UNCHANGED <<starts, main, sourceVars, frameCounter, linked, frameDone, meta, pixels, resultVars,
                   readerVars, yoloVars>>

\* The three names are unlinked one after the other, whoever still uses them.
UnlinkFrameChannel ==
    /\ ppc = "cleanup"
    /\ \/ "shm" \in linked /\ linked' = linked \ {"shm"}
       \/ "shm" \notin linked /\ "ready" \in linked /\ linked' = linked \ {"ready"}
       \/ linked \cap {"shm", "ready"} = {} /\ linked' = {}
    /\ ppc' = IF linked' = {} THEN "done" ELSE "cleanup"
    /\ UNCHANGED <<starts, main, sourceVars, frameCounter, posted, frameReady, frameDone, meta, pixels,
                   resultVars, readerVars, yoloVars>>

Producer ==
    \/ OpenFrameChannel \/ OpenFrameChannelFails \/ PopFrame \/ FramesEnd \/ WaitProcessed
    \/ WriteMetadata \/ StartScale \/ EndScale \/ SkipFrame \/ PostFrame \/ UnlinkFrameChannel

-----------------------------------------------------------------------------
(* yolo_result_reader_thread *)

\* Unlinks what an earlier run left, creates the result channel afresh.
OpenResultChannel ==
    /\ rpc = "setup"
    /\ resultLinked' = TRUE
    /\ resultReady' = 0
    /\ resultDone' = 1
    /\ resultBuf' = NoResult
    /\ readerRunning' = TRUE
    /\ rpc' = "wait"
    /\ UNCHANGED <<starts, main, sourceVars, ppc, frameCounter, frameVars, written, received, yoloVars>>

OpenResultChannelFails ==
    /\ rpc = "setup"
    /\ "shm" \in Faults
    /\ resultLinked' = FALSE
    /\ rpc' = "done"
    /\ UNCHANGED <<starts, main, sourceVars, ppc, frameCounter, frameVars, resultReady, resultDone,
                   resultBuf, written, readerRunning, received, yoloVars>>

\* Mutant: no waiting for a result.
MutReadAnyTime ==
    /\ rpc = "wait"
    /\ readerRunning
    /\ rpc' = "read"
    /\ UNCHANGED <<starts, main, sourceVars, ppc, frameCounter, frameVars, resultVars, readerRunning,
                   received, yoloVars>>

\* sem_timedwait succeeds.
WaitResult ==
    /\ rpc = "wait"
    /\ resultReady > 0
    /\ resultReady' = resultReady - 1
    /\ rpc' = "read"
    /\ UNCHANGED <<starts, main, sourceVars, ppc, frameCounter, frameVars, resultLinked, resultDone,
                   resultBuf, written, readerRunning, received, yoloVars>>

\* At the top of the loop, or after a timeout, the flag is down.
ReaderStops ==
    /\ rpc = "wait"
    /\ ~readerRunning
    /\ rpc' = "done"
    /\ UNCHANGED <<starts, main, sourceVars, ppc, frameCounter, frameVars, resultVars, readerRunning,
                   received, yoloVars>>

\* The detections are copied and pushed to yolo_result_queue.
ReadResult ==
    /\ rpc = "read"
    /\ received' = Append(received, resultBuf)
    /\ rpc' = "post"
    /\ UNCHANGED <<starts, main, sourceVars, ppc, frameCounter, frameVars, resultVars, readerRunning,
                   yoloVars>>

\* sem_post(sem_processed)
PostProcessed ==
    /\ rpc = "post"
    /\ resultDone' = resultDone + 1
    /\ rpc' = "wait"
    /\ UNCHANGED <<starts, main, sourceVars, ppc, frameCounter, frameVars, resultLinked, resultReady,
                   resultBuf, written, readerRunning, received, yoloVars>>

Reader ==
    \/ OpenResultChannel \/ OpenResultChannelFails \/ WaitResult \/ ReaderStops
    \/ ReadResult \/ PostProcessed

-----------------------------------------------------------------------------
(* yolo_detection_shm.py *)

\* All names exist: both channels are opened and the model is loaded.
Attach ==
    /\ ypc = "attach"
    /\ linked = Names
    /\ resultLinked
    /\ ypc' = "wait"
    /\ UNCHANGED <<starts, main, sourceVars, ppc, frameCounter, frameVars, resultVars, readerVars,
                   job, jobPixels, framesYolo, seen>>

\* An exception on its way out: the finally clause unlinks every name and the program ends.
CleanUp ==
    /\ ypc' = "down"
    /\ linked' = {}
    /\ resultLinked' = FALSE

\* A frame name is missing, or the results' names did not appear in 30 tries.
AttachFails ==
    /\ ypc = "attach"
    /\ linked # Names \/ ~resultLinked
    /\ CleanUp
    /\ UNCHANGED <<starts, main, sourceVars, ppc, frameCounter, posted, frameReady, frameDone, meta,
                   pixels, resultReady, resultDone, resultBuf, written, readerVars, job, jobPixels,
                   framesYolo, seen>>

\* Mutant: the frame is not waited for.
MutNoAcquire ==
    /\ ypc = "wait"
    /\ posted # <<>>
    /\ ypc' = "metadata"
    /\ UNCHANGED <<starts, main, sourceVars, ppc, frameCounter, frameVars, resultVars, readerVars,
                   job, jobPixels, framesYolo, seen>>

\* sem_ready.acquire()
AcquireFrame ==
    /\ ypc = "wait"
    /\ frameReady > 0
    /\ frameReady' = frameReady - 1
    /\ ypc' = "metadata"
    /\ UNCHANGED <<starts, main, sourceVars, ppc, frameCounter, posted, linked, frameDone, meta, pixels,
                   resultVars, readerVars, job, jobPixels, framesYolo, seen>>

\* The metadata is parsed; the pixels are only mapped.  A buffer nobody wrote does not
\* parse, nor does text whose end is followed by that of a longer one from an earlier
\* start (which may be there after any earlier start).
ReadMetadata ==
    /\ ypc = "metadata"
    /\ \/ /\ meta # NoFrame
          /\ ypc' = "release"
          /\ job' = meta
          /\ seen' = Append(seen, meta)
          /\ UNCHANGED <<linked, resultLinked>>
       \/ /\ meta = NoFrame \/ starts > 1
          /\ CleanUp
          /\ UNCHANGED <<job, seen>>
    /\ UNCHANGED <<starts, main, sourceVars, ppc, frameCounter, posted, frameReady, frameDone, meta,
                   pixels, resultReady, resultDone, resultBuf, written, readerVars, jobPixels,
                   framesYolo>>

\* sem_processed.release(), before the model has looked at the frame.
ReleaseFrame ==
    /\ ypc = "release"
    /\ frameDone' = frameDone + 1
    /\ ypc' = "infer"
    /\ UNCHANGED <<starts, main, sourceVars, ppc, frameCounter, posted, linked, frameReady, meta, pixels,
                   resultVars, readerVars, job, jobPixels, framesYolo, seen>>

\* model.predict on the mapped buffer: it sees what the buffer holds now.
Infer ==
    /\ ypc = "infer"
    /\ jobPixels' = pixels
    /\ ypc' = "acquire"
    /\ UNCHANGED <<starts, main, sourceVars, ppc, frameCounter, frameVars, resultVars, readerVars,
                   job, framesYolo, seen>>

\* result_sem_processed.acquire()
AcquireResult ==
    /\ ypc = "acquire"
    /\ resultDone > 0
    /\ resultDone' = resultDone - 1
    /\ ypc' = "write"
    /\ UNCHANGED <<starts, main, sourceVars, ppc, frameCounter, frameVars, resultLinked, resultReady,
                   resultBuf, written, readerVars, job, jobPixels, framesYolo, seen>>

WriteResult ==
    /\ ypc = "write"
    /\ LET result == [frame |-> job, image |-> jobPixels] IN
         /\ resultBuf' = result
         /\ written' = Append(written, result)
    /\ ypc' = "publish"
    /\ UNCHANGED <<starts, main, sourceVars, ppc, frameCounter, frameVars, resultLinked, resultReady,
                   resultDone, readerVars, job, jobPixels, framesYolo, seen>>

\* result_sem_ready.release(), frame_counter[0] += 1
PublishResult ==
    /\ ypc = "publish"
    /\ resultReady' = resultReady + 1
    /\ framesYolo' = framesYolo + 1
    /\ ypc' = "wait"
    /\ UNCHANGED <<starts, main, sourceVars, ppc, frameCounter, frameVars, resultLinked, resultDone,
                   resultBuf, written, readerVars, job, jobPixels, seen>>

\* "Error writing result": whatever raises between the acquire and the release is
\* printed, the frame is counted, and what was acquired is not given back.
ResultFails ==
    /\ ypc \in {"acquire", "write", "publish"}
    /\ "result" \in Faults
    /\ framesYolo' = framesYolo + 1
    /\ ypc' = "wait"
    /\ UNCHANGED <<starts, main, sourceVars, ppc, frameCounter, frameVars, resultVars, readerVars,
                   job, jobPixels, seen>>

\* Any other exception, Ctrl-C's sys.exit at every point among them.
YoloRaises ==
    /\ ypc \in {"attach", "wait", "metadata", "release", "infer", "acquire", "write", "publish"}
    /\ "raise" \in Faults
    /\ CleanUp
    /\ UNCHANGED <<starts, main, sourceVars, ppc, frameCounter, posted, frameReady, frameDone, meta,
                   pixels, resultReady, resultDone, resultBuf, written, readerVars, job, jobPixels,
                   framesYolo, seen>>

Yolo ==
    \/ StartYolo \/ Attach \/ AttachFails \/ AcquireFrame \/ ReadMetadata \/ ReleaseFrame \/ Infer
    \/ AcquireResult \/ WriteResult \/ PublishResult \/ ResultFails \/ YoloRaises

Blocked ==
    \/ ypc = "wait" /\ frameReady = 0
    \/ ypc = "acquire" /\ resultDone = 0

\* monitor_frame_progress: no frame for a second after the first one, and the
\* process ends with os._exit, which runs no finally clause.  A pause of the
\* input or of the model is enough ("stall"); the end of the C++ program is sure to be.
MonitorExits ==
    /\ ypc \in {"wait", "metadata", "release", "infer", "acquire", "write", "publish"}
    /\ framesYolo > 0
    /\ (main = "down" /\ Blocked) \/ "stall" \in Faults
    /\ ypc' = "down"
    /\ UNCHANGED <<starts, main, sourceVars, ppc, frameCounter, frameVars, resultVars, readerVars,
                   job, jobPixels, framesYolo, seen>>

-----------------------------------------------------------------------------

Next ==
    \/ StartDetector
    \/ DetectorDies
    \/ Main
    \/ DecodeFrame \/ DecodeEnds
    \/ Producer
    \/ Reader
    \/ Yolo
    \/ MonitorExits

\* Every thread of a live process runs; run.py is started once at least; the
\* input ends; the monitor looks every second.
Fairness ==
    /\ WF_vars(StartDetector)
    /\ WF_vars(Main)
    /\ WF_vars(DecodeFrame \/ DecodeEnds)
    /\ WF_vars(Producer)
    /\ WF_vars(Reader)
    /\ WF_vars(Yolo)
    /\ WF_vars(Blocked /\ MonitorExits)

Spec     == Init /\ [][Next]_vars
FairSpec == Spec /\ Fairness

-----------------------------------------------------------------------------
(* Properties *)

\* The C++ side owns the frame buffer between sem_wait(sem_processed) and the
\* sem_post that follows, the Python side between acquire and release.
WritingFrame == ppc \in {"metadata", "scale", "convert", "post", "skip"}
HoldingFrame == ypc \in {"metadata", "release"}

\* At most one side owns the frame buffer or may take it: whatever crashed and
\* whatever an earlier run left, metadata is never read while it is written.
FrameBufferExclusive ==
    frameReady + frameDone + (IF WritingFrame THEN 1 ELSE 0) + (IF HoldingFrame THEN 1 ELSE 0) <= 1

\* The same of the result buffer, between Python's acquire and release and
\* the reader's sem_timedwait and sem_post.
ResultBufferExclusive ==
    resultReady + resultDone + (IF rpc \in {"read", "post"} THEN 1 ELSE 0)
        + (IF ypc \in {"write", "publish"} THEN 1 ELSE 0) <= 1

\* Neither buffer of the shared memory is ever read while it is written, through any
\* number of crashes and restarts that find the semaphores as they were left.
BuffersExclusive == FrameBufferExclusive /\ ResultBufferExclusive

\* s is t, or t without its last member.
UpToLast(s, t) == \E n \in {Len(s), Len(s) + 1} : Len(t) = n /\ SubSeq(t, 1, Len(s)) = s

\* Every result the Python program writes reaches yolo_result_queue once and in
\* order; only the last one may still be on its way.
ResultHandOver == UpToLast(received, written)

\* Within one run the frames taken over are the frames posted, once and in order,
\* failed conversions left out.
FrameHandOver == UpToLast(seen, posted)

\* A result the reader pushes is about a later frame than the one before it,
\* frames of an earlier run first.
Earlier(f, g) == f[1] < g[1] \/ (f[1] = g[1] /\ f[2] < g[2])
ResultsInOrder ==
    \A i, j \in 1..Len(received) : i < j => Earlier(received[i].frame, received[j].frame)

\* While the Python program lives, the C++ program always gets to its end once
\* the input has ended: neither thread waits for a semaphore nobody posts.
DetectorEnds == <>(starts > 0 /\ main = "down")

\* When the C++ program has gone the monitor ends a Python program that has seen
\* a frame, so that run.py's wait returns.
YoloEnds == [](main = "down" /\ framesYolo > 0 => <>(ypc = "down" \/ main # "down"))

\* Both programs come to their end: the C++ program while the Python program lives,
\* the Python program by its monitor.
ProgramsEnd == DetectorEnds /\ YoloEnds

\* "Signal that we've read the data": the detections of a frame are computed from
\* the pixels of that frame.
DetectionOfItsFrame ==
    \A i \in 1..Len(written) : written[i].image = written[i].frame

\* "Wait for producer to signal a new frame is ready": a frame the Python program
\* takes over is one this run's producer has posted.
ReadyMeansNewFrame == \A i \in 1..Len(seen) : seen[i][1] = starts

\* "Wait for both processes to complete": run.py's waits return.
BothEnd == <>(starts > 0 /\ main = "down" /\ ypc = "down")
=============================================================================
