--------------------------- MODULE ThreadedDecoder ---------------------------
(***************************************************************************)
(* FFMPEGThreadedDecoder: the worker thread that turns packets into frames, *)
(* and the one reader thread that feeds and empties it                      *)
(* (src/src/video/ffmpeg/threaded_decoder.cc).                              *)
(*                                                                         *)
(* Every access to state both threads touch is a step of its own: an atomic *)
(* load or store, a push or a pop of a dmlc::ConcurrentBlockingQueue.  Work *)
(* on thread-private state (the codec, the filter graph) is folded into the *)
(* neighbouring step.                                                       *)
(*                                                                         *)
(* The reader calls the decoder as VideoReader does: Push before each Pop   *)
(* until the file ends, one null packet at the end of the file, and Start   *)
(* before the first Push.  Subject to that, it makes any call at any time.  *)
(* A call that throws before it changed anything is a stuttering step.      *)
(***************************************************************************)
EXTENDS Integers, SequencesExt

CONSTANTS
  NumSignals,   \* end-of-stream signals the worker queues (128 in the code)
  MaxSignals,   \* signals the reader takes before it seeks or gives up
  MaxPackets,   \* bound: packets the reader ever pushes
  MaxClears     \* bound: times the reader clears the decoder

ASSUME DecoderAssumption ==
  /\ NumSignals \in Nat \ {0}
  /\ MaxSignals \in Nat
  /\ MaxPackets \in Nat
  /\ MaxClears \in Nat

VARIABLES
  pkt_queue, pkt_exit,       \* packets to decode; exit_now of the queue
  buffer_queue, buffer_exit, \* number of output buffers; exit_now
  frame_queue, frame_exit,   \* decoded outputs; exit_now
  frame_count,               \* atomic<int>: outputs the reader may wait for
  draining, run,             \* atomic<bool>
  error_status,              \* atomic<bool>: an exception stopped the worker
  discard_pts,               \* frames the reader wants skipped
  codec,                     \* frames inside the AVCodecContext, output order
  wpc, mode, item, signals,  \* worker: next step, phase, output in hand, and
                             \* end-of-stream signals queued so far
  cpc, then, frame,          \* reader: next step, what follows a Stop, and the
                             \* output a Pop has in hand
  eof, ticket,               \* eof_; whether it pushed since its last Pop
  sent, segment,             \* packets pushed ever, and before the last Clear
  delivered, drained,        \* last frame and number of signals Pop returned
  clears

packetVars == <<pkt_queue, pkt_exit>>
bufferVars == <<buffer_queue, buffer_exit>>
frameVars == <<frame_queue, frame_exit>>
queueVars == <<packetVars, bufferVars, frameVars>>
flagVars == <<frame_count, draining, run, error_status, discard_pts>>
workerVars == <<codec, wpc, mode, item, signals>>
callVars == <<then, frame, eof, ticket>>
historyVars == <<sent, segment, delivered, drained, clears>>
vars == <<queueVars, flagVars, workerVars, cpc, callVars, historyVars>>

\* A packet is named by its place in the order of pushes; 0 is the null packet.
NullPacket == 0

\* What travels in frame_queue_: a picture, the 1-byte stand-in of a discarded
\* picture, the undefined NDArray() of a packet that gave no picture yet, and
\* the int64 end-of-stream signal.
Output == [kind : {"picture", "skipped", "nothing", "signal"}, of : Nat]
Picture(p) == [kind |-> "picture", of |-> p]
Skipped(p) == [kind |-> "skipped", of |-> p]
Nothing == [kind |-> "nothing", of |-> 0]
Signal == [kind |-> "signal", of |-> 0]

Init ==
  /\ pkt_queue = <<>> /\ pkt_exit = FALSE
  /\ buffer_queue = 0 /\ buffer_exit = FALSE
  /\ frame_queue = <<>> /\ frame_exit = FALSE
  /\ frame_count = 0 /\ draining = FALSE /\ run = FALSE
  /\ error_status = FALSE /\ discard_pts = {}
  /\ codec = <<>> /\ wpc = "none" /\ mode = "normal"
  /\ item = Nothing /\ signals = 0
  /\ cpc = "idle" /\ then = "idle" /\ frame = Nothing
  /\ eof = FALSE /\ ticket = FALSE
  /\ sent = 0 /\ segment = 0 /\ delivered = 0 /\ drained = 0 /\ clears = 0

\* A step of the reader thread, and one of the worker thread.
Reader(pc, next) == cpc = pc /\ cpc' = next /\ UNCHANGED workerVars
Worker(pc, next) ==
  /\ cpc # "terminated" /\ wpc = pc /\ wpc' = next
  /\ UNCHANGED <<cpc, callVars, historyVars>>

----------------------------------------------------------------------------
(* Start and Push *)

\* Start(): CheckErrorStatus passed.
StartEnter ==
  /\ Reader("idle", "start") /\ ~error_status
  /\ UNCHANGED <<queueVars, flagVars, callVars, historyVars>>

StartRunning ==
  /\ Reader("start", "idle") /\ run
  /\ UNCHANGED <<queueVars, flagVars, callVars, historyVars>>

\* Slip: Start keeps the old frame_queue_.
StartThreadOldFrames ==
  /\ cpc = "start" /\ ~run /\ wpc = "none"
  /\ pkt_queue' = <<>> /\ buffer_queue' = 0 /\ frame_queue' = frame_queue
  /\ pkt_exit' = FALSE /\ buffer_exit' = FALSE /\ frame_exit' = FALSE
  /\ run' = TRUE
  /\ wpc' = "loop" /\ mode' = "normal" /\ item' = Nothing /\ signals' = 0
  /\ cpc' = "idle"
  /\ UNCHANGED <<frame_count, draining, error_status, discard_pts, codec, callVars, historyVars>>

\* Start() makes new queues and spawns the worker; no thread is in t_.
StartThread ==
  /\ cpc = "start" /\ ~run /\ wpc = "none"
  /\ pkt_queue' = <<>> /\ buffer_queue' = 0 /\ frame_queue' = <<>>
  /\ pkt_exit' = FALSE /\ buffer_exit' = FALSE /\ frame_exit' = FALSE
  /\ run' = TRUE
  /\ wpc' = "loop" /\ mode' = "normal" /\ item' = Nothing /\ signals' = 0
  /\ cpc' = "idle"
  /\ UNCHANGED <<frame_count, draining, error_status, discard_pts, codec, callVars, historyVars>>

\* Start() spawns a worker while t_ owns one nobody joined: the std::thread it
\* swaps out is joinable when it is destroyed, which calls std::terminate.
StartTwice ==
  /\ Reader("start", "terminated") /\ ~run /\ wpc # "none"
  /\ UNCHANGED <<queueVars, flagVars, callVars, historyVars>>

\* Push(pkt, buf) up to the packet's push.  CHECK(run_) and that push are one
\* step: a worker that dies between them never looks at the packet.
PushPacket ==
  /\ Reader("idle", "push_buffer") /\ wpc # "none" /\ ~eof
  /\ run /\ sent < MaxPackets
  /\ sent' = sent + 1
  /\ pkt_queue' = Append(pkt_queue, sent + 1)
  /\ UNCHANGED <<pkt_exit, bufferVars, frameVars, flagVars, callVars,
                 segment, delivered, drained, clears>>

\* PushNext at the end of the file sets eof_ and pushes the null packet.
PushNull ==
  /\ Reader("idle", "push_buffer") /\ wpc # "none" /\ ~eof
  /\ run /\ ~draining
  /\ eof' = TRUE /\ draining' = TRUE
  /\ pkt_queue' = Append(pkt_queue, NullPacket)
  /\ UNCHANGED <<pkt_exit, bufferVars, frameVars, frame_count, run, error_status,
                 discard_pts, then, frame, ticket, historyVars>>

\* The same when a CHECK of Push throws: eof_ stays set.
PushNullThrows ==
  /\ Reader("idle", "idle") /\ wpc # "none" /\ ~eof
  /\ ~run \/ draining
  /\ eof' = TRUE
  /\ UNCHANGED <<queueVars, flagVars, then, frame, ticket, historyVars>>

PushBuffer ==
  /\ Reader("push_buffer", "idle")
  /\ buffer_queue' = buffer_queue + 1
  /\ ticket' = TRUE
  /\ UNCHANGED <<packetVars, buffer_exit, frameVars, flagVars, then, frame, eof, historyVars>>

----------------------------------------------------------------------------
(* Pop *)

\* Pop(): the first CheckErrorStatus passed.
PopEnter ==
  /\ Reader("idle", "pop_count") /\ wpc # "none" /\ ~error_status
  /\ ticket \/ eof
  /\ drained < MaxSignals
  /\ ticket' = FALSE
  /\ UNCHANGED <<queueVars, flagVars, then, frame, eof, historyVars>>

\* if (!frame_count_.load() && ...
PopCount ==
  /\ Reader("pop_count", IF frame_count = 0 THEN "pop_draining" ELSE "pop_wait")
  /\ UNCHANGED <<queueVars, flagVars, callVars, historyVars>>

\* ... !draining_.load()) return false;
PopDraining ==
  /\ Reader("pop_draining", IF draining THEN "pop_wait" ELSE "idle")
  /\ UNCHANGED <<queueVars, flagVars, callVars, historyVars>>

\* frame_queue_->Pop(frame) waits until there is an output ...
PopTake ==
  /\ Reader("pop_wait", "pop_check") /\ ~frame_exit /\ frame_queue # <<>>
  /\ frame' = Head(frame_queue)
  /\ frame_queue' = Tail(frame_queue)
  /\ UNCHANGED <<packetVars, bufferVars, frame_exit, flagVars, then, eof, ticket, historyVars>>

\* ... or the queue is killed; Pop throws, or returns false, and takes nothing.
PopKilled ==
  /\ Reader("pop_wait", "idle") /\ frame_exit
  /\ UNCHANGED <<queueVars, flagVars, callVars, historyVars>>

\* The second CheckErrorStatus: if it throws, the output in hand is lost.
PopCheck ==
  /\ Reader("pop_check", IF error_status THEN "idle" ELSE "pop_return")
  /\ frame' = IF error_status THEN Nothing ELSE frame
  /\ UNCHANGED <<queueVars, flagVars, then, eof, ticket, historyVars>>

\* --frame_count_, and the output goes to the caller.
PopReturn ==
  /\ Reader("pop_return", "idle")
  /\ frame_count' = frame_count - 1
  /\ delivered' = IF frame.kind \in {"picture", "skipped"} THEN frame.of ELSE delivered
  /\ drained' = IF frame.kind = "signal" THEN drained + 1 ELSE drained
  /\ frame' = Nothing
  /\ UNCHANGED <<queueVars, draining, run, error_status, discard_pts, then, eof,
                 ticket, sent, segment, clears>>

----------------------------------------------------------------------------
(* SuggestDiscardPTS, ClearDiscardPTS, and the calls that stop the worker *)

\* SkipFramesImpl suggests the frames that come next.
SuggestDiscardPTS ==
  /\ Reader("idle", "idle")
  /\ \E last \in (delivered + 1) .. MaxPackets :
       discard_pts' = discard_pts \cup (delivered + 1) .. last
  /\ UNCHANGED <<queueVars, frame_count, draining, run, error_status, callVars, historyVars>>

ClearDiscardPTS ==
  /\ Reader("idle", "idle")
  /\ discard_pts' = {}
  /\ UNCHANGED <<queueVars, frame_count, draining, run, error_status, callVars, historyVars>>

\* Stop() loads run_; next is what its caller does afterwards.
StopEnter(next) ==
  /\ Reader("idle", IF run THEN "stop" ELSE "join")
  /\ then' = next
  /\ UNCHANGED <<queueVars, flagVars, frame, eof, ticket, sent, segment, delivered, drained>>

\* SetCodecContext is Clear, then Start if the worker was running.
CallClear(next) == clears < MaxClears /\ clears' = clears + 1 /\ StopEnter(next)
ClearCall == CallClear("idle")
SetCodecContext == CallClear(IF run THEN "start" ELSE "idle")
Destroy == clears' = clears /\ StopEnter("closed")

\* Stop kills the queues the worker waits on ...
StopQueues ==
  /\ Reader("stop", "stop_run")
  /\ pkt_exit' = TRUE /\ buffer_exit' = TRUE
  /\ UNCHANGED <<pkt_queue, buffer_queue, frameVars, flagVars, callVars, historyVars>>

\* ... then stores run_ and kills frame_queue_.
StopRun ==
  /\ Reader("stop_run", "join")
  /\ run' = FALSE /\ frame_exit' = TRUE
  /\ UNCHANGED <<packetVars, bufferVars, frame_queue, frame_count, draining,
                 error_status, discard_pts, callVars, historyVars>>

\* if (t_.joinable()) t_.join();
Join ==
  /\ cpc = "join" /\ wpc \in {"none", "finished"}
  /\ wpc' = "none"
  /\ cpc' = IF then = "closed" THEN "closed" ELSE "clear"
  /\ UNCHANGED <<queueVars, flagVars, codec, mode, item, signals, callVars, historyVars>>

\* Slip: Clear forgets draining_ (as the NVDEC decoder does).
ClearKeepsDraining ==
  /\ cpc = "clear" /\ cpc' = then
  /\ codec' = <<>>
  /\ frame_count' = 0 /\ draining' = draining /\ discard_pts' = {} /\ error_status' = FALSE
  /\ eof' = FALSE /\ ticket' = FALSE
  /\ segment' = sent /\ delivered' = sent /\ drained' = 0
  /\ UNCHANGED <<queueVars, run, wpc, mode, item, signals, then, frame, sent, clears>>

\* The rest of Clear(); the reader that called it clears eof_ (Seek).
Clear ==
  /\ cpc = "clear" /\ cpc' = then
  /\ codec' = <<>>
  /\ frame_count' = 0 /\ draining' = FALSE /\ discard_pts' = {} /\ error_status' = FALSE
  /\ eof' = FALSE /\ ticket' = FALSE
  /\ segment' = sent /\ delivered' = sent /\ drained' = 0
  /\ UNCHANGED <<queueVars, run, wpc, mode, item, signals, then, frame, sent, clears>>

----------------------------------------------------------------------------
(* The worker: WorkerThreadImpl inside the try block of WorkerThread *)

WorkerLoop ==
  /\ Worker("loop", IF run THEN "pop" ELSE "finished")
  /\ UNCHANGED <<queueVars, flagVars, codec, mode, item, signals>>

WorkerKilled ==
  /\ \/ Worker("pop", "finished") /\ pkt_exit
     \/ Worker("take_buffer", "finished") /\ buffer_exit
  /\ UNCHANGED <<queueVars, flagVars, codec, mode, item, signals>>

PopPacket(next) ==
  /\ Worker("pop", next) /\ ~pkt_exit /\ pkt_queue # <<>>
  /\ pkt_queue' = Tail(pkt_queue)
  /\ UNCHANGED <<pkt_exit, bufferVars, frameVars, flagVars, signals>>

\* avcodec_send_packet took a packet: it joins the frames in the codec, or it
\* is one of those that give none.  avcodec_receive_frame then gives one ...
DecodeFrame ==
  /\ PopPacket("take_buffer") /\ Head(pkt_queue) # NullPacket
  /\ \E frames \in {codec, Append(codec, Head(pkt_queue))} :
       frames # <<>> /\ item' = Picture(Head(frames)) /\ codec' = Tail(frames)
  /\ UNCHANGED mode

\* Slip: a packet that gives no frame takes an output buffer all the same.
DecodeNothingTakesBuffer ==
  /\ Worker("pop", "put") /\ ~pkt_exit /\ pkt_queue # <<>> /\ Head(pkt_queue) # NullPacket
  /\ buffer_queue > 0 /\ buffer_queue' = buffer_queue - 1
  /\ pkt_queue' = Tail(pkt_queue) /\ item' = Nothing
  /\ codec' \in {codec, Append(codec, Head(pkt_queue))}
  /\ UNCHANGED <<pkt_exit, buffer_exit, frameVars, flagVars, signals, mode>>

\* ... or EAGAIN.
DecodeNothing ==
  /\ PopPacket("put") /\ Head(pkt_queue) # NullPacket
  /\ item' = Nothing
  /\ codec' \in {codec, Append(codec, Head(pkt_queue))}
  /\ UNCHANGED mode

\* avcodec_send_packet or avcodec_receive_frame failed: CHECK or LOG(FATAL).
DecodeFails == PopPacket("record") /\ UNCHANGED <<codec, mode, item>>

StartDraining ==
  /\ PopPacket("drain") /\ Head(pkt_queue) = NullPacket
  /\ mode' = "draining"
  /\ UNCHANGED <<codec, item>>

DrainFrame ==
  /\ Worker("drain", "take_buffer") /\ codec # <<>>
  /\ item' = Picture(Head(codec)) /\ codec' = Tail(codec)
  /\ UNCHANGED <<queueVars, flagVars, mode, signals>>

\* AVERROR_EOF: the codec is empty.
DrainEnds ==
  /\ Worker("drain", "put") /\ codec = <<>>
  /\ mode' = "signalling" /\ item' = Signal
  /\ UNCHANGED <<queueVars, flagVars, codec, signals>>

\* Slip: the worker does not wait for a buffer.
TakeBufferAtOnce ==
  /\ Worker("take_buffer", "process") /\ ~buffer_exit
  /\ buffer_queue' = buffer_queue - 1
  /\ UNCHANGED <<packetVars, buffer_exit, frameVars, flagVars, codec, mode, item, signals>>

TakeBuffer ==
  /\ Worker("take_buffer", "process") /\ ~buffer_exit /\ buffer_queue > 0
  /\ buffer_queue' = buffer_queue - 1
  /\ UNCHANGED <<packetVars, buffer_exit, frameVars, flagVars, codec, mode, item, signals>>

\* ProcessFrame looks its frame up in discard_pts_, and filters it if need be.
ProcessFrame ==
  /\ Worker("process", "put")
  /\ item' = IF item.of \in discard_pts THEN Skipped(item.of) ELSE item
  /\ UNCHANGED <<queueVars, flagVars, codec, mode, signals>>

FilterFails ==
  /\ Worker("process", "record") /\ item.of \notin discard_pts
  /\ UNCHANGED <<queueVars, flagVars, codec, mode, item, signals>>

\* frame_queue_->Push(...), then ++frame_count_ as a step of its own.
PutOutput ==
  /\ Worker("put", "count")
  /\ frame_queue' = Append(frame_queue, item)
  /\ signals' = IF mode = "signalling" THEN signals + 1 ELSE signals
  /\ UNCHANGED <<packetVars, bufferVars, frame_exit, flagVars, codec, mode, item>>

\* Slip: one signal too few.
AfterCountOneShort ==
  IF mode = "normal" THEN "loop"
  ELSE IF mode = "draining" THEN "drain"
  ELSE IF signals = NumSignals - 1 THEN "drained" ELSE "put"

\* The NumSignals signals of a drain, and the next thing the worker does.
AfterCount ==
  IF mode = "normal" THEN "loop"
  ELSE IF mode = "draining" THEN "drain"
  ELSE IF signals = NumSignals THEN "drained" ELSE "put"

\* Slip: the path for discarded frames forgets ++frame_count_.
CountOutputNotSkipped ==
  /\ Worker("count", AfterCount)
  /\ frame_count' = IF item.kind = "skipped" THEN frame_count ELSE frame_count + 1
  /\ UNCHANGED <<queueVars, draining, run, error_status, discard_pts, codec, mode, item, signals>>

CountOutput ==
  /\ Worker("count", AfterCount)
  /\ frame_count' = frame_count + 1
  /\ UNCHANGED <<queueVars, draining, run, error_status, discard_pts, codec, mode, item, signals>>

StopDraining ==
  /\ Worker("drained", "loop")
  /\ draining' = FALSE /\ mode' = "normal"
  /\ UNCHANGED <<queueVars, frame_count, run, error_status, discard_pts, codec, item, signals>>

\* catch (dmlc::Error): RecordInternalError ...
RecordError ==
  /\ Worker("record", "fail")
  /\ error_status' = TRUE
  /\ UNCHANGED <<queueVars, frame_count, draining, run, discard_pts, codec, mode, item, signals>>

\* Slip: the worker dies without unblocking the consumers.
FailSilently ==
  /\ Worker("fail", "finished")
  /\ run' = FALSE
  /\ UNCHANGED <<queueVars, frame_count, draining, error_status, discard_pts,
                 codec, mode, item, signals>>

\* ... then run_ is stored and frame_queue_ killed, "Unblock all consumers".
UnblockConsumers ==
  /\ Worker("fail", "finished")
  /\ run' = FALSE /\ frame_exit' = TRUE
  /\ UNCHANGED <<packetVars, bufferVars, frame_queue, frame_count, draining,
                 error_status, discard_pts, codec, mode, item, signals>>

----------------------------------------------------------------------------
\* The steps a call takes once it was made, and the calls.
ReaderStep ==
  \/ StartRunning \/ StartThread \/ StartTwice \/ PushBuffer
  \/ PopCount \/ PopDraining \/ PopTake \/ PopKilled \/ PopCheck \/ PopReturn
  \/ StopQueues \/ StopRun \/ Join \/ Clear

ReaderCall ==
  \/ StartEnter \/ PushPacket \/ PushNull \/ PushNullThrows \/ PopEnter
  \/ SuggestDiscardPTS \/ ClearDiscardPTS
  \/ ClearCall \/ SetCodecContext \/ Destroy

WorkerStep ==
  \/ WorkerLoop \/ WorkerKilled
  \/ DecodeFrame \/ DecodeNothing \/ DecodeFails
  \/ StartDraining \/ DrainFrame \/ DrainEnds
  \/ TakeBuffer \/ ProcessFrame \/ FilterFails
  \/ PutOutput \/ CountOutput \/ StopDraining
  \/ RecordError \/ UnblockConsumers

\* The reader destroyed the decoder, or the process is gone.
Done == cpc \in {"closed", "terminated"} /\ UNCHANGED vars

Next == ReaderStep \/ ReaderCall \/ WorkerStep \/ Done

Spec == Init /\ [][Next]_vars

\* The operating system runs both threads; what the reader calls is its choice.
FairSpec == Spec /\ WF_vars(ReaderStep) /\ WF_vars(WorkerStep)

----------------------------------------------------------------------------
(* Properties *)

WorkerSteps ==
  {"none", "loop", "pop", "drain", "take_buffer", "process", "put", "count",
   "drained", "record", "fail", "finished"}
Stopped == {"stop", "stop_run", "join", "clear", "closed"}
InPop == {"pop_count", "pop_draining", "pop_wait", "pop_check", "pop_return"}
ReaderSteps == {"idle", "start", "terminated", "push_buffer"} \cup InPop \cup Stopped

DataOK ==
  /\ pkt_queue \in Seq(Nat) /\ buffer_queue \in Nat /\ frame_queue \in Seq(Output)
  /\ frame_count \in Int /\ discard_pts \in SUBSET Nat
  /\ codec \in Seq(Nat) /\ wpc \in WorkerSteps
  /\ mode \in {"normal", "draining", "signalling"} /\ item \in Output /\ signals \in Nat
  /\ cpc \in ReaderSteps /\ then \in {"idle", "start", "closed"} /\ frame \in Output
  /\ sent \in Nat /\ segment \in Nat /\ delivered \in Nat /\ drained \in Nat /\ clears \in Nat
FlagsOK ==
  /\ pkt_exit \in BOOLEAN /\ buffer_exit \in BOOLEAN /\ frame_exit \in BOOLEAN
  /\ draining \in BOOLEAN /\ run \in BOOLEAN /\ error_status \in BOOLEAN
  /\ eof \in BOOLEAN /\ ticket \in BOOLEAN

\* Every variable has its type: no queue or count of buffers goes below zero.
TypeOK == DataOK /\ FlagsOK

Stopping == cpc \in Stopped
Failing == wpc \in {"record", "fail"} \/ error_status

\* WorkerThreadImpl pops an output buffer for each frame it receives, and Push
\* queues one per packet.  Whatever the codec delays, there is a buffer for
\* every frame: the worker waits for one only while a Push is about to queue it.
BufferForEveryFrame ==
  wpc = "take_buffer" /\ buffer_queue = 0 /\ ~buffer_exit => cpc = "push_buffer"

\* Pop waits on frame_queue_ without a timeout.  It never waits for an output
\* nobody will produce: the worker has a packet to decode, is busy with one, or
\* is about to kill the queue.
PopNeverStarves ==
  cpc = "pop_wait" /\ frame_queue = <<>> /\ ~frame_exit =>
    \/ pkt_queue # <<>> /\ wpc \in {"loop", "pop"}
    \/ wpc \notin {"none", "loop", "pop", "finished"}

\* frame_count_ is updated after the queue, on both sides: while the decoder
\* works it differs from the queue by the updates the two threads still owe.
CountTracksQueue ==
  ~Stopping /\ ~Failing /\ wpc # "none" =>
    frame_count = Len(frame_queue) + (IF cpc \in {"pop_check", "pop_return"} THEN 1 ELSE 0)
                                   - (IF wpc = "count" THEN 1 ELSE 0)

\* CHECK(!draining_) << "Start draining twice..." never fires: a reader that
\* has not seen the end of its file since the last Clear is not draining.
NeverDrainsTwice == ~Stopping /\ ~eof => ~draining

\* "peli.PELIError -- generic decode failure (raised by get_batch on corrupt
\* input)" (docs/api.md): a failure in the worker never ends the process.
DecodeFailureIsRaised == cpc # "terminated"

\* A Pop that waits returns, whether with an output or because the worker failed, and Stop
\* joins the worker, wherever the worker was.
CallsReturn ==
  /\ cpc = "pop_wait" ~> cpc # "pop_wait"
  /\ cpc = "stop" ~> cpc \in {"clear", "closed"}

----------------------------------------------------------------------------
(* The decoder implements FrameStream.  Frames on their way to the reader:   *)
(* in hand, in frame_queue_, in the worker's hands, in the codec.            *)

FramesOf(outputs) == {o.of : o \in {o \in outputs : o.kind \in {"picture", "skipped"}}}
InHand == IF cpc \in {"pop_check", "pop_return"} THEN {frame} ELSE {}
InWork == IF wpc \in {"take_buffer", "process", "put"} THEN {item} ELSE {}
Packets == ToSet(pkt_queue) \ {NullPacket}
Owed == FramesOf(InHand \cup ToSet(frame_queue) \cup InWork) \cup ToSet(codec)
NoStream == Stopping \/ wpc = "none"

Stream == INSTANCE FrameStream WITH
  fed <- sent,
  queued <- IF NoStream THEN {} ELSE Packets,
  owed <- IF NoStream THEN {} ELSE Owed,
  last <- IF Stopping THEN sent ELSE delivered,
  ended <- eof /\ ~Stopping,
  signals <- IF Stopping THEN 0 ELSE drained,
  failed <- Failing /\ ~NoStream

\* The reader gets the frames of the packets it pushed, in order and each once,
\* none of them from before a Clear, and end-of-stream signals after the last.
ImplementsFrameStream == Stream!Spec
=============================================================================
