-------------------------- MODULE CUThreadedDecoder --------------------------
(***************************************************************************)
(* CUThreadedDecoder, the NVDEC twin of FFMPEGThreadedDecoder               *)
(* (src/src/video/nvcodec/cuda_threaded_decoder.cc): the launcher thread    *)
(* feeds packets to the driver's parser, whose callbacks decode pictures    *)
(* and, in display order, copy them into buffers the reader pushed.         *)
(*                                                                         *)
(* Granularity, packets and the reader's use are those of ThreadedDecoder.  *)
(* The parser and the bitstream filter are external: the parser keeps any   *)
(* pictures back, gives none for some packets, and refuses what a callback  *)
(* refuses; mpeg4_unpack_bframes may give a picture it kept under the time  *)
(* stamp of the packet that came next.  A picture is named by the packet    *)
(* whose time stamp it has; old says which of them show something else.     *)
(***************************************************************************)
EXTENDS Integers, FiniteSets, SequencesExt

CONSTANTS
  MaxSurfaces,  \* kMaxOutputSurfaces (20)
  Unpacks,      \* the filter is mpeg4_unpack_bframes: MPEG-4 in an AVI file
  MaxPackets,   \* bound: packets the reader ever pushes
  MaxClears     \* bound: times the reader clears the decoder

ASSUME CudaAssumption ==
  MaxSurfaces \in Nat /\ Unpacks \in BOOLEAN /\ MaxPackets \in Nat /\ MaxClears \in Nat

VARIABLES
  pkt_queue, pkt_exit,         \* packets; exit_now of the queue
  frame_queue, frame_exit,     \* number of buffers to fill
  reorder_queue, reorder_exit, \* frames to pop
  frame_count, draining, run, error_status,
  discard_pts,
  parser,                      \* pictures inside the parser, display order
  shown,                       \* pictures the parser call under way still displays
  bframe,                      \* what bsf_ctx_ keeps: "none", a "new" picture or one of
                               \* before a Clear, "old"
  old,                         \* history: time stamps since the Clear that got such a one
  wpc,                         \* launcher thread
  cpc, then,                   \* reader: next step, what follows a Stop
  eof, flushed,                \* eof_; this stretch's null packet was queued
  sent, delivered, clears      \* history, as in ThreadedDecoder

packetVars == <<pkt_queue, pkt_exit>>
bufferVars == <<frame_queue, frame_exit>>
outputVars == <<reorder_queue, reorder_exit>>
queueVars == <<packetVars, bufferVars, outputVars>>
flagVars == <<frame_count, draining, run, error_status, discard_pts>>
filterVars == <<bframe, old>>
workVars == <<parser, shown, filterVars>>
callVars == <<then, eof, flushed>>
historyVars == <<sent, delivered, clears>>
vars == <<queueVars, flagVars, workVars, wpc, cpc, callVars, historyVars>>

NullPacket == 0

Init ==
  /\ pkt_queue = <<>> /\ pkt_exit = FALSE
  /\ frame_queue = 0 /\ frame_exit = FALSE
  /\ reorder_queue = <<>> /\ reorder_exit = FALSE
  /\ frame_count = 0 /\ draining = FALSE /\ run = FALSE /\ error_status = FALSE
  /\ discard_pts = {} /\ parser = <<>> /\ shown = <<>> /\ bframe = "none" /\ old = {}
  /\ wpc = "none" /\ cpc = "idle" /\ then = "idle" /\ eof = FALSE /\ flushed = FALSE
  /\ sent = 0 /\ delivered = 0 /\ clears = 0

Reader(pc, next) == cpc = pc /\ cpc' = next /\ UNCHANGED <<workVars, wpc>>
Worker(pc, next) ==
  /\ cpc # "terminated" /\ wpc = pc /\ wpc' = next
  /\ UNCHANGED <<cpc, callVars, historyVars>>

----------------------------------------------------------------------------
(* Start, Push, Pop *)

StartEnter ==
  /\ Reader("idle", "start") /\ ~error_status
  /\ UNCHANGED <<queueVars, flagVars, callVars, historyVars>>

StartRunning ==
  /\ Reader("start", "idle") /\ run
  /\ UNCHANGED <<queueVars, flagVars, callVars, historyVars>>

\* New queues and a new parser, which may fail; bsf_ctx_ stays as it is.
Restart ==
  /\ cpc = "start" /\ cpc' = "idle" /\ ~run
  /\ pkt_queue' = <<>> /\ frame_queue' = 0 /\ reorder_queue' = <<>>
  /\ pkt_exit' = FALSE /\ frame_exit' = FALSE /\ reorder_exit' = FALSE
  /\ parser' = <<>> /\ shown' = <<>>
  /\ UNCHANGED <<frame_count, draining, error_status, discard_pts, filterVars, callVars, historyVars>>

\* "Problem creating video parser": Start throws.
StartFails == Restart /\ UNCHANGED <<run, wpc>>

\* Slip: Start keeps the frames nobody popped.
StartThreadOldFrames ==
  /\ cpc = "start" /\ cpc' = "idle" /\ ~run /\ wpc = "none" /\ wpc' = "loop"
  /\ pkt_queue' = <<>> /\ frame_queue' = 0 /\ reorder_queue' = reorder_queue
  /\ pkt_exit' = FALSE /\ frame_exit' = FALSE /\ reorder_exit' = FALSE
  /\ parser' = <<>> /\ shown' = <<>> /\ run' = TRUE
  /\ UNCHANGED <<frame_count, draining, error_status, discard_pts, filterVars, callVars, historyVars>>

\* Slip: Start goes on with the parser it has.
StartThreadOldParser ==
  /\ cpc = "start" /\ cpc' = "idle" /\ ~run /\ wpc = "none" /\ wpc' = "loop"
  /\ pkt_queue' = <<>> /\ frame_queue' = 0 /\ reorder_queue' = <<>>
  /\ pkt_exit' = FALSE /\ frame_exit' = FALSE /\ reorder_exit' = FALSE
  /\ parser' = parser /\ shown' = <<>> /\ run' = TRUE
  /\ UNCHANGED <<frame_count, draining, error_status, discard_pts, filterVars, callVars, historyVars>>

\* It starts the launcher.
StartThread == Restart /\ wpc = "none" /\ wpc' = "loop" /\ run' = TRUE

\* The thread that failed since CheckErrorStatus was not joined: std::terminate.
StartTwice ==
  /\ Reader("start", "terminated") /\ ~run /\ wpc # "none"
  /\ UNCHANGED <<queueVars, flagVars, callVars, historyVars>>

\* CHECK(run_) of a Push, whose packet waits in sent (or is the null one).
PushEnter ==
  /\ Reader("idle", "push_full") /\ wpc # "none" /\ ~eof /\ run
  /\ \/ sent < MaxPackets /\ sent' = sent + 1 /\ UNCHANGED <<draining, eof, flushed>>
     \/ ~draining /\ draining' = TRUE /\ eof' = TRUE /\ flushed' = TRUE /\ UNCHANGED sent
  /\ UNCHANGED <<queueVars, frame_count, run, error_status, discard_pts, then, delivered, clears>>

\* if (draining_.load()) return; -- or CHECK(run_) throws: eof_ stays set.
PushNullDropped ==
  /\ Reader("idle", "idle") /\ wpc # "none" /\ ~eof /\ (draining \/ ~run)
  /\ eof' = TRUE
  /\ UNCHANGED <<queueVars, flagVars, then, flushed, historyVars>>

\* while (pkt_queue_->Size() > kMaxOutputSurfaces) ...
PushPacket ==
  /\ Reader("push_full", "push_buffer") /\ Len(pkt_queue) <= MaxSurfaces
  /\ pkt_queue' = Append(pkt_queue, IF eof THEN NullPacket ELSE sent)
  /\ UNCHANGED <<pkt_exit, bufferVars, outputVars, flagVars, callVars, historyVars>>

\* Slip: the null packet comes without a buffer, and so does every packet.
PushBufferNone ==
  /\ Reader("push_buffer", "idle") /\ frame_count' = frame_count + 1
  /\ UNCHANGED <<queueVars, draining, run, error_status, discard_pts, callVars, historyVars>>

PushBuffer ==
  /\ Reader("push_buffer", "push_count") /\ frame_queue' = frame_queue + 1
  /\ UNCHANGED <<packetVars, frame_exit, outputVars, flagVars, callVars, historyVars>>

PushCount ==
  /\ Reader("push_count", "idle") /\ frame_count' = frame_count + 1
  /\ UNCHANGED <<queueVars, draining, run, error_status, discard_pts, callVars, historyVars>>

\* Pop() with an output: it never waits, as nobody else pops.  After the kill of a
\* Stop or a failure it gives nothing, which is a stuttering step.
PopFrame ==
  /\ Reader("idle", "pop_check") /\ wpc # "none" /\ ~error_status
  /\ frame_count # 0 \/ draining
  /\ reorder_queue # <<>> /\ ~reorder_exit
  /\ UNCHANGED <<queueVars, flagVars, callVars, historyVars>>

\* The second CheckErrorStatus: if it throws, the frame is lost.
PopReturn ==
  /\ Reader("pop_check", "idle")
  /\ reorder_queue' = Tail(reorder_queue)
  /\ IF error_status THEN UNCHANGED <<frame_count, delivered>>
     ELSE frame_count' = frame_count - 1 /\ delivered' = Head(reorder_queue)
  /\ UNCHANGED <<packetVars, bufferVars, reorder_exit, draining, run, error_status,
                 discard_pts, callVars, sent, clears>>

----------------------------------------------------------------------------
(* The discard list, Stop and Clear *)

DiscardPTS ==
  /\ Reader("idle", "idle")
  /\ discard_pts' \in {{}} \cup {discard_pts \cup (delivered + 1) .. p : p \in delivered + 1 .. MaxPackets}
  /\ UNCHANGED <<queueVars, frame_count, draining, run, error_status, callVars, historyVars>>

StopEnter(next) ==
  /\ Reader("idle", IF run THEN "stop" ELSE "join") /\ then' = next
  /\ UNCHANGED <<queueVars, flagVars, eof, flushed, sent, delivered>>

\* A SetCodecContext whose new parser fails throws after the Clear and does no more than it.
CallClear(next) == clears < MaxClears /\ clears' = clears + 1 /\ StopEnter(next)
ClearCall == CallClear("idle")
SetCodecContext == CallClear(IF run THEN "start" ELSE "idle")
Destroy == clears' = clears /\ StopEnter("closed")

\* Slip: a Stop that leaves pkt_queue_ alone.
StopNoPackets ==
  /\ Reader("stop", "stop_run")
  /\ UNCHANGED <<queueVars, flagVars, callVars, historyVars>>

StopPackets ==
  /\ Reader("stop", "stop_run") /\ pkt_exit' = TRUE
  /\ UNCHANGED <<pkt_queue, bufferVars, outputVars, flagVars, callVars, historyVars>>

StopRun ==
  /\ Reader("stop_run", "join") /\ run' = FALSE /\ frame_exit' = TRUE /\ reorder_exit' = TRUE
  /\ UNCHANGED <<packetVars, frame_queue, reorder_queue, frame_count, draining,
                 error_status, discard_pts, callVars, historyVars>>

Join ==
  /\ cpc = "join" /\ wpc \in {"none", "finished"} /\ wpc' = "none"
  /\ cpc' = IF then = "closed" THEN "closed" ELSE "clear"
  /\ UNCHANGED <<queueVars, flagVars, workVars, callVars, historyVars>>

\* The rest of Clear(), which leaves draining_ and bsf_ctx_ as they are; the reader clears eof_.
Clear ==
  /\ cpc = "clear" /\ cpc' = then
  /\ bframe' = (IF bframe = "new" THEN "old" ELSE bframe) /\ old' = {}
  /\ frame_count' = 0 /\ discard_pts' = {} /\ error_status' = FALSE
  /\ eof' = FALSE /\ flushed' = FALSE /\ delivered' = sent
  /\ UNCHANGED <<queueVars, draining, run, parser, shown, wpc, then, sent, clears>>

----------------------------------------------------------------------------
(* The launcher thread *)

WorkerLoop ==
  /\ Worker("loop", IF run THEN "pop" ELSE "finished")
  /\ UNCHANGED <<queueVars, flagVars, workVars>>

WorkerKilled ==
  /\ Worker("pop", "finished") /\ pkt_exit
  /\ UNCHANGED <<queueVars, flagVars, workVars>>

PopPacket(next) ==
  /\ Worker("pop", next) /\ ~pkt_exit /\ pkt_queue # <<>>
  /\ pkt_queue' = Tail(pkt_queue)
  /\ UNCHANGED <<pkt_exit, bufferVars, outputVars, flagVars>>

\* av_bsf_send_packet, av_bsf_receive_packet. A packet comes out for each that goes in, and
\* all filters but mpeg4_unpack_bframes give the picture they got. That one takes a packet of
\* two pictures apart: it gives the first and keeps the other, discarding one it kept before.
\* It gives what it keeps for a packet of one, and keeps that one unless it is empty (N-VOP).
FilterPacket(gives) ==
  \/ gives = "none" /\ UNCHANGED bframe
  \/ gives = "new" /\ bframe = "none" /\ UNCHANGED bframe
  \/ gives = "new" /\ Unpacks /\ bframe' = "new"
  \/ gives = bframe /\ bframe # "none" /\ bframe' \in {"none", "new"}

\* cuvidParseVideoData: HandlePictureDecode finds run_ set, and the pictures whose
\* turn it is are displayed.
ParsePacket ==
  /\ PopPacket("display") /\ Head(pkt_queue) # NullPacket
  /\ \E gives \in {"none", "new", "old"}, pictures \in {parser, Append(parser, Head(pkt_queue))} :
       /\ FilterPacket(gives) /\ (gives = "none" => pictures = parser)
       /\ old' = IF gives = "old" /\ pictures # parser THEN old \cup {Head(pkt_queue)} ELSE old
       /\ \E n \in 0 .. Len(pictures) :
            /\ shown' = SubSeq(pictures, 1, n)
            /\ parser' = SubSeq(pictures, n + 1, Len(pictures))

\* Slip: the end of the stream flushes nothing.
ParseEndNotFlushed ==
  /\ PopPacket("display") /\ Head(pkt_queue) = NullPacket
  /\ UNCHANGED workVars

\* CUVID_PKT_ENDOFSTREAM
ParseEnd ==
  /\ PopPacket("display") /\ Head(pkt_queue) = NullPacket
  /\ shown' = parser /\ parser' = <<>> /\ UNCHANGED filterVars

\* The bitstream filter, the parser or the decoder fails, or HandlePictureDecode
\* finds run_ down.
ParseFails ==
  /\ PopPacket("record")
  /\ \E gives \in {"none", "new", "old"} : FilterPacket(gives)
  /\ UNCHANGED <<parser, shown, old>>

ParseReturns ==
  /\ Worker("display", "loop") /\ shown = <<>>
  /\ UNCHANGED <<queueVars, flagVars, workVars>>

\* HandlePictureDisplay loads run_ ...
DisplayEnter ==
  /\ Worker("display", IF run THEN "buffer" ELSE "record") /\ shown # <<>>
  /\ UNCHANGED <<queueVars, flagVars, workVars>>

\* ... waits for a buffer ...
TakeBuffer ==
  /\ Worker("buffer", "fill") /\ ~frame_exit /\ frame_queue > 0
  /\ frame_queue' = frame_queue - 1
  /\ UNCHANGED <<packetVars, frame_exit, outputVars, flagVars, workVars>>

\* ... or finds the queue killed: it returns 0, and the parser fails ...
BufferKilled ==
  /\ Worker("buffer", "record") /\ frame_exit
  /\ UNCHANGED <<queueVars, flagVars, workVars>>

\* ... and pushes it, filled, or as it is if the picture is to be discarded.
PutFrame ==
  /\ Worker("fill", "display")
  /\ reorder_queue' = Append(reorder_queue, Head(shown)) /\ shown' = Tail(shown)
  /\ UNCHANGED <<packetVars, bufferVars, reorder_exit, flagVars, parser, filterVars>>

FillFails ==
  /\ Worker("fill", "record") /\ Head(shown) \notin discard_pts
  /\ UNCHANGED <<queueVars, flagVars, workVars>>

RecordError ==
  /\ Worker("record", "fail") /\ error_status' = TRUE
  /\ UNCHANGED <<queueVars, frame_count, draining, run, discard_pts, workVars>>

UnblockConsumers ==
  /\ Worker("fail", "finished") /\ run' = FALSE /\ frame_exit' = TRUE
  /\ UNCHANGED <<packetVars, frame_queue, outputVars, frame_count, draining, error_status,
                 discard_pts, workVars>>

----------------------------------------------------------------------------
ReaderStep ==
  \/ StartRunning \/ StartThread \/ StartFails \/ StartTwice \/ PushPacket \/ PushBuffer \/ PushCount
  \/ PopReturn \/ StopPackets \/ StopRun \/ Join \/ Clear

ReaderCall ==
  \/ StartEnter \/ PushEnter \/ PushNullDropped \/ PopFrame \/ DiscardPTS
  \/ ClearCall \/ SetCodecContext \/ Destroy

WorkerStep ==
  \/ WorkerLoop \/ WorkerKilled \/ ParsePacket \/ ParseEnd \/ ParseFails \/ ParseReturns
  \/ DisplayEnter \/ TakeBuffer \/ BufferKilled \/ PutFrame \/ FillFails
  \/ RecordError \/ UnblockConsumers

\* std::this_thread::sleep_for, then Size() again.
PushSpins == cpc = "push_full" /\ Len(pkt_queue) > MaxSurfaces /\ UNCHANGED vars

Done == cpc \in {"closed", "terminated"} /\ UNCHANGED vars

Next == ReaderStep \/ ReaderCall \/ WorkerStep \/ PushSpins \/ Done

Spec == Init /\ [][Next]_vars

\* The operating system runs both threads; what the reader calls is its choice.
FairSpec == Spec /\ WF_vars(ReaderStep) /\ WF_vars(WorkerStep)

----------------------------------------------------------------------------
(* Properties *)

Stopping == cpc \in {"stop", "stop_run", "join", "clear", "closed"}
Failing == wpc \in {"record", "fail"} \/ error_status
WorkerSteps ==
  {"none", "loop", "pop", "display", "buffer", "fill", "record", "fail", "finished"}
ReaderSteps ==
  {"idle", "start", "terminated", "push_full", "push_buffer", "push_count", "pop_check",
   "stop", "stop_run", "join", "clear", "closed"}

DataOK ==
  /\ sent \in 0 .. MaxPackets /\ delivered \in 0 .. sent /\ clears \in 0 .. MaxClears
  /\ pkt_queue \in Seq(0 .. sent) /\ Len(pkt_queue) <= MaxSurfaces + 1
  /\ reorder_queue \in Seq(1 .. sent) /\ parser \in Seq(1 .. sent) /\ shown \in Seq(1 .. sent)
  /\ bframe \in {"none", "new", "old"} /\ old \subseteq 1 .. sent
  /\ frame_queue \in Nat /\ frame_count \in Int /\ discard_pts \subseteq 1 .. MaxPackets
  /\ wpc \in WorkerSteps /\ cpc \in ReaderSteps /\ then \in {"idle", "start", "closed"}

FlagsOK ==
  /\ pkt_exit \in BOOLEAN /\ frame_exit \in BOOLEAN /\ reorder_exit \in BOOLEAN
  /\ draining \in BOOLEAN /\ run \in BOOLEAN /\ error_status \in BOOLEAN
  /\ eof \in BOOLEAN /\ flushed \in BOOLEAN

\* Every variable has its type: packets and frames are of packets pushed, the queue of packets
\* is never fuller than kMaxOutputSurfaces + 1, and no buffer is taken that is not there.
TypeOK == DataOK /\ FlagsOK

\* The display callback waits, inside the driver, for a buffer that only Push gives,
\* while Push may wait for room in pkt_queue_: neither waits for the other.
NoEmbrace ==
  wpc = "buffer" /\ frame_queue = 0 /\ ~frame_exit => cpc = "push_buffer"

\* Every call returns, but for a Push that waits for room when the launcher fails:
\* run_ is not looked at again.
CallsReturn ==
  cpc \notin {"idle", "closed", "terminated"} ~>
    cpc \in {"idle", "closed", "terminated"} \/ (cpc = "push_full" /\ Failing)

\* A file that was read to its end is flushed: what the parser holds comes out, whenever the
\* null packet was queued. After a Clear it is not, as draining_ is still set.
Out == Stopping \/ Failing \/ wpc = "none" \/
         (parser = <<>> /\ shown = <<>> /\ pkt_queue = <<>>)
FlushReachesParser == flushed ~> Out

(* CUThreadedDecoder promises its reader what FFMPEGThreadedDecoder does, without *)
(* the end-of-stream signals.                                                     *)
NoStream == Stopping \/ wpc = "none"
Stream == INSTANCE FrameStream WITH
  fed <- IF cpc = "push_full" /\ ~eof THEN sent - 1 ELSE sent,
  queued <- IF NoStream THEN {} ELSE ToSet(pkt_queue) \ {NullPacket},
  owed <- IF NoStream THEN {} ELSE ToSet(reorder_queue) \cup ToSet(shown) \cup ToSet(parser),
  last <- IF Stopping THEN sent ELSE delivered,
  ended <- eof /\ ~Stopping,
  signals <- 0,
  failed <- Failing /\ ~NoStream

\* The pictures come with the time stamps of the packets pushed, in their order and each once,
\* and none with a time stamp of before a Clear; what they show is OldFrames' matter.
ImplementsFrameStream == Stream!Spec

\* Of all that the parser, a callback, reorder_queue_ and the bitstream filter hold of before a
\* Clear nothing comes after it, but for one picture of mpeg4_unpack_bframes: Start empties all
\* of them but the filter, and that keeps one picture and gives it once.
OldFrames ==
  ~NoStream =>
    Cardinality(old \cup {p \in ToSet(reorder_queue) \cup ToSet(shown) \cup ToSet(parser) : p <= delivered})
      <= (IF Unpacks THEN 1 ELSE 0)

\* "vr[i] - frame at index i": what the reader gets after a seek is of after the seek. Clear and
\* Start flush the codec and the parser, and not the bitstream filter.
NoOldFrames == delivered \notin old
=============================================================================
