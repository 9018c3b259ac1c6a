----------------------- MODULE ThreadedDecoder_proofs -----------------------
(***************************************************************************)
(* The inductive invariant of ThreadedDecoder and the theorems it gives;    *)
(* and that the decoder implements FrameStream, by a second invariant: what *)
(* is on its way to the reader is in the order of its packets.              *)
(***************************************************************************)
EXTENDS ThreadedDecoder, TLAPS

Healthy == ~Stopping /\ ~Failing /\ wpc # "none"
One(b) == IF b THEN 1 ELSE 0

\* Where the two threads can be: the queues are killed only by a Stop, or by a
\* worker that failed; a worker that is gone was stopped or failed.
Control ==
  /\ cpc \in InPop \cup {"push_buffer", "stop", "stop_run"} => wpc # "none"
  /\ cpc \in {"clear", "closed"} => wpc = "none"
  /\ cpc \in {"join", "clear", "closed"} => ~run
  /\ wpc = "none" => ~run
  /\ wpc \notin {"none", "finished"} => run \/ Stopping
  /\ wpc = "finished" => Stopping \/ (error_status /\ frame_exit)
  /\ wpc = "fail" => error_status
  /\ error_status => Stopping \/ wpc \in {"fail", "finished"}
  /\ pkt_exit \/ buffer_exit => Stopping \/ wpc = "none"
  /\ frame_exit => Stopping \/ wpc = "none" \/ error_status
  /\ then = "closed" => Stopping

\* Clear leaves nothing behind for the next worker.
Fresh == wpc = "none" /\ cpc \notin {"clear", "closed"} =>
  codec = <<>> /\ frame_count = 0 /\ ~draining /\ drained = 0 /\ ~eof /\ ~ticket

Buffers == wpc # "none" =>
  buffer_queue + One(cpc = "push_buffer") >=
    Len(pkt_queue) + Len(codec) + One(wpc = "take_buffer")

\* The phases of the worker.
Phases == Healthy =>
  /\ mode # "normal" => eof /\ pkt_queue = <<>>
                        /\ wpc \in {"drain", "take_buffer", "process", "put", "count", "drained"}
  /\ mode # "signalling" => wpc # "drained"
  /\ mode = "normal" => wpc # "drain"
  /\ mode = "signalling" => wpc \in {"put", "count", "drained"} /\ item = Signal
                            /\ signals \in 0 .. NumSignals
                            /\ (wpc = "put" => signals < NumSignals)
                            /\ (wpc = "drained" => signals = NumSignals)
  /\ mode = "draining" => signals = 0
  /\ mode # "signalling" /\ wpc = "put" => item.kind # "signal"
  /\ wpc \in {"take_buffer", "process"} => item.kind = "picture"
  /\ ~eof => signals = 0
  /\ mode = "normal" /\ signals # 0 =>
       signals = NumSignals /\ pkt_queue = <<>> /\ wpc \in {"loop", "pop"}

\* The null packet is the last one.
NullIsLast == Healthy =>
  /\ \A i \in 1 .. Len(pkt_queue) : pkt_queue[i] = NullPacket => eof /\ i = Len(pkt_queue)
  /\ eof /\ mode = "normal" /\ signals = 0 =>
       pkt_queue # <<>> /\ pkt_queue[Len(pkt_queue)] = NullPacket

\* The output of each packet is still to come when its Pop has not taken one.
Outstanding ==
  Len(pkt_queue) + Len(frame_queue)
    + One(wpc \in {"take_buffer", "process", "put"} /\ mode = "normal")
Tickets == Healthy /\ ~eof =>
  Outstanding >= One(ticket \/ cpc \in {"push_buffer", "pop_count", "pop_draining", "pop_wait"})

\* The signals are the last outputs in frame_queue_.
SignalsQueued ==
  signals - drained - One(cpc \in {"pop_check", "pop_return"} /\ frame.kind = "signal")
SignalsAreLast == Healthy =>
  /\ SignalsQueued \in 0 .. Len(frame_queue)
  /\ \A i \in 1 .. Len(frame_queue) :
       frame_queue[i].kind = "signal" <=> i > Len(frame_queue) - SignalsQueued

PopBound == cpc \in InPop => drained < MaxSignals /\ ~ticket

IInv ==
  /\ TypeOK /\ Control /\ Fresh /\ Buffers
  /\ Phases /\ NullIsLast /\ Tickets /\ SignalsAreLast /\ PopBound
  /\ CountTracksQueue /\ NeverDrainsTwice

----------------------------------------------------------------------------

\* What Append and Tail do to the elements of a sequence.
LEMMA AppendFacts == ASSUME NEW S, NEW s \in Seq(S), NEW e \in S
  PROVE  /\ Append(s, e) \in Seq(S) /\ Len(Append(s, e)) = Len(s) + 1
         /\ \A i \in 1 .. Len(s) : Append(s, e)[i] = s[i]
         /\ Append(s, e)[Len(s) + 1] = e
OBVIOUS

LEMMA TailFacts == ASSUME NEW S, NEW s \in Seq(S), s # <<>>
  PROVE  /\ Len(s) \in Nat \ {0} /\ Head(s) = s[1] /\ Head(s) \in S
         /\ Tail(s) \in Seq(S) /\ Len(Tail(s)) = Len(s) - 1
         /\ \A i \in 1 .. Len(s) - 1 : Tail(s)[i] = s[i + 1]
OBVIOUS

LEMMA NatSeqFacts ==
  \A s \in Seq(Nat) : s # <<>> => Head(s) \in Nat /\ Tail(s) \in Seq(Nat)
OBVIOUS

\* Popping a queue whose last k outputs are its signals takes one of them only
\* when there is nothing else.
LEMMA SignalsShift ==
  ASSUME NEW q \in Seq(Output), q # <<>>, NEW k \in 0 .. Len(q),
         \A i \in 1 .. Len(q) : q[i].kind = "signal" <=> i > Len(q) - k,
         NEW j, j = IF q[1].kind = "signal" THEN k - 1 ELSE k
  PROVE  /\ j \in 0 .. Len(Tail(q))
         /\ \A i \in 1 .. Len(Tail(q)) : Tail(q)[i].kind = "signal" <=> i > Len(Tail(q)) - j
<1>1. /\ Len(q) \in Nat \ {0} /\ Len(Tail(q)) = Len(q) - 1
      /\ \A i \in 1 .. Len(q) - 1 : Tail(q)[i] = q[i + 1]
  BY TailFacts
<1>2. q[1].kind = "signal" <=> 1 > Len(q) - k
  BY <1>1
<1>3. CASE q[1].kind = "signal"
  <2>1. Len(q) \in Nat /\ k \in Nat /\ k <= Len(q)
    BY <1>1
  <2>2. k = Len(q)
    BY <2>1, <1>2, <1>3
  <2>3. j = Len(q) - 1
    BY <2>2, <1>3
  <2>4. ASSUME NEW i \in 1 .. Len(q) - 1 PROVE Tail(q)[i].kind = "signal"
    <3>1. i + 1 \in 1 .. Len(q) /\ i + 1 > Len(q) - k
      BY <2>1, <2>2
    <3> QED
      BY <1>1, <3>1
  <2>5. \A i \in 1 .. Len(q) - 1 : i > Len(q) - 1 - j
    BY <2>1, <2>3
  <2> QED
    BY <1>1, <2>3, <2>4, <2>5
<1>4. CASE q[1].kind # "signal"
  <2>1. k \in 0 .. Len(q) - 1 /\ j = k
    BY <1>1, <1>2, <1>4
  <2>2. ASSUME NEW i \in 1 .. Len(q) - 1
        PROVE  Tail(q)[i].kind = "signal" <=> i > Len(q) - 1 - k
    <3>1. i + 1 \in 1 .. Len(q) /\ (i + 1 > Len(q) - k <=> i > Len(q) - 1 - k)
      BY <1>1, <2>1
    <3> QED
      BY <1>1, <3>1
  <2> QED
    BY <1>1, <2>1, <2>2
<1> QED
  BY <1>3, <1>4

\* The outputs the decoder makes are outputs.
LEMMA OutputType ==
  /\ Nothing \in Output /\ Signal \in Output
  /\ \A p \in Nat : Picture(p) \in Output /\ Skipped(p) \in Output
  /\ \A o \in Output : o.of \in Nat
BY DEF Output, Nothing, Signal, Picture, Skipped

\* No step takes a queue, a count or a program counter out of its type.
LEMMA DataStep == ASSUME TypeOK, [Next]_vars PROVE DataOK'
<1> USE DEF TypeOK, DataOK, WorkerSteps, ReaderSteps, Stopped, InPop, Reader, Worker,
      queueVars, packetVars, bufferVars, frameVars, flagVars, workerVars, callVars,
      historyVars
<1>1. CASE StartRunning
  BY <1>1, OutputType DEF StartRunning
<1>2. CASE StartThread
  BY <1>2, OutputType DEF StartThread
<1>3. CASE StartTwice
  BY <1>3, OutputType DEF StartTwice
<1>4. CASE PushBuffer
  BY <1>4, OutputType DEF PushBuffer
<1>5. CASE PopCount
  BY <1>5, OutputType DEF PopCount
<1>6. CASE PopDraining
  BY <1>6, OutputType DEF PopDraining
<1>7. CASE PopTake
  BY <1>7, OutputType DEF PopTake
<1>8. CASE PopKilled
  BY <1>8, OutputType DEF PopKilled
<1>9. CASE PopCheck
  BY <1>9, OutputType DEF PopCheck
<1>10. CASE PopReturn
  BY <1>10, OutputType DEF PopReturn
<1>11. CASE StopQueues
  BY <1>11, OutputType DEF StopQueues
<1>12. CASE StopRun
  BY <1>12, OutputType DEF StopRun
<1>13. CASE Join
  BY <1>13, OutputType DEF Join
<1>14. CASE Clear
  BY <1>14, OutputType DEF Clear
<1>15. CASE StartEnter
  BY <1>15, OutputType DEF StartEnter
<1>16. CASE PushPacket
  BY <1>16, OutputType DEF PushPacket
<1>17. CASE PushNull
  BY <1>17, OutputType DEF PushNull, NullPacket
<1>18. CASE PushNullThrows
  BY <1>18, OutputType DEF PushNullThrows
<1>19. CASE PopEnter
  BY <1>19, OutputType DEF PopEnter
<1>20. CASE SuggestDiscardPTS
  BY <1>20, OutputType DEF SuggestDiscardPTS
<1>21. CASE ClearDiscardPTS
  BY <1>21, OutputType DEF ClearDiscardPTS
<1>22. CASE ClearCall
  BY <1>22, OutputType DEF ClearCall, CallClear, StopEnter
<1>23. CASE SetCodecContext
  BY <1>23, OutputType DEF SetCodecContext, CallClear, StopEnter
<1>24. CASE Destroy
  BY <1>24, OutputType DEF Destroy, StopEnter
<1>25. CASE WorkerLoop
  BY <1>25, OutputType DEF WorkerLoop
<1>26. CASE WorkerKilled
  BY <1>26, OutputType DEF WorkerKilled
<1>27. CASE DecodeFrame
  <2>1. PICK frames \in {codec, Append(codec, Head(pkt_queue))} :
          frames # <<>> /\ item' = Picture(Head(frames)) /\ codec' = Tail(frames)
    BY <1>27 DEF DecodeFrame
  <2>2. Head(pkt_queue) \in Nat /\ Tail(pkt_queue) \in Seq(Nat)
    BY <1>27, TailFacts DEF DecodeFrame, PopPacket
  <2>3. codec \in Seq(Nat) /\ Append(codec, Head(pkt_queue)) \in Seq(Nat)
    BY <2>2
  <2>4. Head(frames) \in Nat /\ Tail(frames) \in Seq(Nat)
    BY <2>1, <2>3, NatSeqFacts
  <2> QED
    BY <1>27, <2>1, <2>2, <2>4, OutputType DEF DecodeFrame, PopPacket
<1>28. CASE DecodeNothing
  <2>1. Head(pkt_queue) \in Nat /\ Tail(pkt_queue) \in Seq(Nat)
    BY <1>28, TailFacts DEF DecodeNothing, PopPacket
  <2>2. codec \in Seq(Nat) /\ Append(codec, Head(pkt_queue)) \in Seq(Nat)
    BY <2>1
  <2> QED
    BY <1>28, <2>1, <2>2, OutputType DEF DecodeNothing, PopPacket
<1>29. CASE DecodeFails
  BY <1>29, OutputType DEF DecodeFails, PopPacket
<1>30. CASE StartDraining
  BY <1>30, OutputType DEF StartDraining, PopPacket, NullPacket
<1>31. CASE DrainFrame
  BY <1>31, OutputType DEF DrainFrame
<1>32. CASE DrainEnds
  BY <1>32, OutputType DEF DrainEnds
<1>33. CASE TakeBuffer
  BY <1>33, OutputType DEF TakeBuffer
<1>34. CASE ProcessFrame
  BY <1>34, OutputType DEF ProcessFrame
<1>35. CASE FilterFails
  BY <1>35, OutputType DEF FilterFails
<1>36. CASE PutOutput
  BY <1>36, OutputType DEF PutOutput
<1>37. CASE CountOutput
  BY <1>37, OutputType DEF CountOutput, AfterCount
<1>38. CASE StopDraining
  BY <1>38, OutputType DEF StopDraining
<1>39. CASE RecordError
  BY <1>39, OutputType DEF RecordError
<1>40. CASE UnblockConsumers
  BY <1>40, OutputType DEF UnblockConsumers
<1>41. CASE UNCHANGED vars
  BY <1>41 DEF vars
<1> QED
  BY <1>1, <1>2, <1>3, <1>4, <1>5, <1>6, <1>7, <1>8, <1>9, <1>10, <1>11, <1>12, <1>13,
     <1>14, <1>15, <1>16, <1>17, <1>18, <1>19, <1>20, <1>21, <1>22, <1>23, <1>24, <1>25,
     <1>26, <1>27, <1>28, <1>29, <1>30, <1>31, <1>32, <1>33, <1>34, <1>35, <1>36, <1>37,
     <1>38, <1>39, <1>40, <1>41
     DEF Next, ReaderStep, ReaderCall, WorkerStep, Done

\* No step takes a flag out of its type.
LEMMA FlagsStep == ASSUME TypeOK, [Next]_vars PROVE FlagsOK'
<1> USE DEF TypeOK, FlagsOK, Reader, Worker, queueVars, packetVars, bufferVars,
      frameVars, flagVars, workerVars, callVars, historyVars
<1>1. CASE StartRunning \/ StartThread \/ StartTwice \/ PushBuffer \/ PopCount
  <2>1. CASE StartRunning
    BY <2>1, Zenon DEF StartRunning
  <2>2. CASE StartThread
    BY <2>2, Zenon DEF StartThread
  <2>3. CASE StartTwice
    BY <2>3, Zenon DEF StartTwice
  <2>4. CASE PushBuffer
    BY <2>4, Zenon DEF PushBuffer
  <2>5. CASE PopCount
    BY <2>5, Zenon DEF PopCount
  <2> QED BY <1>1, <2>1, <2>2, <2>3, <2>4, <2>5
<1>2. CASE PopDraining \/ PopTake \/ PopKilled \/ PopCheck \/ PopReturn
  <2>1. CASE PopDraining
    BY <2>1, Zenon DEF PopDraining
  <2>2. CASE PopTake
    BY <2>2, Zenon DEF PopTake
  <2>3. CASE PopKilled
    BY <2>3, Zenon DEF PopKilled
  <2>4. CASE PopCheck
    BY <2>4, Zenon DEF PopCheck
  <2>5. CASE PopReturn
    BY <2>5, Zenon DEF PopReturn
  <2> QED BY <1>2, <2>1, <2>2, <2>3, <2>4, <2>5
<1>3. CASE StopQueues \/ StopRun \/ Join \/ Clear
  BY <1>3, Zenon DEF StopQueues, StopRun, Join, Clear
<1>4. CASE StartEnter \/ PushPacket \/ PushNull \/ PushNullThrows \/ PopEnter
  <2>1. CASE StartEnter \/ PushPacket
    BY <2>1, Zenon DEF StartEnter, PushPacket
  <2>2. CASE PushNull \/ PushNullThrows
    BY <2>2, Zenon DEF PushNull, PushNullThrows
  <2>3. CASE PopEnter
    BY <2>3, Zenon DEF PopEnter
  <2> QED BY <1>4, <2>1, <2>2, <2>3
<1>5. CASE SuggestDiscardPTS \/ ClearDiscardPTS \/ ClearCall \/ SetCodecContext \/
           Destroy
  <2>1. CASE SuggestDiscardPTS
    BY <2>1, Zenon DEF SuggestDiscardPTS
  <2>2. CASE ClearDiscardPTS
    BY <2>2, Zenon DEF ClearDiscardPTS
  <2>3. CASE ClearCall
    BY <2>3, Zenon DEF ClearCall, CallClear, StopEnter
  <2>4. CASE SetCodecContext
    BY <2>4, Zenon DEF CallClear, StopEnter, SetCodecContext
  <2>5. CASE Destroy
    BY <2>5, Zenon DEF CallClear, StopEnter, Destroy
  <2> QED BY <1>5, <2>1, <2>2, <2>3, <2>4, <2>5
<1>6. CASE WorkerLoop \/ WorkerKilled \/ DecodeFrame \/ DecodeNothing \/ DecodeFails
  <2>1. CASE WorkerLoop \/ WorkerKilled
    BY <2>1, Zenon DEF WorkerLoop, WorkerKilled
  <2>2. CASE DecodeFrame
    BY <2>2, Zenon DEF DecodeFrame, PopPacket
  <2>3. CASE DecodeNothing
    BY <2>3, Zenon DEF DecodeNothing, PopPacket
  <2>4. CASE DecodeFails
    BY <2>4, Zenon DEF DecodeFails, PopPacket
  <2> QED BY <1>6, <2>1, <2>2, <2>3, <2>4
<1>7. CASE StartDraining \/ DrainFrame \/ DrainEnds \/ TakeBuffer \/ ProcessFrame
  <2>1. CASE StartDraining
    BY <2>1, Zenon DEF StartDraining, PopPacket
  <2>2. CASE DrainFrame \/ DrainEnds
    BY <2>2, Zenon DEF DrainFrame, DrainEnds
  <2>3. CASE TakeBuffer \/ ProcessFrame
    BY <2>3, Zenon DEF TakeBuffer, ProcessFrame
  <2> QED BY <1>7, <2>1, <2>2, <2>3
<1>8. CASE FilterFails \/ PutOutput \/ CountOutput \/ StopDraining \/ RecordError
  <2>1. CASE FilterFails
    BY <2>1, Zenon DEF FilterFails, AfterCount
  <2>2. CASE PutOutput
    BY <2>2, Zenon DEF PutOutput, AfterCount
  <2>3. CASE CountOutput
    BY <2>3, Zenon DEF CountOutput, AfterCount
  <2>4. CASE StopDraining
    BY <2>4, Zenon DEF AfterCount, StopDraining
  <2>5. CASE RecordError
    BY <2>5, Zenon DEF AfterCount, RecordError
  <2> QED BY <1>8, <2>1, <2>2, <2>3, <2>4, <2>5
<1>9. CASE UnblockConsumers
  BY <1>9, Zenon DEF UnblockConsumers
<1>10. CASE UNCHANGED vars
  BY <1>10, Zenon DEF vars
<1> QED
  BY <1>1, <1>2, <1>3, <1>4, <1>5, <1>6, <1>7, <1>8, <1>9, <1>10
     DEF Next, ReaderStep, ReaderCall, WorkerStep, Done

\* The two threads stay where Control says.
LEMMA ControlStep == ASSUME TypeOK, Control, [Next]_vars PROVE Control'
<1> USE DEF Control, TypeOK, DataOK, FlagsOK, InPop, WorkerSteps, Stopping, Stopped,
      Reader, Worker, queueVars, packetVars, bufferVars, frameVars, flagVars,
      workerVars, callVars, historyVars
<1>1. CASE StartThread
  BY <1>1 DEF StartThread
<1>2. CASE Join
  BY <1>2 DEF Join
<1>3. CASE Clear
  BY <1>3 DEF Clear
<1>4. CASE StopRun
  BY <1>4 DEF StopRun
<1>5. CASE WorkerLoop
  BY <1>5 DEF WorkerLoop
<1>6. CASE WorkerKilled
  BY <1>6 DEF WorkerKilled
<1>7. CASE UnblockConsumers
  BY <1>7 DEF UnblockConsumers
<1>8. CASE StartRunning \/ StartTwice \/ PushBuffer
  <2>1. CASE StartRunning
    BY <2>1 DEF StartRunning
  <2>2. CASE StartTwice
    BY <2>2 DEF StartTwice
  <2>3. CASE PushBuffer
    BY <2>3 DEF PushBuffer
  <2> QED BY <1>8, <2>1, <2>2, <2>3
<1>9. CASE PopCount \/ PopDraining \/ PopTake
  <2>1. CASE PopCount
    BY <2>1 DEF PopCount
  <2>2. CASE PopDraining
    BY <2>2 DEF PopDraining
  <2>3. CASE PopTake
    BY <2>3 DEF PopTake
  <2> QED BY <1>9, <2>1, <2>2, <2>3
<1>10. CASE PopKilled \/ PopCheck \/ PopReturn
  <2>1. CASE PopKilled
    BY <2>1 DEF PopKilled
  <2>2. CASE PopCheck
    BY <2>2 DEF PopCheck
  <2>3. CASE PopReturn
    BY <2>3 DEF PopReturn
  <2> QED BY <1>10, <2>1, <2>2, <2>3
<1>11. CASE StopQueues
  BY <1>11 DEF StopQueues
<1>12. CASE StartEnter \/ PushPacket \/ PushNull
  <2>1. CASE StartEnter
    BY <2>1 DEF StartEnter, NullPacket
  <2>2. CASE PushPacket
    BY <2>2 DEF PushPacket, NullPacket
  <2>3. CASE PushNull
    BY <2>3 DEF PushNull, NullPacket
  <2> QED BY <1>12, <2>1, <2>2, <2>3
<1>13. CASE PushNullThrows \/ PopEnter \/ SuggestDiscardPTS
  BY <1>13 DEF PushNullThrows, PopEnter, SuggestDiscardPTS
<1>14. CASE ClearDiscardPTS \/ ClearCall \/ SetCodecContext
  <2>1. CASE ClearDiscardPTS
    BY <2>1 DEF ClearDiscardPTS, CallClear, StopEnter
  <2>2. CASE ClearCall
    BY <2>2 DEF ClearCall, CallClear, StopEnter
  <2>3. CASE SetCodecContext
    BY <2>3 DEF CallClear, StopEnter, SetCodecContext
  <2> QED BY <1>14, <2>1, <2>2, <2>3
<1>15. CASE Destroy
  BY <1>15 DEF Destroy, StopEnter
<1>16. CASE DecodeFrame \/ DecodeNothing \/ DecodeFails
  <2>1. CASE DecodeFrame
    BY <2>1 DEF DecodeFrame, PopPacket, NullPacket
  <2>2. CASE DecodeNothing
    BY <2>2 DEF DecodeNothing, PopPacket, NullPacket
  <2>3. CASE DecodeFails
    BY <2>3 DEF DecodeFails, PopPacket, NullPacket
  <2> QED BY <1>16, <2>1, <2>2, <2>3
<1>17. CASE StartDraining \/ DrainFrame \/ DrainEnds
  <2>1. CASE StartDraining
    BY <2>1 DEF StartDraining, PopPacket, NullPacket
  <2>2. CASE DrainFrame
    BY <2>2 DEF DrainFrame
  <2>3. CASE DrainEnds
    BY <2>3 DEF DrainEnds
  <2> QED BY <1>17, <2>1, <2>2, <2>3
<1>18. CASE TakeBuffer \/ ProcessFrame \/ FilterFails
  BY <1>18 DEF TakeBuffer, ProcessFrame, FilterFails
<1>19. CASE PutOutput \/ CountOutput \/ StopDraining
  <2>1. CASE PutOutput
    BY <2>1 DEF PutOutput, AfterCount
  <2>2. CASE CountOutput
    BY <2>2 DEF CountOutput, AfterCount
  <2>3. CASE StopDraining
    BY <2>3 DEF AfterCount, StopDraining
  <2> QED BY <1>19, <2>1, <2>2, <2>3
<1>20. CASE RecordError
  BY <1>20 DEF RecordError
<1>21. CASE UNCHANGED vars
  BY <1>21 DEF vars
<1> QED
  BY <1>1, <1>2, <1>3, <1>4, <1>5, <1>6, <1>7, <1>8, <1>9, <1>10, <1>11, <1>12, <1>13,
     <1>14, <1>15, <1>16, <1>17, <1>18, <1>19, <1>20, <1>21
     DEF Next, ReaderStep, ReaderCall, WorkerStep, Done

\* What Clear reset stays reset until Start spawns a worker.
LEMMA FreshStep == ASSUME TypeOK, Control, Fresh, [Next]_vars PROVE Fresh'
<1> USE DEF Fresh, Control, TypeOK, DataOK, FlagsOK, InPop, WorkerSteps, Stopping,
      Stopped, Reader, Worker, queueVars, packetVars, bufferVars, frameVars, flagVars,
      workerVars, callVars, historyVars
<1>1. CASE StartThread
  BY <1>1 DEF StartThread
<1>2. CASE Join
  BY <1>2 DEF Join
<1>3. CASE Clear
  BY <1>3 DEF Clear
<1>4. CASE StartRunning \/ StartTwice \/ PushBuffer
  BY <1>4 DEF StartRunning, StartTwice, PushBuffer
<1>5. CASE PopCount \/ PopDraining \/ PopTake
  BY <1>5 DEF PopCount, PopDraining, PopTake
<1>6. CASE PopKilled \/ PopCheck \/ PopReturn
  BY <1>6 DEF PopKilled, PopCheck, PopReturn
<1>7. CASE StopQueues \/ StopRun
  BY <1>7 DEF StopQueues, StopRun
<1>8. CASE StartEnter \/ PushPacket \/ PushNull
  BY <1>8 DEF StartEnter, PushPacket, PushNull, NullPacket
<1>9. CASE PushNullThrows \/ PopEnter \/ SuggestDiscardPTS
  BY <1>9 DEF PushNullThrows, PopEnter, SuggestDiscardPTS
<1>10. CASE ClearDiscardPTS \/ ClearCall \/ SetCodecContext
  BY <1>10 DEF ClearDiscardPTS, ClearCall, CallClear, StopEnter, SetCodecContext
<1>11. CASE Destroy
  BY <1>11 DEF Destroy, StopEnter
<1>12. CASE WorkerLoop \/ WorkerKilled \/ DecodeFrame
  BY <1>12 DEF WorkerLoop, WorkerKilled, DecodeFrame, PopPacket, NullPacket
<1>13. CASE DecodeNothing \/ DecodeFails \/ StartDraining
  BY <1>13 DEF DecodeNothing, PopPacket, NullPacket, DecodeFails, StartDraining
<1>14. CASE DrainFrame \/ DrainEnds \/ TakeBuffer
  BY <1>14 DEF DrainFrame, DrainEnds, TakeBuffer
<1>15. CASE ProcessFrame \/ FilterFails \/ PutOutput
  BY <1>15 DEF ProcessFrame, FilterFails, PutOutput
<1>16. CASE CountOutput \/ StopDraining \/ RecordError
  BY <1>16 DEF CountOutput, AfterCount, StopDraining, RecordError
<1>17. CASE UnblockConsumers
  BY <1>17 DEF UnblockConsumers
<1>18. CASE UNCHANGED vars
  BY <1>18 DEF vars
<1> QED
  BY <1>1, <1>2, <1>3, <1>4, <1>5, <1>6, <1>7, <1>8, <1>9, <1>10, <1>11, <1>12, <1>13,
     <1>14, <1>15, <1>16, <1>17, <1>18
     DEF Next, ReaderStep, ReaderCall, WorkerStep, Done

\* No step uses up a buffer that a frame on its way still needs.
LEMMA BuffersStep == ASSUME TypeOK, Control, Fresh, Buffers, [Next]_vars PROVE Buffers'
<1> USE DEF Buffers, One, Control, TypeOK, DataOK, FlagsOK, InPop, WorkerSteps,
      Stopping, Stopped, Reader, Worker, queueVars, packetVars, bufferVars, frameVars,
      flagVars, workerVars, callVars, historyVars
<1>1. CASE StartThread
  BY <1>1 DEF StartThread, Fresh
<1>2. CASE PushPacket
  BY <1>2 DEF PushPacket, Fresh
<1>3. CASE PushNull
  BY <1>3 DEF PushNull, NullPacket, Fresh
<1>4. CASE PushBuffer
  BY <1>4 DEF PushBuffer, Fresh
<1>5. CASE DecodeFrame
  <2>1. /\ wpc = "pop" /\ wpc' = "take_buffer" /\ UNCHANGED <<buffer_queue, cpc>>
        /\ pkt_queue # <<>> /\ pkt_queue' = Tail(pkt_queue)
    BY <1>5 DEF DecodeFrame, PopPacket
  <2>2. PICK frames \in {codec, Append(codec, Head(pkt_queue))} : frames # <<>> /\ codec' = Tail(frames)
    BY <1>5 DEF DecodeFrame
  <2>3. Len(pkt_queue) \in Nat /\ Len(codec) \in Nat /\ Len(pkt_queue') = Len(pkt_queue) - 1
    BY <2>1, TailFacts
  <2>4. frames \in Seq(Nat) /\ Len(frames) \in {Len(codec), Len(codec) + 1}
    <3>1. Head(pkt_queue) \in Nat /\ codec \in Seq(Nat)
      BY <2>1, TailFacts
    <3>2. Append(codec, Head(pkt_queue)) \in Seq(Nat) /\ Len(Append(codec, Head(pkt_queue))) = Len(codec) + 1
      BY <3>1, AppendFacts
    <3>3. CASE frames = codec
      BY <3>1, <3>3
    <3>4. CASE frames = Append(codec, Head(pkt_queue))
      BY <3>2, <3>4
    <3> QED BY <2>2, <3>3, <3>4
  <2>5. Len(codec') = Len(frames) - 1
    BY <2>2, <2>4, TailFacts
  <2> DEFINE o == One(cpc = "push_buffer")
             p == Len(pkt_queue)
             c == Len(codec)
             oNext == One(cpc' = "push_buffer")
             pNext == Len(pkt_queue')
             cNext == Len(codec')
  <2>6. o \in Nat /\ oNext = o /\ buffer_queue \in Nat /\ p \in Nat /\ c \in Nat
    BY <2>1, <2>3
  <2>7. buffer_queue + o >= p + c
    BY <2>1, <2>3
  <2>8. pNext = p - 1 /\ cNext \in {c - 1, c} /\ buffer_queue' = buffer_queue
    BY <2>1, <2>3, <2>4, <2>5
  <2>9. buffer_queue' + oNext >= pNext + cNext + 1
    <3> HIDE DEF o, p, c, oNext, pNext, cNext, Buffers, Control, TypeOK
    <3> QED BY <2>6, <2>7, <2>8
  <2>10. One(wpc = "take_buffer")' = 1
    BY <2>1
  <2> QED BY <2>9, <2>10
<1>6. CASE DecodeNothing
  BY <1>6 DEF DecodeNothing, PopPacket, NullPacket, Fresh
<1>7. CASE DecodeFails
  BY <1>7 DEF DecodeFails, PopPacket, Fresh
<1>8. CASE StartDraining
  BY <1>8 DEF StartDraining, PopPacket, NullPacket, Fresh
<1>9. CASE DrainFrame
  BY <1>9 DEF DrainFrame, Fresh
<1>10. CASE TakeBuffer
  BY <1>10 DEF TakeBuffer, Fresh
<1>11. CASE StartRunning \/ StartTwice \/ PopCount
  BY <1>11 DEF StartRunning, StartTwice, PopCount
<1>12. CASE PopDraining \/ PopTake \/ PopKilled
  BY <1>12 DEF PopDraining, PopTake, PopKilled
<1>13. CASE PopCheck \/ PopReturn \/ StopQueues
  BY <1>13 DEF PopCheck, PopReturn, StopQueues
<1>14. CASE StopRun \/ Join \/ Clear
  BY <1>14 DEF StopRun, Join, Clear
<1>15. CASE StartEnter \/ PushNullThrows \/ PopEnter
  BY <1>15 DEF StartEnter, PushNullThrows, PopEnter
<1>16. CASE SuggestDiscardPTS \/ ClearDiscardPTS \/ ClearCall
  BY <1>16 DEF SuggestDiscardPTS, ClearDiscardPTS, ClearCall, CallClear, StopEnter
<1>17. CASE SetCodecContext \/ Destroy
  BY <1>17 DEF SetCodecContext, CallClear, StopEnter, Destroy
<1>18. CASE WorkerLoop \/ WorkerKilled \/ DrainEnds
  <2>1. CASE WorkerLoop
    BY <2>1 DEF WorkerLoop
  <2>2. CASE WorkerKilled
    BY <2>2 DEF WorkerKilled
  <2>3. CASE DrainEnds
    BY <2>3 DEF DrainEnds
  <2> QED BY <1>18, <2>1, <2>2, <2>3
<1>19. CASE ProcessFrame \/ FilterFails \/ PutOutput
  BY <1>19 DEF ProcessFrame, FilterFails, PutOutput
<1>20. CASE CountOutput \/ StopDraining \/ RecordError
  BY <1>20 DEF CountOutput, AfterCount, StopDraining, RecordError
<1>21. CASE UnblockConsumers
  BY <1>21 DEF UnblockConsumers
<1>22. CASE UNCHANGED vars
  BY <1>22 DEF vars
<1> QED
  BY <1>1, <1>2, <1>3, <1>4, <1>5, <1>6, <1>7, <1>8, <1>9, <1>10, <1>11, <1>12, <1>13,
     <1>14, <1>15, <1>16, <1>17, <1>18, <1>19, <1>20, <1>21, <1>22
     DEF Next, ReaderStep, ReaderCall, WorkerStep, Done

\* frame_count_ keeps following frame_queue_.
LEMMA CountTracksQueueStep == ASSUME TypeOK, Control, Fresh, CountTracksQueue, [Next]_vars PROVE CountTracksQueue'
<1> USE DEF CountTracksQueue, Failing, Control, TypeOK, DataOK, FlagsOK, InPop,
      WorkerSteps, Stopping, Stopped, Reader, Worker, queueVars, packetVars, bufferVars,
      frameVars, flagVars, workerVars, callVars, historyVars
<1>1. CASE StartThread
  BY <1>1 DEF StartThread, Fresh
<1>2. CASE PopTake
  BY <1>2 DEF PopTake, Fresh
<1>3. CASE PopReturn
  BY <1>3 DEF PopReturn, Fresh
<1>4. CASE PopCheck
  BY <1>4 DEF PopCheck, Fresh
<1>5. CASE Join
  BY <1>5 DEF Join, Fresh
<1>6. CASE Clear
  BY <1>6 DEF Clear, Fresh
<1>7. CASE PutOutput
  BY <1>7 DEF PutOutput, Fresh
<1>8. CASE CountOutput
  BY <1>8 DEF CountOutput, AfterCount, Fresh
<1>9. CASE StartRunning \/ StartTwice \/ PushBuffer
  BY <1>9 DEF StartRunning, StartTwice, PushBuffer
<1>10. CASE PopCount \/ PopDraining \/ PopKilled
  BY <1>10 DEF PopCount, PopDraining, PopKilled
<1>11. CASE StopQueues \/ StopRun
  BY <1>11 DEF StopQueues, StopRun
<1>12. CASE StartEnter \/ PushPacket \/ PushNull
  BY <1>12 DEF StartEnter, PushPacket, PushNull, NullPacket
<1>13. CASE PushNullThrows \/ PopEnter \/ SuggestDiscardPTS
  BY <1>13 DEF PushNullThrows, PopEnter, SuggestDiscardPTS
<1>14. CASE ClearDiscardPTS \/ ClearCall \/ SetCodecContext
  BY <1>14 DEF ClearDiscardPTS, ClearCall, CallClear, StopEnter, SetCodecContext
<1>15. CASE Destroy
  BY <1>15 DEF Destroy, StopEnter
<1>16. CASE WorkerLoop \/ WorkerKilled \/ DecodeFrame
  BY <1>16 DEF WorkerLoop, WorkerKilled, DecodeFrame, PopPacket, NullPacket
<1>17. CASE DecodeNothing \/ DecodeFails \/ StartDraining
  BY <1>17 DEF DecodeNothing, PopPacket, NullPacket, DecodeFails, StartDraining
<1>18. CASE DrainFrame \/ DrainEnds \/ TakeBuffer
  BY <1>18 DEF DrainFrame, DrainEnds, TakeBuffer
<1>19. CASE ProcessFrame \/ FilterFails \/ StopDraining
  BY <1>19 DEF ProcessFrame, FilterFails, StopDraining
<1>20. CASE RecordError \/ UnblockConsumers
  BY <1>20 DEF RecordError, UnblockConsumers
<1>21. CASE UNCHANGED vars
  BY <1>21 DEF vars
<1> QED
  BY <1>1, <1>2, <1>3, <1>4, <1>5, <1>6, <1>7, <1>8, <1>9, <1>10, <1>11, <1>12, <1>13,
     <1>14, <1>15, <1>16, <1>17, <1>18, <1>19, <1>20, <1>21
     DEF Next, ReaderStep, ReaderCall, WorkerStep, Done

\* draining_ is set only together with eof_, and reset with it or before.
LEMMA NeverDrainsTwiceStep == ASSUME TypeOK, NeverDrainsTwice, [Next]_vars PROVE NeverDrainsTwice'
<1> USE DEF NeverDrainsTwice, TypeOK, DataOK, FlagsOK, InPop, WorkerSteps, Stopping,
      Stopped, Reader, Worker, queueVars, packetVars, bufferVars, frameVars, flagVars,
      workerVars, callVars, historyVars
<1>1. CASE PushNull
  BY <1>1 DEF PushNull, NullPacket
<1>2. CASE Clear
  BY <1>2 DEF Clear
<1>3. CASE StopDraining
  BY <1>3 DEF StopDraining
<1>4. CASE StartRunning \/ StartThread \/ StartTwice
  BY <1>4 DEF StartRunning, StartThread, StartTwice
<1>5. CASE PushBuffer \/ PopCount \/ PopDraining
  BY <1>5 DEF PushBuffer, PopCount, PopDraining
<1>6. CASE PopTake \/ PopKilled \/ PopCheck
  BY <1>6 DEF PopTake, PopKilled, PopCheck
<1>7. CASE PopReturn \/ StopQueues \/ StopRun
  BY <1>7 DEF PopReturn, StopQueues, StopRun
<1>8. CASE Join
  BY <1>8 DEF Join
<1>9. CASE StartEnter \/ PushPacket \/ PushNullThrows
  BY <1>9 DEF StartEnter, PushPacket, PushNullThrows
<1>10. CASE PopEnter \/ SuggestDiscardPTS \/ ClearDiscardPTS
  BY <1>10 DEF PopEnter, SuggestDiscardPTS, ClearDiscardPTS
<1>11. CASE ClearCall \/ SetCodecContext \/ Destroy
  BY <1>11 DEF ClearCall, CallClear, StopEnter, SetCodecContext, Destroy
<1>12. CASE WorkerLoop \/ WorkerKilled \/ DecodeFrame
  BY <1>12 DEF WorkerLoop, WorkerKilled, DecodeFrame, PopPacket, NullPacket
<1>13. CASE DecodeNothing \/ DecodeFails \/ StartDraining
  BY <1>13 DEF DecodeNothing, PopPacket, NullPacket, DecodeFails, StartDraining
<1>14. CASE DrainFrame \/ DrainEnds \/ TakeBuffer
  BY <1>14 DEF DrainFrame, DrainEnds, TakeBuffer
<1>15. CASE ProcessFrame \/ FilterFails \/ PutOutput
  BY <1>15 DEF ProcessFrame, FilterFails, PutOutput
<1>16. CASE CountOutput \/ RecordError \/ UnblockConsumers
  BY <1>16 DEF CountOutput, AfterCount, RecordError, UnblockConsumers
<1>17. CASE UNCHANGED vars
  BY <1>17 DEF vars
<1> QED
  BY <1>1, <1>2, <1>3, <1>4, <1>5, <1>6, <1>7, <1>8, <1>9, <1>10, <1>11, <1>12, <1>13,
     <1>14, <1>15, <1>16, <1>17
     DEF Next, ReaderStep, ReaderCall, WorkerStep, Done

\* A Pop is under way only below the bound on signals, its ticket used up.
LEMMA PopBoundStep == ASSUME TypeOK, PopBound, [Next]_vars PROVE PopBound'
<1> USE DEF PopBound, InPop, TypeOK, DataOK, FlagsOK, WorkerSteps, Stopping, Stopped,
      Reader, Worker, queueVars, packetVars, bufferVars, frameVars, flagVars,
      workerVars, callVars, historyVars
<1>1. CASE PopEnter
  BY <1>1 DEF PopEnter
<1>2. CASE PopReturn
  BY <1>2 DEF PopReturn
<1>3. CASE Clear
  BY <1>3 DEF Clear
<1>4. CASE StartRunning \/ StartThread \/ StartTwice
  BY <1>4 DEF StartRunning, StartThread, StartTwice
<1>5. CASE PushBuffer \/ PopCount \/ PopDraining
  BY <1>5 DEF PushBuffer, PopCount, PopDraining
<1>6. CASE PopTake \/ PopKilled \/ PopCheck
  BY <1>6 DEF PopTake, PopKilled, PopCheck
<1>7. CASE StopQueues \/ StopRun \/ Join
  BY <1>7 DEF StopQueues, StopRun, Join
<1>8. CASE StartEnter \/ PushPacket \/ PushNull
  BY <1>8 DEF StartEnter, PushPacket, PushNull, NullPacket
<1>9. CASE PushNullThrows \/ SuggestDiscardPTS \/ ClearDiscardPTS
  BY <1>9 DEF PushNullThrows, SuggestDiscardPTS, ClearDiscardPTS
<1>10. CASE ClearCall \/ SetCodecContext \/ Destroy
  BY <1>10 DEF ClearCall, CallClear, StopEnter, SetCodecContext, Destroy
<1>11. CASE WorkerLoop \/ WorkerKilled \/ DecodeFrame
  BY <1>11 DEF WorkerLoop, WorkerKilled, DecodeFrame, PopPacket, NullPacket
<1>12. CASE DecodeNothing \/ DecodeFails \/ StartDraining
  BY <1>12 DEF DecodeNothing, PopPacket, NullPacket, DecodeFails, StartDraining
<1>13. CASE DrainFrame \/ DrainEnds \/ TakeBuffer
  BY <1>13 DEF DrainFrame, DrainEnds, TakeBuffer
<1>14. CASE ProcessFrame \/ FilterFails \/ PutOutput
  BY <1>14 DEF ProcessFrame, FilterFails, PutOutput
<1>15. CASE CountOutput \/ StopDraining \/ RecordError
  BY <1>15 DEF CountOutput, AfterCount, StopDraining, RecordError
<1>16. CASE UnblockConsumers
  BY <1>16 DEF UnblockConsumers
<1>17. CASE UNCHANGED vars
  BY <1>17 DEF vars
<1> QED
  BY <1>1, <1>2, <1>3, <1>4, <1>5, <1>6, <1>7, <1>8, <1>9, <1>10, <1>11, <1>12, <1>13,
     <1>14, <1>15, <1>16, <1>17
     DEF Next, ReaderStep, ReaderCall, WorkerStep, Done

\* The worker goes from packets to draining to signals, once, and stays done.
LEMMA PhasesStep == ASSUME TypeOK, Control, Fresh, Phases, NullIsLast, NeverDrainsTwice, [Next]_vars PROVE Phases'
<1> USE DEF Phases, Healthy, Failing, Control, TypeOK, DataOK, FlagsOK, InPop,
      WorkerSteps, Stopping, Stopped, Reader, Worker, queueVars, packetVars, bufferVars,
      frameVars, flagVars, workerVars, callVars, historyVars
<1>1. CASE StartThread
  BY <1>1, DecoderAssumption DEF StartThread, Fresh, NullIsLast, NeverDrainsTwice,
       Nothing, Signal, Picture, Skipped
<1>2. CASE PushPacket
  BY <1>2, DecoderAssumption DEF PushPacket, Fresh, NullIsLast, NeverDrainsTwice,
       Nothing, Signal, Picture, Skipped
<1>3. CASE PushNull
  BY <1>3, DecoderAssumption DEF PushNull, NullPacket, Fresh, NullIsLast,
       NeverDrainsTwice, Nothing, Signal, Picture, Skipped
<1>4. CASE PushNullThrows
  BY <1>4, DecoderAssumption DEF PushNullThrows, Fresh, NullIsLast, NeverDrainsTwice,
       Nothing, Signal, Picture, Skipped
<1>5. CASE Clear
  BY <1>5, DecoderAssumption DEF Clear, Fresh, NullIsLast, NeverDrainsTwice, Nothing,
       Signal, Picture, Skipped
<1>6. CASE Join
  BY <1>6, DecoderAssumption DEF Join, Fresh, NullIsLast, NeverDrainsTwice, Nothing,
       Signal, Picture, Skipped
<1>7. CASE DecodeFrame
  BY <1>7, DecoderAssumption DEF DecodeFrame, PopPacket, NullPacket, Fresh, NullIsLast,
       NeverDrainsTwice, Nothing, Signal, Picture, Skipped
<1>8. CASE DecodeNothing
  BY <1>8, DecoderAssumption DEF DecodeNothing, PopPacket, NullPacket, Fresh,
       NullIsLast, NeverDrainsTwice, Nothing, Signal, Picture, Skipped
<1>9. CASE DecodeFails
  BY <1>9, DecoderAssumption DEF DecodeFails, PopPacket, Fresh, NullIsLast,
       NeverDrainsTwice, Nothing, Signal, Picture, Skipped
<1>10. CASE StartDraining
  BY <1>10, DecoderAssumption DEF StartDraining, PopPacket, NullPacket, Fresh,
       NullIsLast, NeverDrainsTwice, Nothing, Signal, Picture, Skipped
<1>11. CASE DrainFrame
  BY <1>11, DecoderAssumption DEF DrainFrame, Fresh, NullIsLast, NeverDrainsTwice,
       Nothing, Signal, Picture, Skipped
<1>12. CASE DrainEnds
  BY <1>12, DecoderAssumption DEF DrainEnds, Fresh, NullIsLast, NeverDrainsTwice,
       Nothing, Signal, Picture, Skipped
<1>13. CASE TakeBuffer
  BY <1>13, DecoderAssumption DEF TakeBuffer, Fresh, NullIsLast, NeverDrainsTwice,
       Nothing, Signal, Picture, Skipped
<1>14. CASE ProcessFrame
  BY <1>14, DecoderAssumption DEF ProcessFrame, Fresh, NullIsLast, NeverDrainsTwice,
       Nothing, Signal, Picture, Skipped
<1>15. CASE PutOutput
  BY <1>15, DecoderAssumption DEF PutOutput, Fresh, NullIsLast, NeverDrainsTwice,
       Nothing, Signal, Picture, Skipped
<1>16. CASE CountOutput
  BY <1>16, DecoderAssumption DEF CountOutput, AfterCount, Fresh, NullIsLast,
       NeverDrainsTwice, Nothing, Signal, Picture, Skipped
<1>17. CASE StopDraining
  BY <1>17, DecoderAssumption DEF StopDraining, Fresh, NullIsLast, NeverDrainsTwice,
       Nothing, Signal, Picture, Skipped
<1>18. CASE StartRunning \/ StartTwice \/ PushBuffer
  BY <1>18 DEF StartRunning, StartTwice, PushBuffer
<1>19. CASE PopCount \/ PopDraining \/ PopTake
  BY <1>19 DEF PopCount, PopDraining, PopTake
<1>20. CASE PopKilled \/ PopCheck \/ PopReturn
  BY <1>20 DEF PopKilled, PopCheck, PopReturn
<1>21. CASE StopQueues \/ StopRun
  BY <1>21 DEF StopQueues, StopRun
<1>22. CASE StartEnter \/ PopEnter \/ SuggestDiscardPTS
  BY <1>22 DEF StartEnter, PopEnter, SuggestDiscardPTS
<1>23. CASE ClearDiscardPTS \/ ClearCall \/ SetCodecContext
  BY <1>23 DEF ClearDiscardPTS, ClearCall, CallClear, StopEnter, SetCodecContext
<1>24. CASE Destroy
  BY <1>24 DEF Destroy, StopEnter
<1>25. CASE WorkerLoop \/ WorkerKilled \/ FilterFails
  BY <1>25 DEF WorkerLoop, WorkerKilled, FilterFails
<1>26. CASE RecordError \/ UnblockConsumers
  BY <1>26 DEF RecordError, UnblockConsumers
<1>27. CASE UNCHANGED vars
  BY <1>27 DEF vars
<1> QED
  BY <1>1, <1>2, <1>3, <1>4, <1>5, <1>6, <1>7, <1>8, <1>9, <1>10, <1>11, <1>12, <1>13,
     <1>14, <1>15, <1>16, <1>17, <1>18, <1>19, <1>20, <1>21, <1>22, <1>23, <1>24, <1>25,
     <1>26, <1>27
     DEF Next, ReaderStep, ReaderCall, WorkerStep, Done

\* The null packet stays the last one: it is pushed last and popped last.
LEMMA NullIsLastStep ==
  ASSUME TypeOK, Control, Fresh, Phases, NullIsLast, NeverDrainsTwice, [Next]_vars
  PROVE  NullIsLast'
<1> USE DecoderAssumption
    DEF TypeOK, DataOK, FlagsOK, Control, Fresh, Phases, NullIsLast, NeverDrainsTwice, Healthy,
        Failing, Stopping, Stopped, InPop, ReaderSteps, WorkerSteps,
        Reader, Worker, queueVars, packetVars, bufferVars, frameVars, flagVars,
        workerVars, callVars, historyVars
<1>1. CASE PushPacket
  <2>1. Append(pkt_queue, sent + 1) # <<>> /\ Len(pkt_queue') = Len(pkt_queue) + 1
    BY <1>1, AppendFacts DEF PushPacket
  <2>2. /\ \A i \in 1 .. Len(pkt_queue) : pkt_queue'[i] = pkt_queue[i]
        /\ pkt_queue'[Len(pkt_queue) + 1] = sent + 1
    BY <1>1, AppendFacts DEF PushPacket
  <2> QED
    BY <1>1, <2>1, <2>2 DEF PushPacket, NullPacket
<1>2. CASE PushNull
  <2>1. Append(pkt_queue, NullPacket) # <<>> /\ Len(pkt_queue') = Len(pkt_queue) + 1
    BY <1>2, AppendFacts DEF PushNull, NullPacket
  <2>2. /\ \A i \in 1 .. Len(pkt_queue) : pkt_queue'[i] = pkt_queue[i]
        /\ pkt_queue'[Len(pkt_queue) + 1] = NullPacket
    BY <1>2, AppendFacts DEF PushNull, NullPacket
  <2> QED
    BY <1>2, <2>1, <2>2 DEF PushNull, NullPacket
<1>3. ASSUME NEW next, PopPacket(next), Head(pkt_queue) # NullPacket, mode' = mode
      PROVE  NullIsLast'
  <2>1. /\ Head(pkt_queue) = pkt_queue[1] /\ Len(pkt_queue') = Len(pkt_queue) - 1
        /\ \A i \in 1 .. Len(pkt_queue) - 1 : pkt_queue'[i] = pkt_queue[i + 1]
        /\ Len(pkt_queue) \in Nat \ {0} /\ pkt_queue # <<>>
    BY <1>3, TailFacts DEF PopPacket
  <2> HAVE Healthy'
  <2>2. Healthy /\ eof' = eof /\ signals' = signals
    BY <1>3 DEF PopPacket
  <2>3. ASSUME NEW i \in 1 .. Len(pkt_queue'), pkt_queue'[i] = NullPacket
        PROVE  eof' /\ i = Len(pkt_queue')
    <3>1. i + 1 \in 1 .. Len(pkt_queue) /\ pkt_queue[i + 1] = NullPacket
      BY <2>1, <2>3
    <3> QED
      BY <3>1, <2>1, <2>2
  <2>4. eof' /\ mode' = "normal" /\ signals' = 0 =>
          pkt_queue' # <<>> /\ pkt_queue'[Len(pkt_queue')] = NullPacket
    <3> SUFFICES ASSUME eof, mode = "normal", signals = 0
                 PROVE  pkt_queue' # <<>> /\ pkt_queue'[Len(pkt_queue')] = NullPacket
      BY <1>3, <2>2
    <3>1. pkt_queue[Len(pkt_queue)] = NullPacket
      BY <2>2
    <3>2. Len(pkt_queue) - 1 \in 1 .. Len(pkt_queue) - 1
      BY <3>1, <2>1, <1>3
    <3>3. pkt_queue'[Len(pkt_queue')] = NullPacket
      BY <3>1, <3>2, <2>1
    <3> QED
      BY <3>2, <3>3, <2>1
  <2> QED
    BY <2>3, <2>4
<1>4. CASE DecodeFrame
  BY <1>3, <1>4 DEF DecodeFrame
<1>5. CASE DecodeNothing
  BY <1>3, <1>5 DEF DecodeNothing
<1>6. CASE DecodeFails
  BY <1>6 DEF DecodeFails, PopPacket
<1>7. CASE StartDraining
  BY <1>7 DEF StartDraining, PopPacket, NullPacket
<1>8. CASE StopDraining
  BY <1>8 DEF StopDraining
<1>9. CASE StartThread
  BY <1>9 DEF StartThread
<1>10. CASE Clear
  BY <1>10 DEF Clear
<1>11. CASE PushNullThrows
  BY <1>11 DEF PushNullThrows
<1>12. CASE StartRunning \/ StartTwice \/ PushBuffer \/ PopCount \/ PopDraining \/
           PopTake
  BY <1>12 DEF StartRunning, StartTwice, PushBuffer, PopCount, PopDraining, PopTake
<1>13. CASE PopKilled \/ PopCheck \/ PopReturn \/ StopQueues \/ StopRun \/ Join
  BY <1>13 DEF PopKilled, PopCheck, PopReturn, StopQueues, StopRun, Join
<1>14. CASE StartEnter \/ PopEnter \/ SuggestDiscardPTS \/ ClearDiscardPTS \/
           ClearCall \/ SetCodecContext
  BY <1>14 DEF StartEnter, PopEnter, SuggestDiscardPTS, ClearDiscardPTS, ClearCall,
       CallClear, StopEnter, SetCodecContext
<1>15. CASE Destroy
  BY <1>15 DEF Destroy, StopEnter
<1>16. CASE WorkerLoop \/ WorkerKilled \/ DrainFrame \/ DrainEnds \/ TakeBuffer \/
           ProcessFrame
  BY <1>16 DEF WorkerLoop, WorkerKilled, DrainFrame, DrainEnds, TakeBuffer, ProcessFrame
<1>17. CASE FilterFails \/ PutOutput \/ CountOutput \/ RecordError \/ UnblockConsumers
  BY <1>17 DEF FilterFails, PutOutput, CountOutput, AfterCount, RecordError,
       UnblockConsumers
<1>18. CASE UNCHANGED vars
  BY <1>18 DEF vars
<1> QED
  BY <1>1, <1>2, <1>3, <1>4, <1>5, <1>6, <1>7, <1>8, <1>9, <1>10, <1>11, <1>12, <1>13,
     <1>14, <1>15, <1>16, <1>17, <1>18
     DEF Next, ReaderStep, ReaderCall, WorkerStep, Done

\* The output of every pushed packet not yet popped stays on its way.
LEMMA TicketsStep == ASSUME TypeOK, Control, Fresh, Phases, NullIsLast, NeverDrainsTwice, Tickets, PopBound, [Next]_vars PROVE Tickets'
<1> USE DEF Tickets, Outstanding, Healthy, Failing, One, Control, TypeOK, DataOK,
      FlagsOK, InPop, WorkerSteps, Stopping, Stopped, Reader, Worker, queueVars,
      packetVars, bufferVars, frameVars, flagVars, workerVars, callVars, historyVars
<1>1. CASE StartThread
  BY <1>1 DEF StartThread, Fresh, Phases, NullIsLast, NeverDrainsTwice, PopBound
<1>2. CASE PushPacket
  BY <1>2 DEF PushPacket, Fresh, Phases, NullIsLast, NeverDrainsTwice, PopBound
<1>3. CASE PushNull
  BY <1>3 DEF PushNull, NullPacket, Fresh, Phases, NullIsLast, NeverDrainsTwice,
       PopBound
<1>4. CASE PushNullThrows
  BY <1>4 DEF PushNullThrows, Fresh, Phases, NullIsLast, NeverDrainsTwice, PopBound
<1>5. CASE PushBuffer
  BY <1>5 DEF PushBuffer, Fresh, Phases, NullIsLast, NeverDrainsTwice, PopBound
<1>6. CASE Clear
  BY <1>6 DEF Clear, Fresh, Phases, NullIsLast, NeverDrainsTwice, PopBound
<1>7. CASE Join
  BY <1>7 DEF Join, Fresh, Phases, NullIsLast, NeverDrainsTwice, PopBound
<1>8. CASE PopTake
  BY <1>8 DEF PopTake, Fresh, Phases, NullIsLast, NeverDrainsTwice, PopBound
<1>9. CASE PopCheck
  BY <1>9 DEF PopCheck, Fresh, Phases, NullIsLast, NeverDrainsTwice, PopBound
<1>10. CASE PopKilled
  BY <1>10 DEF PopKilled, Fresh, Phases, NullIsLast, NeverDrainsTwice, PopBound
<1>11. CASE PopDraining
  BY <1>11 DEF PopDraining, Fresh, Phases, NullIsLast, NeverDrainsTwice, PopBound
<1>12. CASE DecodeFrame
  BY <1>12 DEF DecodeFrame, PopPacket, NullPacket, Fresh, Phases, NullIsLast,
       NeverDrainsTwice, PopBound
<1>13. CASE DecodeNothing
  BY <1>13 DEF DecodeNothing, PopPacket, NullPacket, Fresh, Phases, NullIsLast,
       NeverDrainsTwice, PopBound
<1>14. CASE DecodeFails
  BY <1>14 DEF DecodeFails, PopPacket, Fresh, Phases, NullIsLast, NeverDrainsTwice,
       PopBound
<1>15. CASE StartDraining
  BY <1>15 DEF StartDraining, PopPacket, NullPacket, Fresh, Phases, NullIsLast,
       NeverDrainsTwice, PopBound
<1>16. CASE TakeBuffer
  BY <1>16 DEF TakeBuffer, Fresh, Phases, NullIsLast, NeverDrainsTwice, PopBound
<1>17. CASE ProcessFrame
  BY <1>17 DEF ProcessFrame, Fresh, Phases, NullIsLast, NeverDrainsTwice, PopBound
<1>18. CASE PutOutput
  BY <1>18 DEF PutOutput, Fresh, Phases, NullIsLast, NeverDrainsTwice, PopBound
<1>19. CASE CountOutput
  BY <1>19 DEF CountOutput, AfterCount, Fresh, Phases, NullIsLast, NeverDrainsTwice,
       PopBound
<1>20. CASE StopDraining
  BY <1>20 DEF StopDraining, Fresh, Phases, NullIsLast, NeverDrainsTwice, PopBound
<1>21. CASE PopEnter
  BY <1>21 DEF PopEnter, Fresh, Phases, NullIsLast, NeverDrainsTwice, PopBound
<1>22. CASE SuggestDiscardPTS
  BY <1>22 DEF SuggestDiscardPTS, Fresh, Phases, NullIsLast, NeverDrainsTwice, PopBound
<1>23. CASE ClearDiscardPTS
  BY <1>23 DEF ClearDiscardPTS, Fresh, Phases, NullIsLast, NeverDrainsTwice, PopBound
<1>24. CASE StartEnter
  BY <1>24 DEF StartEnter, Fresh, Phases, NullIsLast, NeverDrainsTwice, PopBound
<1>25. CASE DrainFrame
  BY <1>25 DEF DrainFrame, Fresh, Phases, NullIsLast, NeverDrainsTwice, PopBound
<1>26. CASE DrainEnds
  BY <1>26 DEF DrainEnds, Fresh, Phases, NullIsLast, NeverDrainsTwice, PopBound
<1>27. CASE StartRunning \/ StartTwice \/ PopCount
  <2>1. CASE StartRunning
    BY <2>1 DEF StartRunning
  <2>2. CASE StartTwice
    BY <2>2 DEF StartTwice
  <2>3. CASE PopCount
    BY <2>3 DEF PopCount
  <2> QED BY <1>27, <2>1, <2>2, <2>3
<1>28. CASE PopReturn \/ StopQueues \/ StopRun
  <2>1. CASE PopReturn
    BY <2>1 DEF PopReturn
  <2>2. CASE StopQueues
    BY <2>2 DEF StopQueues
  <2>3. CASE StopRun
    BY <2>3 DEF StopRun
  <2> QED BY <1>28, <2>1, <2>2, <2>3
<1>29. CASE ClearCall \/ SetCodecContext \/ Destroy
  BY <1>29 DEF ClearCall, CallClear, StopEnter, SetCodecContext, Destroy
<1>30. CASE WorkerLoop \/ WorkerKilled \/ FilterFails
  BY <1>30 DEF WorkerLoop, WorkerKilled, FilterFails
<1>31. CASE RecordError \/ UnblockConsumers
  BY <1>31 DEF RecordError, UnblockConsumers
<1>32. CASE UNCHANGED vars
  BY <1>32 DEF vars
<1> QED
  BY <1>1, <1>2, <1>3, <1>4, <1>5, <1>6, <1>7, <1>8, <1>9, <1>10, <1>11, <1>12, <1>13,
     <1>14, <1>15, <1>16, <1>17, <1>18, <1>19, <1>20, <1>21, <1>22, <1>23, <1>24, <1>25,
     <1>26, <1>27, <1>28, <1>29, <1>30, <1>31, <1>32
     DEF Next, ReaderStep, ReaderCall, WorkerStep, Done

\* The signals stay behind the frames.
LEMMA SignalsAreLastStep == ASSUME TypeOK, Control, Fresh, Phases, NullIsLast, NeverDrainsTwice, SignalsAreLast, [Next]_vars PROVE SignalsAreLast'
<1> USE DEF SignalsAreLast, SignalsQueued, Healthy, Failing, One, Control, TypeOK,
      DataOK, FlagsOK, InPop, WorkerSteps, Stopping, Stopped, Reader, Worker, queueVars,
      packetVars, bufferVars, frameVars, flagVars, workerVars, callVars, historyVars
<1>1. CASE StartThread
  BY <1>1, DecoderAssumption DEF StartThread, Fresh, Phases, NeverDrainsTwice, Nothing,
       Signal, Picture, Skipped
<1>2. CASE PushNull
  BY <1>2, DecoderAssumption DEF PushNull, NullPacket, Fresh, Phases, NeverDrainsTwice,
       Nothing, Signal, Picture, Skipped
<1>3. CASE PushNullThrows
  BY <1>3, DecoderAssumption DEF PushNullThrows, Fresh, Phases, NeverDrainsTwice,
       Nothing, Signal, Picture, Skipped
<1>4. CASE PopTake
  <2> HAVE Healthy'
  <2>1. /\ frame' = frame_queue[1] /\ frame_queue' = Tail(frame_queue) /\ frame_queue # <<>>
        /\ signals' = signals /\ drained' = drained /\ cpc = "pop_wait" /\ cpc' = "pop_check"
    BY <1>4, TailFacts DEF PopTake, TypeOK, DataOK
  <2>2. /\ frame_queue \in Seq(Output) /\ SignalsQueued \in 0 .. Len(frame_queue)
        /\ \A i \in 1 .. Len(frame_queue) :
             frame_queue[i].kind = "signal" <=> i > Len(frame_queue) - SignalsQueued
    BY <1>4 DEF PopTake, TypeOK, DataOK
  <2>3. SignalsQueued' = IF frame_queue[1].kind = "signal" THEN SignalsQueued - 1 ELSE SignalsQueued
    BY <2>1, <2>2 DEF SignalsQueued, One, TypeOK, DataOK
  <2> QED
    BY <2>1, <2>2, <2>3, SignalsShift
<1>5. CASE PopCheck
  BY <1>5, DecoderAssumption DEF PopCheck, Fresh, Phases, NeverDrainsTwice, Nothing,
       Signal, Picture, Skipped
<1>6. CASE PopReturn
  BY <1>6, DecoderAssumption DEF PopReturn, Fresh, Phases, NeverDrainsTwice, Nothing,
       Signal, Picture, Skipped
<1>7. CASE Clear
  BY <1>7, DecoderAssumption DEF Clear, Fresh, Phases, NeverDrainsTwice, Nothing,
       Signal, Picture, Skipped
<1>8. CASE Join
  BY <1>8, DecoderAssumption DEF Join, Fresh, Phases, NeverDrainsTwice, Nothing, Signal,
       Picture, Skipped
<1>9. CASE PutOutput
  <2> SUFFICES ASSUME Healthy' PROVE SignalsAreLast'
    BY DEF SignalsAreLast
  <2> DEFINE n == Len(frame_queue)
             q == Append(frame_queue, item)
  <2>1. /\ frame_queue' = q /\ Healthy /\ wpc = "put" /\ mode' = mode
        /\ signals' = (IF mode = "signalling" THEN signals + 1 ELSE signals)
        /\ UNCHANGED <<frame, cpc, drained>>
    BY <1>9 DEF PutOutput
  <2>2. n \in Nat /\ Len(q) = n + 1 /\ q[n + 1] = item /\ \A i \in 1 .. n : q[i] = frame_queue[i]
    BY AppendFacts
  <2>3. mode = "signalling" <=> item.kind = "signal"
    BY <2>1 DEF Phases, Signal
  <2>4. SignalsQueued' = IF mode = "signalling" THEN SignalsQueued + 1 ELSE SignalsQueued
    BY <2>1
  <2>5. mode # "signalling" => SignalsQueued = 0
    <3>1. mode # "signalling" => signals = 0
      BY <2>1 DEF Phases
    <3> QED BY <2>1, <3>1
  <2>6. SignalsQueued \in 0 .. n
        /\ \A i \in 1 .. n : frame_queue[i].kind = "signal" <=> i > n - SignalsQueued
    BY <2>1
  <2> HIDE DEF n, q, SignalsQueued
  <2>7. ASSUME NEW i \in 1 .. n + 1 PROVE q[i].kind = "signal" <=> i > n + 1 - SignalsQueued'
    <3>1. CASE i = n + 1
      BY <2>2, <2>3, <2>4, <2>5, <2>6, <3>1
    <3>2. CASE i \in 1 .. n
      <4>1. q[i] = frame_queue[i] /\ (frame_queue[i].kind = "signal" <=> i > n - SignalsQueued)
        BY <2>2, <2>6, <3>2
      <4>2. i \in Int /\ n \in Int /\ i <= n /\ SignalsQueued \in Int
        BY <2>2, <2>6, <3>2
      <4>3. (i > n - SignalsQueued) <=> (i > n + 1 - SignalsQueued')
        BY <2>4, <2>5, <4>2
      <4> QED BY <4>1, <4>3
    <3> QED BY <2>2, <3>1, <3>2
  <2> QED BY <2>1, <2>2, <2>4, <2>6, <2>7 DEF n
<1>10. CASE CountOutput
  BY <1>10, DecoderAssumption DEF CountOutput, AfterCount, Fresh, Phases,
       NeverDrainsTwice, Nothing, Signal, Picture, Skipped
<1>11. CASE DrainEnds
  BY <1>11, DecoderAssumption DEF DrainEnds, Fresh, Phases, NeverDrainsTwice, Nothing,
       Signal, Picture, Skipped
<1>12. CASE DecodeFrame
  BY <1>12, DecoderAssumption DEF DecodeFrame, PopPacket, NullPacket, Fresh, Phases,
       NeverDrainsTwice, Nothing, Signal, Picture, Skipped
<1>13. CASE StopDraining
  BY <1>13, DecoderAssumption DEF StopDraining, Fresh, Phases, NeverDrainsTwice,
       Nothing, Signal, Picture, Skipped
<1>14. CASE StartRunning \/ StartTwice \/ PushBuffer
  BY <1>14 DEF StartRunning, StartTwice, PushBuffer
<1>15. CASE PopCount \/ PopDraining \/ PopKilled
  BY <1>15 DEF PopCount, PopDraining, PopKilled
<1>16. CASE StopQueues \/ StopRun
  BY <1>16 DEF StopQueues, StopRun
<1>17. CASE StartEnter \/ PushPacket \/ PopEnter
  BY <1>17 DEF StartEnter, PushPacket, PopEnter
<1>18. CASE SuggestDiscardPTS \/ ClearDiscardPTS \/ ClearCall
  BY <1>18 DEF SuggestDiscardPTS, ClearDiscardPTS, ClearCall, CallClear, StopEnter
<1>19. CASE SetCodecContext \/ Destroy
  BY <1>19 DEF SetCodecContext, CallClear, StopEnter, Destroy
<1>20. CASE WorkerLoop \/ WorkerKilled \/ DecodeNothing
  BY <1>20 DEF WorkerLoop, WorkerKilled, DecodeNothing, PopPacket, NullPacket
<1>21. CASE DecodeFails \/ StartDraining \/ DrainFrame
  BY <1>21 DEF DecodeFails, PopPacket, StartDraining, NullPacket, DrainFrame
<1>22. CASE TakeBuffer \/ ProcessFrame \/ FilterFails
  BY <1>22 DEF TakeBuffer, ProcessFrame, FilterFails
<1>23. CASE RecordError \/ UnblockConsumers
  BY <1>23 DEF RecordError, UnblockConsumers
<1>24. CASE UNCHANGED vars
  BY <1>24 DEF vars
<1> QED
  BY <1>1, <1>2, <1>3, <1>4, <1>5, <1>6, <1>7, <1>8, <1>9, <1>10, <1>11, <1>12, <1>13,
     <1>14, <1>15, <1>16, <1>17, <1>18, <1>19, <1>20, <1>21, <1>22, <1>23, <1>24
     DEF Next, ReaderStep, ReaderCall, WorkerStep, Done

----------------------------------------------------------------------------

\* IInv holds in every state of every instance.
THEOREM Invariance == Spec => []IInv
<1>1. Init => IInv
  <2>1. Init => DataOK
    BY OutputType DEF Init, DataOK, WorkerSteps, ReaderSteps
  <2>2. Init => FlagsOK
    BY Zenon DEF Init, FlagsOK
  <2>3. Init => Control /\ Fresh /\ PopBound /\ NeverDrainsTwice
    BY DEF Init, Control, Fresh, PopBound, NeverDrainsTwice, Stopping, Stopped, InPop
  <2>4. Init => Buffers /\ Phases /\ NullIsLast /\ Tickets /\ SignalsAreLast /\ CountTracksQueue
    BY DEF Init, Buffers, Phases, NullIsLast, Tickets, SignalsAreLast, CountTracksQueue, Healthy
  <2> QED
    BY <2>1, <2>2, <2>3, <2>4 DEF IInv, TypeOK
<1>2. IInv /\ [Next]_vars => IInv'
  BY DataStep, FlagsStep, ControlStep, FreshStep, BuffersStep, PhasesStep, NullIsLastStep,
     TicketsStep, SignalsAreLastStep, PopBoundStep, CountTracksQueueStep, NeverDrainsTwiceStep
     DEF IInv, TypeOK
<1> QED
  BY <1>1, <1>2, PTL DEF Spec

\* Every variable keeps its type, whatever the two threads do.
THEOREM TypeInvariant == Spec => []TypeOK
<1>1. IInv => TypeOK
  BY DEF IInv
<1> QED
  BY <1>1, Invariance, PTL

\* The worker never waits for an output buffer that no Push will bring, however
\* long the codec delays its frames.
THEOREM BuffersSuffice == Spec => []BufferForEveryFrame
<1>1. IInv => BufferForEveryFrame
  BY DEF IInv, TypeOK, DataOK, Buffers, BufferForEveryFrame, One
<1> QED
  BY <1>1, Invariance, PTL

\* frame_count_ is the length of frame_queue_ up to the two updates under way.
THEOREM CountIsExact == Spec => []CountTracksQueue
<1>1. IInv => CountTracksQueue
  BY DEF IInv
<1> QED
  BY <1>1, Invariance, PTL

\* "Start draining twice..." never fires.
THEOREM DrainsOnce == Spec => []NeverDrainsTwice
<1>1. IInv => NeverDrainsTwice
  BY DEF IInv
<1> QED
  BY <1>1, Invariance, PTL

\* No Pop waits for an output nobody will produce, as long as the reader takes no
\* more end-of-stream signals than the worker queues.
THEOREM PopIsServed == ASSUME MaxSignals <= NumSignals PROVE Spec => []PopNeverStarves
<1>1. IInv => PopNeverStarves
  <2> SUFFICES ASSUME IInv, cpc = "pop_wait", frame_queue = <<>>, ~frame_exit
               PROVE  \/ pkt_queue # <<>> /\ wpc \in {"loop", "pop"}
                      \/ wpc \notin {"none", "loop", "pop", "finished"}
    BY DEF PopNeverStarves
  <2> USE DecoderAssumption DEF IInv, TypeOK, DataOK, FlagsOK
  <2>1. ~Stopping /\ wpc # "none" /\ wpc # "finished" /\ Len(frame_queue) = 0
    BY DEF Control, Stopping, Stopped, InPop
  <2>2. CASE Failing
    BY <2>1, <2>2 DEF Failing, Control
  <2>3. CASE Healthy /\ ~eof
    <3>1. Len(pkt_queue) + One(wpc \in {"take_buffer", "process", "put"} /\ mode = "normal") >= 1
      BY <2>1, <2>3 DEF Tickets, Outstanding, One
    <3>2. pkt_queue # <<>> \/ wpc \in {"take_buffer", "process", "put"}
      BY <3>1 DEF One
    <3> QED
      BY <2>1, <3>2 DEF WorkerSteps
  <2>4. CASE Healthy /\ eof
    <3>1. CASE mode # "normal"
      BY <2>4, <3>1 DEF Phases
    <3>2. CASE mode = "normal" /\ signals = 0
      BY <2>1, <2>4, <3>2 DEF NullIsLast, WorkerSteps
    <3>3. CASE mode = "normal" /\ signals # 0
      <4>1. signals = NumSignals /\ drained < MaxSignals
        BY <2>4, <3>3 DEF Phases, PopBound, InPop
      <4>2. SignalsQueued = signals - drained /\ SignalsQueued <= 0
        BY <2>1, <2>4 DEF SignalsAreLast, SignalsQueued, One
      <4> QED
        BY <4>1, <4>2
    <3> QED
      BY <3>1, <3>2, <3>3
  <2> QED
    BY <2>1, <2>2, <2>3, <2>4 DEF Healthy
<1> QED
  BY <1>1, Invariance, PTL

----------------------------------------------------------------------------
(***************************************************************************)
(* The decoder implements FrameStream: the packets and frames on their way  *)
(* are in the order of their pushing, and behind a signal there is nothing. *)
(***************************************************************************)

IsFrame(o) == o.kind \in {"picture", "skipped"}
Hand == FramesOf(InHand)
Queue == FramesOf(ToSet(frame_queue))
Work == FramesOf(InWork)
Codec == ToSet(codec)
Below(S, T) == \A x \in S, y \in T : x < y

Places ==
  /\ Below(Hand, Queue \cup Work \cup Codec \cup Packets)
  /\ Below(Queue, Work \cup Codec \cup Packets)
  /\ Below(Work, Codec \cup Packets)
  /\ Below(Codec, Packets)

Ascends(s) == \A i, j \in 1 .. Len(s) : i < j => s[i] < s[j]

\* The null packet comes last, and no frame behind a signal.
PacketsAscend(s) ==
  \A i, j \in 1 .. Len(s) : i < j => s[i] # NullPacket /\ (s[j] = NullPacket \/ s[i] < s[j])
OutputsAscend(s) ==
  \A i, j \in 1 .. Len(s) :
    i < j /\ IsFrame(s[j]) => s[i].kind # "signal" /\ (IsFrame(s[i]) => s[i].of < s[j].of)

InOrder ==
  /\ Places
  /\ OutputsAscend(frame_queue) /\ Ascends(codec) /\ PacketsAscend(pkt_queue)
  /\ \A p \in Hand \cup Queue \cup Work \cup Codec \cup Packets : p <= sent
  /\ NullPacket \in ToSet(pkt_queue) => eof

Signals(outputs) == {o \in outputs : o.kind = "signal"}
AfterSignal ==
  /\ Signals(InHand \cup ToSet(frame_queue)) # {} => eof /\ pkt_queue = <<>> /\ codec = <<>> /\ Work = {}
  /\ Signals(InHand) # {} => Queue = {}
  /\ Healthy /\ mode = "signalling" => codec = <<>>

Ordered == ~NoStream => InOrder /\ AfterSignal
StreamInv == IInv /\ Ordered

(* Sequences and outputs as sets *)

LEMMA SetOf == ASSUME NEW S, NEW s \in Seq(S)
  PROVE \A x : x \in ToSet(s) <=> \E i \in 1 .. Len(s) : s[i] = x
BY DEF ToSet

LEMMA AppendSet == ASSUME NEW S, NEW s \in Seq(S), NEW e \in S
  PROVE ToSet(Append(s, e)) = ToSet(s) \cup {e}
<1>1. /\ Append(s, e) \in Seq(S) /\ Len(Append(s, e)) = Len(s) + 1 /\ Len(s) \in Nat
      /\ \A i \in 1 .. Len(s) : Append(s, e)[i] = s[i]
      /\ Append(s, e)[Len(s) + 1] = e
  BY AppendFacts
<1>2. \A x : x \in ToSet(Append(s, e)) <=> \E i \in 1 .. Len(s) + 1 : Append(s, e)[i] = x
  <2>1. DOMAIN Append(s, e) = 1 .. Len(s) + 1
    BY <1>1
  <2> QED BY <2>1 DEF ToSet
<1>3. \A x : x \in ToSet(s) <=> \E i \in 1 .. Len(s) : s[i] = x
  BY SetOf
<1>4. ASSUME NEW x \in ToSet(Append(s, e)) PROVE x \in ToSet(s) \cup {e}
  <2>1. PICK i \in 1 .. Len(s) + 1 : Append(s, e)[i] = x
    BY <1>2
  <2>2. i \in 1 .. Len(s) \/ i = Len(s) + 1
    BY <1>1
  <2> QED BY <1>1, <1>3, <2>1, <2>2
<1>5. ASSUME NEW x \in ToSet(s) \cup {e} PROVE x \in ToSet(Append(s, e))
  <2>1. CASE x = e
    BY <1>1, <1>2, <2>1
  <2>2. CASE x \in ToSet(s)
    <3>1. PICK i \in 1 .. Len(s) : s[i] = x
      BY <1>3, <2>2
    <3>2. i \in 1 .. Len(s) + 1 /\ Append(s, e)[i] = x
      BY <1>1, <3>1
    <3> QED BY <1>2, <3>2
  <2> QED BY <2>1, <2>2
<1> QED BY <1>4, <1>5

LEMMA TailSet == ASSUME NEW S, NEW s \in Seq(S), s # <<>>
  PROVE /\ ToSet(s) = ToSet(Tail(s)) \cup {Head(s)}
        /\ \A x \in ToSet(Tail(s)) : \E i \in 1 .. Len(s) - 1 : Tail(s)[i] = x
<1>1. /\ Len(s) \in Nat \ {0} /\ Head(s) = s[1] /\ Tail(s) \in Seq(S) /\ Len(Tail(s)) = Len(s) - 1
      /\ \A i \in 1 .. Len(s) - 1 : Tail(s)[i] = s[i + 1]
  BY TailFacts
<1>2. \A x : x \in ToSet(Tail(s)) <=> \E i \in 1 .. Len(s) - 1 : Tail(s)[i] = x
  <2>1. DOMAIN Tail(s) = 1 .. Len(s) - 1
    BY <1>1
  <2> QED BY <2>1 DEF ToSet
<1>3. \A x : x \in ToSet(s) <=> \E i \in 1 .. Len(s) : s[i] = x
  BY SetOf
<1>4. ASSUME NEW x \in ToSet(s) PROVE x \in ToSet(Tail(s)) \cup {Head(s)}
  <2>1. PICK i \in 1 .. Len(s) : s[i] = x
    BY <1>3
  <2>2. CASE i = 1
    BY <1>1, <2>1, <2>2
  <2>3. CASE i # 1
    <3>1. i - 1 \in 1 .. Len(s) - 1 /\ (i - 1) + 1 = i
      BY <1>1, <2>3
    <3>2. Tail(s)[i - 1] = x
      BY <1>1, <2>1, <3>1
    <3> QED BY <1>2, <3>1, <3>2
  <2> QED BY <2>2, <2>3
<1>5. ASSUME NEW x \in ToSet(Tail(s)) PROVE x \in ToSet(s)
  <2>1. PICK i \in 1 .. Len(s) - 1 : Tail(s)[i] = x
    BY <1>2
  <2>2. i + 1 \in 1 .. Len(s) /\ s[i + 1] = x
    BY <1>1, <2>1
  <2> QED BY <1>3, <2>2
<1>6. Head(s) \in ToSet(s)
  BY <1>1, <1>3
<1> QED BY <1>2, <1>4, <1>5, <1>6

LEMMA NoSet == ToSet(<<>>) = {}
<1>1. DOMAIN <<>> = {}
  OBVIOUS
<1> QED BY <1>1 DEF ToSet

LEMMA FrameIs == ASSUME NEW S, NEW x
  PROVE x \in FramesOf(S) <=> \E o \in S : IsFrame(o) /\ o.of = x
BY DEF FramesOf, IsFrame

LEMMA FramesUnion == ASSUME NEW S, NEW T
  PROVE FramesOf(S \cup T) = FramesOf(S) \cup FramesOf(T)
<1>1. \A x : x \in FramesOf(S \cup T) <=> x \in FramesOf(S) \cup FramesOf(T)
  BY FrameIs
<1> QED BY <1>1

LEMMA FramesOne == ASSUME NEW o
  PROVE FramesOf({o}) = IF IsFrame(o) THEN {o.of} ELSE {}
<1>1. \A x : x \in FramesOf({o}) <=> IsFrame(o) /\ o.of = x
  BY FrameIs
<1> QED BY <1>1

LEMMA FramesNone == FramesOf({}) = {}
BY DEF FramesOf

LEMMA FramesOfThree == ASSUME NEW S, NEW T, NEW U
  PROVE FramesOf(S \cup T \cup U) = FramesOf(S) \cup FramesOf(T) \cup FramesOf(U)
<1>1. FramesOf(S \cup T \cup U) = FramesOf(S \cup T) \cup FramesOf(U)
  BY FramesUnion
<1>2. FramesOf(S \cup T) = FramesOf(S) \cup FramesOf(T)
  BY FramesUnion
<1> QED BY <1>1, <1>2

\* Everything owed is in one of four places, before a step and after it.
LEMMA OwedIs == /\ Owed = Hand \cup Queue \cup Work \cup Codec
                /\ Owed' = Hand' \cup Queue' \cup Work' \cup Codec'
<1>1. Owed = Hand \cup Queue \cup Work \cup Codec
  BY FramesOfThree DEF Owed, Hand, Queue, Work, Codec
<1>2. Owed' = Hand' \cup Queue' \cup Work' \cup Codec'
  BY FramesOfThree DEF Owed, Hand, Queue, Work, Codec
<1> QED BY <1>1, <1>2

LEMMA SignalsUnion == ASSUME NEW S, NEW T PROVE Signals(S \cup T) = Signals(S) \cup Signals(T)
BY DEF Signals

\* The kinds of outputs.
LEMMA Kinds ==
  /\ ~IsFrame(Nothing) /\ ~IsFrame(Signal) /\ Signal.kind = "signal" /\ Nothing.kind # "signal"
  /\ \A p : IsFrame(Picture(p)) /\ Picture(p).of = p /\ IsFrame(Skipped(p)) /\ Skipped(p).of = p
            /\ Picture(p).kind # "signal" /\ Skipped(p).kind # "signal"
BY DEF IsFrame, Nothing, Signal, Picture, Skipped

(* What a queue in order gives first, and what may be put behind it. *)

LEMMA AscendsTail == ASSUME NEW s \in Seq(Nat), s # <<>>, Ascends(s)
  PROVE Ascends(Tail(s)) /\ \A x \in ToSet(Tail(s)) : Head(s) < x
<1>1. /\ Len(s) \in Nat \ {0} /\ Head(s) = s[1] /\ Tail(s) \in Seq(Nat) /\ Len(Tail(s)) = Len(s) - 1
      /\ \A i \in 1 .. Len(s) - 1 : Tail(s)[i] = s[i + 1]
  BY TailFacts
<1>2. Ascends(Tail(s))
  BY <1>1 DEF Ascends
<1>3. ASSUME NEW x \in ToSet(Tail(s)) PROVE Head(s) < x
  <2>1. PICK i \in 1 .. Len(s) - 1 : x = Tail(s)[i]
    BY TailSet
  <2>2. i + 1 \in 1 .. Len(s) /\ 1 \in 1 .. Len(s) /\ 1 < i + 1 /\ x = s[i + 1]
    BY <1>1, <2>1
  <2> QED BY <1>1, <2>2 DEF Ascends
<1> QED BY <1>2, <1>3

LEMMA AscendsAppend == ASSUME NEW s \in Seq(Nat), NEW e \in Nat, Ascends(s), \A x \in ToSet(s) : x < e
  PROVE Ascends(Append(s, e))
<1>1. /\ Len(Append(s, e)) = Len(s) + 1 /\ Len(s) \in Nat
      /\ \A i \in 1 .. Len(s) : Append(s, e)[i] = s[i]
      /\ Append(s, e)[Len(s) + 1] = e
  BY AppendFacts
<1>2. \A i \in 1 .. Len(s) : s[i] < e
  BY SetOf
<1> SUFFICES ASSUME NEW i \in 1 .. Len(s) + 1, NEW j \in 1 .. Len(s) + 1, i < j
             PROVE  Append(s, e)[i] < Append(s, e)[j]
  BY <1>1 DEF Ascends
<1>3. i \in 1 .. Len(s) /\ (j \in 1 .. Len(s) \/ j = Len(s) + 1)
  BY <1>1
<1> QED BY <1>1, <1>2, <1>3 DEF Ascends

LEMMA PacketsTail == ASSUME NEW s \in Seq(Nat), s # <<>>, PacketsAscend(s)
  PROVE /\ PacketsAscend(Tail(s))
        /\ \A x \in ToSet(Tail(s)) : x = NullPacket \/ Head(s) < x
        /\ Head(s) = NullPacket => Tail(s) = <<>>
<1>1. /\ Len(s) \in Nat \ {0} /\ Head(s) = s[1] /\ Tail(s) \in Seq(Nat) /\ Len(Tail(s)) = Len(s) - 1
      /\ \A i \in 1 .. Len(s) - 1 : Tail(s)[i] = s[i + 1]
  BY TailFacts
<1>2. PacketsAscend(Tail(s))
  BY <1>1 DEF PacketsAscend
<1>3. ASSUME NEW x \in ToSet(Tail(s)) PROVE x = NullPacket \/ Head(s) < x
  <2>1. PICK i \in 1 .. Len(s) - 1 : x = Tail(s)[i]
    BY TailSet
  <2>2. i + 1 \in 1 .. Len(s) /\ 1 \in 1 .. Len(s) /\ 1 < i + 1 /\ x = s[i + 1]
    BY <1>1, <2>1
  <2> QED BY <1>1, <2>2 DEF PacketsAscend
<1>4. ASSUME Head(s) = NullPacket PROVE Tail(s) = <<>>
  <2>1. ~(2 \in 1 .. Len(s))
    BY <1>1, <1>4 DEF PacketsAscend
  <2> QED BY <1>1, <2>1
<1> QED BY <1>2, <1>3, <1>4

LEMMA PacketsAppend ==
  ASSUME NEW s \in Seq(Nat), NEW e \in Nat, PacketsAscend(s), NullPacket \notin ToSet(s),
         e = NullPacket \/ \A x \in ToSet(s) : x < e
  PROVE  PacketsAscend(Append(s, e))
<1>1. /\ Len(Append(s, e)) = Len(s) + 1 /\ Len(s) \in Nat
      /\ \A i \in 1 .. Len(s) : Append(s, e)[i] = s[i]
      /\ Append(s, e)[Len(s) + 1] = e
  BY AppendFacts
<1>2. \A i \in 1 .. Len(s) : s[i] # NullPacket /\ (e = NullPacket \/ s[i] < e)
  BY SetOf
<1> SUFFICES ASSUME NEW i \in 1 .. Len(s) + 1, NEW j \in 1 .. Len(s) + 1, i < j
             PROVE  /\ Append(s, e)[i] # NullPacket
                    /\ Append(s, e)[j] = NullPacket \/ Append(s, e)[i] < Append(s, e)[j]
  BY <1>1 DEF PacketsAscend
<1>3. i \in 1 .. Len(s) /\ (j \in 1 .. Len(s) \/ j = Len(s) + 1)
  BY <1>1
<1> QED BY <1>1, <1>2, <1>3 DEF PacketsAscend

LEMMA OutputsTail == ASSUME NEW s \in Seq(Output), s # <<>>, OutputsAscend(s)
  PROVE /\ OutputsAscend(Tail(s))
        /\ \A x \in FramesOf(ToSet(Tail(s))) :
             Head(s).kind # "signal" /\ (IsFrame(Head(s)) => Head(s).of < x)
<1>1. /\ Len(s) \in Nat \ {0} /\ Head(s) = s[1] /\ Tail(s) \in Seq(Output) /\ Len(Tail(s)) = Len(s) - 1
      /\ \A i \in 1 .. Len(s) - 1 : Tail(s)[i] = s[i + 1]
  BY TailFacts
<1>2. OutputsAscend(Tail(s))
  BY <1>1 DEF OutputsAscend
<1>3. ASSUME NEW x \in FramesOf(ToSet(Tail(s)))
      PROVE  Head(s).kind # "signal" /\ (IsFrame(Head(s)) => Head(s).of < x)
  <2>1. PICK o \in ToSet(Tail(s)) : IsFrame(o) /\ o.of = x
    BY <1>3, FrameIs
  <2>2. PICK i \in 1 .. Len(s) - 1 : o = Tail(s)[i]
    BY TailSet
  <2>3. i + 1 \in 1 .. Len(s) /\ 1 \in 1 .. Len(s) /\ 1 < i + 1 /\ o = s[i + 1]
    BY <1>1, <2>2
  <2> QED BY <1>1, <2>1, <2>3 DEF OutputsAscend
<1> QED BY <1>2, <1>3

LEMMA OutputsAppend ==
  ASSUME NEW s \in Seq(Output), NEW e \in Output, OutputsAscend(s),
         IsFrame(e) => Signals(ToSet(s)) = {} /\ \A x \in FramesOf(ToSet(s)) : x < e.of
  PROVE  OutputsAscend(Append(s, e))
<1>1. /\ Len(Append(s, e)) = Len(s) + 1 /\ Len(s) \in Nat
      /\ \A i \in 1 .. Len(s) : Append(s, e)[i] = s[i]
      /\ Append(s, e)[Len(s) + 1] = e
  BY AppendFacts
<1>2. ASSUME IsFrame(e), NEW i \in 1 .. Len(s)
      PROVE  s[i].kind # "signal" /\ (IsFrame(s[i]) => s[i].of < e.of)
  <2>1. s[i] \in ToSet(s)
    BY SetOf
  <2>2. s[i].kind # "signal"
    BY <1>2, <2>1 DEF Signals
  <2>3. IsFrame(s[i]) => s[i].of \in FramesOf(ToSet(s))
    BY <2>1, FrameIs
  <2> QED BY <1>2, <2>2, <2>3
<1> SUFFICES ASSUME NEW i \in 1 .. Len(s) + 1, NEW j \in 1 .. Len(s) + 1, i < j, IsFrame(Append(s, e)[j])
             PROVE  /\ Append(s, e)[i].kind # "signal"
                    /\ IsFrame(Append(s, e)[i]) => Append(s, e)[i].of < Append(s, e)[j].of
  BY <1>1 DEF OutputsAscend
<1>3. i \in 1 .. Len(s) /\ (j \in 1 .. Len(s) \/ j = Len(s) + 1)
  BY <1>1
<1> QED BY <1>1, <1>2, <1>3 DEF OutputsAscend

----------------------------------------------------------------------------

LEMMA StreamTypes == ASSUME StreamInv
  PROVE /\ pkt_queue \in Seq(Nat) /\ frame_queue \in Seq(Output) /\ codec \in Seq(Nat)
        /\ item \in Output /\ frame \in Output /\ sent \in Nat /\ drained \in Nat
        /\ eof \in BOOLEAN /\ error_status \in BOOLEAN
BY DEF StreamInv, Ordered, IInv, TypeOK, DataOK, FlagsOK

\* A worker at work has not failed.
LEMMA AtWork == ASSUME StreamInv, ~NoStream, wpc \notin {"record", "fail", "finished"}
  PROVE Healthy
BY DEF StreamInv, Ordered, IInv, Control, NoStream, Healthy, Failing

LEMMA Same ==
  ASSUME NoStream' <=> NoStream, Stopping' <=> Stopping, sent' = sent,
         ~Stopping => UNCHANGED <<eof, delivered, drained>>,
         ~NoStream => Packets' = Packets /\ Owed' = Owed /\ (Failing' <=> Failing)
  PROVE  UNCHANGED Stream!vars
<1>1. (IF NoStream THEN {} ELSE Packets)' = IF NoStream THEN {} ELSE Packets
  OBVIOUS
<1>2. (IF NoStream THEN {} ELSE Owed)' = IF NoStream THEN {} ELSE Owed
  OBVIOUS
<1>3. (IF Stopping THEN sent ELSE delivered)' = IF Stopping THEN sent ELSE delivered
  OBVIOUS
<1>4. (IF Stopping THEN 0 ELSE drained)' = IF Stopping THEN 0 ELSE drained
  OBVIOUS
<1>5. (eof /\ ~Stopping)' = (eof /\ ~Stopping)
  <2>1. CASE Stopping
    BY <2>1
  <2>2. CASE ~Stopping
    <3>1. eof' = eof /\ ~Stopping'
      BY <2>2
    <3> QED BY <2>2, <3>1
  <2> QED BY <2>1, <2>2
<1>6. (Failing /\ ~NoStream)' = (Failing /\ ~NoStream)
  BY Zenon
<1> QED BY <1>1, <1>2, <1>3, <1>4, <1>5, <1>6 DEF Stream!vars

\* Steps that move no packet and no frame.
Quiet ==
  /\ ~NoStream' /\ UNCHANGED <<pkt_queue, frame_queue, codec, sent, eof, delivered, drained>>
  /\ Hand' = Hand /\ Work' = Work /\ Signals(InHand)' = Signals(InHand)
  /\ Failing' <=> Failing
  /\ mode' = "signalling" => codec = <<>> \/ mode = "signalling"

LEMMA QuietKeeps == ASSUME StreamInv, ~NoStream, Quiet
  PROVE InOrder' /\ AfterSignal' /\ UNCHANGED Stream!vars
<1>1. UNCHANGED <<pkt_queue, frame_queue, codec, sent, eof, Hand, Work, Queue, Codec, Packets>>
  BY DEF Quiet, Queue, Codec, Packets
<1>2. InOrder'
  BY <1>1 DEF StreamInv, Ordered, InOrder, Places
<1>3. Owed' = Owed
  BY <1>1, OwedIs
<1>4. UNCHANGED Stream!vars
  <2>1. ~Stopping /\ ~Stopping'
    BY DEF Quiet, NoStream
  <2> QED BY <1>1, <1>3, <2>1, Same DEF Quiet
<1>5. Signals(InHand \cup ToSet(frame_queue))' = Signals(InHand \cup ToSet(frame_queue))
  <2>1. Signals(InHand \cup ToSet(frame_queue)) = Signals(InHand) \cup Signals(ToSet(frame_queue))
    BY SignalsUnion
  <2>2. Signals(InHand' \cup ToSet(frame_queue')) = Signals(InHand') \cup Signals(ToSet(frame_queue'))
    BY SignalsUnion
  <2> QED BY <1>1, <2>1, <2>2 DEF Quiet
<1>6. Healthy' => Healthy
  BY DEF Quiet, Healthy, NoStream
<1>7. AfterSignal'
  BY <1>1, <1>5, <1>6 DEF AfterSignal, StreamInv, Ordered, Quiet
<1> QED BY <1>2, <1>4, <1>7

LEMMA QuietReader ==
  ASSUME StreamInv, ~NoStream,
         \/ StartEnter \/ StartRunning \/ StartTwice \/ PushBuffer \/ PopEnter \/ PopCount \/ PopDraining
         \/ PopKilled \/ SuggestDiscardPTS \/ ClearDiscardPTS \/ (PopCheck /\ ~error_status)
  PROVE  Quiet
<1>1. /\ ~Stopping /\ wpc # "none" /\ cpc' \in {"idle", "start", "terminated"} \cup InPop
      /\ UNCHANGED <<pkt_queue, frame_queue, codec, sent, eof, delivered, drained, wpc, item, mode, error_status>>
      /\ (cpc \in {"pop_check", "pop_return"} <=> cpc' \in {"pop_check", "pop_return"})
      /\ cpc' \in {"pop_check", "pop_return"} => frame' = frame
  BY DEF NoStream, StartEnter, StartRunning, StartTwice, PushBuffer, PopEnter, PopCount, PopDraining, PopKilled,
         SuggestDiscardPTS, ClearDiscardPTS, PopCheck, Reader, queueVars, packetVars, bufferVars, frameVars,
         flagVars, workerVars, callVars, historyVars, InPop
<1>2. InHand' = InHand
  BY <1>1 DEF InHand
<1>3. InWork' = InWork
  BY <1>1 DEF InWork
<1> QED BY <1>1, <1>2, <1>3 DEF Quiet, NoStream, Stopping, Stopped, InPop, Hand, Work, Failing

LEMMA QuietWorker ==
  ASSUME StreamInv, ~NoStream,
         \/ WorkerLoop \/ TakeBuffer \/ ProcessFrame \/ CountOutput \/ DrainEnds \/ StopDraining
         \/ RecordError \/ UnblockConsumers
  PROVE  Quiet
<1> USE DEF Worker, queueVars, packetVars, bufferVars, frameVars, flagVars, workerVars, callVars, historyVars
<1>1. /\ ~NoStream /\ wpc # "none" /\ wpc' # "none"
      /\ UNCHANGED <<pkt_queue, frame_queue, codec, sent, eof, delivered, drained, cpc, frame>>
  BY DEF NoStream, WorkerLoop, TakeBuffer, ProcessFrame, CountOutput, AfterCount, DrainEnds, StopDraining,
         RecordError, UnblockConsumers
<1>2. InHand' = InHand
  BY <1>1 DEF InHand
<1>3. ~NoStream'
  BY <1>1 DEF NoStream, Stopping
<1>4. Failing' <=> Failing
  BY DEF WorkerLoop, TakeBuffer, ProcessFrame, CountOutput, AfterCount, DrainEnds, StopDraining,
         RecordError, UnblockConsumers, Failing, StreamInv, Ordered, IInv, Control
<1>5. mode' = "signalling" => codec = <<>> \/ mode = "signalling"
  BY DEF WorkerLoop, TakeBuffer, ProcessFrame, CountOutput, DrainEnds, StopDraining, RecordError, UnblockConsumers
<1>6. Work' = Work
  <2>1. CASE WorkerLoop \/ StopDraining \/ RecordError \/ UnblockConsumers
    <3>1. InWork = {} /\ InWork' = {}
      BY <2>1 DEF WorkerLoop, StopDraining, RecordError, UnblockConsumers, InWork
    <3> QED BY <3>1 DEF Work
  <2>2. CASE TakeBuffer
    <3>1. InWork' = InWork
      BY <2>2 DEF TakeBuffer, InWork
    <3> QED BY <3>1 DEF Work
  <2>3. CASE ProcessFrame
    <3>1. wpc = "process"
      BY <2>3 DEF ProcessFrame
    <3>2. Healthy
      BY <3>1, AtWork
    <3>3. item.kind = "picture"
      BY <3>1, <3>2 DEF StreamInv, Ordered, IInv, Phases
    <3>4. IsFrame(item) /\ IsFrame(item') /\ item'.of = item.of
      BY <2>3, <3>3, Kinds DEF ProcessFrame, IsFrame
    <3>5. InWork = {item} /\ InWork' = {item'}
      BY <2>3 DEF ProcessFrame, InWork
    <3>6. FramesOf({item}) = {item.of} /\ FramesOf({item'}) = {item'.of}
      BY <3>4, FramesOne
    <3> QED BY <3>4, <3>5, <3>6 DEF Work
  <2>4. CASE CountOutput
    <3>1. InWork = {} /\ wpc = "count"
      BY <2>4 DEF CountOutput, InWork
    <3>2. Healthy
      BY <3>1, AtWork
    <3>3. InWork' \subseteq {Signal}
      BY <2>4, <3>1, <3>2 DEF CountOutput, AfterCount, InWork, StreamInv, Ordered, IInv, Phases, TypeOK, DataOK
    <3>4. FramesOf({Signal}) = {} /\ FramesOf({}) = {}
      BY FramesOne, Kinds, FramesNone
    <3>5. InWork' = {} \/ InWork' = {Signal}
      BY <3>3
    <3> QED BY <3>1, <3>4, <3>5 DEF Work
  <2>5. CASE DrainEnds
    <3>1. InWork = {} /\ InWork' = {Signal}
      BY <2>5 DEF DrainEnds, InWork
    <3>2. FramesOf({Signal}) = {} /\ FramesOf({}) = {}
      BY FramesOne, Kinds, FramesNone
    <3> QED BY <3>1, <3>2 DEF Work
  <2> QED BY <2>1, <2>2, <2>3, <2>4, <2>5
<1> QED BY <1>1, <1>2, <1>3, <1>4, <1>5, <1>6 DEF Quiet, Hand

\* Packets and frames are numbers.
LEMMA Numbers == ASSUME StreamInv
  PROVE Hand \subseteq Nat /\ Queue \subseteq Nat /\ Work \subseteq Nat /\ Codec \subseteq Nat /\ Packets \subseteq Nat
<1>1. pkt_queue \in Seq(Nat) /\ frame_queue \in Seq(Output) /\ codec \in Seq(Nat) /\ item \in Output /\ frame \in Output
  BY StreamTypes
<1>2. ASSUME NEW S, S \subseteq Output PROVE FramesOf(S) \subseteq Nat
  BY <1>2 DEF FramesOf, Output
<1>3. InHand \subseteq Output /\ InWork \subseteq Output
  BY <1>1 DEF InHand, InWork
<1>4. ToSet(frame_queue) \subseteq Output
  BY <1>1, SetOf
<1>5. Hand \subseteq Nat /\ Queue \subseteq Nat /\ Work \subseteq Nat
  BY <1>2, <1>3, <1>4 DEF Hand, Queue, Work
<1>6. ToSet(codec) \subseteq Nat /\ ToSet(pkt_queue) \subseteq Nat
  BY <1>1, SetOf
<1> QED BY <1>5, <1>6 DEF Codec, Packets

\* A packet joins the queue.
LEMMA FeedStep == ASSUME StreamInv, ~NoStream, PushPacket
  PROVE InOrder' /\ AfterSignal' /\ Stream!Feed
<1>1. /\ ~NoStream /\ ~NoStream' /\ ~Stopping /\ ~Stopping'
      /\ UNCHANGED <<frame_queue, codec, item, frame, wpc, mode, eof, delivered, drained, error_status>>
      /\ cpc = "idle" /\ cpc' = "push_buffer" /\ ~eof
      /\ sent' = sent + 1 /\ pkt_queue' = Append(pkt_queue, sent + 1)
  BY DEF PushPacket, Reader, bufferVars, frameVars, flagVars, workerVars, callVars, NoStream, Stopping, Stopped
<1>2. InHand = {} /\ InHand' = {} /\ InWork' = InWork
  BY <1>1 DEF InHand, InWork
<1>3. Hand = {} /\ Hand' = {} /\ Queue' = Queue /\ Work' = Work /\ Codec' = Codec
  BY <1>1, <1>2, FramesNone DEF Hand, Queue, Work, Codec
<1>4. sent \in Nat /\ pkt_queue \in Seq(Nat)
  BY StreamTypes
<1>5. ToSet(pkt_queue') = ToSet(pkt_queue) \cup {sent + 1}
  BY <1>1, <1>4, AppendSet
<1>6. Packets' = Packets \cup {sent + 1}
  BY <1>4, <1>5 DEF Packets, NullPacket
<1>7. InOrder
  BY DEF StreamInv, Ordered
<1>8. Queue \subseteq Nat /\ Work \subseteq Nat /\ Codec \subseteq Nat /\ Packets \subseteq Nat
  BY Numbers
<1>9. \A p \in Queue \cup Work \cup Codec \cup Packets : p <= sent
  BY <1>7 DEF InOrder
<1>10. Places'
  BY <1>3, <1>4, <1>6, <1>7, <1>8, <1>9 DEF InOrder, Places, Below
<1>11. PacketsAscend(pkt_queue)'
  <2>1. NullPacket \notin ToSet(pkt_queue) /\ PacketsAscend(pkt_queue)
    BY <1>1, <1>7 DEF InOrder
  <2>2. \A x \in ToSet(pkt_queue) : x < sent + 1
    <3>1. ASSUME NEW x \in ToSet(pkt_queue) PROVE x < sent + 1
      <4>1. x \in Packets
        BY <2>1 DEF Packets
      <4> QED BY <1>4, <1>8, <1>9, <4>1
    <3> QED BY <3>1
  <2>3. PacketsAscend(Append(pkt_queue, sent + 1))
    BY <1>4, <2>1, <2>2, PacketsAppend
  <2> QED BY <1>1, <2>3
<1>12. InOrder'
  <2>1. \A p \in Hand' \cup Queue' \cup Work' \cup Codec' \cup Packets' : p <= sent'
    <3> SUFFICES ASSUME NEW p \in Hand' \cup Queue' \cup Work' \cup Codec' \cup Packets' PROVE p <= sent + 1
      BY <1>1
    <3>1. p = sent + 1 \/ p \in Queue \cup Work \cup Codec \cup Packets
      BY <1>3, <1>6
    <3>2. CASE p \in Queue \cup Work \cup Codec \cup Packets
      <4>1. p \in Nat /\ p <= sent
        BY <1>8, <1>9, <3>2
      <4> QED BY <1>4, <4>1
    <3> QED BY <1>4, <3>1, <3>2
  <2>2. NullPacket \notin ToSet(pkt_queue')
    BY <1>1, <1>4, <1>5, <1>7 DEF InOrder, NullPacket
  <2>3. OutputsAscend(frame_queue)' /\ Ascends(codec)'
    BY <1>1, <1>7 DEF InOrder
  <2> QED BY <1>10, <1>11, <2>1, <2>2, <2>3 DEF InOrder
<1>13. AfterSignal'
  <2>1. Signals(InHand \cup ToSet(frame_queue)) = {}
    BY <1>1 DEF StreamInv, Ordered, AfterSignal
  <2>2. Signals(InHand \cup ToSet(frame_queue))' = {}
    BY <1>1, <1>2, <2>1
  <2>3. Signals(InHand)' = {}
    BY <1>2 DEF Signals
  <2>4. Healthy' => Healthy
    BY <1>1 DEF Healthy, Failing
  <2> QED BY <1>1, <2>2, <2>3, <2>4 DEF StreamInv, Ordered, AfterSignal
<1>14. Stream!Feed
  <2>1. Owed' = Owed
    BY <1>3, OwedIs
  <2>2. Failing' <=> Failing
    BY <1>1 DEF Failing
  <2> QED BY <1>1, <1>6, <2>1, <2>2 DEF Stream!Feed
<1> QED BY <1>12, <1>13, <1>14

\* The reader fed its last packet.
LEMMA EndStep == ASSUME StreamInv, ~NoStream, PushNull \/ PushNullThrows
  PROVE InOrder' /\ AfterSignal' /\ Stream!End
<1>1. /\ ~NoStream /\ ~NoStream' /\ ~Stopping /\ ~Stopping'
      /\ UNCHANGED <<frame_queue, codec, item, frame, wpc, mode, sent, delivered, drained, error_status>>
      /\ cpc = "idle" /\ cpc' \in {"idle", "push_buffer"} /\ ~eof /\ eof'
      /\ pkt_queue' = pkt_queue \/ pkt_queue' = Append(pkt_queue, NullPacket)
  BY DEF PushNull, PushNullThrows, Reader, queueVars, packetVars, bufferVars, frameVars, flagVars, workerVars, historyVars,
         NoStream, Stopping, Stopped
<1>2. InHand = {} /\ InHand' = {} /\ InWork' = InWork
  BY <1>1 DEF InHand, InWork
<1>3. Hand' = Hand /\ Queue' = Queue /\ Work' = Work /\ Codec' = Codec
  BY <1>1, <1>2, FramesNone DEF Hand, Queue, Work, Codec
<1>4. pkt_queue \in Seq(Nat)
  BY StreamTypes
<1>5. InOrder
  BY DEF StreamInv, Ordered
<1>6. Packets' = Packets /\ PacketsAscend(pkt_queue)'
  <2>1. CASE pkt_queue' = pkt_queue
    BY <1>5, <2>1 DEF Packets, InOrder
  <2>2. CASE pkt_queue' = Append(pkt_queue, NullPacket)
    <3>1. NullPacket \in Nat
      BY DEF NullPacket
    <3>2. ToSet(Append(pkt_queue, NullPacket)) = ToSet(pkt_queue) \cup {NullPacket}
      BY <1>4, <3>1, AppendSet
    <3>3. NullPacket \notin ToSet(pkt_queue) /\ PacketsAscend(pkt_queue)
      BY <1>1, <1>5 DEF InOrder
    <3>4. PacketsAscend(Append(pkt_queue, NullPacket))
      BY <1>4, <3>1, <3>3, PacketsAppend
    <3>5. Packets' = Packets
      BY <2>2, <3>2 DEF Packets
    <3> QED BY <2>2, <3>4, <3>5
  <2> QED BY <1>1, <2>1, <2>2
<1>7. InOrder'
  BY <1>1, <1>3, <1>5, <1>6 DEF InOrder, Places
<1>8. AfterSignal'
  <2>1. Signals(InHand \cup ToSet(frame_queue)) = {}
    BY <1>1 DEF StreamInv, Ordered, AfterSignal
  <2>2. Signals(InHand \cup ToSet(frame_queue))' = {}
    BY <1>1, <1>2, <2>1
  <2>3. Signals(InHand)' = {}
    BY <1>2 DEF Signals
  <2>4. Healthy' => Healthy
    BY <1>1 DEF Healthy, Failing
  <2> QED BY <1>1, <2>2, <2>3, <2>4 DEF StreamInv, Ordered, AfterSignal
<1>9. Stream!End
  <2>1. Owed' = Owed
    BY <1>3, OwedIs
  <2>2. Failing' <=> Failing
    BY <1>1 DEF Failing
  <2> QED BY <1>1, <1>6, <2>1, <2>2 DEF Stream!End
<1> QED BY <1>7, <1>8, <1>9

\* Pop takes the first output into its hand.
LEMMA TakeStep == ASSUME StreamInv, ~NoStream, PopTake
  PROVE InOrder' /\ AfterSignal' /\ UNCHANGED Stream!vars
<1>1. /\ ~NoStream /\ ~NoStream' /\ ~Stopping /\ ~Stopping'
      /\ UNCHANGED <<pkt_queue, codec, item, wpc, mode, eof, sent, delivered, drained, error_status>>
      /\ cpc = "pop_wait" /\ cpc' = "pop_check" /\ frame_queue # <<>>
      /\ frame' = Head(frame_queue) /\ frame_queue' = Tail(frame_queue)
  BY DEF PopTake, Reader, packetVars, bufferVars, flagVars, workerVars, historyVars, NoStream, Stopping, Stopped
<1>2. InHand = {} /\ InHand' = {Head(frame_queue)} /\ InWork' = InWork
  BY <1>1 DEF InHand, InWork
<1>3. frame_queue \in Seq(Output)
  BY StreamTypes
<1>4. ToSet(frame_queue) = ToSet(Tail(frame_queue)) \cup {Head(frame_queue)}
  BY <1>1, <1>3, TailSet
<1>5. InOrder
  BY DEF StreamInv, Ordered
<1>6. /\ OutputsAscend(Tail(frame_queue))
      /\ \A x \in FramesOf(ToSet(Tail(frame_queue))) :
           Head(frame_queue).kind # "signal" /\ (IsFrame(Head(frame_queue)) => Head(frame_queue).of < x)
  BY <1>1, <1>3, <1>5, OutputsTail DEF InOrder
<1>7. Queue' = FramesOf(ToSet(Tail(frame_queue))) /\ Hand' = FramesOf({Head(frame_queue)})
  BY <1>1, <1>2 DEF Queue, Hand
<1>8. Queue = Queue' \cup Hand' /\ Hand = {} /\ Work' = Work /\ Codec' = Codec /\ Packets' = Packets
  BY <1>1, <1>2, <1>4, <1>7, FramesUnion, FramesNone DEF Queue, Hand, Work, Codec, Packets
<1>9. \A x \in Hand' : IsFrame(Head(frame_queue)) /\ x = Head(frame_queue).of
  BY <1>7, FramesOne
<1>10. Below(Hand', Queue')
  BY <1>6, <1>7, <1>9 DEF Below
<1>11. Places'
  BY <1>5, <1>8, <1>10 DEF InOrder, Places, Below
<1>12. InOrder'
  <2>1. \A p \in Hand' \cup Queue' \cup Work' \cup Codec' \cup Packets' : p <= sent'
    BY <1>1, <1>5, <1>8 DEF InOrder
  <2> QED BY <1>1, <1>5, <1>6, <1>11, <2>1 DEF InOrder
<1>13. AfterSignal'
  <2>1. Signals(InHand \cup ToSet(frame_queue))' = Signals(InHand \cup ToSet(frame_queue))
    <3>1. InHand' \cup ToSet(frame_queue') = InHand \cup ToSet(frame_queue)
      BY <1>1, <1>2, <1>4
    <3> QED BY <3>1
  <2>2. Signals(InHand)' # {} => Queue' = {}
    <3>1. Signals(InHand') # {} => Head(frame_queue).kind = "signal"
      BY <1>2 DEF Signals
    <3> QED BY <1>6, <1>7, <3>1
  <2>3. Healthy' => Healthy
    BY <1>1 DEF Healthy, Failing
  <2> QED BY <1>1, <1>8, <2>1, <2>2, <2>3 DEF StreamInv, Ordered, AfterSignal
<1>14. UNCHANGED Stream!vars
  <2>1. Owed' = Owed
    BY <1>8, OwedIs
  <2>2. Failing' <=> Failing
    BY <1>1 DEF Failing
  <2> QED BY <1>1, <1>8, <2>1, <2>2, Same
<1> QED BY <1>12, <1>13, <1>14

\* After a failure, the frame a Pop has in its hand is lost.
LEMMA LoseStep == ASSUME StreamInv, ~NoStream, PopCheck, error_status
  PROVE InOrder' /\ AfterSignal' /\ Stream!Lose
<1>1. /\ ~NoStream /\ ~NoStream' /\ ~Stopping /\ ~Stopping'
      /\ UNCHANGED <<pkt_queue, frame_queue, codec, item, wpc, mode, eof, sent, delivered, drained, error_status>>
      /\ cpc = "pop_check" /\ cpc' = "idle"
  BY DEF PopCheck, Reader, queueVars, packetVars, bufferVars, frameVars, flagVars, workerVars, historyVars,
         NoStream, Stopping, Stopped
<1>2. InHand = {frame} /\ InHand' = {} /\ InWork' = InWork
  BY <1>1 DEF InHand, InWork
<1>3. Hand' = {} /\ Queue' = Queue /\ Work' = Work /\ Codec' = Codec /\ Packets' = Packets
  BY <1>1, <1>2, FramesNone DEF Hand, Queue, Work, Codec, Packets
<1>4. InOrder
  BY DEF StreamInv, Ordered
<1>5. InOrder'
  <2>1. Places'
    BY <1>3, <1>4 DEF InOrder, Places, Below
  <2> QED BY <1>1, <1>3, <1>4, <2>1 DEF InOrder
<1>6. AfterSignal'
  <2>1. Signals(InHand' \cup ToSet(frame_queue')) \subseteq Signals(InHand \cup ToSet(frame_queue))
    BY <1>1, <1>2 DEF Signals
  <2>2. Signals(InHand') = {}
    BY <1>2 DEF Signals
  <2>3. ~Healthy'
    BY <1>1 DEF Healthy, Failing
  <2> QED BY <1>1, <1>3, <2>1, <2>2, <2>3 DEF StreamInv, Ordered, AfterSignal
<1>7. Stream!Lose
  <2>1. \/ Owed' \subseteq Owed /\ Packets' = Packets
        \/ Owed' = Owed /\ Packets' \subseteq Packets
    BY <1>1, <1>3, OwedIs
  <2> QED BY <1>1, <1>3, <2>1 DEF Stream!Lose, Failing
<1> QED BY <1>5, <1>6, <1>7

\* Pop gives the frame it has in its hand, or the signal, to the reader.
LEMMA GiveStep == ASSUME StreamInv, ~NoStream, PopReturn
  PROVE InOrder' /\ AfterSignal' /\ (Stream!Deliver \/ Stream!EndSignal \/ UNCHANGED Stream!vars)
<1>1. /\ ~NoStream /\ ~NoStream' /\ ~Stopping /\ ~Stopping'
      /\ UNCHANGED <<pkt_queue, frame_queue, codec, item, wpc, mode, eof, sent, error_status>>
      /\ cpc = "pop_return" /\ cpc' = "idle"
      /\ delivered' = IF frame.kind \in {"picture", "skipped"} THEN frame.of ELSE delivered
      /\ drained' = IF frame.kind = "signal" THEN drained + 1 ELSE drained
  BY DEF PopReturn, Reader, queueVars, packetVars, bufferVars, frameVars, workerVars,
         NoStream, Stopping, Stopped
<1>2. InHand = {frame} /\ InHand' = {} /\ InWork' = InWork
  BY <1>1 DEF InHand, InWork
<1>3. Hand' = {} /\ Queue' = Queue /\ Work' = Work /\ Codec' = Codec /\ Packets' = Packets
  BY <1>1, <1>2, FramesNone DEF Hand, Queue, Work, Codec, Packets
<1>4. InOrder
  BY DEF StreamInv, Ordered
<1>5. InOrder'
  <2>1. Places'
    BY <1>3, <1>4 DEF InOrder, Places, Below
  <2> QED BY <1>1, <1>3, <1>4, <2>1 DEF InOrder
<1>6. Failing' <=> Failing
  BY <1>1 DEF Failing
<1>7. AfterSignal'
  <2>1. Signals(InHand' \cup ToSet(frame_queue')) \subseteq Signals(InHand \cup ToSet(frame_queue))
    BY <1>1, <1>2 DEF Signals
  <2>2. Signals(InHand') = {}
    BY <1>2 DEF Signals
  <2>3. Healthy' => Healthy
    BY <1>1, <1>6 DEF Healthy
  <2> QED BY <1>1, <1>3, <2>1, <2>2, <2>3 DEF StreamInv, Ordered, AfterSignal
<1>8. Owed = Hand \cup Owed'
  BY <1>3, OwedIs
<1>9. Hand = IF IsFrame(frame) THEN {frame.of} ELSE {}
  BY <1>2, FramesOne DEF Hand
<1>10. CASE IsFrame(frame)
  <2>1. frame.of \notin Queue \cup Work \cup Codec
    <3>1. frame.of \in Nat
      BY <1>9, <1>10, Numbers
    <3> QED BY <1>4, <1>9, <1>10, <3>1 DEF InOrder, Places, Below
  <2>2. frame.of \in Owed /\ Owed' = Owed \ {frame.of}
    BY <1>3, <1>8, <1>9, <1>10, <2>1, OwedIs
  <2>3. delivered' = frame.of /\ drained' = drained
    BY <1>1, <1>10 DEF IsFrame
  <2>4. \A q \in Owed : frame.of <= q
    <3>1. ASSUME NEW q \in Owed PROVE frame.of <= q
      <4>1. frame.of \in Nat /\ q \in Nat
        BY <1>9, <1>10, Numbers, OwedIs
      <4>2. q = frame.of \/ q \in Queue \cup Work \cup Codec
        BY <1>9, <1>10, OwedIs
      <4>3. q \in Queue \cup Work \cup Codec => frame.of < q
        BY <1>4, <1>9, <1>10 DEF InOrder, Places, Below
      <4> QED BY <4>1, <4>2, <4>3
    <3> QED BY <3>1
  <2>5. Stream!First(frame.of, Owed)
    BY <2>4 DEF Stream!First
  <2>6. Stream!Deliver
    BY <1>1, <1>3, <1>6, <2>2, <2>3, <2>5 DEF Stream!Deliver
  <2> QED BY <1>5, <1>7, <2>6
<1>11. CASE frame.kind = "signal"
  <2>1. frame \in Signals(InHand) /\ frame \in Signals(InHand \cup ToSet(frame_queue))
    BY <1>2, <1>11 DEF Signals
  <2>2. eof /\ pkt_queue = <<>> /\ codec = <<>> /\ Work = {} /\ Queue = {}
    BY <2>1 DEF StreamInv, Ordered, AfterSignal
  <2>3. ~IsFrame(frame)
    BY <1>11 DEF IsFrame
  <2>4. Packets = {} /\ Codec = {}
    BY <2>2, NoSet DEF Packets, Codec
  <2>5. Owed = {} /\ Owed' = {}
    BY <1>3, <1>9, <2>2, <2>3, <2>4, OwedIs
  <2>6. delivered' = delivered /\ drained' = drained + 1
    BY <1>1, <1>11
  <2>7. Stream!EndSignal
    BY <1>1, <1>3, <1>6, <2>2, <2>4, <2>5, <2>6 DEF Stream!EndSignal
  <2> QED BY <1>5, <1>7, <2>7
<1>12. CASE ~IsFrame(frame) /\ frame.kind # "signal"
  <2>1. Owed' = Owed /\ delivered' = delivered /\ drained' = drained
    BY <1>1, <1>8, <1>9, <1>12 DEF IsFrame
  <2>2. UNCHANGED Stream!vars
    BY <1>1, <1>3, <1>6, <2>1, Same
  <2> QED BY <1>5, <1>7, <2>2
<1> QED BY <1>10, <1>11, <1>12

\* A Stop forgets what was fed.
LEMMA ResetStep == ASSUME ~Stopping, ClearCall \/ SetCodecContext \/ Destroy
  PROVE Stream!Reset /\ NoStream'
<1>1. ~Stopping /\ Stopping' /\ sent' = sent
  BY DEF ClearCall, SetCodecContext, CallClear, Destroy, StopEnter, Reader, Stopping, Stopped
<1>2. NoStream'
  BY <1>1 DEF NoStream
<1> QED BY <1>1, <1>2 DEF Stream!Reset

\* What the worker finds when it takes a packet: the first one fed, and nothing
\* of the end of the stream.
LEMMA PopFacts == ASSUME StreamInv, ~NoStream, NEW next, PopPacket(next), next \notin {"none", "finished"}
  PROVE /\ ~NoStream' /\ ~Stopping /\ ~Stopping' /\ Healthy /\ mode = "normal"
        /\ UNCHANGED <<frame_queue, frame, cpc, eof, sent, delivered, drained, error_status>>
        /\ InHand' = InHand /\ InWork = {} /\ Work = {} /\ Hand' = Hand /\ Queue' = Queue
        /\ Signals(InHand)' = {} /\ Signals(InHand \cup ToSet(frame_queue))' = {}
        /\ PacketsAscend(pkt_queue)' /\ ToSet(pkt_queue') \subseteq ToSet(pkt_queue)
        /\ Head(pkt_queue) \in Nat
        /\ Head(pkt_queue) = NullPacket => pkt_queue' = <<>> /\ Packets = {} /\ Packets' = {}
        /\ Head(pkt_queue) # NullPacket =>
             /\ Head(pkt_queue) \in Packets /\ Packets' = Packets \ {Head(pkt_queue)}
             /\ \A q \in Packets' : Head(pkt_queue) < q
             /\ Stream!First(Head(pkt_queue), Packets)
<1>1. /\ ~NoStream /\ ~NoStream' /\ ~Stopping /\ ~Stopping'
      /\ UNCHANGED <<frame_queue, frame, cpc, eof, sent, delivered, drained, error_status>>
      /\ wpc = "pop" /\ pkt_queue # <<>> /\ pkt_queue' = Tail(pkt_queue)
  BY DEF PopPacket, Worker, bufferVars, frameVars, flagVars, callVars, historyVars, NoStream, Stopping
<1>2. Healthy
  BY <1>1, AtWork
<1>3. mode = "normal"
  BY <1>1, <1>2 DEF StreamInv, Ordered, IInv, Phases
<1>4. InHand' = InHand /\ InWork = {} /\ Work = {} /\ Hand' = Hand /\ Queue' = Queue
  <2>1. InHand' = InHand /\ InWork = {}
    BY <1>1 DEF InHand, InWork
  <2> QED BY <1>1, <2>1, FramesNone DEF Hand, Work, Queue
<1>5. Signals(InHand)' = {} /\ Signals(InHand \cup ToSet(frame_queue))' = {}
  <2>1. Signals(InHand \cup ToSet(frame_queue)) = {}
    BY <1>1 DEF StreamInv, Ordered, AfterSignal
  <2>2. Signals(InHand \cup ToSet(frame_queue)) = Signals(InHand) \cup Signals(ToSet(frame_queue))
    BY SignalsUnion
  <2> QED BY <1>1, <1>4, <2>1, <2>2
<1>6. pkt_queue \in Seq(Nat) /\ PacketsAscend(pkt_queue)
  BY StreamTypes DEF StreamInv, Ordered, InOrder
<1>7. /\ PacketsAscend(Tail(pkt_queue))
      /\ \A x \in ToSet(Tail(pkt_queue)) : x = NullPacket \/ Head(pkt_queue) < x
      /\ Head(pkt_queue) = NullPacket => Tail(pkt_queue) = <<>>
  BY <1>1, <1>6, PacketsTail
<1>8. ToSet(pkt_queue) = ToSet(Tail(pkt_queue)) \cup {Head(pkt_queue)}
  BY <1>1, <1>6, TailSet
<1>9. Head(pkt_queue) \in Nat
  BY <1>1, <1>6, TailFacts
<1>10. ASSUME Head(pkt_queue) = NullPacket PROVE pkt_queue' = <<>> /\ Packets = {} /\ Packets' = {}
  BY <1>1, <1>7, <1>8, <1>10, NoSet DEF Packets
<1>11. ASSUME Head(pkt_queue) # NullPacket
       PROVE  /\ Head(pkt_queue) \in Packets /\ Packets' = Packets \ {Head(pkt_queue)}
              /\ \A q \in Packets' : Head(pkt_queue) < q
              /\ Stream!First(Head(pkt_queue), Packets)
  <2>1. Head(pkt_queue) \in Packets /\ Packets = Packets' \cup {Head(pkt_queue)}
    BY <1>1, <1>8, <1>11 DEF Packets
  <2>2. \A q \in Packets' : Head(pkt_queue) < q
    BY <1>1, <1>7 DEF Packets
  <2>3. Packets \subseteq Nat
    BY Numbers
  <2>4. Head(pkt_queue) \notin Packets'
    BY <1>9, <2>2
  <2>5. \A q \in Packets : Head(pkt_queue) <= q
    <3>1. ASSUME NEW q \in Packets PROVE Head(pkt_queue) <= q
      <4>1. q \in Nat /\ (q = Head(pkt_queue) \/ Head(pkt_queue) < q)
        BY <2>1, <2>2, <2>3
      <4> QED BY <1>9, <4>1
    <3> QED BY <3>1
  <2> QED BY <2>1, <2>2, <2>4, <2>5 DEF Stream!First
<1> QED BY <1>1, <1>2, <1>3, <1>4, <1>5, <1>7, <1>8, <1>9, <1>10, <1>11

\* The worker gives a packet to the codec, or to nobody, and takes the first
\* frame the codec has, or none.
LEMMA DecodeStep == ASSUME StreamInv, ~NoStream, DecodeFrame \/ DecodeNothing
  PROVE InOrder' /\ AfterSignal' /\ Stream!Decode
<1> DEFINE p == Head(pkt_queue)
<1>1. /\ \E next \in {"take_buffer", "put"} : PopPacket(next)
      /\ p # NullPacket /\ mode' = mode
      /\ \E frames \in {codec, Append(codec, p)} :
           \/ frames # <<>> /\ item' = Picture(Head(frames)) /\ codec' = Tail(frames) /\ wpc' = "take_buffer"
           \/ item' = Nothing /\ codec' = frames /\ wpc' = "put"
  BY DEF DecodeFrame, DecodeNothing, PopPacket, Worker
<1>2. PICK next \in {"take_buffer", "put"} : PopPacket(next)
  BY <1>1
<1>3. PICK frames \in {codec, Append(codec, p)} :
           \/ frames # <<>> /\ item' = Picture(Head(frames)) /\ codec' = Tail(frames) /\ wpc' = "take_buffer"
           \/ item' = Nothing /\ codec' = frames /\ wpc' = "put"
  BY <1>1
<1>4. /\ ~NoStream' /\ ~Stopping /\ ~Stopping' /\ Healthy /\ mode = "normal"
      /\ UNCHANGED <<frame_queue, frame, cpc, eof, sent, delivered, drained, error_status>>
      /\ Work = {} /\ Hand' = Hand /\ Queue' = Queue
      /\ Signals(InHand)' = {} /\ Signals(InHand \cup ToSet(frame_queue))' = {}
      /\ PacketsAscend(pkt_queue)' /\ ToSet(pkt_queue') \subseteq ToSet(pkt_queue)
      /\ p \in Nat /\ p \in Packets /\ Packets' = Packets \ {p}
      /\ \A q \in Packets' : p < q
      /\ Stream!First(p, Packets)
  BY <1>1, <1>2, PopFacts
<1>5. InOrder /\ codec \in Seq(Nat)
  BY StreamTypes DEF StreamInv, Ordered
<1>6. frames \in Seq(Nat) /\ Ascends(frames) /\ (ToSet(frames) = Codec \/ ToSet(frames) = Codec \cup {p})
  <2>1. CASE frames = codec
    BY <1>5, <2>1 DEF InOrder, Codec
  <2>2. CASE frames = Append(codec, p)
    <3>1. \A x \in ToSet(codec) : x < p
      BY <1>4, <1>5 DEF InOrder, Places, Below, Codec
    <3>2. Ascends(Append(codec, p)) /\ ToSet(Append(codec, p)) = ToSet(codec) \cup {p} /\ Append(codec, p) \in Seq(Nat)
      BY <1>4, <1>5, <3>1, AscendsAppend, AppendSet, AppendFacts DEF InOrder
    <3> QED BY <2>2, <3>2 DEF Codec
  <2> QED BY <1>3, <2>1, <2>2
<1>7. /\ ToSet(frames) = Work' \cup Codec' /\ Below(Work', Codec') /\ Ascends(codec')
  <2>1. CASE frames # <<>> /\ item' = Picture(Head(frames)) /\ codec' = Tail(frames) /\ wpc' = "take_buffer"
    <3>1. Work' = {Head(frames)}
      <4>1. InWork' = {Picture(Head(frames))}
        BY <2>1 DEF InWork
      <4> QED BY <4>1, FramesOne, Kinds DEF Work
    <3>2. ToSet(frames) = ToSet(Tail(frames)) \cup {Head(frames)}
      BY <1>6, <2>1, TailSet
    <3>3. Ascends(Tail(frames)) /\ \A x \in ToSet(Tail(frames)) : Head(frames) < x
      BY <1>6, <2>1, AscendsTail
    <3> QED BY <2>1, <3>1, <3>2, <3>3 DEF Codec, Below
  <2>2. CASE item' = Nothing /\ codec' = frames /\ wpc' = "put"
    <3>1. Work' = {}
      <4>1. InWork' = {Nothing}
        BY <2>2 DEF InWork
      <4> QED BY <4>1, FramesOne, Kinds DEF Work
    <3> QED BY <1>6, <2>2, <3>1 DEF Codec, Below
  <2> QED BY <1>3, <2>1, <2>2
<1>8. Work' \cup Codec' \subseteq Codec \cup {p}
  BY <1>6, <1>7
<1>9. Places'
  <2>1. Below(Hand', Queue' \cup Work' \cup Codec' \cup Packets') /\ Below(Queue', Work' \cup Codec' \cup Packets')
    BY <1>4, <1>5, <1>8 DEF InOrder, Places, Below
  <2>2. Below(Work' \cup Codec', Packets')
    BY <1>4, <1>5, <1>8 DEF InOrder, Places, Below
  <2> QED BY <1>7, <2>1, <2>2 DEF Places, Below
<1>10. InOrder'
  <2>1. \A q \in Hand' \cup Queue' \cup Work' \cup Codec' \cup Packets' : q <= sent'
    BY <1>4, <1>5, <1>8 DEF InOrder
  <2>2. OutputsAscend(frame_queue)' /\ Ascends(codec)'
    BY <1>4, <1>5, <1>7 DEF InOrder
  <2> QED BY <1>4, <1>5, <1>9, <2>1, <2>2 DEF InOrder
<1>11. AfterSignal'
  BY <1>1, <1>4 DEF AfterSignal
<1>12. Stream!Decode
  <2>1. Owed' = Owed \/ Owed' = Owed \cup {p}
    BY <1>4, <1>6, <1>7, OwedIs
  <2>2. Failing' <=> Failing
    BY <1>3, <1>4 DEF Failing, Healthy
  <2> QED BY <1>4, <2>1, <2>2 DEF Stream!Decode
<1> QED BY <1>10, <1>11, <1>12

\* The codec fails on a packet, which is lost.
LEMMA DecodeFailsStep == ASSUME StreamInv, ~NoStream, DecodeFails
  PROVE InOrder' /\ AfterSignal' /\ Stream!Fail
<1>1. PopPacket("record") /\ UNCHANGED <<codec, mode, item>> /\ wpc' = "record"
  BY DEF DecodeFails, PopPacket, Worker
<1>2. /\ ~NoStream' /\ ~Stopping /\ ~Stopping' /\ Healthy /\ mode = "normal"
      /\ UNCHANGED <<frame_queue, frame, cpc, eof, sent, delivered, drained, error_status>>
      /\ Work = {} /\ Hand' = Hand /\ Queue' = Queue
      /\ Signals(InHand)' = {} /\ Signals(InHand \cup ToSet(frame_queue))' = {}
      /\ PacketsAscend(pkt_queue)' /\ ToSet(pkt_queue') \subseteq ToSet(pkt_queue)
      /\ Head(pkt_queue) = NullPacket => Packets' = Packets
      /\ Head(pkt_queue) # NullPacket =>
           /\ Head(pkt_queue) \in Packets /\ Packets' = Packets \ {Head(pkt_queue)}
           /\ Stream!First(Head(pkt_queue), Packets)
  BY <1>1, PopFacts
<1>3. Codec' = Codec /\ Work' = {}
  <2>1. InWork' = {}
    BY <1>1 DEF InWork
  <2> QED BY <1>1, <2>1, FramesNone DEF Codec, Work
<1>4. Packets' \subseteq Packets
  BY <1>2
<1>5. InOrder
  BY DEF StreamInv, Ordered
<1>6. InOrder'
  <2>1. Places'
    BY <1>2, <1>3, <1>4, <1>5 DEF InOrder, Places, Below
  <2> QED BY <1>1, <1>2, <1>3, <1>4, <1>5, <2>1 DEF InOrder
<1>7. AfterSignal'
  BY <1>1, <1>2 DEF AfterSignal
<1>8. Stream!LoseOne
  <2>1. Owed' = Owed
    BY <1>2, <1>3, OwedIs
  <2> QED BY <1>2, <2>1 DEF Stream!LoseOne
<1>9. Failing'
  BY <1>1 DEF Failing
<1> QED BY <1>2, <1>6, <1>7, <1>8, <1>9 DEF Stream!Fail

\* The worker takes the null packet.
LEMMA StartDrainingStep == ASSUME StreamInv, ~NoStream, StartDraining
  PROVE InOrder' /\ AfterSignal' /\ UNCHANGED Stream!vars
<1>1. PopPacket("drain") /\ codec' = codec /\ mode' = "draining" /\ wpc' = "drain" /\ Head(pkt_queue) = NullPacket
  BY DEF StartDraining, PopPacket, Worker
<1>2. /\ ~NoStream' /\ ~Stopping /\ ~Stopping' /\ Healthy
      /\ UNCHANGED <<frame_queue, frame, cpc, eof, sent, delivered, drained, error_status>>
      /\ Work = {} /\ Hand' = Hand /\ Queue' = Queue
      /\ Signals(InHand)' = {} /\ Signals(InHand \cup ToSet(frame_queue))' = {}
      /\ PacketsAscend(pkt_queue)' /\ ToSet(pkt_queue') \subseteq ToSet(pkt_queue)
      /\ Packets' = Packets
  BY <1>1, PopFacts
<1>3. Codec' = Codec /\ Work' = Work
  <2>1. InWork' = {}
    BY <1>1 DEF InWork
  <2> QED BY <1>1, <1>2, <2>1, FramesNone DEF Codec, Work
<1>4. InOrder
  BY DEF StreamInv, Ordered
<1>5. InOrder'
  <2>1. Places'
    BY <1>2, <1>3, <1>4 DEF InOrder, Places, Below
  <2> QED BY <1>1, <1>2, <1>3, <1>4, <2>1 DEF InOrder
<1>6. AfterSignal'
  BY <1>1, <1>2 DEF AfterSignal
<1>7. UNCHANGED Stream!vars
  <2>1. Owed' = Owed
    BY <1>2, <1>3, OwedIs
  <2>2. Failing' <=> Failing
    BY <1>1, <1>2 DEF Failing, Healthy
  <2> QED BY <1>2, <2>1, <2>2, Same
<1> QED BY <1>5, <1>6, <1>7

\* The worker takes the first frame of the codec it drains.
LEMMA DrainFrameStep == ASSUME StreamInv, ~NoStream, DrainFrame
  PROVE InOrder' /\ AfterSignal' /\ UNCHANGED Stream!vars
<1>1. /\ ~NoStream /\ ~NoStream' /\ ~Stopping /\ ~Stopping'
      /\ UNCHANGED <<pkt_queue, frame_queue, frame, cpc, mode, eof, sent, delivered, drained, error_status>>
      /\ wpc = "drain" /\ wpc' = "take_buffer" /\ codec # <<>>
      /\ item' = Picture(Head(codec)) /\ codec' = Tail(codec)
  BY DEF DrainFrame, Worker, queueVars, packetVars, bufferVars, frameVars, flagVars, callVars, historyVars, NoStream, Stopping
<1>2. Healthy /\ mode # "signalling"
  BY <1>1, AtWork DEF StreamInv, Ordered, IInv, Phases
<1>3. InHand' = InHand /\ Hand' = Hand /\ Queue' = Queue /\ Packets' = Packets
  <2>1. InHand' = InHand
    BY <1>1 DEF InHand
  <2> QED BY <1>1, <2>1 DEF Hand, Queue, Packets
<1>4. Work = {} /\ Work' = {Head(codec)}
  <2>1. InWork = {} /\ InWork' = {Picture(Head(codec))}
    BY <1>1 DEF InWork
  <2> DEFINE x == Head(codec)
             o == Picture(x)
  <2>2. FramesOf({o}) = {x}
    <3>1. IsFrame(o) /\ o.of = x
      BY Kinds
    <3> HIDE DEF o
    <3> QED BY <3>1, FramesOne
  <2>3. Work = {}
    BY <2>1, FramesNone DEF Work
  <2>4. Work' = FramesOf(InWork')
    BY DEF Work, FramesOf, IsFrame
  <2> QED BY <2>1, <2>2, <2>3, <2>4
<1>5. InOrder /\ codec \in Seq(Nat)
  BY StreamTypes DEF StreamInv, Ordered
<1>6. Ascends(Tail(codec)) /\ \A x \in ToSet(Tail(codec)) : Head(codec) < x
  BY <1>1, <1>5, AscendsTail DEF InOrder
<1>7. Codec = Work' \cup Codec' /\ Below(Work', Codec')
  <2>1. ToSet(codec) = ToSet(Tail(codec)) \cup {Head(codec)}
    BY <1>1, <1>5, TailSet
  <2> QED BY <1>1, <1>4, <1>6, <2>1 DEF Codec, Below
<1>8. InOrder'
  <2>1. Places'
    BY <1>3, <1>4, <1>5, <1>7 DEF InOrder, Places, Below
  <2>2. \A p \in Hand' \cup Queue' \cup Work' \cup Codec' \cup Packets' : p <= sent'
    BY <1>1, <1>3, <1>5, <1>7 DEF InOrder
  <2>3. OutputsAscend(frame_queue)' /\ Ascends(codec)' /\ PacketsAscend(pkt_queue)'
    BY <1>1, <1>5, <1>6 DEF InOrder
  <2> QED BY <1>1, <1>5, <2>1, <2>2, <2>3 DEF InOrder
<1>9. AfterSignal'
  <2>1. Signals(InHand \cup ToSet(frame_queue)) = {}
    BY <1>1 DEF StreamInv, Ordered, AfterSignal
  <2>2. Signals(InHand \cup ToSet(frame_queue))' = {} /\ Signals(InHand)' = Signals(InHand)
    BY <1>1, <1>3, <2>1
  <2> QED BY <1>1, <1>2, <1>3, <2>2 DEF StreamInv, Ordered, AfterSignal
<1>10. UNCHANGED Stream!vars
  <2>1. Owed' = Owed
    BY <1>3, <1>4, <1>7, OwedIs
  <2>2. Failing' <=> Failing
    BY <1>1 DEF Failing
  <2> QED BY <1>1, <1>3, <2>1, <2>2, Same
<1> QED BY <1>8, <1>9, <1>10

\* The filter graph fails on a frame, which is lost.
LEMMA FilterFailsStep == ASSUME StreamInv, ~NoStream, FilterFails
  PROVE InOrder' /\ AfterSignal' /\ Stream!Fail
<1>1. /\ ~NoStream /\ ~NoStream' /\ ~Stopping /\ ~Stopping'
      /\ UNCHANGED <<pkt_queue, frame_queue, frame, codec, item, cpc, mode, eof, sent, delivered, drained, error_status>>
      /\ wpc = "process" /\ wpc' = "record"
  BY DEF FilterFails, Worker, queueVars, packetVars, bufferVars, frameVars, flagVars, callVars, historyVars, NoStream, Stopping
<1>2. Healthy /\ item.kind = "picture"
  BY <1>1, AtWork DEF StreamInv, Ordered, IInv, Phases
<1>3. InHand' = InHand /\ Hand' = Hand /\ Queue' = Queue /\ Packets' = Packets /\ Codec' = Codec
  <2>1. InHand' = InHand
    BY <1>1 DEF InHand
  <2> QED BY <1>1, <2>1 DEF Hand, Queue, Packets, Codec
<1>4. Work = {item.of} /\ Work' = {}
  <2>1. InWork = {item} /\ InWork' = {}
    BY <1>1 DEF InWork
  <2>2. IsFrame(item)
    BY <1>2 DEF IsFrame
  <2> QED BY <2>1, <2>2, FramesOne, FramesNone DEF Work
<1>5. InOrder
  BY DEF StreamInv, Ordered
<1>6. InOrder'
  <2>1. Places'
    BY <1>3, <1>4, <1>5 DEF InOrder, Places, Below
  <2> QED BY <1>1, <1>3, <1>4, <1>5, <2>1 DEF InOrder
<1>7. AfterSignal'
  <2>1. ~Healthy'
    BY <1>1 DEF Healthy, Failing
  <2>2. Signals(InHand \cup ToSet(frame_queue))' = Signals(InHand \cup ToSet(frame_queue))
        /\ Signals(InHand)' = Signals(InHand)
    BY <1>1, <1>3
  <2> QED BY <1>1, <1>3, <1>4, <2>1, <2>2 DEF StreamInv, Ordered, AfterSignal
<1>8. item.of \in Owed /\ Owed' = Owed \ {item.of}
  <2>1. item.of \notin Hand \cup Queue \cup Codec
    <3>1. item.of \in Nat
      BY <1>4, Numbers
    <3> QED BY <1>4, <1>5, <3>1 DEF InOrder, Places, Below
  <2> QED BY <1>3, <1>4, <2>1, OwedIs
<1>9. Stream!LoseOne
  BY <1>1, <1>3, <1>8 DEF Stream!LoseOne
<1>10. Failing'
  BY <1>1 DEF Failing
<1> QED BY <1>1, <1>6, <1>7, <1>9, <1>10 DEF Stream!Fail

\* The worker puts its output into the queue.
LEMMA PutStep == ASSUME StreamInv, ~NoStream, PutOutput
  PROVE InOrder' /\ AfterSignal' /\ UNCHANGED Stream!vars
<1>1. /\ ~NoStream /\ ~NoStream' /\ ~Stopping /\ ~Stopping'
      /\ UNCHANGED <<pkt_queue, frame, codec, item, cpc, mode, eof, sent, delivered, drained, error_status>>
      /\ wpc = "put" /\ wpc' = "count" /\ frame_queue' = Append(frame_queue, item)
  BY DEF PutOutput, Worker, packetVars, bufferVars, flagVars, callVars, historyVars, NoStream, Stopping
<1>2. Healthy
  BY <1>1, AtWork
<1>3. frame_queue \in Seq(Output) /\ item \in Output
  BY StreamTypes
<1>4. InHand' = InHand /\ Hand' = Hand /\ Packets' = Packets /\ Codec' = Codec
  <2>1. InHand' = InHand
    BY <1>1 DEF InHand
  <2> QED BY <1>1, <2>1 DEF Hand, Packets, Codec
<1>5. ToSet(frame_queue') = ToSet(frame_queue) \cup {item}
  BY <1>1, <1>3, AppendSet
<1>6. Work = FramesOf({item}) /\ Work' = {} /\ Queue' = Queue \cup Work
  <2>1. InWork = {item} /\ InWork' = {}
    BY <1>1 DEF InWork
  <2> QED BY <1>5, <2>1, FramesUnion, FramesNone DEF Work, Queue
<1>7. InOrder
  BY DEF StreamInv, Ordered
<1>8. OutputsAscend(frame_queue)'
  <2>1. ASSUME IsFrame(item) PROVE Signals(ToSet(frame_queue)) = {} /\ \A x \in FramesOf(ToSet(frame_queue)) : x < item.of
    <3>1. Work = {item.of}
      BY <1>6, <2>1, FramesOne
    <3>2. Signals(InHand \cup ToSet(frame_queue)) = {}
      BY <1>1, <3>1 DEF StreamInv, Ordered, AfterSignal
    <3>3. Signals(ToSet(frame_queue)) = {}
      BY <3>2, SignalsUnion
    <3> QED BY <1>7, <3>1, <3>3 DEF InOrder, Places, Below, Queue
  <2>2. OutputsAscend(Append(frame_queue, item))
    BY <1>3, <1>7, <2>1, OutputsAppend DEF InOrder
  <2> QED BY <1>1, <2>2
<1>9. InOrder'
  <2>1. Places'
    BY <1>4, <1>6, <1>7 DEF InOrder, Places, Below
  <2> QED BY <1>1, <1>4, <1>6, <1>7, <1>8, <2>1 DEF InOrder
<1>10. AfterSignal'
  <2>1. ASSUME item.kind = "signal" PROVE eof /\ pkt_queue = <<>> /\ codec = <<>>
    <3>1. mode = "signalling"
      BY <1>1, <1>2, <2>1 DEF StreamInv, Ordered, IInv, Phases, TypeOK, DataOK
    <3> QED BY <1>1, <1>2, <3>1 DEF StreamInv, Ordered, IInv, Phases, AfterSignal
  <2>2. Signals(InHand \cup ToSet(frame_queue))' # {} =>
          Signals(InHand \cup ToSet(frame_queue)) # {} \/ item.kind = "signal"
    BY <1>4, <1>5 DEF Signals
  <2>3. Signals(InHand) # {} => Queue = {} /\ Work = {}
    <3>1. Signals(InHand) # {} => Signals(InHand \cup ToSet(frame_queue)) # {}
      BY SignalsUnion
    <3> QED BY <1>1, <3>1 DEF StreamInv, Ordered, AfterSignal
  <2>4. Signals(InHand)' = Signals(InHand)
    BY <1>4
  <2>5. Signals(InHand)' # {} => Queue' = {}
    BY <1>6, <2>3, <2>4
  <2>6. Signals(InHand \cup ToSet(frame_queue)) # {} => eof /\ pkt_queue = <<>> /\ codec = <<>>
    BY <1>1 DEF StreamInv, Ordered, AfterSignal
  <2>7. Healthy' /\ mode' = "signalling" => codec' = <<>>
    BY <1>1, <1>2 DEF StreamInv, Ordered, AfterSignal
  <2> QED BY <1>1, <1>6, <2>1, <2>2, <2>5, <2>6, <2>7 DEF AfterSignal
<1>11. UNCHANGED Stream!vars
  <2>1. Owed' = Owed
    BY <1>4, <1>6, OwedIs
  <2>2. Failing' <=> Failing
    BY <1>1 DEF Failing
  <2> QED BY <1>1, <1>4, <2>1, <2>2, Same
<1> QED BY <1>9, <1>10, <1>11

----------------------------------------------------------------------------
(* A decoder that was cleared, and one that is stopping. *)

\* A worker starts with nothing.
LEMMA StartStep == ASSUME IInv, StartThread
  PROVE InOrder' /\ AfterSignal' /\ UNCHANGED Stream!vars
<1>1. /\ NoStream /\ ~Stopping /\ ~NoStream' /\ ~Stopping'
      /\ cpc' = "idle" /\ wpc' = "loop" /\ mode' = "normal"
      /\ UNCHANGED <<codec, eof, sent, delivered, drained, error_status>>
      /\ pkt_queue' = <<>> /\ frame_queue' = <<>>
  BY DEF StartThread, NoStream, Stopping, Stopped, callVars, historyVars
<1>2. codec' = <<>> /\ ~Failing'
  BY <1>1 DEF StartThread, IInv, Fresh, Control, Failing
<1>3. InHand' = {} /\ InWork' = {}
  BY <1>1 DEF InHand, InWork
<1>4. Hand' = {} /\ Queue' = {} /\ Work' = {} /\ Codec' = {} /\ Packets' = {}
  BY <1>1, <1>2, <1>3, NoSet, FramesNone DEF Hand, Queue, Work, Codec, Packets
<1>5. InOrder'
  <2>1. Len(<<>>) = 0
    OBVIOUS
  <2>2. Ascends(codec)' /\ OutputsAscend(frame_queue)' /\ PacketsAscend(pkt_queue)'
    BY <1>1, <1>2, <2>1 DEF Ascends, OutputsAscend, PacketsAscend
  <2> QED BY <1>1, <1>4, <2>2, NoSet DEF InOrder, Places, Below
<1>6. AfterSignal'
  BY <1>1, <1>3, NoSet DEF AfterSignal, Signals
<1>7. UNCHANGED Stream!vars
  <2>1. Owed' = {}
    BY <1>4, OwedIs
  <2> QED BY <1>1, <1>2, <1>4, <2>1 DEF Stream!vars
<1> QED BY <1>5, <1>6, <1>7

\* Clear ends what Stop began.
LEMMA ClearStep == ASSUME IInv, Clear
  PROVE NoStream' /\ UNCHANGED Stream!vars
<1>1. /\ Stopping /\ NoStream /\ wpc = "none" /\ wpc' = "none" /\ NoStream'
      /\ sent' = sent /\ delivered' = sent /\ drained' = 0 /\ eof' = FALSE
  BY DEF Clear, IInv, Control, NoStream, Stopping, Stopped
<1> QED BY <1>1 DEF Stream!vars

\* Whatever else happens without a stream is not seen.
LEMMA IdleStep == ASSUME IInv, NoStream, [Next]_vars, ~StartThread, ~Clear,
                         ~(ClearCall \/ SetCodecContext \/ Destroy)
  PROVE NoStream' /\ UNCHANGED Stream!vars
<1> USE DEF Reader, Worker, queueVars, packetVars, bufferVars, frameVars, flagVars, workerVars, callVars, historyVars
<1>1. CASE Stopping
  <2>1. Stopping' /\ sent' = sent
    <3>1. CASE ReaderStep
      BY <1>1, <3>1 DEF ReaderStep, StartRunning, StartTwice, PushBuffer, PopCount, PopDraining, PopTake, PopKilled,
           PopCheck, PopReturn, StopQueues, StopRun, Join, Stopping, Stopped
    <3>2. CASE ReaderCall
      BY <1>1, <3>2 DEF ReaderCall, StartEnter, PushPacket, PushNull, PushNullThrows, PopEnter, SuggestDiscardPTS,
           ClearDiscardPTS, Stopping, Stopped
    <3>3. CASE WorkerStep
      <4>1. cpc' = cpc /\ sent' = sent
        BY <3>3 DEF WorkerStep, WorkerLoop, WorkerKilled, DecodeFrame, DecodeNothing, DecodeFails, PopPacket,
           StartDraining, DrainFrame, DrainEnds, TakeBuffer, ProcessFrame, FilterFails, PutOutput, CountOutput,
           StopDraining, RecordError, UnblockConsumers
      <4> QED BY <1>1, <4>1 DEF Stopping
    <3>4. CASE UNCHANGED vars
      BY <1>1, <3>4 DEF vars, Stopping
    <3> QED BY <3>1, <3>2, <3>3, <3>4 DEF Next, Done
  <2>2. NoStream'
    BY <2>1 DEF NoStream
  <2> QED BY <1>1, <2>1, <2>2, Same
<1>2. CASE ~Stopping /\ wpc = "none"
  <2>1. /\ cpc \in {"idle", "start", "terminated"} /\ cpc' \in {"idle", "start", "terminated"}
        /\ wpc' = "none" /\ UNCHANGED <<sent, eof, delivered, drained>>
    <3>1. cpc \in {"idle", "start", "terminated"}
      BY <1>2 DEF IInv, TypeOK, DataOK, ReaderSteps, Control, Stopping
    <3>2. CASE ReaderStep
      BY <1>2, <3>1, <3>2 DEF ReaderStep, StartRunning, StartTwice, PushBuffer, PopCount, PopDraining, PopTake, PopKilled,
           PopCheck, PopReturn, StopQueues, StopRun, Join
    <3>3. CASE ReaderCall
      BY <1>2, <3>1, <3>3 DEF ReaderCall, StartEnter, PushPacket, PushNull, PushNullThrows, PopEnter, SuggestDiscardPTS,
           ClearDiscardPTS
    <3>4. CASE WorkerStep
      BY <1>2, <3>4 DEF WorkerStep, WorkerLoop, WorkerKilled, DecodeFrame, DecodeNothing, DecodeFails, PopPacket,
           StartDraining, DrainFrame, DrainEnds, TakeBuffer, ProcessFrame, FilterFails, PutOutput, CountOutput,
           StopDraining, RecordError, UnblockConsumers
    <3>5. CASE UNCHANGED vars
      BY <1>2, <3>1, <3>5 DEF vars
    <3> QED BY <3>2, <3>3, <3>4, <3>5 DEF Next, Done
  <2>2. ~Stopping /\ ~Stopping' /\ NoStream'
    BY <2>1 DEF NoStream, Stopping, Stopped
  <2> QED BY <1>2, <2>1, <2>2, Same DEF NoStream
<1> QED BY <1>1, <1>2 DEF NoStream

\* Of a decoder that works no step but these is possible.
LEMMA StreamStep == ASSUME StreamInv, [Next]_vars
  PROVE (~NoStream' => InOrder' /\ AfterSignal') /\ [Stream!Next]_(Stream!vars)
<1> USE DEF Stream!Next
<1>1. CASE ClearCall \/ SetCodecContext \/ Destroy
  <2>1. ~Stopping
    BY <1>1 DEF ClearCall, SetCodecContext, CallClear, Destroy, StopEnter, Reader, Stopping, Stopped
  <2> QED BY <1>1, <2>1, ResetStep
<1>2. CASE StartThread
  BY <1>2, StartStep DEF StreamInv, Ordered
<1>3. CASE Clear
  BY <1>3, ClearStep DEF StreamInv, Ordered
<1>4. CASE NoStream /\ ~StartThread /\ ~Clear /\ ~(ClearCall \/ SetCodecContext \/ Destroy)
  BY <1>4, IdleStep DEF StreamInv, Ordered
<1>5. CASE ~NoStream
  <2>1. CASE \/ StartEnter \/ StartRunning \/ StartTwice \/ PushBuffer \/ PopEnter \/ PopCount \/ PopDraining
             \/ PopKilled \/ SuggestDiscardPTS \/ ClearDiscardPTS \/ (PopCheck /\ ~error_status)
    BY <1>5, <2>1, QuietReader, QuietKeeps
  <2>2. CASE \/ WorkerLoop \/ TakeBuffer \/ ProcessFrame \/ CountOutput \/ DrainEnds \/ StopDraining
             \/ RecordError \/ UnblockConsumers
    BY <1>5, <2>2, QuietWorker, QuietKeeps
  <2>3. CASE PushPacket
    BY <1>5, <2>3, FeedStep
  <2>4. CASE PushNull \/ PushNullThrows
    BY <1>5, <2>4, EndStep
  <2>5. CASE PopTake
    BY <1>5, <2>5, TakeStep
  <2>6. CASE PopCheck /\ error_status
    BY <1>5, <2>6, LoseStep
  <2>7. CASE PopReturn
    BY <1>5, <2>7, GiveStep
  <2>8. CASE DecodeFrame \/ DecodeNothing
    BY <1>5, <2>8, DecodeStep
  <2>9. CASE DecodeFails
    BY <1>5, <2>9, DecodeFailsStep
  <2>10. CASE StartDraining
    BY <1>5, <2>10, StartDrainingStep
  <2>11. CASE DrainFrame
    BY <1>5, <2>11, DrainFrameStep
  <2>12. CASE FilterFails
    BY <1>5, <2>12, FilterFailsStep
  <2>13. CASE PutOutput
    BY <1>5, <2>13, PutStep
  <2>14. CASE WorkerKilled
    BY <1>5, <2>14 DEF WorkerKilled, Worker, StreamInv, Ordered, IInv, Control, NoStream
  <2>15. CASE StopQueues \/ StopRun \/ Join
    BY <1>5, <2>15 DEF StopQueues, StopRun, Join, Reader, NoStream, Stopping, Stopped
  <2>16. CASE UNCHANGED vars
    <3>1. Quiet
      <4>1. UNCHANGED <<pkt_queue, frame_queue, codec, sent, eof, delivered, drained, cpc, wpc, frame, item, mode, error_status>>
        BY <2>16 DEF vars, queueVars, packetVars, bufferVars, frameVars, flagVars, workerVars, callVars, historyVars
      <4>2. InHand' = InHand /\ InWork' = InWork
        BY <4>1 DEF InHand, InWork
      <4> QED BY <1>5, <4>1, <4>2 DEF Quiet, NoStream, Stopping, Hand, Work, Failing
    <3> QED BY <1>5, <3>1, QuietKeeps
  <2> QED
    BY <1>1, <1>2, <1>3, <2>1, <2>2, <2>3, <2>4, <2>5, <2>6, <2>7, <2>8, <2>9, <2>10, <2>11, <2>12, <2>13,
       <2>14, <2>15, <2>16 DEF Next, ReaderStep, ReaderCall, WorkerStep, Done
<1> QED BY <1>1, <1>2, <1>3, <1>4, <1>5

\* The reader gets the frames of the packets it pushed, in order and each once,
\* none of them from before a Clear, and end-of-stream signals after the last,
\* however the two threads are scheduled.
THEOREM StreamTheorem == Spec => ImplementsFrameStream
<1>1. Init => Ordered /\ Stream!Init
  <2>1. Init => NoStream /\ ~Stopping
    BY DEF Init, NoStream, Stopping, Stopped
  <2>2. Init => ~Failing /\ sent = 0 /\ delivered = 0 /\ drained = 0 /\ ~eof
    BY DEF Init, Failing
  <2> QED BY <2>1, <2>2 DEF Ordered, Stream!Init
<1>2. IInv /\ Ordered /\ [Next]_vars => Ordered' /\ [Stream!Next]_(Stream!vars)
  BY StreamStep DEF StreamInv, Ordered
<1> QED BY <1>1, <1>2, Invariance, PTL DEF Spec, ImplementsFrameStream, Stream!Spec
=============================================================================
