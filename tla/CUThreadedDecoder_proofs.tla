----------------------- MODULE CUThreadedDecoder_proofs -----------------------
(***************************************************************************)
(* The display callback of the GPU decoder never waits for a buffer while   *)
(* the reader waits for room, for queues of any size and any number of      *)
(* packets and Clears: a buffer comes with every packet, so while the       *)
(* worker is well there are at least as many as packets and pictures that   *)
(* still need one, but for a buffer the reader is about to push.  The       *)
(* decoder implements FrameStream, as pictures move from place to place in  *)
(* the order of their time stamps, and but for one picture the bitstream    *)
(* filter keeps, none of before a Clear comes after it.  And the textures   *)
(* it reads frames through are those of the frames, for any formats.        *)
(***************************************************************************)
EXTENDS CUThreadedDecoder, CUSurfaces, FiniteSetTheorems, TLAPS

USE CudaAssumption DEF CudaAssumption

One(b) == IF b THEN 1 ELSE 0

\* Who displays has a picture; who takes a frame out has seen one.
WorkerKnows == wpc \in {"buffer", "fill"} => shown # <<>>
PopInv == cpc = "pop_check" => reorder_queue # <<>>

\* A buffer for every packet and picture, the one being filled having its own.
BuffersSuffice ==
  wpc \in {"loop", "pop", "display", "buffer", "fill"} =>
    frame_queue + One(cpc = "push_buffer") >=
      Len(pkt_queue) + Len(parser) + Len(shown) - One(wpc = "fill")

\* A worker without a thread has not failed, and between packets it shows nothing.
Control ==
  /\ cpc \in {"push_full", "push_buffer", "push_count", "pop_check", "stop", "stop_run"} => wpc # "none"
  /\ cpc \in {"clear", "closed"} => wpc = "none"
  /\ cpc \in {"join", "clear", "closed"} => ~run
  /\ wpc = "none" => ~run /\ (error_status => Stopping)
  /\ wpc = "fail" => error_status
  /\ ~Stopping /\ ~run => wpc \in {"none", "finished"}
  /\ ~Stopping /\ wpc = "finished" => error_status
  /\ ~Stopping /\ pkt_exit => wpc = "none"
  /\ wpc \in {"loop", "pop"} => shown = <<>>
  /\ cpc = "push_full" => eof \/ sent # 0

IInv == TypeOK /\ WorkerKnows /\ PopInv /\ Control /\ BuffersSuffice

----------------------------------------------------------------------------
(* Sequences *)

\* What Append does to a sequence.
LEMMA AppendFacts == ASSUME NEW S, NEW s \in Seq(S), NEW e \in S
  PROVE  /\ Append(s, e) \in Seq(S) /\ Len(Append(s, e)) = Len(s) + 1 /\ Len(s) \in Nat
         /\ \A i \in 1 .. Len(s) : Append(s, e)[i] = s[i]
         /\ Append(s, e)[Len(s) + 1] = e
OBVIOUS

\* What Head and Tail give of one that is not empty.
LEMMA TailFacts == ASSUME NEW S, NEW s \in Seq(S), s # <<>>
  PROVE  /\ Len(s) \in Nat \ {0} /\ Head(s) = s[1] /\ Head(s) \in S
         /\ Tail(s) \in Seq(S) /\ Len(Tail(s)) = Len(s) - 1
         /\ \A i \in 1 .. Len(s) - 1 : Tail(s)[i] = s[i + 1]
OBVIOUS

\* The two parts of a sequence cut in two.
LEMMA SplitFacts == ASSUME NEW S, NEW s \in Seq(S), NEW n \in 0 .. Len(s)
  PROVE  /\ SubSeq(s, 1, n) \in Seq(S) /\ Len(SubSeq(s, 1, n)) = n
         /\ SubSeq(s, n + 1, Len(s)) \in Seq(S) /\ Len(SubSeq(s, n + 1, Len(s))) = Len(s) - n
OBVIOUS

\* Where each of them has its elements.
LEMMA SplitPlaces == ASSUME NEW S, NEW s \in Seq(S), NEW n \in 0 .. Len(s)
  PROVE  /\ DOMAIN SubSeq(s, 1, n) = 1 .. n /\ DOMAIN SubSeq(s, n + 1, Len(s)) = 1 .. Len(s) - n
         /\ Len(SubSeq(s, 1, n)) = n /\ Len(SubSeq(s, n + 1, Len(s))) = Len(s) - n
         /\ \A i \in 1 .. n : SubSeq(s, 1, n)[i] = s[i]
         /\ \A i \in 1 .. Len(s) - n : SubSeq(s, n + 1, Len(s))[i] = s[n + i]
OBVIOUS

\* A sequence of a set is one of any wider set.
LEMMA WiderSeq == ASSUME NEW S, NEW T, S \subseteq T, NEW s \in Seq(S)
  PROVE s \in Seq(T)
OBVIOUS

----------------------------------------------------------------------------
(* The steps *)

\* No step takes a queue, a count or a program counter out of its type.
LEMMA DataStep == ASSUME TypeOK, WorkerKnows, PopInv, [Next]_vars PROVE DataOK'
<1> USE DEF TypeOK, DataOK, WorkerSteps, ReaderSteps, Reader, Worker, queueVars, packetVars, bufferVars, outputVars, flagVars, workVars, filterVars, callVars, historyVars
<1>0. CASE StartFails
  BY <1>0 DEF StartFails, Restart
<1>1. CASE StartRunning
  BY <1>1 DEF StartRunning
<1>2. CASE StartThread
  BY <1>2 DEF StartThread, Restart
<1>3. CASE StartTwice
  BY <1>3 DEF StartTwice
<1>4. CASE PushPacket
  <2>1. sent \in Nat /\ 0 \in 0 .. sent /\ sent \in 0 .. sent
    BY DEF TypeOK
  <2>2. /\ pkt_queue' \in Seq(0 .. sent)
        /\ Len(pkt_queue') = Len(pkt_queue) + 1
    BY <1>4, <2>1, AppendFacts DEF PushPacket, NullPacket
  <2> QED
    BY <1>4, <2>2 DEF PushPacket
<1>5. CASE PushBuffer
  BY <1>5 DEF PushBuffer
<1>6. CASE PushCount
  BY <1>6 DEF PushCount
<1>7. CASE PopReturn
  <2>1. reorder_queue # <<>>
    BY <1>7 DEF PopInv, PopReturn
  <2>2. reorder_queue' \in Seq(1 .. sent) /\ Head(reorder_queue) \in 1 .. sent
    BY <1>7, <2>1, TailFacts DEF PopReturn
  <2>3. delivered' \in 0 .. sent /\ frame_count' \in Int
    <3>1. delivered' \in {delivered, Head(reorder_queue)} /\ frame_count' \in {frame_count, frame_count - 1}
      BY <1>7 DEF PopReturn
    <3>2. delivered \in 0 .. sent /\ frame_count \in Int /\ frame_count - 1 \in Int /\ sent \in Nat
      OBVIOUS
    <3> HIDE DEF TypeOK, DataOK, PopInv
    <3>3. Head(reorder_queue) \in 0 .. sent
      BY <2>2, <3>2
    <3> QED BY <3>1, <3>2, <3>3
  <2>4. cpc' = "idle" /\ wpc' = wpc /\ UNCHANGED <<sent, clears, pkt_queue, parser, shown, bframe, old, frame_queue, discard_pts, then>>
    BY <1>7 DEF PopReturn
  <2> QED
    BY <2>2, <2>3, <2>4
<1>8. CASE StopPackets
  BY <1>8 DEF StopPackets
<1>9. CASE StopRun
  BY <1>9 DEF StopRun
<1>10. CASE Join
  BY <1>10 DEF Join
<1>11. CASE Clear
  BY <1>11 DEF Clear
<1>12. CASE StartEnter
  BY <1>12 DEF StartEnter
<1>13. CASE PushEnter
  <2>1. CASE sent' = sent
    BY <1>13, <2>1 DEF PushEnter
  <2>2. CASE sent' = sent + 1 /\ sent < MaxPackets
    <3>1. sent \in Nat /\ sent' \in 0 .. MaxPackets /\ delivered' \in 0 .. sent'
      BY <1>13, <2>2 DEF PushEnter
    <3>2. 0 .. sent \subseteq 0 .. sent' /\ 1 .. sent \subseteq 1 .. sent'
      BY <2>2, <3>1
    <3>3. /\ pkt_queue' \in Seq(0 .. sent') /\ reorder_queue' \in Seq(1 .. sent')
          /\ parser' \in Seq(1 .. sent') /\ shown' \in Seq(1 .. sent')
      BY <1>13, <3>2, WiderSeq DEF PushEnter
    <3>4. old' \subseteq 1 .. sent'
      BY <1>13, <3>2 DEF PushEnter
    <3> QED
      BY <1>13, <3>1, <3>3, <3>4 DEF PushEnter
  <2> QED
    BY <1>13, <2>1, <2>2 DEF PushEnter
<1>14. CASE PushNullDropped
  BY <1>14 DEF PushNullDropped
<1>15. CASE PopFrame
  BY <1>15 DEF PopFrame
<1>16. CASE DiscardPTS
  <2>1. \A p \in delivered + 1 .. MaxPackets : (delivered + 1) .. p \subseteq 1 .. MaxPackets
    OBVIOUS
  <2>2. discard_pts' \subseteq 1 .. MaxPackets
    BY <1>16, <2>1 DEF DiscardPTS
  <2> QED
    BY <1>16, <2>2 DEF DiscardPTS
<1>17. CASE ClearCall
  BY <1>17 DEF ClearCall, CallClear, StopEnter
<1>18. CASE SetCodecContext
  BY <1>18 DEF SetCodecContext, CallClear, StopEnter
<1>19. CASE Destroy
  BY <1>19 DEF Destroy, StopEnter
<1>20. CASE WorkerLoop
  BY <1>20 DEF WorkerLoop
<1>21. CASE WorkerKilled
  BY <1>21 DEF WorkerKilled
<1>22. CASE ParsePacket
  <2>1. Head(pkt_queue) \in 1 .. sent /\ Tail(pkt_queue) \in Seq(0 .. sent) /\ Len(Tail(pkt_queue)) = Len(pkt_queue) - 1
    <3>1. pkt_queue # <<>> /\ Head(pkt_queue) # 0 /\ pkt_queue \in Seq(0 .. sent) /\ sent \in Nat
      BY <1>22 DEF ParsePacket, PopPacket, NullPacket
    <3>2. Head(pkt_queue) \in 0 .. sent /\ Tail(pkt_queue) \in Seq(0 .. sent) /\ Len(Tail(pkt_queue)) = Len(pkt_queue) - 1
      BY <3>1, TailFacts
    <3> QED
      BY <3>1, <3>2
  <2>2. PICK pictures \in {parser, Append(parser, Head(pkt_queue))} :
          \E n \in 0 .. Len(pictures) :
            shown' = SubSeq(pictures, 1, n) /\ parser' = SubSeq(pictures, n + 1, Len(pictures))
    BY <1>22 DEF ParsePacket
  <2>3. pictures \in Seq(1 .. sent)
    <3>1. CASE pictures = parser
      BY <3>1
    <3>2. CASE pictures = Append(parser, Head(pkt_queue))
      BY <2>1, <3>2, AppendFacts
    <3> QED BY <2>2, <3>1, <3>2
  <2>4. shown' \in Seq(1 .. sent) /\ parser' \in Seq(1 .. sent)
    <3>1. PICK n \in 0 .. Len(pictures) :
            shown' = SubSeq(pictures, 1, n) /\ parser' = SubSeq(pictures, n + 1, Len(pictures))
      BY <2>2
    <3> QED
      BY <3>1, <2>3, SplitFacts
  <2>5. bframe' \in {"none", "new", "old"} /\ old' \subseteq old \cup {Head(pkt_queue)}
    BY <1>22 DEF ParsePacket, FilterPacket
  <2>6. old' \subseteq 1 .. sent
    BY <2>1, <2>5
  <2>7. /\ wpc' = "display" /\ pkt_queue' = Tail(pkt_queue)
        /\ UNCHANGED <<cpc, then, reorder_queue, frame_queue, frame_count, discard_pts, sent, delivered, clears>>
    BY <1>22 DEF ParsePacket, PopPacket
  <2> QED
    BY <2>1, <2>4, <2>5, <2>6, <2>7
<1>23. CASE ParseEnd
  <2>1. Tail(pkt_queue) \in Seq(0 .. sent) /\ Len(Tail(pkt_queue)) = Len(pkt_queue) - 1
    BY <1>23, TailFacts DEF ParseEnd, PopPacket, NullPacket
  <2> QED
    BY <1>23, <2>1 DEF ParseEnd, PopPacket, NullPacket
<1>24. CASE ParseFails
  <2>1. Tail(pkt_queue) \in Seq(0 .. sent) /\ Len(Tail(pkt_queue)) = Len(pkt_queue) - 1
    BY <1>24, TailFacts DEF ParseFails, PopPacket
  <2>2. bframe' \in {"none", "new", "old"}
    BY <1>24 DEF ParseFails, FilterPacket
  <2> QED
    BY <1>24, <2>1, <2>2 DEF ParseFails, PopPacket
<1>25. CASE ParseReturns
  BY <1>25 DEF ParseReturns
<1>26. CASE DisplayEnter
  BY <1>26 DEF DisplayEnter
<1>27. CASE TakeBuffer
  BY <1>27 DEF TakeBuffer
<1>28. CASE BufferKilled
  BY <1>28 DEF BufferKilled
<1>29. CASE PutFrame
  <2>1. Head(shown) \in 1 .. sent /\ Tail(shown) \in Seq(1 .. sent)
    BY <1>29, TailFacts DEF WorkerKnows, PutFrame
  <2>2. reorder_queue' \in Seq(1 .. sent)
    BY <1>29, <2>1, AppendFacts DEF PutFrame
  <2> QED
    BY <1>29, <2>1, <2>2 DEF PutFrame
<1>30. CASE FillFails
  BY <1>30 DEF FillFails
<1>31. CASE RecordError
  BY <1>31 DEF RecordError
<1>32. CASE UnblockConsumers
  BY <1>32 DEF UnblockConsumers
<1>33. CASE PushSpins
  BY <1>33 DEF PushSpins, vars
<1>34. CASE UNCHANGED vars
  BY <1>34 DEF vars
<1> QED
  BY <1>0, <1>1, <1>2, <1>3, <1>4, <1>5, <1>6, <1>7, <1>8, <1>9, <1>10, <1>11, <1>12, <1>13, <1>14,
     <1>15, <1>16, <1>17, <1>18, <1>19, <1>20, <1>21, <1>22, <1>23, <1>24, <1>25, <1>26, <1>27, <1>28,
     <1>29, <1>30, <1>31, <1>32, <1>33, <1>34
     DEF Next, ReaderStep, ReaderCall, WorkerStep, Done

\* No step takes a flag out of its type.
LEMMA FlagsStep == ASSUME TypeOK, [Next]_vars PROVE FlagsOK'
<1> USE DEF TypeOK, FlagsOK, Reader, Worker, queueVars, packetVars, bufferVars, outputVars, flagVars, workVars, filterVars, callVars, historyVars
<1>0. CASE StartFails
  BY <1>0, Zenon DEF StartFails, Restart
<1>1. CASE StartRunning \/ StartThread \/ StartTwice \/ PushPacket
  <2>1. CASE StartRunning
    BY <2>1, Zenon DEF StartRunning
  <2>2. CASE StartThread
    BY <2>2, Zenon DEF StartThread, Restart
  <2>3. CASE StartTwice
    BY <2>3, Zenon DEF StartTwice
  <2>4. CASE PushPacket
    BY <2>4, Zenon DEF PushPacket
  <2> QED BY <1>1, <2>1, <2>2, <2>3, <2>4
<1>2. CASE PushBuffer \/ PushCount \/ PopReturn \/ StopPackets
  <2>1. CASE PushBuffer
    BY <2>1, Zenon DEF PushBuffer
  <2>2. CASE PushCount
    BY <2>2, Zenon DEF PushCount
  <2>3. CASE PopReturn
    BY <2>3, Zenon DEF PopReturn
  <2>4. CASE StopPackets
    BY <2>4, Zenon DEF StopPackets
  <2> QED BY <1>2, <2>1, <2>2, <2>3, <2>4
<1>3. CASE StopRun \/ Join \/ Clear \/ StartEnter
  <2>1. CASE StopRun
    BY <2>1, Zenon DEF StopRun
  <2>2. CASE Join
    BY <2>2, Zenon DEF Join
  <2>3. CASE Clear
    BY <2>3, Zenon DEF Clear
  <2>4. CASE StartEnter
    BY <2>4, Zenon DEF StartEnter
  <2> QED BY <1>3, <2>1, <2>2, <2>3, <2>4
<1>4. CASE PushEnter \/ PushNullDropped \/ PopFrame \/ DiscardPTS
  <2>1. CASE PushEnter
    BY <2>1, Zenon DEF PushEnter
  <2>2. CASE PushNullDropped
    BY <2>2, Zenon DEF PushNullDropped
  <2>3. CASE PopFrame
    BY <2>3, Zenon DEF PopFrame
  <2>4. CASE DiscardPTS
    BY <2>4, Zenon DEF DiscardPTS
  <2> QED BY <1>4, <2>1, <2>2, <2>3, <2>4
<1>5. CASE ClearCall \/ SetCodecContext \/ Destroy \/ WorkerLoop
  <2>1. CASE ClearCall
    BY <2>1, Zenon DEF ClearCall, CallClear, StopEnter
  <2>2. CASE SetCodecContext
    BY <2>2, Zenon DEF CallClear, StopEnter, SetCodecContext
  <2>3. CASE Destroy
    BY <2>3, Zenon DEF CallClear, StopEnter, Destroy
  <2>4. CASE WorkerLoop
    BY <2>4, Zenon DEF CallClear, StopEnter, WorkerLoop
  <2> QED BY <1>5, <2>1, <2>2, <2>3, <2>4
<1>6. CASE WorkerKilled \/ ParsePacket \/ ParseEnd \/ ParseFails
  <2>1. CASE WorkerKilled
    BY <2>1, Zenon DEF WorkerKilled
  <2>2. CASE ParsePacket
    BY <2>2, Zenon DEF ParsePacket, PopPacket, NullPacket
  <2>3. CASE ParseEnd
    BY <2>3, Zenon DEF PopPacket, NullPacket, ParseEnd
  <2>4. CASE ParseFails
    BY <2>4, Zenon DEF PopPacket, NullPacket, ParseFails
  <2> QED BY <1>6, <2>1, <2>2, <2>3, <2>4
<1>7. CASE ParseReturns \/ DisplayEnter \/ TakeBuffer \/ BufferKilled
  <2>1. CASE ParseReturns
    BY <2>1, Zenon DEF ParseReturns
  <2>2. CASE DisplayEnter
    BY <2>2, Zenon DEF DisplayEnter
  <2>3. CASE TakeBuffer
    BY <2>3, Zenon DEF TakeBuffer
  <2>4. CASE BufferKilled
    BY <2>4, Zenon DEF BufferKilled
  <2> QED BY <1>7, <2>1, <2>2, <2>3, <2>4
<1>8. CASE PutFrame \/ FillFails \/ RecordError \/ UnblockConsumers
  <2>1. CASE PutFrame
    BY <2>1, Zenon DEF PutFrame
  <2>2. CASE FillFails
    BY <2>2, Zenon DEF FillFails
  <2>3. CASE RecordError
    BY <2>3, Zenon DEF RecordError
  <2>4. CASE UnblockConsumers
    BY <2>4, Zenon DEF UnblockConsumers
  <2> QED BY <1>8, <2>1, <2>2, <2>3, <2>4
<1>9. CASE PushSpins
  BY <1>9, Zenon DEF PushSpins, vars
<1>10. CASE UNCHANGED vars
  BY <1>10, Zenon DEF vars
<1> QED
  BY <1>0, <1>1, <1>2, <1>3, <1>4, <1>5, <1>6, <1>7, <1>8, <1>9, <1>10
     DEF Next, ReaderStep, ReaderCall, WorkerStep, Done

\* The threads stay where Control says.
LEMMA ControlStep == ASSUME TypeOK, Control, [Next]_vars PROVE Control'
<1> USE DEF Control, TypeOK, DataOK, WorkerSteps, ReaderSteps, Stopping, Reader, Worker, queueVars, packetVars,
      bufferVars, outputVars, flagVars, workVars, filterVars, callVars, historyVars
<1>0. CASE StartFails
  BY <1>0 DEF StartFails, Restart
<1>1. CASE StartRunning
  BY <1>1 DEF StartRunning
<1>2. CASE StartThread
  BY <1>2 DEF StartThread, Restart
<1>3. CASE StartTwice
  BY <1>3 DEF StartTwice
<1>4. CASE PushPacket
  BY <1>4 DEF PushPacket
<1>5. CASE PushBuffer
  BY <1>5 DEF PushBuffer
<1>6. CASE PushCount
  BY <1>6 DEF PushCount
<1>7. CASE PopReturn
  BY <1>7 DEF PopReturn
<1>8. CASE StopPackets
  BY <1>8 DEF StopPackets
<1>9. CASE StopRun
  BY <1>9 DEF StopRun
<1>10. CASE Join
  BY <1>10 DEF Join
<1>11. CASE Clear
  BY <1>11 DEF Clear
<1>12. CASE StartEnter
  BY <1>12 DEF StartEnter
<1>13. CASE PushEnter
  BY <1>13 DEF PushEnter
<1>14. CASE PushNullDropped
  BY <1>14 DEF PushNullDropped
<1>15. CASE PopFrame
  BY <1>15 DEF PopFrame
<1>16. CASE DiscardPTS
  BY <1>16 DEF DiscardPTS
<1>17. CASE ClearCall
  BY <1>17 DEF ClearCall, CallClear, StopEnter
<1>18. CASE SetCodecContext
  BY <1>18 DEF SetCodecContext, CallClear, StopEnter
<1>19. CASE Destroy
  BY <1>19 DEF Destroy, StopEnter
<1>20. CASE WorkerLoop
  BY <1>20 DEF WorkerLoop
<1>21. CASE WorkerKilled
  BY <1>21 DEF WorkerKilled
<1>22. CASE ParsePacket
  BY <1>22 DEF ParsePacket, PopPacket
<1>23. CASE ParseEnd
  BY <1>23 DEF ParseEnd, PopPacket
<1>24. CASE ParseFails
  BY <1>24 DEF ParseFails, PopPacket
<1>25. CASE ParseReturns
  BY <1>25 DEF ParseReturns
<1>26. CASE DisplayEnter
  BY <1>26 DEF DisplayEnter
<1>27. CASE TakeBuffer
  BY <1>27 DEF TakeBuffer
<1>28. CASE BufferKilled
  BY <1>28 DEF BufferKilled
<1>29. CASE PutFrame
  BY <1>29 DEF PutFrame
<1>30. CASE FillFails
  BY <1>30 DEF FillFails
<1>31. CASE RecordError
  BY <1>31 DEF RecordError
<1>32. CASE UnblockConsumers
  BY <1>32 DEF UnblockConsumers
<1>33. CASE UNCHANGED vars
  BY <1>33 DEF vars
<1> QED BY <1>0, <1>1, <1>2, <1>3, <1>4, <1>5, <1>6, <1>7, <1>8, <1>9, <1>10, <1>11, <1>12, <1>13, <1>14, <1>15, <1>16, <1>17, <1>18,
  <1>19, <1>20, <1>21, <1>22, <1>23, <1>24, <1>25, <1>26, <1>27, <1>28, <1>29, <1>30, <1>31, <1>32, <1>33
  DEF Next, ReaderStep, ReaderCall, WorkerStep, PushSpins, Done

\* The worker's picture and the reader's frame stay until they are taken.
LEMMA KnowsStep == ASSUME TypeOK, WorkerKnows, PopInv, Control, [Next]_vars PROVE (WorkerKnows /\ PopInv)'
<1> USE DEF WorkerKnows, PopInv, TypeOK, DataOK, Reader, Worker, queueVars, packetVars, bufferVars, outputVars, flagVars, workVars, filterVars, callVars, historyVars
<1>0. CASE StartFails
  BY <1>0 DEF StartFails, Restart, Control, Stopping
<1>1. CASE StartRunning \/ StartThread \/ StartTwice
  <2>1. CASE StartRunning
    BY <2>1 DEF StartRunning
  <2>2. CASE StartThread
    BY <2>2 DEF StartThread, Restart
  <2>3. CASE StartTwice
    BY <2>3 DEF StartTwice
  <2> QED BY <1>1, <2>1, <2>2, <2>3
<1>2. CASE PushPacket \/ PushBuffer \/ PushCount
  BY <1>2 DEF PushPacket, NullPacket, PushBuffer, PushCount
<1>3. CASE PopReturn \/ StopPackets \/ StopRun
  BY <1>3 DEF PopReturn, StopPackets, StopRun
<1>4. CASE Join \/ Clear \/ StartEnter
  BY <1>4 DEF Join, Clear, StartEnter
<1>5. CASE PushEnter \/ PushNullDropped \/ PopFrame
  BY <1>5 DEF PushEnter, PushNullDropped, PopFrame
<1>6. CASE DiscardPTS \/ ClearCall \/ SetCodecContext
  BY <1>6 DEF DiscardPTS, ClearCall, CallClear, StopEnter, SetCodecContext
<1>7. CASE Destroy \/ WorkerLoop \/ WorkerKilled
  BY <1>7 DEF Destroy, StopEnter, WorkerLoop, WorkerKilled
<1>8. CASE ParsePacket \/ ParseEnd \/ ParseFails
  BY <1>8 DEF ParsePacket, PopPacket, NullPacket, ParseEnd, ParseFails
<1>9. CASE ParseReturns \/ DisplayEnter \/ TakeBuffer
  BY <1>9 DEF ParseReturns, DisplayEnter, TakeBuffer
<1>10. CASE BufferKilled \/ FillFails
  BY <1>10 DEF BufferKilled, FillFails
<1>11. CASE PutFrame
  <2> DEFINE shows == Append(reorder_queue, Head(shown))
  <2>1. reorder_queue' = shows
    BY <1>11 DEF PutFrame
  <2>2. shown # <<>>
    BY <1>11 DEF PutFrame
  <2>3. Len(shows) = Len(reorder_queue) + 1 /\ Len(reorder_queue) \in Nat
    BY <2>2, AppendFacts, TailFacts
  <2> HIDE DEF shows
  <2>4. shows # <<>>
    BY <2>3
  <2>5. wpc' = "display"
    BY <1>11 DEF PutFrame
  <2> QED BY <2>1, <2>4, <2>5
<1>12. CASE RecordError \/ UnblockConsumers \/ PushSpins
  BY <1>12 DEF RecordError, UnblockConsumers, PushSpins, vars
<1>13. CASE UNCHANGED vars
  BY <1>13 DEF vars
<1> QED
  BY <1>0, <1>1, <1>2, <1>3, <1>4, <1>5, <1>6, <1>7, <1>8, <1>9, <1>10, <1>11, <1>12, <1>13
     DEF Next, ReaderStep, ReaderCall, WorkerStep, Done

\* A packet comes with a buffer, and goes with one or with none.
LEMMA BuffersStep == ASSUME IInv, [Next]_vars PROVE BuffersSuffice'
<1> USE DEF IInv, BuffersSuffice, One, TypeOK, DataOK, Reader, Worker, queueVars, packetVars, bufferVars, outputVars, flagVars, workVars, filterVars, callVars, historyVars
<1>0. CASE StartFails
  BY <1>0 DEF StartFails, Restart
<1>1. CASE StartRunning
  BY <1>1 DEF StartRunning
<1>2. CASE StartThread
  BY <1>2 DEF StartThread, Restart
<1>3. CASE StartTwice
  BY <1>3 DEF StartTwice
<1>4. CASE PushPacket
  <2>1. Len(pkt_queue') = Len(pkt_queue) + 1
    BY <1>4 DEF PushPacket
  <2> QED
    BY <1>4, <2>1 DEF PushPacket
<1>5. CASE PushBuffer
  BY <1>5 DEF PushBuffer
<1>6. CASE PushCount
  BY <1>6 DEF PushCount
<1>7. CASE PopReturn
  BY <1>7 DEF PopReturn
<1>8. CASE StopPackets
  BY <1>8 DEF StopPackets
<1>9. CASE StopRun
  BY <1>9 DEF StopRun
<1>10. CASE Join
  BY <1>10 DEF Join
<1>11. CASE Clear
  BY <1>11 DEF Clear
<1>12. CASE StartEnter
  BY <1>12 DEF StartEnter
<1>13. CASE PushEnter
  BY <1>13 DEF PushEnter
<1>14. CASE PushNullDropped
  BY <1>14 DEF PushNullDropped
<1>15. CASE PopFrame
  BY <1>15 DEF PopFrame
<1>16. CASE DiscardPTS
  BY <1>16 DEF DiscardPTS
<1>17. CASE ClearCall
  BY <1>17 DEF ClearCall, CallClear, StopEnter
<1>18. CASE SetCodecContext
  BY <1>18 DEF SetCodecContext, CallClear, StopEnter
<1>19. CASE Destroy
  BY <1>19 DEF Destroy, StopEnter
<1>20. CASE WorkerLoop
  BY <1>20 DEF WorkerLoop
<1>21. CASE WorkerKilled
  BY <1>21 DEF WorkerKilled
<1>22. CASE ParsePacket
  <2>1. Head(pkt_queue) \in 1 .. sent /\ Len(Tail(pkt_queue)) = Len(pkt_queue) - 1
    <3>1. pkt_queue # <<>> /\ Head(pkt_queue) # 0 /\ pkt_queue \in Seq(0 .. sent) /\ sent \in Nat
      BY <1>22 DEF ParsePacket, PopPacket, NullPacket
    <3>2. Head(pkt_queue) \in 0 .. sent /\ Len(Tail(pkt_queue)) = Len(pkt_queue) - 1
      BY <3>1, TailFacts
    <3> QED
      BY <3>1, <3>2
  <2>2. PICK pictures \in {parser, Append(parser, Head(pkt_queue))} :
          \E n \in 0 .. Len(pictures) :
            shown' = SubSeq(pictures, 1, n) /\ parser' = SubSeq(pictures, n + 1, Len(pictures))
    BY <1>22 DEF ParsePacket
  <2>3. pictures \in Seq(1 .. sent) /\ Len(pictures) \in Nat /\ Len(pictures) <= Len(parser) + 1
    <3>1. CASE pictures = parser
      BY <3>1
    <3>2. CASE pictures = Append(parser, Head(pkt_queue))
      <4>1. parser \in Seq(1 .. sent) /\ Len(parser) \in Nat
        OBVIOUS
      <4>2. pictures \in Seq(1 .. sent) /\ Len(pictures) = Len(parser) + 1
        BY <4>1, <3>2, <2>1, AppendFacts
      <4> QED
        BY <4>1, <4>2
    <3> QED
      BY <2>2, <3>1, <3>2
  <2>4. PICK n \in 0 .. Len(pictures) :
          shown' = SubSeq(pictures, 1, n) /\ parser' = SubSeq(pictures, n + 1, Len(pictures))
    BY <2>2
  <2>5. Len(shown') = n /\ Len(parser') = Len(pictures) - n
    BY <2>3, <2>4, SplitFacts
  <2>6. /\ wpc = "pop" /\ wpc' = "display" /\ cpc' = cpc /\ frame_queue' = frame_queue
        /\ Len(pkt_queue') = Len(pkt_queue) - 1
    BY <1>22, <2>1 DEF ParsePacket, PopPacket
  <2>7. frame_queue + One(cpc = "push_buffer") >= Len(pkt_queue) + Len(parser) + Len(shown)
    BY <2>6
  <2>8. Len(shown') + Len(parser') = Len(pictures)
    BY <2>3, <2>5
  <2>9. Len(pkt_queue) \in Nat /\ Len(parser) \in Nat /\ Len(shown) \in Nat /\ frame_queue \in Nat
    OBVIOUS
  <2>10. frame_queue' + One(cpc = "push_buffer")' >= Len(pkt_queue)' + Len(parser)' + Len(shown)'
    <3>1. One(cpc = "push_buffer")' = One(cpc = "push_buffer") /\ One(cpc = "push_buffer") \in 0 .. 1
      BY <2>6
    <3>2. Len(shown') + Len(parser') <= Len(parser) + 1 /\ Len(shown') \in Nat /\ Len(parser') \in Nat
      BY <2>3, <2>5, <2>8
    <3> DEFINE q == Len(pkt_queue)
               p == Len(parser)
               s == Len(shown)
               o == One(cpc = "push_buffer")
    <3>3. Len(pkt_queue)' = q - 1 /\ frame_queue' = frame_queue /\ frame_queue + o >= q + p + s
      BY <2>6, <2>7
    <3>4. Len(parser)' + Len(shown)' <= p + 1 /\ One(cpc = "push_buffer")' = o
      BY <3>1, <3>2
    <3>5. q \in Nat /\ p \in Nat /\ s \in Nat /\ o \in Nat /\ frame_queue \in Nat
          /\ Len(parser)' \in Nat /\ Len(shown)' \in Nat
      BY <2>9, <3>1, <3>2
    <3> HIDE DEF q, p, s, o, IInv, BuffersSuffice, TypeOK, DataOK, One
    <3> QED BY <3>3, <3>4, <3>5
  <2>11. One(wpc = "fill")' = 0
    BY <2>6
  <2> QED
    BY <2>6, <2>10, <2>11
<1>23. CASE ParseEnd
  <2>1. Len(Tail(pkt_queue)) = Len(pkt_queue) - 1
    BY <1>23, TailFacts DEF ParseEnd, PopPacket, NullPacket
  <2> QED
    BY <1>23, <2>1 DEF ParseEnd, PopPacket, NullPacket
<1>24. CASE ParseFails
  <2>1. Len(Tail(pkt_queue)) = Len(pkt_queue) - 1
    BY <1>24, TailFacts DEF ParseFails, PopPacket
  <2> QED
    BY <1>24, <2>1 DEF ParseFails, PopPacket
<1>25. CASE ParseReturns
  BY <1>25 DEF ParseReturns
<1>26. CASE DisplayEnter
  BY <1>26 DEF DisplayEnter
<1>27. CASE TakeBuffer
  BY <1>27 DEF TakeBuffer
<1>28. CASE BufferKilled
  BY <1>28 DEF BufferKilled
<1>29. CASE PutFrame
  <2>1. /\ wpc = "fill" /\ wpc' = "display" /\ cpc' = cpc /\ frame_queue' = frame_queue
        /\ pkt_queue' = pkt_queue /\ parser' = parser /\ shown' = Tail(shown)
    BY <1>29 DEF PutFrame
  <2>2. shown # <<>> /\ shown \in Seq(1 .. sent)
    BY <2>1 DEF WorkerKnows
  <2>3. Len(shown') = Len(shown) - 1 /\ Len(shown) \in Nat
    BY <2>1, <2>2, TailFacts
  <2>4. frame_queue + One(cpc = "push_buffer") >= Len(pkt_queue) + Len(parser) + Len(shown) - 1
    BY <2>1
  <2>5. Len(pkt_queue) \in Nat /\ Len(parser) \in Nat /\ frame_queue \in Nat
    OBVIOUS
  <2>6. frame_queue' + One(cpc = "push_buffer")' >= Len(pkt_queue)' + Len(parser)' + Len(shown)'
    BY <2>1, <2>3, <2>4, <2>5
  <2>7. One(wpc = "fill")' = 0
    BY <2>1
  <2>8. Len(pkt_queue)' + Len(parser)' + Len(shown)' \in Int
    BY <2>1, <2>3, <2>5
  <2>9. Len(pkt_queue)' + Len(parser)' + Len(shown)' - 0 = Len(pkt_queue)' + Len(parser)' + Len(shown)'
    BY <2>8
  <2> QED
    BY <2>6, <2>7, <2>9
<1>30. CASE FillFails
  BY <1>30 DEF FillFails
<1>31. CASE RecordError
  BY <1>31 DEF RecordError
<1>32. CASE UnblockConsumers
  BY <1>32 DEF UnblockConsumers
<1>33. CASE PushSpins
  BY <1>33 DEF PushSpins, vars
<1>34. CASE UNCHANGED vars
  BY <1>34 DEF vars
<1> QED
  BY <1>0, <1>1, <1>2, <1>3, <1>4, <1>5, <1>6, <1>7, <1>8, <1>9, <1>10, <1>11, <1>12, <1>13, <1>14,
     <1>15, <1>16, <1>17, <1>18, <1>19, <1>20, <1>21, <1>22, <1>23, <1>24, <1>25, <1>26, <1>27, <1>28,
     <1>29, <1>30, <1>31, <1>32, <1>33, <1>34
     DEF Next, ReaderStep, ReaderCall, WorkerStep, Done

----------------------------------------------------------------------------
(* The theorems *)

\* The invariant is inductive.
LEMMA InductiveInvariant ==
  /\ Init => IInv
  /\ IInv /\ [Next]_vars => IInv'
<1>1. Init => IInv
  <2> SUFFICES ASSUME Init PROVE IInv
    OBVIOUS
  <2>1. FlagsOK
    BY Zenon DEF Init, FlagsOK
  <2>2. DataOK
    BY DEF Init, DataOK, WorkerSteps, ReaderSteps
  <2>3. WorkerKnows /\ PopInv /\ Control /\ BuffersSuffice
    BY DEF Init, WorkerKnows, PopInv, Control, Stopping, BuffersSuffice
  <2> QED
    BY <2>1, <2>2, <2>3 DEF IInv, TypeOK
<1>2. IInv /\ [Next]_vars => IInv'
  BY DataStep, FlagsStep, KnowsStep, ControlStep, BuffersStep DEF IInv, TypeOK
<1> QED
  BY <1>1, <1>2

\* Packets and frames are of packets pushed, the queue of packets keeps its limit, and no
\* buffer is taken that is not there (Push, HandlePictureDisplay).
THEOREM TypeTheorem == Spec => []TypeOK
<1>1. IInv => TypeOK
  BY DEF IInv
<1> QED
  BY <1>1, InductiveInvariant, PTL DEF Spec

\* The callback that waits for a buffer waits for one the reader is pushing, and not for a
\* reader that waits for the callback (Push waits for pkt_queue_ before it pushes the buffer).
THEOREM NoEmbraceTheorem == Spec => []NoEmbrace
<1>1. IInv => NoEmbrace
  <2> SUFFICES ASSUME IInv, wpc = "buffer", frame_queue = 0, ~frame_exit PROVE cpc = "push_buffer"
    BY DEF NoEmbrace
  <2>1. shown # <<>> /\ shown \in Seq(1 .. sent)
    BY DEF IInv, WorkerKnows, TypeOK, DataOK
  <2>2. Len(shown) \in Nat /\ Len(shown) > 0
    BY <2>1
  <2>3. Len(pkt_queue) \in Nat /\ Len(parser) \in Nat
    BY DEF IInv, TypeOK, DataOK
  <2>4. frame_queue + One(cpc = "push_buffer") >= Len(pkt_queue) + Len(parser) + Len(shown) - One(FALSE)
    BY DEF IInv, BuffersSuffice, One
  <2> QED
    BY <2>2, <2>3, <2>4 DEF One
<1> QED
  BY <1>1, InductiveInvariant, PTL DEF Spec

----------------------------------------------------------------------------
(***************************************************************************)
(* The GPU decoder implements FrameStream too: what is on its way, from the *)
(* packets over the parser and the picture being displayed to the queue of  *)
(* frames, is in the order of its pushing.                                  *)
(***************************************************************************)

Queue == ToSet(reorder_queue)
Shown == ToSet(shown)
Parser == ToSet(parser)
Packets == ToSet(pkt_queue) \ {NullPacket}
Fed == IF cpc = "push_full" /\ ~eof THEN sent - 1 ELSE sent
Below(S, T) == \A x \in S, y \in T : x < y

Places ==
  /\ Below(Queue, Shown \cup Parser \cup Packets)
  /\ Below(Shown, Parser \cup Packets)
  /\ Below(Parser, Packets)

Ascends(s) == \A i, j \in 1 .. Len(s) : i < j => s[i] < s[j]
\* The null packet comes last.
PacketsAscend(s) ==
  \A i, j \in 1 .. Len(s) : i < j => s[i] # NullPacket /\ (s[j] = NullPacket \/ s[i] < s[j])

InOrder ==
  /\ Places
  /\ Ascends(reorder_queue) /\ Ascends(shown) /\ Ascends(parser) /\ PacketsAscend(pkt_queue)
  /\ \A p \in Queue \cup Shown \cup Parser \cup Packets : p <= Fed
  /\ NullPacket \in ToSet(pkt_queue) => eof /\ cpc # "push_full"

StreamInv == IInv /\ (~NoStream => InOrder)

(* Sequences as sets, and in order *)

\* The elements of a sequence are those at its places.
LEMMA SetOf == ASSUME NEW S, NEW s \in Seq(S)
  PROVE \A x : x \in ToSet(s) <=> \E i \in 1 .. Len(s) : s[i] = x
BY DEF ToSet

LEMMA AppendSet == ASSUME NEW S, NEW s \in Seq(S), NEW e \in S
  PROVE ToSet(Append(s, e)) = ToSet(s) \cup {e}
<1>1. /\ Append(s, e) \in Seq(S) /\ Len(Append(s, e)) = Len(s) + 1 /\ Len(s) \in Nat
      /\ \A i \in 1 .. Len(s) : Append(s, e)[i] = s[i]
      /\ Append(s, e)[Len(s) + 1] = e
  BY AppendFacts
<1>2. \A x : x \in ToSet(Append(s, e)) <=> \E i \in 1 .. Len(s) + 1 : Append(s, e)[i] = x
  <2>1. DOMAIN Append(s, e) = 1 .. Len(s) + 1
    BY <1>1
  <2> QED BY <2>1 DEF ToSet
<1>3. \A x : x \in ToSet(s) <=> \E i \in 1 .. Len(s) : s[i] = x
  BY SetOf
<1>4. ASSUME NEW x \in ToSet(Append(s, e)) PROVE x \in ToSet(s) \cup {e}
  <2>1. PICK i \in 1 .. Len(s) + 1 : Append(s, e)[i] = x
    BY <1>2
  <2>2. i \in 1 .. Len(s) \/ i = Len(s) + 1
    BY <1>1
  <2> QED BY <1>1, <1>3, <2>1, <2>2
<1>5. ASSUME NEW x \in ToSet(s) \cup {e} PROVE x \in ToSet(Append(s, e))
  <2>1. CASE x = e
    BY <1>1, <1>2, <2>1
  <2>2. CASE x \in ToSet(s)
    <3>1. PICK i \in 1 .. Len(s) : s[i] = x
      BY <1>3, <2>2
    <3>2. i \in 1 .. Len(s) + 1 /\ Append(s, e)[i] = x
      BY <1>1, <3>1
    <3> QED BY <1>2, <3>2
  <2> QED BY <2>1, <2>2
<1> QED BY <1>4, <1>5

LEMMA TailSet == ASSUME NEW S, NEW s \in Seq(S), s # <<>>
  PROVE /\ ToSet(s) = ToSet(Tail(s)) \cup {Head(s)}
        /\ \A x \in ToSet(Tail(s)) : \E i \in 1 .. Len(s) - 1 : Tail(s)[i] = x
<1>1. /\ Len(s) \in Nat \ {0} /\ Head(s) = s[1] /\ Tail(s) \in Seq(S) /\ Len(Tail(s)) = Len(s) - 1
      /\ \A i \in 1 .. Len(s) - 1 : Tail(s)[i] = s[i + 1]
  BY TailFacts
<1>2. \A x : x \in ToSet(Tail(s)) <=> \E i \in 1 .. Len(s) - 1 : Tail(s)[i] = x
  <2>1. DOMAIN Tail(s) = 1 .. Len(s) - 1
    BY <1>1
  <2> QED BY <2>1 DEF ToSet
<1>3. \A x : x \in ToSet(s) <=> \E i \in 1 .. Len(s) : s[i] = x
  BY SetOf
<1>4. ASSUME NEW x \in ToSet(s) PROVE x \in ToSet(Tail(s)) \cup {Head(s)}
  <2>1. PICK i \in 1 .. Len(s) : s[i] = x
    BY <1>3
  <2>2. CASE i = 1
    BY <1>1, <2>1, <2>2
  <2>3. CASE i # 1
    <3>1. i - 1 \in 1 .. Len(s) - 1 /\ (i - 1) + 1 = i
      BY <1>1, <2>3
    <3>2. Tail(s)[i - 1] = x
      BY <1>1, <2>1, <3>1
    <3> QED BY <1>2, <3>1, <3>2
  <2> QED BY <2>2, <2>3
<1>5. ASSUME NEW x \in ToSet(Tail(s)) PROVE x \in ToSet(s)
  <2>1. PICK i \in 1 .. Len(s) - 1 : Tail(s)[i] = x
    BY <1>2
  <2>2. i + 1 \in 1 .. Len(s) /\ s[i + 1] = x
    BY <1>1, <2>1
  <2> QED BY <1>3, <2>2
<1>6. Head(s) \in ToSet(s)
  BY <1>1, <1>3
<1> QED BY <1>2, <1>4, <1>5, <1>6

LEMMA NoSet == ToSet(<<>>) = {}
<1>1. DOMAIN <<>> = {}
  OBVIOUS
<1> QED BY <1>1 DEF ToSet

\* What a queue in order gives first, and what may be put behind it.
LEMMA AscendsTail == ASSUME NEW s \in Seq(Nat), s # <<>>, Ascends(s)
  PROVE Ascends(Tail(s)) /\ \A x \in ToSet(Tail(s)) : Head(s) < x
<1>1. /\ Len(s) \in Nat \ {0} /\ Head(s) = s[1] /\ Tail(s) \in Seq(Nat) /\ Len(Tail(s)) = Len(s) - 1
      /\ \A i \in 1 .. Len(s) - 1 : Tail(s)[i] = s[i + 1]
  BY TailFacts
<1>2. Ascends(Tail(s))
  BY <1>1 DEF Ascends
<1>3. ASSUME NEW x \in ToSet(Tail(s)) PROVE Head(s) < x
  <2>1. PICK i \in 1 .. Len(s) - 1 : x = Tail(s)[i]
    BY TailSet
  <2>2. i + 1 \in 1 .. Len(s) /\ 1 \in 1 .. Len(s) /\ 1 < i + 1 /\ x = s[i + 1]
    BY <1>1, <2>1
  <2> QED BY <1>1, <2>2 DEF Ascends
<1> QED BY <1>2, <1>3

LEMMA AscendsAppend == ASSUME NEW s \in Seq(Nat), NEW e \in Nat, Ascends(s), \A x \in ToSet(s) : x < e
  PROVE Ascends(Append(s, e))
<1>1. /\ Len(Append(s, e)) = Len(s) + 1 /\ Len(s) \in Nat
      /\ \A i \in 1 .. Len(s) : Append(s, e)[i] = s[i]
      /\ Append(s, e)[Len(s) + 1] = e
  BY AppendFacts
<1>2. \A i \in 1 .. Len(s) : s[i] < e
  BY SetOf
<1> SUFFICES ASSUME NEW i \in 1 .. Len(s) + 1, NEW j \in 1 .. Len(s) + 1, i < j
             PROVE  Append(s, e)[i] < Append(s, e)[j]
  BY <1>1 DEF Ascends
<1>3. i \in 1 .. Len(s) /\ (j \in 1 .. Len(s) \/ j = Len(s) + 1)
  BY <1>1
<1> QED BY <1>1, <1>2, <1>3 DEF Ascends

LEMMA PacketsTail == ASSUME NEW s \in Seq(Nat), s # <<>>, PacketsAscend(s)
  PROVE /\ PacketsAscend(Tail(s))
        /\ \A x \in ToSet(Tail(s)) : x = NullPacket \/ Head(s) < x
        /\ Head(s) = NullPacket => Tail(s) = <<>>
<1>1. /\ Len(s) \in Nat \ {0} /\ Head(s) = s[1] /\ Tail(s) \in Seq(Nat) /\ Len(Tail(s)) = Len(s) - 1
      /\ \A i \in 1 .. Len(s) - 1 : Tail(s)[i] = s[i + 1]
  BY TailFacts
<1>2. PacketsAscend(Tail(s))
  BY <1>1 DEF PacketsAscend
<1>3. ASSUME NEW x \in ToSet(Tail(s)) PROVE x = NullPacket \/ Head(s) < x
  <2>1. PICK i \in 1 .. Len(s) - 1 : x = Tail(s)[i]
    BY TailSet
  <2>2. i + 1 \in 1 .. Len(s) /\ 1 \in 1 .. Len(s) /\ 1 < i + 1 /\ x = s[i + 1]
    BY <1>1, <2>1
  <2> QED BY <1>1, <2>2 DEF PacketsAscend
<1>4. ASSUME Head(s) = NullPacket PROVE Tail(s) = <<>>
  <2>1. ~(2 \in 1 .. Len(s))
    BY <1>1, <1>4 DEF PacketsAscend
  <2> QED BY <1>1, <2>1
<1> QED BY <1>2, <1>3, <1>4

LEMMA PacketsAppend ==
  ASSUME NEW s \in Seq(Nat), NEW e \in Nat, PacketsAscend(s), NullPacket \notin ToSet(s),
         e = NullPacket \/ \A x \in ToSet(s) : x < e
  PROVE  PacketsAscend(Append(s, e))
<1>1. /\ Len(Append(s, e)) = Len(s) + 1 /\ Len(s) \in Nat
      /\ \A i \in 1 .. Len(s) : Append(s, e)[i] = s[i]
      /\ Append(s, e)[Len(s) + 1] = e
  BY AppendFacts
<1>2. \A i \in 1 .. Len(s) : s[i] # NullPacket /\ (e = NullPacket \/ s[i] < e)
  BY SetOf
<1> SUFFICES ASSUME NEW i \in 1 .. Len(s) + 1, NEW j \in 1 .. Len(s) + 1, i < j
             PROVE  /\ Append(s, e)[i] # NullPacket
                    /\ Append(s, e)[j] = NullPacket \/ Append(s, e)[i] < Append(s, e)[j]
  BY <1>1 DEF PacketsAscend
<1>3. i \in 1 .. Len(s) /\ (j \in 1 .. Len(s) \/ j = Len(s) + 1)
  BY <1>1
<1> QED BY <1>1, <1>2, <1>3 DEF PacketsAscend

\* Both parts of a sequence in order are, and what is in the first is before what is in the second.
LEMMA AscendsSplit == ASSUME NEW s \in Seq(Nat), NEW n \in 0 .. Len(s), Ascends(s)
  PROVE /\ ToSet(SubSeq(s, 1, n)) \cup ToSet(SubSeq(s, n + 1, Len(s))) = ToSet(s)
        /\ Below(ToSet(SubSeq(s, 1, n)), ToSet(SubSeq(s, n + 1, Len(s))))
        /\ Ascends(SubSeq(s, 1, n)) /\ Ascends(SubSeq(s, n + 1, Len(s)))
<1> DEFINE a == SubSeq(s, 1, n)
           b == SubSeq(s, n + 1, Len(s))
<1>1. /\ DOMAIN a = 1 .. n /\ DOMAIN b = 1 .. Len(s) - n /\ Len(a) = n /\ Len(b) = Len(s) - n
      /\ \A i \in 1 .. n : a[i] = s[i]
      /\ \A i \in 1 .. Len(s) - n : b[i] = s[n + i]
  BY SplitPlaces
<1>2. Len(s) \in Nat /\ n \in Nat /\ n <= Len(s)
  OBVIOUS
<1>3. \A x : x \in ToSet(s) <=> \E i \in 1 .. Len(s) : s[i] = x
  BY SetOf
<1> HIDE DEF a, b
<1>4. \A x : x \in ToSet(a) <=> \E i \in 1 .. n : s[i] = x
  <2>1. \A x : x \in ToSet(a) <=> \E i \in DOMAIN a : a[i] = x
    BY Zenon DEF ToSet
  <2> QED BY <1>1, <2>1
<1>5. \A x : x \in ToSet(b) <=> \E i \in 1 .. Len(s) - n : s[n + i] = x
  <2>1. \A x : x \in ToSet(b) <=> \E i \in DOMAIN b : b[i] = x
    BY Zenon DEF ToSet
  <2>2. DOMAIN b = 1 .. Len(s) - n
    BY <1>1
  <2>3. \A i \in 1 .. Len(s) - n : b[i] = s[n + i]
    BY <1>1
  <2> QED BY <2>1, <2>2, <2>3, Zenon
<1>6. ASSUME NEW x \in ToSet(s) PROVE x \in ToSet(a) \cup ToSet(b)
  <2>1. PICK i \in 1 .. Len(s) : s[i] = x
    BY <1>3
  <2>2. CASE i <= n
    BY <1>2, <1>4, <2>1, <2>2
  <2>3. CASE i > n
    <3>1. i - n \in 1 .. Len(s) - n /\ n + (i - n) = i
      BY <1>2, <2>3
    <3> QED BY <1>5, <2>1, <3>1
  <2> QED BY <1>2, <2>2, <2>3
<1>7. ASSUME NEW x \in ToSet(a) \cup ToSet(b) PROVE x \in ToSet(s)
  <2>1. CASE x \in ToSet(a)
    BY <1>2, <1>3, <1>4, <2>1
  <2>2. CASE x \in ToSet(b)
    <3>1. PICK i \in 1 .. Len(s) - n : s[n + i] = x
      BY <1>5, <2>2
    <3>2. n + i \in 1 .. Len(s)
      BY <1>2
    <3> QED BY <1>3, <3>1, <3>2
  <2> QED BY <2>1, <2>2
<1>8. ASSUME NEW x \in ToSet(a), NEW y \in ToSet(b) PROVE x < y
  <2>1. PICK i \in 1 .. n : s[i] = x
    BY <1>4
  <2>2. PICK j \in 1 .. Len(s) - n : s[n + j] = y
    BY <1>5
  <2>3. i \in 1 .. Len(s) /\ n + j \in 1 .. Len(s) /\ i < n + j
    BY <1>2
  <2> QED BY <2>1, <2>2, <2>3 DEF Ascends
<1>9. Ascends(a)
  <2> SUFFICES ASSUME NEW i \in 1 .. n, NEW j \in 1 .. n, i < j PROVE a[i] < a[j]
    BY <1>1 DEF Ascends
  <2>1. i \in 1 .. Len(s) /\ j \in 1 .. Len(s)
    BY <1>2
  <2> QED BY <1>1, <2>1 DEF Ascends
<1>10. Ascends(b)
  <2> SUFFICES ASSUME NEW i \in 1 .. Len(s) - n, NEW j \in 1 .. Len(s) - n, i < j PROVE b[i] < b[j]
    BY <1>1 DEF Ascends
  <2>1. n + i \in 1 .. Len(s) /\ n + j \in 1 .. Len(s) /\ n + i < n + j
    BY <1>2
  <2> QED BY <1>1, <2>1 DEF Ascends
<1> QED BY <1>6, <1>7, <1>8, <1>9, <1>10 DEF Below, a, b

----------------------------------------------------------------------------
(* The steps *)

\* What is on its way are numbers of packets.
LEMMA Numbers == ASSUME TypeOK
  PROVE /\ Queue \subseteq Nat /\ Shown \subseteq Nat /\ Parser \subseteq Nat /\ Packets \subseteq Nat
        /\ sent \in Nat /\ Fed \in Int
        /\ reorder_queue \in Seq(Nat) /\ shown \in Seq(Nat) /\ parser \in Seq(Nat) /\ pkt_queue \in Seq(Nat)
<1>1. sent \in Nat
  BY DEF TypeOK, DataOK
<1>2. 0 .. sent \subseteq Nat /\ 1 .. sent \subseteq Nat
  BY <1>1
<1>3. reorder_queue \in Seq(Nat) /\ shown \in Seq(Nat) /\ parser \in Seq(Nat) /\ pkt_queue \in Seq(Nat)
  BY <1>2, WiderSeq DEF TypeOK, DataOK
<1>4. \A s \in Seq(Nat) : ToSet(s) \subseteq Nat
  BY SetOf
<1>5. Queue \subseteq Nat /\ Shown \subseteq Nat /\ Parser \subseteq Nat /\ Packets \subseteq Nat
  BY <1>3, <1>4 DEF Queue, Shown, Parser, Packets
<1> QED BY <1>1, <1>3, <1>5 DEF Fed

\* A step FrameStream does not see.
LEMMA Same ==
  ASSUME NoStream' <=> NoStream, Stopping' <=> Stopping, Fed' = Fed, Stopping => sent' = sent,
         ~Stopping => UNCHANGED <<eof, delivered>>,
         ~NoStream => /\ Packets' = Packets /\ (Failing' <=> Failing)
                      /\ (Queue \cup Shown \cup Parser)' = Queue \cup Shown \cup Parser
  PROVE  UNCHANGED Stream!vars
<1>1. (IF NoStream THEN {} ELSE Packets)' = IF NoStream THEN {} ELSE Packets
  OBVIOUS
<1>2. (IF NoStream THEN {} ELSE Queue \cup Shown \cup Parser)' = IF NoStream THEN {} ELSE Queue \cup Shown \cup Parser
  OBVIOUS
<1>3. (IF Stopping THEN sent ELSE delivered)' = IF Stopping THEN sent ELSE delivered
  OBVIOUS
<1>4. (eof /\ ~Stopping)' = (eof /\ ~Stopping)
  <2>1. CASE Stopping
    BY <2>1
  <2>2. CASE ~Stopping
    <3>1. eof' = eof /\ ~Stopping'
      BY <2>2
    <3> QED BY <2>2, <3>1
  <2> QED BY <2>1, <2>2
<1>5. (Failing /\ ~NoStream)' = (Failing /\ ~NoStream)
  BY Zenon
<1> QED BY <1>1, <1>2, <1>3, <1>4, <1>5 DEF Stream!vars, Packets, Queue, Shown, Parser, Fed

\* Steps that move no packet and no frame.
Quiet ==
  /\ ~NoStream' /\ UNCHANGED <<pkt_queue, reorder_queue, shown, parser, eof, delivered>>
  /\ Fed' = Fed /\ (Failing' <=> Failing)
  /\ cpc' = "push_full" /\ cpc # "push_full" => ~eof

LEMMA QuietKeeps == ASSUME StreamInv, ~NoStream, Quiet
  PROVE InOrder' /\ UNCHANGED Stream!vars
<1>1. UNCHANGED <<Queue, Shown, Parser, Packets>>
  BY DEF Quiet, Queue, Shown, Parser, Packets
<1>2. InOrder'
  BY <1>1 DEF StreamInv, InOrder, Places, Quiet
<1>3. UNCHANGED Stream!vars
  <2>1. ~Stopping /\ ~Stopping'
    BY DEF Quiet, NoStream
  <2> QED BY <1>1, <2>1, Same DEF Quiet
<1> QED BY <1>2, <1>3

LEMMA QuietReader ==
  ASSUME StreamInv, ~NoStream,
         \/ StartEnter \/ StartRunning \/ StartTwice \/ PushBuffer \/ PushCount \/ PopFrame \/ DiscardPTS
         \/ (PushEnter /\ ~eof')
  PROVE  Quiet
<1>1. /\ ~Stopping /\ wpc # "none" /\ cpc' \in {"idle", "start", "terminated", "push_full", "push_count", "pop_check"}
      /\ UNCHANGED <<pkt_queue, reorder_queue, shown, parser, eof, delivered, wpc, error_status>>
      /\ cpc # "push_full"
      /\ (cpc' # "push_full" /\ sent' = sent) \/ (cpc' = "push_full" /\ sent' = sent + 1 /\ ~eof)
  BY DEF NoStream, Stopping, StartEnter, StartRunning, StartTwice, PushBuffer, PushCount, PopFrame, DiscardPTS, PushEnter,
         Reader, queueVars, packetVars, bufferVars, outputVars, flagVars, workVars, filterVars, callVars, historyVars,
         StreamInv, IInv, TypeOK, FlagsOK
<1>2. sent \in Nat
  BY DEF StreamInv, IInv, TypeOK, DataOK
<1>3. Fed' = Fed
  BY <1>1, <1>2 DEF Fed
<1> QED BY <1>1, <1>3 DEF Quiet, NoStream, Stopping, Failing

LEMMA QuietWorker ==
  ASSUME StreamInv, ~NoStream,
         \/ WorkerLoop \/ WorkerKilled \/ ParseReturns \/ (DisplayEnter /\ run) \/ TakeBuffer
         \/ RecordError \/ UnblockConsumers
  PROVE  Quiet
<1>1. /\ ~NoStream /\ wpc' # "none"
      /\ UNCHANGED <<pkt_queue, reorder_queue, shown, parser, eof, delivered, cpc, sent>>
      /\ (Failing' <=> Failing)
  BY DEF WorkerLoop, WorkerKilled, ParseReturns, DisplayEnter, TakeBuffer, RecordError, UnblockConsumers, Failing,
         Worker, queueVars, packetVars, bufferVars, outputVars, flagVars, workVars, filterVars, callVars, historyVars,
         StreamInv, IInv, Control
<1> QED BY <1>1 DEF Quiet, NoStream, Stopping, Fed

\* A failure that loses nothing.
LEMMA FailStep == ASSUME StreamInv, ~NoStream, (DisplayEnter /\ ~run) \/ BufferKilled \/ FillFails
  PROVE InOrder' /\ Stream!Fail
<1>1. /\ ~NoStream /\ ~NoStream' /\ ~Stopping /\ ~Stopping' /\ Failing'
      /\ UNCHANGED <<pkt_queue, reorder_queue, shown, parser, eof, delivered, cpc, sent>>
  BY DEF DisplayEnter, BufferKilled, FillFails, Failing, NoStream, Stopping,
         Worker, queueVars, packetVars, bufferVars, outputVars, flagVars, workVars, filterVars, callVars, historyVars
<1>2. UNCHANGED <<Queue, Shown, Parser, Packets, Fed>>
  BY <1>1 DEF Queue, Shown, Parser, Packets, Fed
<1>3. InOrder'
  BY <1>1, <1>2 DEF StreamInv, InOrder, Places
<1> QED BY <1>1, <1>2, <1>3 DEF Stream!Fail, Stream!LoseOne, Queue, Shown, Parser, Packets, Fed

\* A packet joins the queue, or the null packet does.
LEMMA FeedStep == ASSUME StreamInv, ~NoStream, PushPacket
  PROVE InOrder' /\ (Stream!Feed \/ UNCHANGED Stream!vars)
<1> DEFINE e == IF eof THEN NullPacket ELSE sent
<1>1. /\ ~NoStream /\ ~NoStream' /\ ~Stopping /\ ~Stopping' /\ (Failing' <=> Failing)
      /\ UNCHANGED <<reorder_queue, shown, parser, eof, delivered, sent>>
      /\ cpc = "push_full" /\ cpc' = "push_buffer" /\ pkt_queue' = Append(pkt_queue, e)
  BY DEF PushPacket, Failing, NoStream, Stopping,
         Reader, queueVars, packetVars, bufferVars, outputVars, flagVars, workVars, filterVars, callVars, historyVars
<1>2. UNCHANGED <<Queue, Shown, Parser>>
  BY <1>1 DEF Queue, Shown, Parser
<1>3. InOrder /\ TypeOK
  BY DEF StreamInv, IInv
<1>4. /\ Queue \subseteq Nat /\ Shown \subseteq Nat /\ Parser \subseteq Nat /\ Packets \subseteq Nat
      /\ sent \in Nat /\ pkt_queue \in Seq(Nat)
  BY <1>3, Numbers
<1>5. e \in Nat /\ Fed' = sent
  BY <1>1, <1>4 DEF NullPacket, Fed
<1>6. NullPacket \notin ToSet(pkt_queue) /\ ToSet(pkt_queue') = ToSet(pkt_queue) \cup {e}
  BY <1>1, <1>3, <1>4, <1>5, AppendSet DEF InOrder
<1>7. CASE eof
  <2>1. e = NullPacket /\ Packets' = Packets /\ Fed = sent
    BY <1>6, <1>7 DEF Packets, Fed
  <2>2. PacketsAscend(Append(pkt_queue, e))
    BY <1>3, <1>4, <1>5, <1>6, <2>1, PacketsAppend DEF InOrder
  <2>3. InOrder'
    BY <1>1, <1>2, <1>3, <1>5, <1>7, <2>1, <2>2 DEF InOrder, Places
  <2>4. UNCHANGED Stream!vars
    BY <1>1, <1>2, <1>5, <2>1, Same
  <2> QED BY <2>3, <2>4
<1>8. CASE ~eof
  <2>1. Fed = sent - 1 /\ e = sent /\ sent # 0
    BY <1>1, <1>8 DEF Fed, StreamInv, IInv, Control
  <2>2. \A p \in Queue \cup Shown \cup Parser \cup Packets : p <= sent - 1
    BY <1>3, <2>1 DEF InOrder
  <2>3. \A p \in Queue \cup Shown \cup Parser \cup Packets : p \in Nat /\ p < sent
    <3>1. ASSUME NEW p \in Queue \cup Shown \cup Parser \cup Packets PROVE p \in Nat /\ p < sent
      <4>1. p \in Nat /\ p <= sent - 1
        BY <1>4, <2>2
      <4> QED BY <1>4, <4>1
    <3> QED BY <3>1
  <2>4. Packets' = Packets \cup {sent}
    BY <1>6, <2>1 DEF Packets, NullPacket
  <2>5. PacketsAscend(Append(pkt_queue, e))
    <3>1. \A x \in ToSet(pkt_queue) : x < e
      BY <1>6, <2>1, <2>3 DEF Packets
    <3> QED BY <1>3, <1>4, <1>5, <1>6, <3>1, PacketsAppend DEF InOrder
  <2>6. Places'
    BY <1>2, <1>3, <2>3, <2>4 DEF InOrder, Places, Below
  <2>7. \A p \in Queue' \cup Shown' \cup Parser' \cup Packets' : p <= Fed'
    <3>1. ASSUME NEW p \in Queue' \cup Shown' \cup Parser' \cup Packets' PROVE p <= sent
      <4>1. p = sent \/ (p \in Nat /\ p < sent)
        BY <1>2, <2>3, <2>4
      <4> QED BY <1>4, <4>1
    <3> QED BY <1>5, <3>1
  <2>8. NullPacket \notin ToSet(pkt_queue')
    BY <1>6, <2>1 DEF NullPacket
  <2>9. InOrder'
    BY <1>1, <1>3, <2>5, <2>6, <2>7, <2>8 DEF InOrder
  <2>10. Fed' = Fed + 1
    BY <1>4, <1>5, <2>1
  <2>11. Stream!Feed
    BY <1>1, <1>2, <1>5, <1>8, <2>1, <2>4, <2>10 DEF Stream!Feed, Queue, Shown, Parser, Packets, Fed
  <2> QED BY <2>9, <2>11
<1> QED BY <1>7, <1>8

\* The reader fed its last packet.
LEMMA EndStep == ASSUME StreamInv, ~NoStream, (PushEnter /\ eof') \/ PushNullDropped
  PROVE InOrder' /\ Stream!End
<1>1. /\ ~NoStream /\ ~NoStream' /\ ~Stopping /\ ~Stopping' /\ (Failing' <=> Failing)
      /\ UNCHANGED <<pkt_queue, reorder_queue, shown, parser, delivered, sent>>
      /\ cpc = "idle" /\ ~eof /\ eof'
  BY DEF PushEnter, PushNullDropped, Failing, NoStream, Stopping,
         Reader, queueVars, packetVars, bufferVars, outputVars, flagVars, workVars, filterVars, callVars, historyVars
<1>2. Fed = sent /\ Fed' = sent
  BY <1>1 DEF Fed
<1>3. UNCHANGED <<Queue, Shown, Parser, Packets>>
  BY <1>1 DEF Queue, Shown, Parser, Packets
<1>4. NullPacket \notin ToSet(pkt_queue)
  BY <1>1 DEF StreamInv, InOrder
<1>5. InOrder'
  BY <1>1, <1>2, <1>3, <1>4 DEF StreamInv, InOrder, Places
<1> QED BY <1>1, <1>2, <1>3, <1>5 DEF Stream!End, Queue, Shown, Parser, Packets, Fed

\* Pop gives the first frame of the queue, or loses it after a failure.
LEMMA GiveStep == ASSUME StreamInv, ~NoStream, PopReturn
  PROVE InOrder' /\ (Stream!Deliver \/ Stream!Lose)
<1> DEFINE p == Head(reorder_queue)
<1>1. /\ ~NoStream /\ ~NoStream' /\ ~Stopping /\ ~Stopping' /\ (Failing' <=> Failing)
      /\ UNCHANGED <<pkt_queue, shown, parser, eof, sent>>
      /\ cpc = "pop_check" /\ cpc' = "idle" /\ reorder_queue' = Tail(reorder_queue)
      /\ (error_status /\ delivered' = delivered) \/ delivered' = p
  BY DEF PopReturn, Failing, NoStream, Stopping,
         Reader, queueVars, packetVars, bufferVars, outputVars, flagVars, workVars, filterVars, callVars, historyVars
<1>2. reorder_queue # <<>> /\ InOrder /\ TypeOK
  BY <1>1 DEF StreamInv, IInv, PopInv
<1>3. /\ Queue \subseteq Nat /\ Shown \subseteq Nat /\ Parser \subseteq Nat /\ reorder_queue \in Seq(Nat)
  BY <1>2, Numbers
<1>4. Queue = Queue' \cup {p} /\ p \in Nat
  BY <1>1, <1>2, <1>3, TailSet, TailFacts DEF Queue
<1>5. Ascends(reorder_queue)' /\ \A x \in Queue' : p < x
  <2>1. Ascends(reorder_queue)
    BY <1>2 DEF InOrder
  <2>2. Ascends(Tail(reorder_queue)) /\ \A x \in ToSet(Tail(reorder_queue)) : p < x
    BY <1>2, <1>3, <2>1, AscendsTail
  <2> QED BY <1>1, <2>2 DEF Queue
<1>6. UNCHANGED <<Shown, Parser, Packets, Fed>>
  BY <1>1 DEF Shown, Parser, Packets, Fed
<1>7. InOrder'
  <2>1. Places'
    BY <1>2, <1>4, <1>6 DEF InOrder, Places, Below
  <2> QED BY <1>1, <1>2, <1>4, <1>5, <1>6, <2>1 DEF InOrder
<1>8. \A x \in Queue' \cup Shown \cup Parser : p < x
  BY <1>2, <1>4, <1>5 DEF InOrder, Places, Below
<1>9. /\ p \in Queue \cup Shown \cup Parser
      /\ (Queue \cup Shown \cup Parser)' = (Queue \cup Shown \cup Parser) \ {p}
      /\ \A x \in Queue \cup Shown \cup Parser : p <= x
  <2>1. p \notin Queue' \cup Shown \cup Parser
    BY <1>4, <1>8
  <2>2. ASSUME NEW x \in Queue \cup Shown \cup Parser PROVE p <= x
    <3>1. x \in Nat /\ (x = p \/ p < x)
      BY <1>3, <1>4, <1>8
    <3> QED BY <1>4, <3>1
  <2> QED BY <1>4, <1>6, <2>1, <2>2
<1>10. CASE delivered' = p
  <2>1. Stream!First(p, Queue \cup Shown \cup Parser)
    BY <1>9 DEF Stream!First
  <2>2. Stream!Deliver
    BY <1>1, <1>6, <1>9, <1>10, <2>1 DEF Stream!Deliver, Queue, Shown, Parser, Packets, Fed
  <2> QED BY <1>7, <2>2
<1>11. CASE error_status /\ delivered' = delivered
  <2>1. Stream!Lose
    BY <1>1, <1>6, <1>9, <1>11 DEF Stream!Lose, Failing, Queue, Shown, Parser, Packets, Fed
  <2> QED BY <1>7, <2>1
<1> QED BY <1>1, <1>10, <1>11

\* What the parser finds when it takes a packet: the first one fed.
LEMMA PopFacts == ASSUME StreamInv, ~NoStream, NEW next, PopPacket(next), next \notin {"none", "finished"}
  PROVE /\ ~NoStream' /\ ~Stopping /\ ~Stopping' /\ error_status' = error_status /\ wpc = "pop" /\ wpc' = next
        /\ UNCHANGED <<reorder_queue, eof, delivered, sent, cpc, Queue, Fed>> /\ shown = <<>> /\ Shown = {}
        /\ PacketsAscend(pkt_queue)' /\ ToSet(pkt_queue') \subseteq ToSet(pkt_queue)
        /\ Head(pkt_queue) \in Nat
        /\ Head(pkt_queue) = NullPacket => Packets = {} /\ Packets' = {}
        /\ Head(pkt_queue) # NullPacket =>
             /\ Head(pkt_queue) \in Packets /\ Packets' = Packets \ {Head(pkt_queue)}
             /\ \A q \in Packets' : Head(pkt_queue) < q
             /\ Stream!First(Head(pkt_queue), Packets)
<1>1. /\ ~NoStream /\ ~NoStream' /\ ~Stopping /\ ~Stopping' /\ error_status' = error_status
      /\ UNCHANGED <<reorder_queue, eof, delivered, sent, cpc>>
      /\ wpc = "pop" /\ wpc' = next /\ pkt_queue # <<>> /\ pkt_queue' = Tail(pkt_queue)
  BY DEF PopPacket, Worker, bufferVars, outputVars, flagVars, callVars, historyVars, NoStream, Stopping
<1>2. UNCHANGED <<Queue, Fed>> /\ shown = <<>> /\ Shown = {}
  BY <1>1, NoSet DEF Queue, Fed, Shown, StreamInv, IInv, Control
<1>3. pkt_queue \in Seq(Nat) /\ Packets \subseteq Nat /\ PacketsAscend(pkt_queue)
  BY <1>1, Numbers DEF StreamInv, IInv, InOrder
<1>4. /\ PacketsAscend(Tail(pkt_queue))
      /\ \A x \in ToSet(Tail(pkt_queue)) : x = NullPacket \/ Head(pkt_queue) < x
      /\ Head(pkt_queue) = NullPacket => Tail(pkt_queue) = <<>>
  BY <1>1, <1>3, PacketsTail
<1>5. ToSet(pkt_queue) = ToSet(Tail(pkt_queue)) \cup {Head(pkt_queue)}
  BY <1>1, <1>3, TailSet
<1>6. Head(pkt_queue) \in Nat
  BY <1>1, <1>3, TailFacts
<1>7. ASSUME Head(pkt_queue) = NullPacket PROVE Packets = {} /\ Packets' = {}
  BY <1>1, <1>4, <1>5, <1>7, NoSet DEF Packets
<1>8. ASSUME Head(pkt_queue) # NullPacket
      PROVE  /\ Head(pkt_queue) \in Packets /\ Packets' = Packets \ {Head(pkt_queue)}
             /\ \A q \in Packets' : Head(pkt_queue) < q
             /\ Stream!First(Head(pkt_queue), Packets)
  <2>1. Head(pkt_queue) \in Packets /\ Packets = Packets' \cup {Head(pkt_queue)}
    BY <1>1, <1>5, <1>8 DEF Packets
  <2>2. \A q \in Packets' : Head(pkt_queue) < q
    BY <1>1, <1>4 DEF Packets
  <2>3. Head(pkt_queue) \notin Packets'
    BY <1>6, <2>2
  <2>4. \A q \in Packets : Head(pkt_queue) <= q
    <3>1. ASSUME NEW q \in Packets PROVE Head(pkt_queue) <= q
      <4>1. q \in Nat /\ (q = Head(pkt_queue) \/ Head(pkt_queue) < q)
        BY <1>3, <2>1, <2>2
      <4> QED BY <1>6, <4>1
    <3> QED BY <3>1
  <2> QED BY <2>1, <2>2, <2>3, <2>4 DEF Stream!First
<1> QED BY <1>1, <1>2, <1>4, <1>5, <1>6, <1>7, <1>8

\* The parser takes a packet, makes a picture of it or none, and shows some of those it has.
LEMMA ParseStep == ASSUME StreamInv, ~NoStream, ParsePacket
  PROVE InOrder' /\ Stream!Decode
<1> DEFINE p == Head(pkt_queue)
<1>1. PopPacket("display") /\ p # NullPacket
  BY DEF ParsePacket
<1>2. PICK pictures \in {parser, Append(parser, p)} :
        \E n \in 0 .. Len(pictures) :
          shown' = SubSeq(pictures, 1, n) /\ parser' = SubSeq(pictures, n + 1, Len(pictures))
  BY DEF ParsePacket
<1>3. /\ ~NoStream' /\ ~Stopping /\ ~Stopping' /\ error_status' = error_status /\ wpc = "pop" /\ wpc' = "display"
      /\ UNCHANGED <<reorder_queue, eof, delivered, sent, cpc, Queue, Fed>> /\ Shown = {}
      /\ PacketsAscend(pkt_queue)' /\ ToSet(pkt_queue') \subseteq ToSet(pkt_queue)
      /\ p \in Nat /\ p \in Packets /\ Packets' = Packets \ {p}
      /\ \A q \in Packets' : p < q
      /\ Stream!First(p, Packets)
  BY <1>1, PopFacts
<1>4. InOrder /\ parser \in Seq(Nat)
  BY Numbers DEF StreamInv, IInv
<1>5. pictures \in Seq(Nat) /\ Ascends(pictures) /\ (ToSet(pictures) = Parser \/ ToSet(pictures) = Parser \cup {p})
  <2>1. CASE pictures = parser
    BY <1>4, <2>1 DEF InOrder, Parser
  <2>2. CASE pictures = Append(parser, p)
    <3>1. \A x \in ToSet(parser) : x < p
      BY <1>3, <1>4 DEF InOrder, Places, Below, Parser
    <3>2. Ascends(Append(parser, p)) /\ ToSet(Append(parser, p)) = ToSet(parser) \cup {p} /\ Append(parser, p) \in Seq(Nat)
      BY <1>3, <1>4, <3>1, AscendsAppend, AppendSet, AppendFacts DEF InOrder
    <3> QED BY <2>2, <3>2 DEF Parser
  <2> QED BY <1>2, <2>1, <2>2
<1>6. Shown' \cup Parser' = ToSet(pictures) /\ Below(Shown', Parser') /\ Ascends(shown)' /\ Ascends(parser)'
  <2> PICK n \in 0 .. Len(pictures) :
        shown' = SubSeq(pictures, 1, n) /\ parser' = SubSeq(pictures, n + 1, Len(pictures))
    BY <1>2
  <2>1. /\ ToSet(SubSeq(pictures, 1, n)) \cup ToSet(SubSeq(pictures, n + 1, Len(pictures))) = ToSet(pictures)
        /\ Below(ToSet(SubSeq(pictures, 1, n)), ToSet(SubSeq(pictures, n + 1, Len(pictures))))
        /\ Ascends(SubSeq(pictures, 1, n)) /\ Ascends(SubSeq(pictures, n + 1, Len(pictures)))
    BY <1>5, AscendsSplit
  <2> QED BY <2>1 DEF Shown, Parser
<1>7. Shown' \cup Parser' \subseteq Parser \cup {p}
  BY <1>5, <1>6
<1>8. InOrder'
  <2>1. Below(Queue', Shown' \cup Parser' \cup Packets')
    BY <1>3, <1>4, <1>7 DEF InOrder, Places, Below
  <2>2. Below(Shown' \cup Parser', Packets')
    BY <1>3, <1>4, <1>7 DEF InOrder, Places, Below
  <2>3. Places'
    BY <1>6, <2>1, <2>2 DEF Places, Below
  <2>4. \A q \in Queue' \cup Shown' \cup Parser' \cup Packets' : q <= Fed'
    BY <1>3, <1>4, <1>7 DEF InOrder
  <2>5. Ascends(reorder_queue)'
    BY <1>3, <1>4 DEF InOrder
  <2> QED BY <1>3, <1>4, <1>6, <2>3, <2>4, <2>5 DEF InOrder
<1>9. Stream!Decode
  <2>1. \/ (Queue \cup Shown \cup Parser)' = Queue \cup Shown \cup Parser
        \/ (Queue \cup Shown \cup Parser)' = (Queue \cup Shown \cup Parser) \cup {p}
    BY <1>3, <1>5, <1>6
  <2>2. Failing' <=> Failing
    BY <1>3 DEF Failing
  <2> QED BY <1>3, <2>1, <2>2 DEF Stream!Decode, Queue, Shown, Parser, Packets, Fed
<1> QED BY <1>8, <1>9

\* The end of the stream has the parser show all it holds.
LEMMA FlushStep == ASSUME StreamInv, ~NoStream, ParseEnd
  PROVE InOrder' /\ UNCHANGED Stream!vars
<1>1. PopPacket("display") /\ Head(pkt_queue) = NullPacket /\ shown' = parser /\ parser' = <<>>
  BY DEF ParseEnd
<1>2. /\ ~NoStream' /\ ~Stopping /\ ~Stopping' /\ error_status' = error_status /\ wpc = "pop" /\ wpc' = "display"
      /\ UNCHANGED <<reorder_queue, eof, delivered, sent, cpc, Queue, Fed>> /\ Shown = {}
      /\ PacketsAscend(pkt_queue)' /\ ToSet(pkt_queue') \subseteq ToSet(pkt_queue)
      /\ Packets' = Packets
  BY <1>1, PopFacts
<1>3. Shown' = Parser /\ Parser' = {}
  BY <1>1, NoSet DEF Shown, Parser
<1>4. InOrder'
  <2>1. InOrder
    BY DEF StreamInv
  <2>2. Places'
    BY <1>2, <1>3, <2>1 DEF InOrder, Places, Below
  <2>3. Ascends(parser)'
    <3>1. Len(<<>>) = 0
      OBVIOUS
    <3> QED BY <1>1, <3>1 DEF Ascends
  <2> QED BY <1>1, <1>2, <1>3, <2>1, <2>2, <2>3 DEF InOrder
<1>5. UNCHANGED Stream!vars
  <2>1. Failing' <=> Failing
    BY <1>2 DEF Failing
  <2> QED BY <1>2, <1>3, <2>1, Same
<1> QED BY <1>4, <1>5

\* A packet the parser fails on is lost.
LEMMA ParseFailsStep == ASSUME StreamInv, ~NoStream, ParseFails
  PROVE InOrder' /\ Stream!Fail
<1>1. PopPacket("record") /\ UNCHANGED <<parser, shown>>
  BY DEF ParseFails, workVars
<1>2. /\ ~NoStream' /\ ~Stopping /\ ~Stopping' /\ wpc' = "record"
      /\ UNCHANGED <<reorder_queue, eof, delivered, sent, cpc, Queue, Fed>>
      /\ PacketsAscend(pkt_queue)' /\ ToSet(pkt_queue') \subseteq ToSet(pkt_queue)
      /\ Head(pkt_queue) = NullPacket => Packets' = Packets
      /\ Head(pkt_queue) # NullPacket =>
           /\ Head(pkt_queue) \in Packets /\ Packets' = Packets \ {Head(pkt_queue)}
           /\ Stream!First(Head(pkt_queue), Packets)
  BY <1>1, PopFacts
<1>3. UNCHANGED <<Shown, Parser>> /\ Packets' \subseteq Packets /\ Failing'
  BY <1>1, <1>2 DEF Shown, Parser, Failing
<1>4. InOrder'
  <2>1. InOrder
    BY DEF StreamInv
  <2>2. Places'
    BY <1>2, <1>3, <2>1 DEF InOrder, Places, Below
  <2> QED BY <1>1, <1>2, <1>3, <2>1, <2>2 DEF InOrder
<1>5. Stream!LoseOne
  BY <1>2, <1>3 DEF Stream!LoseOne, Queue, Shown, Parser, Packets
<1> QED BY <1>2, <1>3, <1>4, <1>5 DEF Stream!Fail, Fed

\* The frame of the picture shown goes to the end of the queue.
LEMMA PutStep == ASSUME StreamInv, ~NoStream, PutFrame
  PROVE InOrder' /\ UNCHANGED Stream!vars
<1> DEFINE p == Head(shown)
<1>1. /\ ~NoStream /\ ~NoStream' /\ ~Stopping /\ ~Stopping' /\ (Failing' <=> Failing)
      /\ UNCHANGED <<pkt_queue, parser, eof, delivered, sent, cpc>> /\ wpc = "fill"
      /\ reorder_queue' = Append(reorder_queue, p) /\ shown' = Tail(shown)
  BY DEF PutFrame, Failing, NoStream, Stopping,
         Worker, packetVars, bufferVars, flagVars, callVars, historyVars
<1>2. shown # <<>> /\ InOrder /\ TypeOK
  BY <1>1 DEF StreamInv, IInv, WorkerKnows
<1>3. reorder_queue \in Seq(Nat) /\ shown \in Seq(Nat)
  BY <1>2, Numbers
<1>4. Shown = Shown' \cup {p} /\ p \in Nat
  BY <1>1, <1>2, <1>3, TailSet, TailFacts DEF Shown
<1>5. Ascends(shown)' /\ \A x \in Shown' : p < x
  <2>1. Ascends(shown)
    BY <1>2 DEF InOrder
  <2>2. Ascends(Tail(shown)) /\ \A x \in ToSet(Tail(shown)) : p < x
    BY <1>2, <1>3, <2>1, AscendsTail
  <2> QED BY <1>1, <2>2 DEF Shown
<1>6. Queue' = Queue \cup {p} /\ Ascends(reorder_queue)'
  <2>1. ToSet(Append(reorder_queue, p)) = ToSet(reorder_queue) \cup {p}
    BY <1>3, <1>4, AppendSet
  <2>2. \A x \in ToSet(reorder_queue) : x < p
    BY <1>2, <1>4 DEF InOrder, Places, Below, Queue
  <2>3. Ascends(Append(reorder_queue, p))
    BY <1>2, <1>3, <1>4, <2>2, AscendsAppend DEF InOrder
  <2> QED BY <1>1, <2>1, <2>3 DEF Queue
<1>7. UNCHANGED <<Parser, Packets, Fed>>
  BY <1>1 DEF Parser, Packets, Fed
<1>8. InOrder'
  <2>1. Places'
    BY <1>2, <1>4, <1>5, <1>6, <1>7 DEF InOrder, Places, Below
  <2> QED BY <1>1, <1>2, <1>4, <1>5, <1>6, <1>7, <2>1 DEF InOrder
<1>9. UNCHANGED Stream!vars
  BY <1>1, <1>4, <1>6, <1>7, Same
<1> QED BY <1>8, <1>9

\* A Stop forgets what was fed.
LEMMA ResetStep == ASSUME ClearCall \/ SetCodecContext \/ Destroy
  PROVE Stream!Reset /\ NoStream'
<1>1. cpc = "idle" /\ Stopping' /\ sent' = sent /\ cpc' # "push_full"
  BY DEF ClearCall, SetCodecContext, CallClear, Destroy, StopEnter, Reader, Stopping
<1>2. NoStream' /\ Fed = sent /\ Fed' = sent
  BY <1>1 DEF NoStream, Fed
<1> QED BY <1>1, <1>2 DEF Stream!Reset, Fed

\* A worker starts with nothing.
LEMMA StartStep == ASSUME StreamInv, StartThread
  PROVE InOrder' /\ UNCHANGED Stream!vars
<1>1. /\ NoStream /\ ~Stopping /\ ~NoStream' /\ ~Stopping' /\ ~Failing' /\ cpc = "start" /\ cpc' = "idle"
      /\ UNCHANGED <<eof, sent, delivered>>
      /\ pkt_queue' = <<>> /\ reorder_queue' = <<>> /\ shown' = <<>> /\ parser' = <<>>
  BY DEF StartThread, Restart, NoStream, Stopping, Failing, callVars, historyVars, StreamInv, IInv, Control
<1>2. Queue' = {} /\ Shown' = {} /\ Parser' = {} /\ Packets' = {} /\ NullPacket \notin ToSet(pkt_queue')
  BY <1>1, NoSet DEF Queue, Shown, Parser, Packets
<1>3. InOrder'
  <2>1. Len(<<>>) = 0
    OBVIOUS
  <2>2. Ascends(reorder_queue)' /\ Ascends(shown)' /\ Ascends(parser)' /\ PacketsAscend(pkt_queue)'
    BY <1>1, <2>1 DEF Ascends, PacketsAscend
  <2> QED BY <1>2, <2>2 DEF InOrder, Places, Below
<1>4. UNCHANGED Stream!vars
  BY <1>1, <1>2 DEF Stream!vars, Queue, Shown, Parser, Packets
<1> QED BY <1>3, <1>4

\* A Start that fails with a worker that failed before: all is lost.
LEMMA StartFailsStep == ASSUME StreamInv, ~NoStream, StartFails
  PROVE InOrder' /\ Stream!Lose
<1>1. /\ ~NoStream' /\ ~Stopping /\ ~Stopping' /\ Failing /\ Failing' /\ cpc = "start" /\ cpc' = "idle"
      /\ UNCHANGED <<eof, sent, delivered>>
      /\ pkt_queue' = <<>> /\ reorder_queue' = <<>> /\ shown' = <<>> /\ parser' = <<>>
  BY DEF StartFails, Restart, NoStream, Stopping, Failing, callVars, historyVars, StreamInv, IInv, Control
<1>2. Queue' = {} /\ Shown' = {} /\ Parser' = {} /\ Packets' = {} /\ NullPacket \notin ToSet(pkt_queue')
  BY <1>1, NoSet DEF Queue, Shown, Parser, Packets
<1>3. InOrder'
  <2>1. Len(<<>>) = 0
    OBVIOUS
  <2>2. Ascends(reorder_queue)' /\ Ascends(shown)' /\ Ascends(parser)' /\ PacketsAscend(pkt_queue)'
    BY <1>1, <2>1 DEF Ascends, PacketsAscend
  <2> QED BY <1>2, <2>2 DEF InOrder, Places, Below
<1>4. Stream!Lose
  BY <1>1, <1>2 DEF Stream!Lose, Queue, Shown, Parser, Packets
<1> QED BY <1>3, <1>4

\* Clear ends what Stop began.
LEMMA ClearStep == ASSUME StreamInv, Clear
  PROVE NoStream' /\ UNCHANGED Stream!vars
<1>1. /\ Stopping /\ NoStream /\ wpc' = "none" /\ NoStream' /\ cpc # "push_full" /\ cpc' # "push_full"
      /\ sent' = sent /\ delivered' = sent /\ eof' = FALSE
  BY DEF Clear, Reader, StreamInv, IInv, TypeOK, DataOK, Control, NoStream, Stopping
<1> QED BY <1>1 DEF Stream!vars

\* Whatever else happens without a stream is not seen.
LEMMA IdleStep == ASSUME StreamInv, NoStream, [Next]_vars, ~StartThread, ~Clear,
                         ~(ClearCall \/ SetCodecContext \/ Destroy)
  PROVE NoStream' /\ UNCHANGED Stream!vars
<1> USE DEF Reader, Worker, queueVars, packetVars, bufferVars, outputVars, flagVars, workVars, filterVars, callVars, historyVars
<1>1. CASE Stopping
  <2>1. Stopping' /\ sent' = sent /\ cpc # "push_full" /\ cpc' # "push_full"
    <3>1. CASE ReaderStep
      BY <1>1, <3>1 DEF ReaderStep, StartRunning, StartFails, Restart, StartTwice, PushPacket, PushBuffer, PushCount, PopReturn,
           StopPackets, StopRun, Join, Stopping
    <3>2. CASE ReaderCall
      BY <1>1, <3>2 DEF ReaderCall, StartEnter, PushEnter, PushNullDropped, PopFrame, DiscardPTS, Stopping
    <3>3. CASE WorkerStep
      <4>1. cpc' = cpc /\ sent' = sent
        BY <3>3 DEF WorkerStep, WorkerLoop, WorkerKilled, ParsePacket, ParseEnd, ParseFails, PopPacket, ParseReturns,
           DisplayEnter, TakeBuffer, BufferKilled, PutFrame, FillFails, RecordError, UnblockConsumers
      <4> QED BY <1>1, <4>1 DEF Stopping
    <3>4. CASE UNCHANGED vars
      BY <1>1, <3>4 DEF vars, Stopping
    <3> QED BY <3>1, <3>2, <3>3, <3>4 DEF Next, Done, PushSpins
  <2>2. NoStream' /\ Fed' = Fed
    BY <2>1 DEF NoStream, Fed
  <2> QED BY <1>1, <2>1, <2>2, Same
<1>2. CASE ~Stopping /\ wpc = "none"
  <2>1. /\ cpc \in {"idle", "start", "terminated"} /\ cpc' \in {"idle", "start", "terminated"}
        /\ wpc' = "none" /\ UNCHANGED <<sent, eof, delivered>>
    <3>1. cpc \in {"idle", "start", "terminated"}
      BY <1>2 DEF StreamInv, IInv, TypeOK, DataOK, ReaderSteps, Control, Stopping
    <3>2. CASE ReaderStep
      BY <1>2, <3>1, <3>2 DEF ReaderStep, StartRunning, StartFails, Restart, StartTwice, PushPacket, PushBuffer, PushCount, PopReturn,
           StopPackets, StopRun, Join
    <3>3. CASE ReaderCall
      BY <1>2, <3>1, <3>3 DEF ReaderCall, StartEnter, PushEnter, PushNullDropped, PopFrame, DiscardPTS
    <3>4. CASE WorkerStep
      BY <1>2, <3>4 DEF WorkerStep, WorkerLoop, WorkerKilled, ParsePacket, ParseEnd, ParseFails, PopPacket, ParseReturns,
           DisplayEnter, TakeBuffer, BufferKilled, PutFrame, FillFails, RecordError, UnblockConsumers
    <3>5. CASE UNCHANGED vars
      BY <1>2, <3>1, <3>5 DEF vars
    <3> QED BY <3>2, <3>3, <3>4, <3>5 DEF Next, Done, PushSpins
  <2>2. ~Stopping /\ ~Stopping' /\ NoStream' /\ Fed' = Fed
    BY <2>1 DEF NoStream, Stopping, Fed
  <2> QED BY <1>2, <2>1, <2>2, Same DEF NoStream
<1> QED BY <1>1, <1>2 DEF NoStream

\* Every step is one of FrameStream, or none it sees, and keeps the order.
LEMMA StreamStep == ASSUME StreamInv, [Next]_vars
  PROVE (~NoStream' => InOrder') /\ [Stream!Next]_(Stream!vars)
<1> USE DEF Stream!Next
<1>1. CASE ClearCall \/ SetCodecContext \/ Destroy
  BY <1>1, ResetStep
<1>2. CASE StartThread
  BY <1>2, StartStep
<1>3. CASE Clear
  BY <1>3, ClearStep
<1>4. CASE NoStream /\ ~StartThread /\ ~Clear /\ ~(ClearCall \/ SetCodecContext \/ Destroy)
  BY <1>4, IdleStep
<1>5. CASE ~NoStream
  <2>1. CASE \/ StartEnter \/ StartRunning \/ StartTwice \/ PushBuffer \/ PushCount \/ PopFrame \/ DiscardPTS
             \/ (PushEnter /\ ~eof')
    BY <1>5, <2>1, QuietReader, QuietKeeps
  <2>2. CASE \/ WorkerLoop \/ WorkerKilled \/ ParseReturns \/ (DisplayEnter /\ run) \/ TakeBuffer
             \/ RecordError \/ UnblockConsumers
    BY <1>5, <2>2, QuietWorker, QuietKeeps
  <2>3. CASE (DisplayEnter /\ ~run) \/ BufferKilled \/ FillFails
    BY <1>5, <2>3, FailStep
  <2>4. CASE PushPacket
    BY <1>5, <2>4, FeedStep
  <2>5. CASE (PushEnter /\ eof') \/ PushNullDropped
    BY <1>5, <2>5, EndStep
  <2>6. CASE PopReturn
    BY <1>5, <2>6, GiveStep
  <2>7. CASE ParsePacket
    BY <1>5, <2>7, ParseStep
  <2>8. CASE ParseEnd
    BY <1>5, <2>8, FlushStep
  <2>9. CASE ParseFails
    BY <1>5, <2>9, ParseFailsStep
  <2>10. CASE PutFrame
    BY <1>5, <2>10, PutStep
  <2>13. CASE StartFails
    BY <1>5, <2>13, StartFailsStep
  <2>11. CASE StopPackets \/ StopRun \/ Join
    BY <1>5, <2>11 DEF StopPackets, StopRun, Join, Reader, NoStream, Stopping
  <2>12. CASE UNCHANGED vars
    <3>1. UNCHANGED <<pkt_queue, reorder_queue, shown, parser, eof, sent, delivered, cpc, wpc, error_status>>
      BY <2>12 DEF vars, queueVars, packetVars, bufferVars, outputVars, flagVars, workVars, filterVars, callVars, historyVars
    <3>2. Quiet
      BY <1>5, <3>1 DEF Quiet, NoStream, Stopping, Failing, Fed
    <3> QED BY <1>5, <3>2, QuietKeeps
  <2> QED
    BY <1>1, <1>2, <1>3, <2>1, <2>2, <2>3, <2>4, <2>5, <2>6, <2>7, <2>8, <2>9, <2>10, <2>11, <2>12, <2>13
       DEF Next, ReaderStep, ReaderCall, WorkerStep, PushSpins, Done
<1> QED BY <1>1, <1>2, <1>3, <1>4, <1>5

\* The pictures come with the time stamps of the packets pushed, in their order and each once,
\* and none with a time stamp of before a Clear, whatever the parser keeps back and however the
\* two threads are scheduled.
THEOREM StreamTheorem == Spec => ImplementsFrameStream
<1> DEFINE Ordered == ~NoStream => InOrder
<1>1. Init => IInv /\ Ordered /\ Stream!Init
  <2>1. Init => NoStream /\ ~Stopping /\ ~Failing
    BY DEF Init, NoStream, Stopping, Failing
  <2> QED BY <2>1, InductiveInvariant DEF Init, Stream!Init
<1>2. IInv /\ Ordered /\ [Next]_vars => IInv' /\ Ordered' /\ [Stream!Next]_(Stream!vars)
  BY StreamStep, InductiveInvariant DEF StreamInv
<1> HIDE DEF Ordered
<1> QED BY <1>1, <1>2, PTL DEF Spec, ImplementsFrameStream, Stream!Spec

----------------------------------------------------------------------------
(***************************************************************************)
(* Nothing of before a Clear comes after it but one picture of the filter:  *)
(* the places hold time stamps of after the last one given, and the filter  *)
(* keeps one picture and gives it once.                                     *)
(***************************************************************************)

Coming == Queue \cup Shown \cup Parser
Owed == IF NoStream THEN {} ELSE Coming
Queued == IF NoStream THEN {} ELSE Packets
Given == IF Stopping THEN sent ELSE delivered
Fresh == Given <= Fed /\ \A p \in Owed \cup Queued : Given < p

FilterInv ==
  /\ bframe \in {"none", "new", "old"} /\ (bframe # "none" => Unpacks)
  /\ old # {} => Unpacks /\ bframe # "old"
  /\ \A p, q \in old : p = q

\* What a step of FrameStream does to what the reader will get.
LEMMA FreshCases == ASSUME [Stream!Next]_(Stream!vars)
  PROVE \/ /\ Given' = Given /\ Fed' = Fed
           /\ Owed' \cup Queued' \subseteq Owed \cup Queued
        \/ /\ Given' = Given /\ Fed' = Fed + 1
           /\ Owed' \cup Queued' = Owed \cup Queued \cup {Fed + 1}
        \/ /\ Given' \in Owed /\ Stream!First(Given', Owed) /\ Fed' = Fed
           /\ Owed' = Owed \ {Given'} /\ Queued' = Queued
        \/ Given' = Fed /\ Fed' = Fed /\ Owed' = {} /\ Queued' = {}
<1> USE DEF Owed, Queued, Given, Fed, Coming, Queue, Shown, Parser, Packets
<1>1. CASE Stream!Feed
  BY <1>1 DEF Stream!Feed
<1>2. CASE Stream!End \/ Stream!EndSignal
  BY <1>2 DEF Stream!End, Stream!EndSignal
<1>3. CASE Stream!Decode
  BY <1>3 DEF Stream!Decode
<1>4. CASE Stream!Deliver
  BY <1>4 DEF Stream!Deliver
<1>5. CASE Stream!Fail
  BY <1>5 DEF Stream!Fail, Stream!LoseOne
<1>6. CASE Stream!Lose
  BY <1>6 DEF Stream!Lose
<1>7. CASE Stream!Reset
  BY <1>7 DEF Stream!Reset
<1>8. CASE UNCHANGED Stream!vars
  BY <1>8 DEF Stream!vars
<1> QED BY <1>1, <1>2, <1>3, <1>4, <1>5, <1>6, <1>7, <1>8 DEF Stream!Next

\* What comes is of after the last picture given.
LEMMA FreshStep == ASSUME StreamInv, Fresh, [Next]_vars PROVE Fresh'
<1>1. TypeOK /\ (~NoStream => InOrder)
  BY DEF StreamInv, IInv
<1>2. /\ Owed \subseteq Nat /\ Queued \subseteq Nat /\ Fed \in Int /\ Given \in Int
  BY <1>1, Numbers DEF Owed, Queued, Coming, Given, TypeOK, DataOK
<1>3. /\ \A p \in Owed, q \in Queued : p < q
      /\ \A p \in Owed : p <= Fed
  <2>1. CASE NoStream
    BY <2>1 DEF Owed, Queued
  <2>2. CASE ~NoStream
    BY <1>1, <2>2 DEF Owed, Queued, Coming, InOrder, Places, Below
  <2> QED BY <2>1, <2>2
<1>4. CASE Given' = Given /\ Fed' = Fed /\ Owed' \cup Queued' \subseteq Owed \cup Queued
  BY <1>4 DEF Fresh
<1>5. CASE Given' = Given /\ Fed' = Fed + 1 /\ Owed' \cup Queued' = Owed \cup Queued \cup {Fed + 1}
  <2>1. Given <= Fed /\ Given < Fed + 1
    BY <1>2 DEF Fresh
  <2>2. Given <= Fed + 1
    BY <1>2, <2>1
  <2> QED BY <1>5, <2>1, <2>2 DEF Fresh
<1>6. CASE Given' \in Owed /\ Stream!First(Given', Owed) /\ Fed' = Fed /\ Owed' = Owed \ {Given'} /\ Queued' = Queued
  <2>1. Given' \in Nat /\ Given' <= Fed
    BY <1>2, <1>3, <1>6
  <2>2. ASSUME NEW p \in Owed' PROVE Given' < p
    <3>1. p \in Nat /\ Given' <= p /\ p # Given'
      BY <1>2, <1>6, <2>2 DEF Stream!First
    <3> QED BY <2>1, <3>1
  <2>3. \A p \in Queued' : Given' < p
    BY <1>3, <1>6
  <2>4. Given' <= Fed' /\ \A p \in Owed' \cup Queued' : Given' < p
    BY <1>6, <2>1, <2>2, <2>3
  <2> QED BY <2>4 DEF Fresh
<1>7. CASE Given' = Fed /\ Fed' = Fed /\ Owed' = {} /\ Queued' = {}
  BY <1>2, <1>7 DEF Fresh
<1>8. [Stream!Next]_(Stream!vars)
  BY StreamStep
<1> QED BY <1>4, <1>5, <1>6, <1>7, <1>8, FreshCases

\* Only Clear and the filter's packets change what the filter keeps and gave.
LEMMA FilterKeeps == ASSUME [Next]_vars, ~Clear, ~ParsePacket, ~ParseFails PROVE UNCHANGED <<bframe, old>>
<1> USE DEF Reader, Worker, queueVars, packetVars, bufferVars, outputVars, flagVars, workVars, filterVars, callVars, historyVars
<1>1. CASE ReaderStep
  BY <1>1 DEF ReaderStep, StartRunning, StartThread, StartFails, Restart, StartTwice, PushPacket, PushBuffer, PushCount,
     PopReturn, StopPackets, StopRun, Join
<1>2. CASE ReaderCall
  BY <1>2 DEF ReaderCall, StartEnter, PushEnter, PushNullDropped, PopFrame, DiscardPTS, ClearCall, SetCodecContext,
     CallClear, Destroy, StopEnter
<1>3. CASE WorkerStep
  BY <1>3 DEF WorkerStep, WorkerLoop, WorkerKilled, ParseEnd, ParseReturns, DisplayEnter, TakeBuffer, BufferKilled,
     PutFrame, FillFails, RecordError, UnblockConsumers
<1>4. CASE UNCHANGED vars
  BY <1>4 DEF vars
<1> QED BY <1>1, <1>2, <1>3, <1>4 DEF Next, PushSpins, Done

\* The filter keeps one picture and gives it once.
LEMMA FilterStep == ASSUME FilterInv, [Next]_vars PROVE FilterInv'
<1>1. CASE Clear
  BY <1>1 DEF Clear, FilterInv
<1>2. CASE ParsePacket
  <2>1. PICK gives \in {"none", "new", "old"} :
          /\ FilterPacket(gives)
          /\ old' = old \/ (gives = "old" /\ old' = old \cup {Head(pkt_queue)})
    BY <1>2 DEF ParsePacket
  <2>2. CASE gives = "old"
    <3>1. bframe = "old" /\ bframe' \in {"none", "new"} /\ Unpacks /\ old = {}
      BY <2>1, <2>2 DEF FilterPacket, FilterInv
    <3>2. old' = {} \/ old' = {Head(pkt_queue)}
      BY <2>1, <3>1
    <3> QED BY <3>1, <3>2 DEF FilterInv
  <2>3. CASE gives # "old"
    BY <2>1, <2>3 DEF FilterPacket, FilterInv
  <2> QED BY <2>2, <2>3
<1>3. CASE ParseFails
  BY <1>3 DEF ParseFails, FilterPacket, FilterInv
<1>4. CASE ~Clear /\ ~ParsePacket /\ ~ParseFails
  BY <1>4, FilterKeeps DEF FilterInv
<1> QED BY <1>1, <1>2, <1>3, <1>4

\* After a Clear nothing of before it comes, but for one picture mpeg4_unpack_bframes kept: for
\* any number of packets and Clears, any interleaving and any failures (Clear, Start,
\* LaunchThreadImpl).
THEOREM OldFramesTheorem == Spec => []OldFrames
<1> DEFINE Inv == StreamInv /\ Fresh /\ FilterInv
<1>1. Init => Inv
  <2> SUFFICES ASSUME Init PROVE Inv
    OBVIOUS
  <2>1. NoStream /\ ~Stopping
    BY DEF Init, NoStream, Stopping
  <2>2. Fresh
    BY <2>1 DEF Init, Fresh, Given, Fed, Owed, Queued
  <2> QED BY <2>1, <2>2, InductiveInvariant DEF Init, StreamInv, FilterInv
<1>2. Inv /\ [Next]_vars => Inv'
  BY StreamStep, InductiveInvariant, FreshStep, FilterStep DEF StreamInv
<1>3. Inv => OldFrames
  <2> SUFFICES ASSUME Inv, ~NoStream
               PROVE  Cardinality(old \cup {p \in Coming : p <= delivered}) <= (IF Unpacks THEN 1 ELSE 0)
    BY DEF OldFrames, Coming, Queue, Shown, Parser
  <2>1. Given = delivered /\ Owed = Coming
    BY DEF Given, Owed, NoStream
  <2>2. Coming \subseteq Nat /\ delivered \in Int
    BY Numbers DEF Coming, StreamInv, IInv, TypeOK, DataOK
  <2>3. {p \in Coming : p <= delivered} = {}
    <3>1. ASSUME NEW p \in Coming PROVE ~(p <= delivered)
      <4>1. p \in Nat /\ delivered < p
        BY <2>1, <2>2 DEF Fresh
      <4> QED BY <2>2, <4>1
    <3> QED BY <3>1
  <2>4. old = {} \/ (Unpacks /\ \E p \in old : old = {p})
    BY DEF FilterInv
  <2>5. CASE old = {}
    BY <2>3, <2>5, FS_EmptySet
  <2>6. CASE Unpacks /\ \E p \in old : old = {p}
    BY <2>3, <2>6, FS_Singleton
  <2> QED BY <2>4, <2>5, <2>6
<1> HIDE DEF Inv
<1> QED BY <1>1, <1>2, <1>3, PTL DEF Spec

----------------------------------------------------------------------------
(***************************************************************************)
(* Frames of the GPU and their textures. The invariant: the decoder is the *)
(* one made for the format asked for last, and a texture is that of the    *)
(* surface it is kept for, as this decoder shows it; so there is none      *)
(* without a decoder.                                                      *)
(***************************************************************************)
OfDecoder(ptr) == Texture(ptr, decoder_.pitch, decoder_.width, decoder_.height)

DecoderMatches ==
  Initialized => decoder_info_ \in Formats /\ \E pitch \in Pitches : decoder_ = DecoderOf(decoder_info_, pitch)
TexturesMatch ==
  /\ DOMAIN textures_ = Surfaces /\ textures_ = [ptr \in Surfaces |-> textures_[ptr]]
  /\ \A ptr \in Surfaces : textures_[ptr] # NoTexture => Initialized /\ textures_[ptr] = OfDecoder(ptr)
FrameMatches ==
  /\ mapped # NoFrame => mapped \in Surfaces /\ Initialized
  /\ reading # NoTexture => mapped # NoFrame /\ reading = textures_[mapped]
ObjectsMatch == objects = Registered
SurfacesInv == DecoderMatches /\ TexturesMatch /\ FrameMatches /\ ObjectsMatch

\* What is made for a format has its size, and is something.
LEMMA MadeForFormat ==
  ASSUME DecoderMatches, Initialized, NEW ptr \in Surfaces
  PROVE  /\ decoder_.width = decoder_info_.width /\ decoder_.height = decoder_info_.height
         /\ OfDecoder(ptr) # NoTexture
<1>1. PICK pitch \in Pitches : decoder_info_ \in Formats /\ decoder_ = DecoderOf(decoder_info_, pitch)
  BY DEF DecoderMatches
<1>2. decoder_.pitch = pitch /\ decoder_.width = decoder_info_.width /\ decoder_.height = decoder_info_.height
  BY <1>1 DEF DecoderOf
<1> QED BY <1>1, <1>2, SurfacesAssumption DEF OfDecoder

LEMMA SurfacesInitially == SurfacesInit => SurfacesInv
  BY DEF SurfacesInit, SurfacesInv, DecoderMatches, Initialized, TexturesMatch, FrameMatches, ObjectsMatch,
         Registered, TexturesOf

\* What is not touched by a step stays as it is.
LEMMA TexturesStay ==
  ASSUME UNCHANGED <<textures_, objects>>, SurfacesInv
  PROVE  ObjectsMatch'
  BY DEF SurfacesInv, ObjectsMatch, Registered

LEMMA InitializeKeeps ==
  ASSUME SurfacesInv, NEW format \in Formats, Initialize(format)
  PROVE  SurfacesInv'
<1> USE DEF Initialize, CreateDecoder
<1>1. DecoderMatches'
  BY DEF DecoderMatches, Initialized
<1>2. \A ptr \in Surfaces : textures_[ptr] = NoTexture
  BY DEF SurfacesInv, TexturesMatch
<1>3. TexturesMatch'
  BY <1>2 DEF SurfacesInv, TexturesMatch
<1>4. FrameMatches'
  BY DEF SurfacesInv, FrameMatches, Waiting
<1> QED BY <1>1, <1>3, <1>4, TexturesStay DEF SurfacesInv

LEMMA MapFrameKeeps ==
  ASSUME SurfacesInv, NEW ptr \in Surfaces, MapFrame(ptr)
  PROVE  SurfacesInv'
<1> USE DEF MapFrame
<1>1. DecoderMatches' /\ TexturesMatch'
  BY DEF SurfacesInv, DecoderMatches, TexturesMatch, Initialized, OfDecoder
<1>2. FrameMatches'
  BY DEF SurfacesInv, FrameMatches, Waiting, Initialized
<1> QED BY <1>1, <1>2, TexturesStay DEF SurfacesInv

\* A texture that is new for the registry is all that its objects add.
LEMMA Registering ==
  ASSUME NEW ptr \in Surfaces, NEW new, TexturesMatch, textures_[ptr] = NoTexture,
         textures_' = [textures_ EXCEPT ![ptr] = new]
  PROVE  Registered' = Registered \cup TexturesOf(new)
<1>1. \A other \in Surfaces : textures_'[other] = IF other = ptr THEN new ELSE textures_[other]
  BY DEF TexturesMatch
<1>2. TexturesOf(textures_[ptr]) = {}
  BY DEF TexturesOf
<1>3. ASSUME NEW object, object \in Registered' PROVE object \in Registered \cup TexturesOf(new)
  BY <1>1, <1>3 DEF Registered, TexturesOf
<1>4. ASSUME NEW object, object \in Registered PROVE object \in Registered'
  <2>1. PICK other \in Surfaces : object \in TexturesOf(textures_[other])
    BY <1>4 DEF Registered
  <2>2. other # ptr
    BY <2>1, <1>2
  <2> QED BY <2>1, <2>2, <1>1 DEF Registered, TexturesOf
<1>5. ASSUME NEW object, object \in TexturesOf(new) PROVE object \in Registered'
  BY <1>1, <1>5 DEF Registered, TexturesOf
<1> QED BY <1>3, <1>4, <1>5

LEMMA GetTextureKeeps ==
  ASSUME SurfacesInv, GetTexture
  PROVE  SurfacesInv'
<1> DEFINE new == Texture(mapped, decoder_.pitch, decoder_info_.width, decoder_info_.height)
<1>1. mapped \in Surfaces /\ Initialized /\ UNCHANGED <<decoder_, decoder_info_>>
  BY DEF GetTexture, SurfacesInv, FrameMatches, Waiting
<1>2. DecoderMatches'
  BY <1>1 DEF SurfacesInv, DecoderMatches, Initialized
<1>3. CASE textures_[mapped] # NoTexture
  <2>1. reading' = textures_[mapped] /\ UNCHANGED <<textures_, objects, mapped>>
    BY <1>3 DEF GetTexture
  <2>2. TexturesMatch' /\ FrameMatches'
    BY <2>1, <1>1, SurfacesAssumption DEF SurfacesInv, TexturesMatch, FrameMatches, Initialized, OfDecoder
  <2> QED BY <2>1, <2>2, <1>2, TexturesStay DEF SurfacesInv
<1>4. CASE textures_[mapped] = NoTexture /\ textures_' = [textures_ EXCEPT ![mapped] = new]
             /\ objects' = objects \cup TexturesOf(new) /\ reading' = new /\ UNCHANGED mapped
  <2>1. new = OfDecoder(mapped) /\ new # NoTexture
    BY <1>1, MadeForFormat DEF SurfacesInv, OfDecoder
  <2> HIDE DEF new
  <2>2. \A ptr \in Surfaces : textures_'[ptr] = IF ptr = mapped THEN new ELSE textures_[ptr]
    BY <1>4 DEF SurfacesInv, TexturesMatch
  <2>3. \A ptr \in Surfaces : OfDecoder(ptr)' = OfDecoder(ptr)
    BY <1>1 DEF OfDecoder
  <2>4. DOMAIN textures_' = Surfaces /\ textures_' = [ptr \in Surfaces |-> textures_'[ptr]]
    BY <1>4 DEF SurfacesInv, TexturesMatch
  <2>5. TexturesMatch'
    BY <2>1, <2>2, <2>3, <2>4, <1>1 DEF SurfacesInv, TexturesMatch, Initialized
  <2>6. FrameMatches'
    BY <1>1, <1>4, <2>2, <2>1, SurfacesAssumption DEF SurfacesInv, FrameMatches, Initialized
  <2>7. ObjectsMatch'
    BY <1>1, <1>4, Registering DEF SurfacesInv, ObjectsMatch
  <2> QED BY <1>2, <2>5, <2>6, <2>7 DEF SurfacesInv
<1>5. CASE Unmap /\ UNCHANGED <<textures_, objects>>
  <2>1. TexturesMatch' /\ FrameMatches'
    BY <1>1, <1>5 DEF SurfacesInv, TexturesMatch, FrameMatches, Unmap, Initialized, OfDecoder
  <2> QED BY <2>1, <1>2, <1>5, TexturesStay DEF SurfacesInv
<1> QED BY <1>3, <1>4, <1>5 DEF GetTexture

LEMMA ProcessedKeeps ==
  ASSUME SurfacesInv, Processed
  PROVE  SurfacesInv'
<1> USE DEF Processed
<1>1. DecoderMatches' /\ TexturesMatch' /\ FrameMatches'
  BY DEF SurfacesInv, DecoderMatches, TexturesMatch, FrameMatches, Unmap, Initialized, OfDecoder
<1> QED BY <1>1, TexturesStay DEF SurfacesInv

LEMMA ReplaceKeeps ==
  ASSUME SurfacesInv, Replace
  PROVE  SurfacesInv'
<1> USE DEF Replace
<1>1. DecoderMatches' /\ TexturesMatch' /\ FrameMatches'
  BY DEF SurfacesInv, DecoderMatches, TexturesMatch, FrameMatches, Waiting, Initialized
<1>2. objects' = {}
  BY DEF SurfacesInv, ObjectsMatch
<1>3. Registered' = {}
  BY DEF Registered, TexturesOf
<1> QED BY <1>1, <1>2, <1>3 DEF SurfacesInv, ObjectsMatch

LEMMA TexturesAreRight == SurfacesInv => TexturesFitFrames
<1> SUFFICES ASSUME SurfacesInv PROVE TexturesFitFrames
  OBVIOUS
<1>1. ASSUME reading # NoTexture
      PROVE  reading = Texture(mapped, decoder_.pitch, decoder_.width, decoder_.height) /\ TexturesOf(reading) \subseteq objects
  <2>1. mapped \in Surfaces /\ reading = textures_[mapped]
    BY <1>1 DEF SurfacesInv, FrameMatches
  <2>2. TexturesOf(reading) \subseteq Registered
    BY <2>1 DEF Registered
  <2> QED BY <1>1, <2>1, <2>2 DEF SurfacesInv, TexturesMatch, OfDecoder, ObjectsMatch
<1> QED BY <1>1 DEF TexturesFitFrames, SurfacesInv, ObjectsMatch

\* TexturesFitFrames for any formats, surfaces and pitches: no texture outlives the decoder whose frames
\* it was made for, as a stream that changes its format keeps the decoder it has.
THEOREM TexturesTheorem == SurfacesSpec => []TexturesFitFrames
<1>1. SurfacesInit => SurfacesInv
  BY SurfacesInitially
<1>2. SurfacesInv /\ [SurfacesNext]_surfaceVars => SurfacesInv'
  <2> SUFFICES ASSUME SurfacesInv, [SurfacesNext]_surfaceVars PROVE SurfacesInv'
    OBVIOUS
  <2>1. ASSUME NEW format \in Formats, Initialize(format) PROVE SurfacesInv'
    BY <2>1, InitializeKeeps
  <2>2. ASSUME NEW ptr \in Surfaces, MapFrame(ptr) PROVE SurfacesInv'
    BY <2>2, MapFrameKeeps
  <2>3. CASE GetTexture
    BY <2>3, GetTextureKeeps
  <2>4. CASE Processed
    BY <2>4, ProcessedKeeps
  <2>5. CASE Replace
    BY <2>5, ReplaceKeeps
  <2>6. CASE UNCHANGED surfaceVars
    <3>1. DecoderMatches' /\ TexturesMatch' /\ FrameMatches'
      BY <2>6 DEF surfaceVars, SurfacesInv, DecoderMatches, TexturesMatch, FrameMatches, Initialized, OfDecoder
    <3>2. UNCHANGED <<textures_, objects>>
      BY <2>6 DEF surfaceVars
    <3> QED BY <3>1, <3>2, TexturesStay DEF SurfacesInv
  <2> QED BY <2>1, <2>2, <2>3, <2>4, <2>5, <2>6 DEF SurfacesNext
<1>3. SurfacesInv => TexturesFitFrames
  BY TexturesAreRight
<1> QED BY <1>1, <1>2, <1>3, PTL DEF SurfacesSpec
=============================================================================
