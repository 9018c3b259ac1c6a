----------------------------- MODULE VideoReader -----------------------------
(***************************************************************************)
(* VideoReader: random access to the frames of one video                    *)
(* (src/src/video/video_reader.cc), and the calls the Python class makes.   *)
(*                                                                         *)
(* Frames are numbered in presentation order.  The demuxer and the decoder  *)
(* are one stream of outputs, as FrameStream says of the decoder: the       *)
(* frames of the packets from the place of the last av_seek_frame on, in    *)
(* order, then end-of-stream signals.  A loop that feeds packets until the  *)
(* decoder gives something is one step; the loops of the reader around it,  *)
(* with what they keep from one round to the next, are steps of their own.  *)
(***************************************************************************)
EXTENDS Integers, Sequences, FiniteSets

CONSTANTS
  NumFrames,    \* packets of the video stream
  NumSignals,   \* end-of-stream signals the decoder queues (128 in the code)
  RewindMax,    \* REWIND_RETRY_MAX
  FaultTol,     \* fault_tol_thresh_; negative if there is none
  MaxBatch,     \* bound: indices in one get_batch
  Files,        \* the videos; see FilesAssumption
  Calls         \* Calls[f]: the calls the user of video f makes

Frames == 0 .. NumFrames - 1

\* Of a video: its key frames, how many frames that come before a key frame are
\* stored behind it (the leading frames of an open GOP), the frames whose packets
\* cannot be decoded, whether a forward av_seek_frame finds the next key frame, and
\* whether av_seek_frame may fail.
ASSUME FilesAssumption ==
  /\ NumFrames \in Nat \ {0} /\ NumSignals \in Nat \ {0} /\ RewindMax \in Nat
  /\ FaultTol \in Int /\ MaxBatch \in Nat
  /\ \A f \in Files :
       /\ f.keys \subseteq Frames /\ 0 \in f.keys /\ f.corrupt \subseteq Frames
       /\ f.exact \in BOOLEAN /\ f.fails \in BOOLEAN
       /\ f.leading \in [f.keys -> Nat] /\ f.leading[0] = 0
       /\ \A j, k \in f.keys : j < k => j < k - f.leading[k]

VARIABLES
  file,
  curr_frame, overrun, tmp_key_frame, cached_frame, failed_idx,
  out, signals,      \* stream: next frame it may give, signals it gave
  standins,          \* frames it gives as the 1-byte stand-in of a skipped one
  pc, then,          \* next step, and the one after the SeekAccurate under way
  pos, num,          \* SeekAccurate's target; frames SkipFramesImpl has to go
  discard,           \* discard_pts_ of the decoder
  rewind_offset,
  signal,            \* NextFrameImpl's frame still is the signal it popped last
  indices, got,      \* GetBatch: what was asked for, and the frames so far
  cursor,            \* where the caller is, as VideoCursor counts; None after a
                     \* seek that need not be accurate
  want,              \* the frame the caller of NextFrameImpl expects
  last, last_want,   \* what NextFrameImpl returned last, and for which frame
  recovered          \* frames for which it returned an earlier one

streamVars == <<out, signals, standins>>
readerVars == <<curr_frame, overrun, tmp_key_frame, cached_frame, failed_idx>>
seekVars == <<then, pos>>
loopVars == <<num, discard, rewind_offset, signal>>
batchVars == <<indices, got>>
resultVars == <<want, last, last_want, recovered>>
vars == <<file, streamVars, readerVars, pc, seekVars, loopVars, batchVars, cursor, resultVars>>

None == -1
Empty == NumFrames   \* the empty array NextFrameImpl returns behind the last frame
Least(S) == CHOOSE x \in S : \A y \in S : x <= y
Greatest(S) == CHOOSE x \in S : \A y \in S : y <= x

Init ==
  /\ file \in Files
  /\ curr_frame = 0 /\ overrun = FALSE /\ tmp_key_frame = None
  /\ cached_frame = None /\ failed_idx = {}
  /\ out = 0 /\ signals = 0 /\ standins = {}
  /\ pc = "idle" /\ then = "idle" /\ pos = 0 /\ num = 0 /\ discard = {}
  /\ rewind_offset = 0 /\ signal = FALSE /\ indices = <<>> /\ got = <<>>
  /\ cursor = 0 /\ want = 0 /\ last = None /\ last_want = None /\ recovered = {}

----------------------------------------------------------------------------
(* The stream *)

Left == {f \in Frames : f >= out /\ f \notin file.corrupt}

PopFrame(f) ==
  /\ f \in Left /\ \A g \in Left : f <= g
  /\ out' = f + 1
  /\ UNCHANGED <<signals, standins>>

PopSignal ==
  /\ Left = {} /\ signals < NumSignals
  /\ signals' = signals + 1
  /\ UNCHANGED <<out, standins>>

\* Pop returns false at once: nothing is left and the decoder does not drain.
Starved == Left = {} /\ signals = NumSignals

\* Where av_seek_frame takes the demuxer: a key frame at or before the position,
\* or forward to one behind it, in some containers not the one asked for.
Landing(p) ==
  IF curr_frame > p \/ \A k \in file.keys : k < p
  THEN {Greatest({k \in file.keys : k <= p})}
  ELSE IF file.exact THEN {Least({k \in file.keys : k >= p})}
  ELSE file.keys \cup {NumFrames}

----------------------------------------------------------------------------
(* Seek, LocateKeyframe, SeekAccurate *)

SeekFails(p) ==
  /\ curr_frame # p /\ file.fails
  /\ out' \in out .. NumFrames   \* what the decoder had is cleared and lost
  /\ signals' = 0 /\ standins' = {} /\ cached_frame' = None
  /\ UNCHANGED <<curr_frame, overrun, tmp_key_frame, failed_idx>>

Seek(p) ==
  \/ curr_frame = p /\ UNCHANGED <<streamVars, readerVars>>
  \/ /\ curr_frame # p
     /\ out' \in Landing(p)
     /\ signals' = 0 /\ standins' = {}
     /\ curr_frame' = p /\ cached_frame' = None
     /\ UNCHANGED <<overrun, tmp_key_frame, failed_idx>>

\* key_indices_ counts packets in the order of the file.
KeyIndices == {k - file.leading[k] : k \in file.keys}
LastKey(p) == Greatest({k \in KeyIndices : k <= p})
LocateKeyframe(p) == IF p <= 0 THEN 0 ELSE LastKey(p)

\* SeekAccurate(p) up to the first loop over the stream or call to Seek; next is
\* what its caller does afterwards.
SeekAccurate(p, next) ==
  /\ pos' = p /\ then' = next
  /\ \/ /\ curr_frame = p
        /\ pc' = next /\ UNCHANGED <<overrun, num, discard>>
     \/ /\ curr_frame < p /\ LocateKeyframe(p) = LocateKeyframe(curr_frame)
        /\ overrun' = FALSE
        /\ num' = p - curr_frame /\ discard' = curr_frame .. p - 1
        /\ pc' = "skip"
     \/ /\ curr_frame > p \/ LocateKeyframe(p) # LocateKeyframe(curr_frame)
        /\ overrun' = FALSE
        /\ pc' = "seek_start" /\ UNCHANGED <<num, discard>>
  /\ UNCHANGED <<file, curr_frame, tmp_key_frame, cached_frame, failed_idx>>

\* SeekAccurate returned false: seek_accurate and vr[i] raise, but GetBatch and
\* NextFrameImpl go on.
SeekAccurateFails(p) ==
  /\ SeekFails(p)
  /\ IF then = "next" /\ indices = <<>> THEN pc' = "idle" ELSE pc' = then
  /\ IF pc' = "idle" THEN cursor' = None /\ then' = "idle" ELSE UNCHANGED <<cursor, then>>

\* "first rewind to 0, in order to increase seek accuracy"
SeekStart ==
  /\ pc = "seek_start"
  /\ \/ Seek(0) /\ pc' = "seek_key" /\ UNCHANGED <<cursor, then>>
     \/ SeekAccurateFails(0)
  /\ UNCHANGED <<file, pos, loopVars, batchVars, resultVars>>

SeekKey ==
  /\ pc = "seek_key"
  /\ \/ Seek(LocateKeyframe(pos)) /\ pc' = "check" /\ UNCHANGED <<cursor, then>>
     \/ SeekAccurateFails(LocateKeyframe(pos))
  /\ UNCHANGED <<file, pos, loopVars, batchVars, resultVars>>

\* SkipFramesImpl(n) where the reader is after this step.
Skip(n) ==
  /\ num' = n
  /\ discard' = {f \in Frames : curr_frame' <= f /\ f < curr_frame' + n}
  /\ pc' = "skip"

\* CheckKeyFrame decodes one frame: it is the key frame that was sought ...
KeyFrameFound ==
  /\ pc = "check" /\ PopFrame(curr_frame)
  /\ curr_frame' = curr_frame + 1 /\ tmp_key_frame' = curr_frame
  /\ overrun' = (pos = curr_frame)
  /\ IF pos > curr_frame THEN Skip(pos - curr_frame')
     ELSE pc' = then /\ UNCHANGED <<num, discard>>
  /\ UNCHANGED <<file, cached_frame, failed_idx, seekVars, rewind_offset, signal,
                 batchVars, cursor, resultVars>>

\* ... or another frame, and the reader now knows where it is ...
OtherFrameFound ==
  /\ pc = "check"
  /\ \E f \in Left : f # curr_frame /\ PopFrame(f) /\ curr_frame' = f + 1
  /\ IF curr_frame' < pos THEN Skip(pos - curr_frame')
     ELSE pc' = "seek_back" /\ UNCHANGED <<num, discard>>
  /\ UNCHANGED <<file, overrun, tmp_key_frame, cached_frame, failed_idx, seekVars,
                 rewind_offset, signal, batchVars, cursor, resultVars>>

\* Slip: the end of the file is where the reader is, and stays.
NoFrameFoundStays ==
  /\ pc = "check" /\ PopSignal
  /\ curr_frame' = NumFrames
  /\ pc' = then
  /\ UNCHANGED <<file, overrun, tmp_key_frame, cached_frame, failed_idx, seekVars,
                 loopVars, batchVars, cursor, resultVars>>

\* ... or "wrongly jumpped to the end of file".
NoFrameFound ==
  /\ pc = "check" /\ PopSignal
  /\ curr_frame' = NumFrames
  /\ pc' = "seek_back"
  /\ UNCHANGED <<file, overrun, tmp_key_frame, cached_frame, failed_idx, seekVars,
                 loopVars, batchVars, cursor, resultVars>>

\* "since curr_frame_ is larger, Seek will use AVSEEK_FLAG_BACKWARD"
SeekBack ==
  /\ pc = "seek_back"
  /\ \/ Seek(LocateKeyframe(pos))
     \/ SeekFails(LocateKeyframe(pos))
  /\ Skip(pos - LocateKeyframe(pos))
  /\ UNCHANGED <<file, seekVars, rewind_offset, signal, batchVars, cursor, resultVars>>

----------------------------------------------------------------------------
(* SkipFramesImpl: any output counts as a frame, signals included. *)

\* Slip: a signal is not counted.
SkipOneNoSignals ==
  /\ pc = "skip" /\ num > 0 /\ curr_frame < NumFrames
  /\ \/ PopSignal /\ UNCHANGED <<curr_frame, num>>
     \/ \E f \in Left : PopFrame(f) /\ curr_frame' = curr_frame + 1 /\ num' = num - 1
  /\ UNCHANGED <<file, overrun, tmp_key_frame, cached_frame, failed_idx, pc, seekVars,
                 discard, rewind_offset, signal, batchVars, cursor, resultVars>>

\* A round in which Pop gives nothing changes nothing: if nothing is left there is no
\* step (here and in CheckKeyFrame), and the loop spins for ever.
SkipOne ==
  /\ pc = "skip" /\ num > 0 /\ curr_frame < NumFrames
  /\ PopSignal \/ \E f \in Left : PopFrame(f)
  /\ curr_frame' = curr_frame + 1 /\ num' = num - 1
  /\ UNCHANGED <<file, overrun, tmp_key_frame, cached_frame, failed_idx, pc, seekVars,
                 discard, rewind_offset, signal, batchVars, cursor, resultVars>>

\* ClearDiscardPTS: the worker may be ahead and have discarded more frames.
SkipEnds ==
  /\ pc = "skip" /\ (num <= 0 \/ curr_frame = NumFrames)
  /\ pc' = then
  /\ discard' = {} /\ num' = 0 /\ pos' = 0
  /\ \E ahead \in 0 .. NumFrames :
       standins' = {f \in standins \cup discard : out <= f /\ (f \in standins \/ f < ahead)}
  /\ UNCHANGED <<file, out, signals, readerVars, then, rewind_offset, signal,
                 batchVars, cursor, resultVars>>

----------------------------------------------------------------------------
(* NextFrameImpl *)

LocalsEnd == then' = "idle" /\ pos' = 0 /\ rewind_offset' = 0 /\ signal' = FALSE

Return(f) ==
  /\ last' = f /\ last_want' = want
  /\ recovered' = IF FaultTol >= 0 /\ f < want THEN recovered \cup {want} ELSE recovered
  /\ got' = IF indices = <<>> THEN <<>> ELSE Append(got, f)
  /\ pc' = IF indices = <<>> THEN "idle" ELSE "batch"
  /\ LocalsEnd
  /\ UNCHANGED <<file, num, discard, indices, cursor, want>>

\* LOG(FATAL) throws out of every loop and call there is.
Raise ==
  /\ pc' = "idle" /\ indices' = <<>> /\ got' = <<>> /\ cursor' = None
  /\ LocalsEnd
  /\ UNCHANGED <<file, num, discard, resultVars>>

\* Slip: the key frame is not given up.
NextOverrunAgain ==
  /\ pc = "next" /\ overrun
  /\ Return(tmp_key_frame)
  /\ UNCHANGED <<streamVars, overrun, curr_frame, tmp_key_frame, cached_frame, failed_idx>>

\* The key frame CheckKeyFrame has decoded is returned now.
NextOverrun ==
  /\ pc = "next" /\ overrun
  /\ overrun' = FALSE
  /\ Return(tmp_key_frame)
  /\ UNCHANGED <<streamVars, curr_frame, tmp_key_frame, cached_frame, failed_idx>>

NextStart ==
  /\ pc = "next" /\ ~overrun
  /\ pc' = "pop"
  /\ UNCHANGED <<file, streamVars, readerVars, seekVars, loopVars, batchVars, cursor, resultVars>>

\* GetBatch has no place in its buffer for an empty array.
NextEmpty ==
  /\ pc = "pop" /\ curr_frame = NumFrames
  /\ IF indices = <<>> THEN Return(Empty) ELSE Raise
  /\ UNCHANGED <<streamVars, readerVars>>

NextPopped ==
  /\ pc = "pop" /\ curr_frame < NumFrames
  /\ \E f \in Left \ standins :
       PopFrame(f) /\ Return(f) /\ cached_frame' = f
  /\ curr_frame' = curr_frame + 1
  /\ UNCHANGED <<overrun, tmp_key_frame, failed_idx>>

\* "skipped frames or waiting for more packets": a stand-in, or NDArray().
NextSkipped ==
  /\ pc = "pop" /\ curr_frame < NumFrames
  /\ \/ \E f \in Left \cap standins : PopFrame(f)
     \/ signal /\ signals = 0 /\ UNCHANGED streamVars
  /\ signal' = FALSE
  /\ UNCHANGED <<file, readerVars, pc, seekVars, num, discard, rewind_offset,
                 batchVars, cursor, resultVars>>

\* Slip: the frame replaced just now is not counted.
TooManyFailedBefore == FaultTol >= 0 /\ Cardinality(failed_idx) > FaultTol
TooManyFailed == FaultTol >= 0 /\ Cardinality(failed_idx') > FaultTol

\* Slip: the reader does not move on.
NextCachedAgain ==
  /\ pc = "pop" /\ curr_frame < NumFrames /\ cached_frame # None
  /\ PopSignal \/ (Starved /\ UNCHANGED streamVars)
  /\ failed_idx' = failed_idx \cup {curr_frame}
  /\ IF TooManyFailed THEN Raise /\ UNCHANGED curr_frame
     ELSE Return(cached_frame) /\ UNCHANGED curr_frame
  /\ UNCHANGED <<overrun, tmp_key_frame, cached_frame>>

\* FetchCachedFrame: at an end-of-stream signal, or when the stream is starved
\* for longer than EOF_RETRY_MAX, the last good frame stands in.
NextCached ==
  /\ pc = "pop" /\ curr_frame < NumFrames /\ cached_frame # None
  /\ PopSignal \/ (Starved /\ UNCHANGED streamVars)
  /\ failed_idx' = failed_idx \cup {curr_frame}
  /\ IF TooManyFailed THEN Raise /\ UNCHANGED curr_frame
     ELSE Return(cached_frame) /\ curr_frame' = curr_frame + 1
  /\ UNCHANGED <<overrun, tmp_key_frame, cached_frame>>

\* The frame variable keeps the signal while Pop gives nothing: a signal seen once
\* may count again before the stream had time to give anything.
SignalSeen ==
  \/ PopSignal
  \/ signal /\ (signals = 0 \/ Starved) /\ UNCHANGED streamVars

\* Slip: the limit is one too high.
NextRewindsOnceMore ==
  /\ pc = "pop" /\ curr_frame < NumFrames /\ cached_frame = None
  /\ SignalSeen /\ signal' = TRUE
  /\ rewind_offset <= RewindMax + 1
  /\ rewind_offset' = rewind_offset + 1
  /\ SeekAccurate(curr_frame - rewind_offset, "pop")
  /\ UNCHANGED <<batchVars, cursor, resultVars>>

\* Without a good frame the reader goes back, one frame further each time.
NextRewinds ==
  /\ pc = "pop" /\ curr_frame < NumFrames /\ cached_frame = None
  /\ SignalSeen /\ signal' = TRUE
  /\ rewind_offset <= RewindMax
  /\ rewind_offset' = rewind_offset + 1
  /\ SeekAccurate(curr_frame - rewind_offset, "pop")
  /\ UNCHANGED <<batchVars, cursor, resultVars>>

NextGivesUp ==
  /\ pc = "pop" /\ curr_frame < NumFrames /\ cached_frame = None
  /\ \/ SignalSeen /\ rewind_offset > RewindMax
     \/ Starved /\ ~signal /\ UNCHANGED streamVars
  /\ Raise
  /\ UNCHANGED readerVars

----------------------------------------------------------------------------
(* GetBatch *)

BatchLeft == pc = "batch" /\ Len(got) < Len(indices)
Index == indices[Len(got) + 1]
Repeats == {i \in 1 .. Len(got) : indices[i] = Index}

\* "not the first occurance of frame, try to copy from buffer"
BatchCopy ==
  /\ BatchLeft /\ Repeats # {}
  /\ got' = Append(got, got[Least(Repeats)])
  /\ last' = got[Least(Repeats)] /\ last_want' = Index
  /\ UNCHANGED <<file, streamVars, readerVars, pc, seekVars, loopVars, indices, cursor,
                 want, recovered>>

BatchFrame ==
  /\ BatchLeft /\ Repeats = {}
  /\ SeekAccurate(Index, "next")
  /\ want' = Index
  /\ UNCHANGED <<streamVars, rewind_offset, signal, batchVars, cursor, last,
                 last_want, recovered>>

BatchDone ==
  /\ pc = "batch" /\ Len(got) = Len(indices)
  /\ pc' = "idle" /\ indices' = <<>> /\ got' = <<>>
  /\ UNCHANGED <<file, streamVars, readerVars, seekVars, loopVars, cursor, resultVars>>

\* The position behind the last frame a batch decodes; the others are copies.
After(batch) ==
  1 + batch[Greatest({i \in DOMAIN batch : \A j \in 1 .. i - 1 : batch[j] # batch[i]})]

----------------------------------------------------------------------------
(* The calls *)

\* A call of the user, who wants frame f of NextFrameImpl.
Call(name, f) ==
  /\ pc = "idle" /\ name \in Calls[file]
  /\ want' = f /\ last' = None /\ last_want' = None /\ UNCHANGED recovered

Forward(i, n) == IF i + n < NumFrames THEN i + n ELSE NumFrames

\* next()
CallNext ==
  /\ Call("next", cursor)
  /\ pc' = "next"
  /\ cursor' = IF cursor = None THEN None ELSE Forward(cursor, 1)
  /\ UNCHANGED <<file, streamVars, readerVars, seekVars, loopVars, batchVars>>

\* vr[i] is seek_accurate(i) and next().
CallGetItem ==
  /\ \E i \in Frames : Call("getitem", i) /\ SeekAccurate(i, "next") /\ cursor' = i + 1
  /\ UNCHANGED <<streamVars, rewind_offset, signal, batchVars>>

CallGetBatch ==
  /\ Call("get_batch", None)
  /\ \E n \in 1 .. MaxBatch : indices' \in [1 .. n -> Frames]
  /\ pc' = "batch" /\ cursor' = After(indices')
  /\ UNCHANGED <<file, streamVars, readerVars, seekVars, loopVars, got>>

CallSeekAccurate ==
  /\ Call("seek_accurate", None)
  /\ \E i \in Frames : SeekAccurate(i, "idle") /\ cursor' = i
  /\ UNCHANGED <<streamVars, rewind_offset, signal, batchVars>>

\* seek(i), of which accuracy is expected at key frames only ("seek_key").
CallSeek ==
  /\ \E i \in Frames :
       \/ Call("seek", None) /\ Seek(i) /\ cursor' = None
       \/ i \in file.keys /\ Call("seek_key", None) /\ Seek(i) /\ cursor' = i
       \/ (Call("seek", None) \/ Call("seek_key", None)) /\ SeekFails(i) /\ cursor' = None
  /\ UNCHANGED <<file, pc, seekVars, loopVars, batchVars>>

\* SkipFrames(n) seeks to the last key frame it would pass over.
CallSkipFrames ==
  /\ Call("skip_frames", None)
  /\ \E n \in 1 .. NumFrames :
       LET to == Forward(curr_frame, n)
           from == IF LastKey(to) > LastKey(curr_frame) THEN LastKey(to) ELSE curr_frame
       IN /\ Seek(from) \/ SeekFails(from)
          /\ Skip(to - from)
          /\ cursor' = IF cursor = None THEN None ELSE Forward(cursor, n)
  /\ UNCHANGED <<file, seekVars, rewind_offset, signal, batchVars>>

Continue ==
  \/ SeekStart \/ SeekKey \/ KeyFrameFound \/ OtherFrameFound \/ NoFrameFound \/ SeekBack
  \/ SkipOne \/ SkipEnds
  \/ NextOverrun \/ NextStart \/ NextEmpty \/ NextPopped \/ NextSkipped \/ NextCached
  \/ NextRewinds \/ NextGivesUp
  \/ BatchCopy \/ BatchFrame \/ BatchDone

CallSomething ==
  \/ CallNext \/ CallGetItem \/ CallGetBatch \/ CallSeekAccurate \/ CallSeek \/ CallSkipFrames

Next == Continue \/ CallSomething

Spec == Init /\ [][Next]_vars

\* A call runs until it returns.
FairSpec == Spec /\ WF_vars(Continue)

----------------------------------------------------------------------------
(* Properties *)

Steps == {"idle", "seek_start", "seek_key", "check", "seek_back", "skip", "next", "pop", "batch"}

StreamOK == out \in 0 .. NumFrames /\ signals \in 0 .. NumSignals /\ standins \subseteq Frames

ReaderOK ==
  /\ file \in Files /\ curr_frame \in 0 .. NumFrames
  /\ tmp_key_frame \in Frames \cup {None} /\ cached_frame \in Frames \cup {None}
  /\ failed_idx \subseteq Frames

StepOK ==
  /\ pc \in Steps /\ then \in {"idle", "next", "pop"}
  /\ pos \in -RewindMax .. NumFrames /\ num \in -RewindMax .. NumFrames
  /\ discard \subseteq Frames /\ rewind_offset \in 0 .. RewindMax + 1

CallOK ==
  /\ indices \in Seq(Frames) /\ got \in Seq(Frames) /\ Len(got) <= Len(indices)
  /\ cursor \in None .. NumFrames /\ want \in None .. NumFrames
  /\ last \in None .. NumFrames /\ last_want \in None .. NumFrames
  /\ recovered \subseteq 0 .. NumFrames

FlagsOK == overrun \in BOOLEAN /\ signal \in BOOLEAN

\* Every variable has its type: no position, cached frame or stream place is
\* outside the video.
TypeOK == StreamOK /\ ReaderOK /\ StepOK /\ CallOK /\ FlagsOK

\* "vr[i] -- frame at index i" (docs/api.md): frames are those asked for.
FramesAreThoseAsked == last_want # None => last = last_want

\* The end of the video is reported only to a caller that is there, if av_seek_frame
\* works.
EndOnlyAtEnd == ~file.fails /\ last = Empty => last_want \in {NumFrames, None}

\* "If N > fault_tol, raise PELILimitReachedError" (python/peli/video_reader.py)
\* for the N frames that were replaced by an earlier frame.
FaultTolIsALimit == FaultTol >= 0 => Cardinality(recovered) <= FaultTol

\* Iterating over a video, damaged or not, gives len(vr) frames and then the end.
IterationIsComplete == last_want # None => (last = Empty <=> last_want = NumFrames)

\* Every call returns, whatever cannot be decoded.
CallsReturn == pc # "idle" ~> pc = "idle"

(* VideoReader implements VideoCursor.  Of a damaged video the cursor stays at rest. *)
Intact == file.corrupt = {}
Asked ==
  IF ~Intact THEN <<>>
  ELSE IF indices # <<>> THEN SubSeq(indices, Len(got) + 1, Len(indices))
  ELSE IF pc # "idle" /\ want # None THEN <<want>>
  ELSE <<>>
Cursor == INSTANCE VideoCursor WITH
  position <- IF Intact THEN cursor ELSE 0, busy <- Intact /\ pc # "idle",
  asked <- Asked, result <- IF Intact THEN last ELSE None

\* With intact videos, closed GOPs and seek_accurate only as part of vr[i], the
\* reader is a cursor: every read gives the frame at the cursor.
ImplementsCursor == Cursor!FairSpec
=============================================================================
