-------------------------- MODULE VideoReader_proofs --------------------------
(***************************************************************************)
(* What the reader promises of every video and every sequence of calls      *)
(* (TypeTheorem, EndTheorem), of videos as they are meant to be played      *)
(* (IterationTheorem, FaultTolTheorem), and that it is a cursor over those  *)
(* that are intact (CursorTheorem).                                         *)
(***************************************************************************)
EXTENDS VideoReader, WellFoundedInduction, FiniteSetTheorems, SequenceTheorems, TLAPS

LEMMA Numbers ==
  /\ NumFrames \in Nat /\ NumFrames > 0 /\ NumSignals \in Nat /\ NumSignals > 0
  /\ RewindMax \in Nat /\ FaultTol \in Int /\ MaxBatch \in Nat
BY FilesAssumption

\* Every nonempty set of natural numbers has a least one ...
LEMMA LeastNatural ==
  ASSUME NEW T \in SUBSET Nat, T # {}
  PROVE  \E x \in T : \A y \in T : x <= y
<1> DEFINE R == OpToRel(<, Nat)
<1>1. IsWellFoundedOn(R, Nat)
  BY NatLessThanWellFounded
<1>2. \A x, y \in Nat : y < x => <<y, x>> \in R
  BY DEF OpToRel
<1> HIDE DEF R
<1>3. PICK x \in T : \A y \in T : ~(<<y, x>> \in R)
  BY <1>1, WFMin
<1>4. \A y \in T : ~(y < x)
  BY <1>2, <1>3, Zenon
<1>5. T \subseteq Nat
  OBVIOUS
<1> HIDE <1>2, <1>3
<1> QED BY <1>4, <1>5

\* ... and a greatest one if it has a bound.
LEMMA GreatestNatural ==
  ASSUME NEW n \in Nat, NEW T \in SUBSET (0 .. n), T # {}
  PROVE  \E x \in T : \A y \in T : y <= x
<1> DEFINE U == {n - x : x \in T}
<1>1. U \subseteq Nat /\ U # {}
  <2>1. \A x \in T : n - x \in Nat
    OBVIOUS
  <2> QED BY <2>1
<1>2. PICK u \in U : \A v \in U : u <= v
  BY <1>1, LeastNatural
<1>3. PICK x \in T : u = n - x
  BY <1>2
<1>4. ASSUME NEW y \in T PROVE y <= x
  <2>1. n - y \in U
    OBVIOUS
  <2> QED BY <2>1, <1>2, <1>3
<1> QED BY <1>4

LEMMA LeastIs ==
  ASSUME NEW T \in SUBSET Nat, T # {}
  PROVE  Least(T) \in T /\ \A y \in T : Least(T) <= y
BY LeastNatural DEF Least

LEMMA GreatestIs ==
  ASSUME NEW n \in Nat, NEW T \in SUBSET (0 .. n), T # {}
  PROVE  Greatest(T) \in T /\ \A y \in T : y <= Greatest(T)
BY GreatestNatural DEF Greatest

----------------------------------------------------------------------------
(* Key frames *)

LEMMA FileFacts ==
  ASSUME file \in Files
  PROVE  /\ file.keys \subseteq Frames /\ 0 \in file.keys
         /\ \A k \in file.keys : file.leading[k] \in Nat /\ file.leading[k] <= k
         /\ file.leading[0] = 0
<1>1. /\ file.keys \subseteq Frames /\ 0 \in file.keys
      /\ file.leading \in [file.keys -> Nat] /\ file.leading[0] = 0
      /\ \A j, k \in file.keys : j < k => j < k - file.leading[k]
  BY FilesAssumption
<1>2. ASSUME NEW k \in file.keys PROVE file.leading[k] \in Nat /\ file.leading[k] <= k
  <2>1. k \in Nat /\ file.leading[k] \in Nat
    BY <1>1, Numbers DEF Frames
  <2>2. CASE k = 0
    BY <2>2, <1>1, <2>1
  <2>3. CASE k > 0
    <3>1. 0 < k - file.leading[k]
      BY <2>3, <1>1, <2>1
    <3> QED BY <3>1, <2>1
  <2> QED BY <2>1, <2>2, <2>3
<1> QED BY <1>1, <1>2

\* The key frame before a position is a frame before it.
LEMMA LastKeyIs ==
  ASSUME file \in Files, NEW p \in Nat
  PROVE  LastKey(p) \in KeyIndices /\ LastKey(p) \in Frames /\ LastKey(p) <= p
<1> DEFINE T == {k \in KeyIndices : k <= p}
<1>1. KeyIndices \subseteq Frames /\ 0 \in KeyIndices
  BY FileFacts, Numbers DEF KeyIndices, Frames
<1>2. T \in SUBSET (0 .. p) /\ 0 \in T
  <2>1. \A k \in T : k \in Nat /\ k <= p
    BY <1>1, Numbers DEF Frames
  <2> QED BY <2>1, <1>1
<1> HIDE DEF T
<1>3. Greatest(T) \in T
  BY <1>2, GreatestIs
<1>4. LastKey(p) = Greatest(T)
  BY DEF LastKey, T
<1>5. LastKey(p) \in T
  BY <1>3, <1>4
<1> QED BY <1>5, <1>1 DEF T

LEMMA LocateIs ==
  ASSUME file \in Files, NEW p \in Int
  PROVE  /\ LocateKeyframe(p) \in Frames
         /\ p >= 0 => LocateKeyframe(p) <= p
         /\ p <= 0 => LocateKeyframe(p) = 0
BY LastKeyIs, Numbers DEF LocateKeyframe, Frames

\* Wherever av_seek_frame takes the demuxer, it is in the video; back to the start it
\* is exact.
LEMMA LandingIs ==
  ASSUME file \in Files, NEW p \in Frames, curr_frame \in 0 .. NumFrames
  PROVE  Landing(p) \subseteq 0 .. NumFrames /\ (p = 0 /\ curr_frame # 0 => Landing(p) = {0})
<1>1. file.keys \subseteq 0 .. NumFrames - 1 /\ 0 \in file.keys /\ p \in Nat
  BY FileFacts, Numbers DEF Frames
<1> DEFINE T == {k \in file.keys : k <= p}
<1> DEFINE U == {k \in file.keys : k >= p}
<1>2. T \in SUBSET (0 .. p) /\ 0 \in T
  BY <1>1, Numbers
<1>3. U \in SUBSET Nat
  BY <1>1, Numbers
<1> HIDE DEF T, U
<1>4. Greatest(T) \in T
  BY <1>1, <1>2, GreatestIs
<1>5. U # {} => Least(U) \in U
  BY <1>3, LeastIs
<1>6. Landing(p) = IF curr_frame > p \/ \A k \in file.keys : k < p THEN {Greatest(T)}
                   ELSE IF file.exact THEN {Least(U)} ELSE file.keys \cup {NumFrames}
  BY DEF Landing, T, U
<1>7. T \subseteq 0 .. NumFrames /\ U \subseteq 0 .. NumFrames
  BY <1>1, Numbers DEF T, U
<1>8. U = {} => \A k \in file.keys : k < p
  BY <1>1, Numbers DEF U
<1>9. Landing(p) \subseteq 0 .. NumFrames
  <2>1. Greatest(T) \in 0 .. NumFrames
    BY <1>4, <1>7
  <2>2. CASE curr_frame > p \/ \A k \in file.keys : k < p
    BY <2>1, <2>2, <1>6
  <2>3. CASE ~(curr_frame > p \/ \A k \in file.keys : k < p)
    <3>1. Least(U) \in 0 .. NumFrames
      BY <2>3, <1>5, <1>7, <1>8
    <3>2. file.keys \cup {NumFrames} \subseteq 0 .. NumFrames
      BY <1>1, Numbers
    <3>3. Landing(p) = IF file.exact THEN {Least(U)} ELSE file.keys \cup {NumFrames}
      BY <2>3, <1>6
    <3> QED BY <3>1, <3>2, <3>3
  <2> QED BY <2>2, <2>3
<1>10. ASSUME p = 0, curr_frame # 0 PROVE Landing(p) = {0}
  <2>1. curr_frame > p
    BY <1>10, Numbers
  <2>2. Greatest(T) = 0
    <3>1. Greatest(T) \in 0 .. 0
      BY <1>10, <1>4, <1>2
    <3> QED BY <3>1
  <2> QED BY <2>1, <2>2, <1>6
<1> QED BY <1>9, <1>10

----------------------------------------------------------------------------
(***************************************************************************)
(* Type correctness: with the types go the shape of a batch under way and   *)
(* where the reader is when it checks a key frame.                          *)
(***************************************************************************)

Seeking == {"seek_start", "seek_key", "check", "seek_back", "skip"}

\* A key frame is kept for who is to be given it.
KeyKept == overrun => tmp_key_frame # None

\* There is a batch exactly while it is worked on, and a frame of it to get but in its
\* own step.
BatchShape ==
  /\ pc = "idle" => indices = <<>>
  /\ pc = "batch" => indices # <<>>
  /\ pc \in Seeking /\ indices # <<>> => then # "idle"
  /\ pc \in {"idle", "batch"} => then = "idle"
  /\ indices # <<>> /\ pc # "batch" => Len(got) < Len(indices)

\* The key frame to check is the one before the position sought.
AtKey == pc = "check" => curr_frame = LocateKeyframe(pos)

ReaderInv == TypeOK /\ KeyKept /\ BatchShape /\ AtKey

LEMMA InitReader == Init => ReaderInv
<1> SUFFICES ASSUME Init PROVE ReaderInv
  OBVIOUS
<1>1. StreamOK /\ ReaderOK
  BY Numbers DEF Init, StreamOK, ReaderOK, Frames
<1>2. StepOK /\ CallOK
  BY Numbers DEF Init, StepOK, CallOK, Steps, None
<1>3. KeyKept /\ BatchShape /\ AtKey
  BY DEF Init, KeyKept, BatchShape, AtKey, Seeking
<1>4. FlagsOK
  BY DEF Init, FlagsOK
<1> QED BY <1>1, <1>2, <1>3, <1>4 DEF ReaderInv, TypeOK

USE DEF Steps, Seeking

\* What a seek changes.
LEMMA SeekGives ==
  ASSUME ReaderInv, NEW p \in Frames, Seek(p), file' = file
  PROVE  curr_frame' = p /\ overrun' = overrun /\ StreamOK' /\ ReaderOK' /\ KeyKept'
<1> USE DEF ReaderInv, TypeOK, StreamOK, ReaderOK, KeyKept
<1>1. Landing(p) \subseteq 0 .. NumFrames /\ p \in 0 .. NumFrames
  BY LandingIs, Numbers DEF Frames
<1>2. CASE curr_frame = p /\ UNCHANGED <<streamVars, readerVars>>
  BY <1>2 DEF streamVars, readerVars
<1>3. CASE /\ curr_frame # p /\ out' \in Landing(p)
           /\ signals' = 0 /\ standins' = {} /\ curr_frame' = p /\ cached_frame' = None
           /\ UNCHANGED <<overrun, tmp_key_frame, failed_idx>>
  BY <1>1, <1>3, Numbers
<1> QED BY <1>2, <1>3 DEF Seek

LEMMA SeekFailsGives ==
  ASSUME ReaderInv, NEW p, SeekFails(p), file' = file
  PROVE  curr_frame' = curr_frame /\ overrun' = overrun /\ StreamOK' /\ ReaderOK' /\ KeyKept'
BY Numbers DEF SeekFails, ReaderInv, TypeOK, StreamOK, ReaderOK, KeyKept

LEMMA PopFrameGives ==
  ASSUME TypeOK, NEW f, PopFrame(f)
  PROVE  /\ f \in Frames /\ f >= out /\ f \notin file.corrupt /\ \A g \in Left : f <= g
         /\ out' = f + 1 /\ StreamOK' /\ UNCHANGED <<signals, standins>>
BY Numbers DEF PopFrame, TypeOK, StreamOK, Left, Frames

\* What the end of NextFrameImpl changes, and that of a call that raises.
LEMMA ReturnGives ==
  ASSUME ReaderInv, NEW f \in 0 .. NumFrames, Return(f), pc \in {"next", "pop"},
         indices # <<>> => f \in Frames
  PROVE  StepOK' /\ CallOK' /\ BatchShape' /\ pc' \in {"idle", "batch"} /\ file' = file /\ signal' = FALSE
<1> USE DEF ReaderInv, TypeOK, Return
<1>1. StepOK'
  BY Numbers DEF LocalsEnd, StepOK
<1>2. CASE indices = <<>>
  <2>1. CallOK'
    BY <1>2, Numbers DEF CallOK, None
  <2>2. BatchShape'
    BY <1>2 DEF BatchShape, LocalsEnd
  <2> QED BY <1>1, <1>2, <2>1, <2>2 DEF LocalsEnd
<1>3. CASE indices # <<>>
  <2>1. Len(got) < Len(indices) /\ Len(got') = Len(got) + 1 /\ got' \in Seq(Frames)
    BY <1>3 DEF BatchShape, CallOK
  <2>2. CallOK'
    BY <1>3, <2>1, Numbers DEF CallOK, None
  <2>3. BatchShape'
    BY <1>3 DEF BatchShape, LocalsEnd
  <2> QED BY <1>1, <1>3, <2>2, <2>3 DEF LocalsEnd
<1> QED BY <1>2, <1>3

LEMMA RaiseGives ==
  ASSUME ReaderInv, Raise
  PROVE  StepOK' /\ CallOK' /\ BatchShape' /\ pc' = "idle" /\ file' = file /\ signal' = FALSE
<1> USE DEF ReaderInv, TypeOK, Raise
<1>1. StepOK'
  BY Numbers DEF LocalsEnd, StepOK
<1>2. CallOK'
  BY Numbers DEF CallOK, None, resultVars
<1>3. BatchShape'
  BY DEF BatchShape, LocalsEnd
<1> QED BY <1>1, <1>2, <1>3 DEF LocalsEnd

\* What SeekAccurate changes at once.
LEMMA SeekAccurateGives ==
  ASSUME ReaderInv, NEW p \in -RewindMax .. NumFrames, NEW next \in {"idle", "next", "pop"}, SeekAccurate(p, next)
  PROVE  /\ pc' \in {next, "skip", "seek_start"} /\ pos' \in -RewindMax .. NumFrames /\ then' = next
         /\ num' \in -RewindMax .. NumFrames /\ discard' \subseteq Frames
         /\ overrun' \in {overrun, FALSE}
         /\ UNCHANGED <<file, curr_frame, tmp_key_frame, cached_frame, failed_idx>>
<1> USE DEF ReaderInv, TypeOK, ReaderOK, StepOK
<1>1. CASE curr_frame = p /\ pc' = next /\ UNCHANGED <<overrun, num, discard>>
  BY <1>1 DEF SeekAccurate
<1>2. CASE /\ curr_frame < p /\ overrun' = FALSE
           /\ num' = p - curr_frame /\ discard' = curr_frame .. p - 1 /\ pc' = "skip"
  <2>1. num' \in -RewindMax .. NumFrames /\ discard' \subseteq Frames
    BY <1>2, Numbers DEF Frames
  <2> QED BY <1>2, <2>1 DEF SeekAccurate
<1>3. CASE overrun' = FALSE /\ pc' = "seek_start" /\ UNCHANGED <<num, discard>>
  BY <1>3 DEF SeekAccurate
<1> QED BY <1>1, <1>2, <1>3 DEF SeekAccurate

\* The caller's variables keep their types while a call is under way.
LEMMA CallKept ==
  ASSUME ReaderInv, UNCHANGED <<batchVars, resultVars>>, cursor' \in {cursor, None}
  PROVE  CallOK' /\ UNCHANGED <<indices, got, want, last, last_want, recovered>>
BY Numbers DEF ReaderInv, TypeOK, CallOK, batchVars, resultVars, None

LEMMA PopSignalGives ==
  ASSUME TypeOK, PopSignal
  PROVE  StreamOK' /\ Left = {} /\ UNCHANGED <<out, standins>>
BY Numbers DEF PopSignal, TypeOK, StreamOK


LEMMA SeekStartTypes == ASSUME ReaderInv, SeekStart PROVE ReaderInv'
<1> USE DEF ReaderInv, TypeOK
<1>1. UNCHANGED <<file, pos, num, discard, rewind_offset, signal, batchVars, resultVars>>
  BY DEF SeekStart, loopVars
<1>2. 0 \in Frames
  BY Numbers DEF Frames
<1>3. CASE Seek(0) /\ pc' = "seek_key" /\ UNCHANGED <<cursor, then>>
  <2>1. overrun' = overrun /\ StreamOK' /\ ReaderOK' /\ KeyKept'
    BY <1>1, <1>2, <1>3, SeekGives
  <2>2. CallOK' /\ UNCHANGED <<indices, got>>
    BY <1>1, <1>3, CallKept
  <2>3. StepOK' /\ BatchShape' /\ AtKey'
    BY <1>1, <1>3, <2>2 DEF StepOK, BatchShape, AtKey, SeekStart
  <2> QED BY <1>1, <2>1, <2>2, <2>3, Zenon DEF FlagsOK
<1>4. CASE SeekAccurateFails(0)
  <2>1. overrun' = overrun /\ StreamOK' /\ ReaderOK' /\ KeyKept'
    BY <1>1, <1>4, SeekFailsGives DEF SeekAccurateFails
  <2>2. CallOK' /\ UNCHANGED <<indices, got>>
    BY <1>1, <1>4, CallKept DEF SeekAccurateFails
  <2>3. StepOK' /\ BatchShape' /\ AtKey'
    BY <1>1, <1>4, <2>2 DEF StepOK, BatchShape, AtKey, SeekStart, SeekAccurateFails
  <2> QED BY <1>1, <2>1, <2>2, <2>3, Zenon DEF FlagsOK
<1> QED BY <1>3, <1>4 DEF SeekStart

LEMMA SeekKeyTypes == ASSUME ReaderInv, SeekKey PROVE ReaderInv'
<1> USE DEF ReaderInv, TypeOK
<1>1. UNCHANGED <<file, pos, num, discard, rewind_offset, signal, batchVars, resultVars>>
  BY DEF SeekKey, loopVars
<1>2. LocateKeyframe(pos) \in Frames
  BY LocateIs DEF ReaderOK, StepOK
<1>3. CASE Seek(LocateKeyframe(pos)) /\ pc' = "check" /\ UNCHANGED <<cursor, then>>
  <2>1. /\ curr_frame' = LocateKeyframe(pos)
        /\ overrun' = overrun /\ StreamOK' /\ ReaderOK' /\ KeyKept'
    BY <1>1, <1>2, <1>3, SeekGives
  <2>2. CallOK' /\ UNCHANGED <<indices, got>>
    BY <1>1, <1>3, CallKept
  <2>3. LocateKeyframe(pos)' = LocateKeyframe(pos)
    BY <1>1 DEF LocateKeyframe, LastKey, KeyIndices
  <2>4. StepOK' /\ BatchShape' /\ AtKey'
    BY <1>1, <1>3, <2>1, <2>2, <2>3 DEF StepOK, BatchShape, AtKey, SeekKey
  <2> QED BY <1>1, <2>1, <2>2, <2>4, Zenon DEF FlagsOK
<1>4. CASE SeekAccurateFails(LocateKeyframe(pos))
  <2>1. overrun' = overrun /\ StreamOK' /\ ReaderOK' /\ KeyKept'
    BY <1>1, <1>4, SeekFailsGives DEF SeekAccurateFails
  <2>2. CallOK' /\ UNCHANGED <<indices, got>>
    BY <1>1, <1>4, CallKept DEF SeekAccurateFails
  <2>3. StepOK' /\ BatchShape' /\ AtKey'
    BY <1>1, <1>4, <2>2 DEF StepOK, BatchShape, AtKey, SeekKey, SeekAccurateFails
  <2> QED BY <1>1, <2>1, <2>2, <2>3, Zenon DEF FlagsOK
<1> QED BY <1>3, <1>4 DEF SeekKey

\* SkipFramesImpl(n) is called with types.
LEMMA SkipGives ==
  ASSUME NEW n, Skip(n), n \in -RewindMax .. NumFrames
  PROVE  num' \in -RewindMax .. NumFrames /\ discard' \subseteq Frames /\ pc' = "skip"
BY DEF Skip

LEMMA KeyFrameFoundTypes == ASSUME ReaderInv, KeyFrameFound PROVE ReaderInv'
<1> USE DEF ReaderInv, TypeOK
<1>1. UNCHANGED <<file, cached_frame, failed_idx, then, pos, rewind_offset, signal, batchVars,
                  cursor, resultVars>>
  BY DEF KeyFrameFound, seekVars
<1>2. curr_frame \in Frames /\ StreamOK'
  BY PopFrameGives DEF KeyFrameFound
<1>3. ReaderOK' /\ KeyKept'
  BY <1>1, <1>2, Numbers DEF KeyFrameFound, ReaderOK, KeyKept, Frames, None
<1>4. CallOK' /\ UNCHANGED <<indices, got>>
  BY <1>1, CallKept
<1>5. FlagsOK'
  BY <1>1, Zenon DEF FlagsOK, KeyFrameFound
<1>6. CASE pos > curr_frame /\ Skip(pos - curr_frame')
  <2>1. pos - curr_frame' \in -RewindMax .. NumFrames
    BY <1>2, <1>6, Numbers DEF KeyFrameFound, StepOK, Frames
  <2>2. StepOK' /\ BatchShape' /\ AtKey'
    BY <1>1, <1>4, <1>6, <2>1, SkipGives DEF StepOK, BatchShape, AtKey, KeyFrameFound
  <2> QED BY <1>2, <1>3, <1>4, <1>5, <2>2
<1>7. CASE pc' = then /\ UNCHANGED <<num, discard>>
  <2>1. StepOK' /\ BatchShape' /\ AtKey'
    BY <1>1, <1>4, <1>7 DEF StepOK, BatchShape, AtKey, KeyFrameFound
  <2> QED BY <1>2, <1>3, <1>4, <1>5, <2>1
<1> QED BY <1>6, <1>7 DEF KeyFrameFound

LEMMA OtherFrameFoundTypes == ASSUME ReaderInv, OtherFrameFound PROVE ReaderInv'
<1> USE DEF ReaderInv, TypeOK
<1>1. UNCHANGED <<file, overrun, tmp_key_frame, cached_frame, failed_idx, then, pos, rewind_offset,
                  signal, batchVars, cursor, resultVars>>
  BY DEF OtherFrameFound, seekVars
<1>2. PICK f \in Left : PopFrame(f) /\ curr_frame' = f + 1
  BY DEF OtherFrameFound
<1>3. curr_frame' \in 1 .. NumFrames /\ StreamOK'
  BY <1>2, PopFrameGives, Numbers DEF Frames
<1>4. ReaderOK' /\ KeyKept'
  BY <1>1, <1>3, Numbers DEF ReaderOK, KeyKept
<1>5. CallOK' /\ UNCHANGED <<indices, got>>
  BY <1>1, CallKept
<1>6. CASE curr_frame' < pos /\ Skip(pos - curr_frame')
  <2>1. pos - curr_frame' \in -RewindMax .. NumFrames
    <3>1. pos \in -RewindMax .. NumFrames
      BY DEF StepOK
    <3>2. f \in Frames /\ f + 1 < pos
      BY <1>2, <1>6, PopFrameGives
    <3>3. pos - (f + 1) \in -RewindMax .. NumFrames
      BY ONLY <3>1, <3>2, Numbers DEF Frames
    <3> QED BY <3>3, <1>2
  <2>2. StepOK' /\ BatchShape' /\ AtKey'
    BY <1>1, <1>5, <1>6, <2>1, SkipGives DEF StepOK, BatchShape, AtKey, OtherFrameFound
  <2> QED BY <1>1, <1>3, <1>4, <1>5, <2>2 DEF FlagsOK
<1>7. CASE pc' = "seek_back" /\ UNCHANGED <<num, discard>>
  <2>1. StepOK' /\ BatchShape' /\ AtKey'
    BY <1>1, <1>5, <1>7 DEF StepOK, BatchShape, AtKey, OtherFrameFound
  <2> QED BY <1>1, <1>3, <1>4, <1>5, <2>1 DEF FlagsOK
<1> QED BY <1>6, <1>7 DEF OtherFrameFound

LEMMA NoFrameFoundTypes == ASSUME ReaderInv, NoFrameFound PROVE ReaderInv'
<1> USE DEF ReaderInv, TypeOK
<1>1. UNCHANGED <<file, overrun, tmp_key_frame, cached_frame, failed_idx, then, pos, num, discard,
                  rewind_offset, signal, batchVars, cursor, resultVars>>
  BY DEF NoFrameFound, seekVars, loopVars
<1>2. StreamOK'
  BY PopSignalGives DEF NoFrameFound
<1>3. ReaderOK' /\ KeyKept'
  BY <1>1, Numbers DEF NoFrameFound, ReaderOK, KeyKept
<1>4. CallOK' /\ UNCHANGED <<indices, got>>
  BY <1>1, CallKept
<1>5. StepOK' /\ BatchShape' /\ AtKey'
  BY <1>1, <1>4 DEF NoFrameFound, StepOK, BatchShape, AtKey
<1> QED BY <1>1, <1>2, <1>3, <1>4, <1>5 DEF FlagsOK

LEMMA SeekBackTypes == ASSUME ReaderInv, SeekBack PROVE ReaderInv'
<1> USE DEF ReaderInv, TypeOK
<1>1. UNCHANGED <<file, then, pos, rewind_offset, signal, batchVars, cursor, resultVars>>
  BY DEF SeekBack, seekVars
<1>2. /\ LocateKeyframe(pos) \in Frames /\ pos - LocateKeyframe(pos) \in -RewindMax .. NumFrames
  <2>1. pos \in Int
    BY Numbers DEF StepOK
  <2> QED BY <2>1, LocateIs, Numbers DEF ReaderOK, StepOK, Frames
<1>3. overrun' = overrun /\ StreamOK' /\ ReaderOK' /\ KeyKept'
  BY <1>1, <1>2, SeekGives, SeekFailsGives DEF SeekBack
<1>4. CallOK' /\ UNCHANGED <<indices, got>>
  BY <1>1, CallKept
<1>5. StepOK' /\ BatchShape' /\ AtKey'
  BY <1>1, <1>2, <1>4, SkipGives DEF StepOK, BatchShape, AtKey, SeekBack
<1> QED BY <1>1, <1>3, <1>4, <1>5, Zenon DEF FlagsOK

LEMMA SkipOneTypes == ASSUME ReaderInv, SkipOne PROVE ReaderInv'
<1> USE DEF ReaderInv, TypeOK
<1>1. UNCHANGED <<file, overrun, tmp_key_frame, cached_frame, failed_idx, pc, then, pos, discard,
                  rewind_offset, signal, batchVars, cursor, resultVars>>
  BY DEF SkipOne, seekVars
<1>2. StreamOK'
  BY PopSignalGives, PopFrameGives DEF SkipOne
<1>3. ReaderOK' /\ KeyKept'
  BY <1>1, Numbers DEF SkipOne, ReaderOK, KeyKept
<1>4. CallOK' /\ UNCHANGED <<indices, got>>
  BY <1>1, CallKept
<1>5. StepOK' /\ BatchShape' /\ AtKey'
  BY <1>1, <1>4, Numbers DEF SkipOne, StepOK, BatchShape, AtKey
<1> QED BY <1>1, <1>2, <1>3, <1>4, <1>5 DEF FlagsOK

LEMMA SkipEndsTypes == ASSUME ReaderInv, SkipEnds PROVE ReaderInv'
<1> USE DEF ReaderInv, TypeOK
<1>1. UNCHANGED <<file, out, signals, curr_frame, overrun, tmp_key_frame, cached_frame, failed_idx,
                  then, rewind_offset, signal, batchVars, cursor, resultVars>>
  BY DEF SkipEnds, readerVars
<1>2. StreamOK' /\ ReaderOK' /\ KeyKept'
  BY <1>1 DEF SkipEnds, StreamOK, ReaderOK, StepOK, KeyKept
<1>3. CallOK' /\ UNCHANGED <<indices, got>>
  BY <1>1, CallKept
<1>4. StepOK' /\ BatchShape' /\ AtKey'
  BY <1>1, <1>3, Numbers DEF SkipEnds, StepOK, BatchShape, AtKey
<1> QED BY <1>1, <1>2, <1>3, <1>4 DEF FlagsOK

----------------------------------------------------------------------------

LEMMA NextOverrunTypes == ASSUME ReaderInv, NextOverrun PROVE ReaderInv'
<1> USE DEF ReaderInv, TypeOK
<1>1. UNCHANGED <<out, signals, standins, curr_frame, tmp_key_frame, cached_frame, failed_idx>>
  BY DEF NextOverrun, streamVars
<1>2. tmp_key_frame \in Frames /\ tmp_key_frame \in 0 .. NumFrames
  <2>1. tmp_key_frame \in Frames
    BY DEF NextOverrun, KeyKept, ReaderOK
  <2> QED BY <2>1, Numbers DEF Frames
<1>3. /\ StepOK' /\ CallOK' /\ BatchShape' /\ pc' \in {"idle", "batch"} /\ file' = file
      /\ signal' = FALSE
  BY <1>2, ReturnGives DEF NextOverrun
<1>4. StreamOK' /\ ReaderOK' /\ KeyKept' /\ AtKey'
  BY <1>1, <1>3 DEF NextOverrun, StreamOK, ReaderOK, KeyKept, AtKey
<1>5. FlagsOK'
  BY <1>3, Zenon DEF NextOverrun, FlagsOK
<1> QED BY <1>3, <1>4, <1>5

LEMMA NextStartTypes == ASSUME ReaderInv, NextStart PROVE ReaderInv'
<1> USE DEF ReaderInv, TypeOK
<1>1. StreamOK' /\ ReaderOK' /\ KeyKept'
  BY DEF NextStart, StreamOK, ReaderOK, KeyKept, streamVars, readerVars
<1>2. CallOK' /\ UNCHANGED <<indices, got>>
  BY CallKept DEF NextStart
<1>3. StepOK' /\ BatchShape' /\ AtKey'
  BY <1>2 DEF NextStart, StepOK, BatchShape, AtKey, seekVars, loopVars
<1>4. FlagsOK'
  BY DEF NextStart, FlagsOK, readerVars, loopVars
<1> QED BY <1>1, <1>2, <1>3, <1>4

LEMMA NextEmptyTypes == ASSUME ReaderInv, NextEmpty PROVE ReaderInv'
<1> USE DEF ReaderInv, TypeOK
<1>1. /\ StepOK' /\ CallOK' /\ BatchShape' /\ pc' \in {"idle", "batch"} /\ file' = file
      /\ signal' = FALSE
  <2>1. CASE indices = <<>> /\ Return(Empty)
    <3>1. Empty \in 0 .. NumFrames /\ pc = "pop"
      BY Numbers DEF NextEmpty, Empty
    <3> QED BY <2>1, <3>1, ReturnGives
  <2>2. CASE Raise
    BY <2>2, RaiseGives
  <2> QED BY <2>1, <2>2 DEF NextEmpty
<1>2. StreamOK' /\ ReaderOK' /\ KeyKept' /\ AtKey'
  BY <1>1 DEF NextEmpty, StreamOK, ReaderOK, KeyKept, AtKey, streamVars, readerVars
<1>3. FlagsOK'
  BY <1>1 DEF NextEmpty, FlagsOK, readerVars
<1> QED BY <1>1, <1>2, <1>3

LEMMA NextPoppedTypes == ASSUME ReaderInv, NextPopped PROVE ReaderInv'
<1> USE DEF ReaderInv, TypeOK
<1>1. PICK f \in Left \ standins : PopFrame(f) /\ Return(f) /\ cached_frame' = f
  BY DEF NextPopped
<1>2. f \in Frames /\ f \in 0 .. NumFrames /\ StreamOK'
  BY <1>1, PopFrameGives, Numbers DEF Frames
<1>3. /\ StepOK' /\ CallOK' /\ BatchShape' /\ pc' \in {"idle", "batch"} /\ file' = file
      /\ signal' = FALSE
  BY <1>1, <1>2, ReturnGives DEF NextPopped
<1>4. ReaderOK' /\ KeyKept' /\ AtKey'
  BY <1>1, <1>2, <1>3, Numbers DEF NextPopped, ReaderOK, KeyKept, AtKey
<1>5. FlagsOK'
  BY <1>3 DEF NextPopped, FlagsOK
<1> QED BY <1>2, <1>3, <1>4, <1>5

LEMMA NextSkippedTypes == ASSUME ReaderInv, NextSkipped PROVE ReaderInv'
<1> USE DEF ReaderInv, TypeOK
<1>1. UNCHANGED <<file, curr_frame, overrun, tmp_key_frame, cached_frame, failed_idx, pc, then, pos,
                  num, discard, rewind_offset, batchVars, cursor, resultVars>>
  BY DEF NextSkipped, readerVars, seekVars
<1>2. StreamOK'
  BY PopFrameGives DEF NextSkipped, StreamOK, streamVars
<1>3. CallOK' /\ UNCHANGED <<indices, got>>
  BY <1>1, CallKept
<1>4. ReaderOK' /\ KeyKept' /\ StepOK' /\ BatchShape' /\ AtKey'
  BY <1>1, <1>3 DEF NextSkipped, ReaderOK, KeyKept, StepOK, BatchShape, AtKey
<1>5. FlagsOK'
  BY <1>1, Zenon DEF NextSkipped, FlagsOK
<1> QED BY <1>2, <1>3, <1>4, <1>5

LEMMA NextCachedTypes == ASSUME ReaderInv, NextCached PROVE ReaderInv'
<1> USE DEF ReaderInv, TypeOK
<1>1. StreamOK' /\ UNCHANGED <<overrun, tmp_key_frame, cached_frame>>
  BY PopSignalGives DEF NextCached, StreamOK, streamVars
<1>2. cached_frame \in Frames /\ cached_frame \in 0 .. NumFrames
  BY Numbers DEF NextCached, ReaderOK, Frames
<1>3. /\ StepOK' /\ CallOK' /\ BatchShape' /\ pc' \in {"idle", "batch"} /\ file' = file
      /\ signal' = FALSE /\ curr_frame' \in {curr_frame, curr_frame + 1}
  BY <1>2, ReturnGives, RaiseGives DEF NextCached
<1>4. failed_idx' \subseteq Frames /\ curr_frame' \in 0 .. NumFrames
  BY <1>3, Numbers DEF NextCached, ReaderOK, Frames
<1>5. ReaderOK' /\ KeyKept' /\ AtKey'
  BY <1>1, <1>3, <1>4 DEF ReaderOK, KeyKept, AtKey
<1>6. FlagsOK'
  BY <1>1, <1>3, Zenon DEF FlagsOK
<1> QED BY <1>1, <1>3, <1>5, <1>6

LEMMA NextRewindsTypes == ASSUME ReaderInv, NextRewinds PROVE ReaderInv'
<1> USE DEF ReaderInv, TypeOK
<1>1. StreamOK'
  BY PopSignalGives DEF NextRewinds, SignalSeen, StreamOK, streamVars
<1>2. curr_frame - rewind_offset \in -RewindMax .. NumFrames /\ curr_frame - rewind_offset <= curr_frame
  BY Numbers DEF NextRewinds, ReaderOK, StepOK
<1>3. SeekAccurate(curr_frame - rewind_offset, "pop")
  BY DEF NextRewinds
<1>4. /\ pc' \in {"pop", "skip", "seek_start"} /\ pos' \in -RewindMax .. NumFrames /\ then' = "pop"
      /\ num' \in -RewindMax .. NumFrames /\ discard' \subseteq Frames
      /\ overrun' \in {overrun, FALSE}
      /\ UNCHANGED <<file, curr_frame, tmp_key_frame, cached_frame, failed_idx>>
  BY <1>2, <1>3, SeekAccurateGives
<1>5. CallOK' /\ UNCHANGED <<indices, got>>
  BY CallKept DEF NextRewinds
<1>6. StepOK'
  BY <1>4, Numbers DEF NextRewinds, StepOK
<1>7. ReaderOK' /\ BatchShape' /\ AtKey'
  BY <1>4, <1>5 DEF NextRewinds, ReaderOK, BatchShape, AtKey
<1>8. FlagsOK'
  BY <1>4, Zenon DEF NextRewinds, FlagsOK
<1>9. KeyKept'
  BY <1>4 DEF KeyKept
<1> QED BY <1>1, <1>5, <1>6, <1>7, <1>8, <1>9

LEMMA NextGivesUpTypes == ASSUME ReaderInv, NextGivesUp PROVE ReaderInv'
<1> USE DEF ReaderInv, TypeOK
<1>1. StreamOK'
  BY PopSignalGives DEF NextGivesUp, SignalSeen, StreamOK, streamVars
<1>2. /\ StepOK' /\ CallOK' /\ BatchShape' /\ pc' = "idle" /\ file' = file /\ signal' = FALSE
  BY RaiseGives DEF NextGivesUp
<1>3. ReaderOK' /\ KeyKept' /\ AtKey'
  BY <1>2 DEF NextGivesUp, ReaderOK, KeyKept, AtKey, readerVars
<1>4. FlagsOK'
  BY <1>2 DEF NextGivesUp, FlagsOK, readerVars
<1> QED BY <1>1, <1>2, <1>3, <1>4

----------------------------------------------------------------------------

LEMMA BatchCopyTypes == ASSUME ReaderInv, BatchCopy PROVE ReaderInv'
<1> USE DEF ReaderInv, TypeOK
<1>1. UNCHANGED <<file, out, signals, standins, curr_frame, overrun, tmp_key_frame, cached_frame,
                  failed_idx, pc, then, pos, num, discard, rewind_offset, signal, indices, cursor,
                  want, recovered>>
  BY DEF BatchCopy, streamVars, readerVars, seekVars, loopVars
<1>2. got[Least(Repeats)] \in Frames /\ last_want' \in Frames
  <2>1. Repeats \in SUBSET Nat /\ Repeats # {}
    BY DEF BatchCopy, Repeats
  <2>2. Least(Repeats) \in 1 .. Len(got)
    BY <2>1, LeastIs DEF Repeats
  <2>3. Len(got) + 1 \in 1 .. Len(indices)
    BY DEF BatchCopy, BatchLeft, CallOK
  <2>4. indices \in Seq(Frames) /\ got \in Seq(Frames) /\ last_want' = indices[Len(got) + 1]
    BY DEF BatchCopy, CallOK, Index
  <2> QED BY <2>2, <2>3, <2>4, ElementOfSeq
<1>3. got' \in Seq(Frames) /\ Len(got') <= Len(indices)
  BY <1>2 DEF BatchCopy, BatchLeft, CallOK
<1>4. CallOK'
  <2>1. last_want' \in None .. NumFrames
    BY <1>2, Numbers DEF Frames, None
  <2>2. last' \in None .. NumFrames
    BY <1>2, Numbers DEF BatchCopy, CallOK, Frames, None
  <2> QED BY <1>1, <1>3, <2>1, <2>2 DEF CallOK
<1>5. StreamOK' /\ ReaderOK' /\ StepOK' /\ FlagsOK'
  BY <1>1 DEF StreamOK, ReaderOK, StepOK, FlagsOK
<1>6. KeyKept' /\ BatchShape' /\ AtKey'
  BY <1>1 DEF BatchCopy, BatchLeft, KeyKept, BatchShape, AtKey
<1> QED BY <1>4, <1>5, <1>6

LEMMA BatchFrameTypes == ASSUME ReaderInv, BatchFrame PROVE ReaderInv'
<1> USE DEF ReaderInv, TypeOK
<1>1. UNCHANGED <<out, signals, standins, rewind_offset, signal, indices, got, cursor, last,
                  last_want, recovered>>
  BY DEF BatchFrame, streamVars, batchVars
<1>2. Index \in Frames /\ Index \in -RewindMax .. NumFrames /\ Len(got) < Len(indices)
  <2>1. Len(got) + 1 \in 1 .. Len(indices)
    BY DEF BatchFrame, BatchLeft, CallOK
  <2>2. Index \in Frames
    BY <2>1 DEF Index, CallOK
  <2> QED BY <2>2, Numbers DEF BatchFrame, BatchLeft, Frames
<1>3. /\ pc' \in {"next", "skip", "seek_start"} /\ pos' \in -RewindMax .. NumFrames /\ then' = "next"
      /\ num' \in -RewindMax .. NumFrames /\ discard' \subseteq Frames
      /\ overrun' \in {overrun, FALSE}
      /\ UNCHANGED <<file, curr_frame, tmp_key_frame, cached_frame, failed_idx>>
  BY <1>2, SeekAccurateGives DEF BatchFrame
<1>4. StreamOK' /\ ReaderOK' /\ StepOK'
  BY <1>1, <1>3 DEF StreamOK, ReaderOK, StepOK
<1>5. CallOK'
  BY <1>1, <1>2, Numbers DEF BatchFrame, CallOK, Frames, None
<1>6. BatchShape' /\ AtKey'
  BY <1>1, <1>2, <1>3 DEF BatchFrame, BatchLeft, BatchShape, AtKey
<1>7. FlagsOK'
  BY <1>1, <1>3, Zenon DEF FlagsOK
<1>8. KeyKept'
  BY <1>3 DEF KeyKept
<1> QED BY <1>4, <1>5, <1>6, <1>7, <1>8

LEMMA BatchDoneTypes == ASSUME ReaderInv, BatchDone PROVE ReaderInv'
<1> USE DEF ReaderInv, TypeOK
<1>1. UNCHANGED <<file, out, signals, standins, curr_frame, overrun, tmp_key_frame, cached_frame,
                  failed_idx, then, pos, num, discard, rewind_offset, signal, cursor, want, last,
                  last_want, recovered>>
  BY DEF BatchDone, streamVars, readerVars, seekVars, loopVars, resultVars
<1>2. StreamOK' /\ ReaderOK' /\ StepOK' /\ FlagsOK'
  BY <1>1 DEF BatchDone, StreamOK, ReaderOK, StepOK, FlagsOK
<1>3. CallOK' /\ KeyKept' /\ BatchShape' /\ AtKey'
  BY <1>1 DEF BatchDone, CallOK, KeyKept, BatchShape, AtKey
<1> QED BY <1>2, <1>3

----------------------------------------------------------------------------

LEMMA CallNextTypes == ASSUME ReaderInv, CallNext PROVE ReaderInv'
<1> USE DEF ReaderInv, TypeOK
<1>1. UNCHANGED <<file, out, signals, standins, curr_frame, overrun, tmp_key_frame, cached_frame,
                  failed_idx, then, pos, num, discard, rewind_offset, signal, indices, got, recovered>>
  BY DEF CallNext, Call, streamVars, readerVars, seekVars, loopVars, batchVars
<1>2. StreamOK' /\ ReaderOK' /\ StepOK' /\ FlagsOK'
  BY <1>1 DEF CallNext, StreamOK, ReaderOK, StepOK, FlagsOK
<1>3. CallOK'
  <2>1. cursor \in None .. NumFrames /\ (cursor # None => Forward(cursor, 1) \in 0 .. NumFrames)
    BY Numbers DEF CallOK, Forward, None
  <2> QED BY <1>1, <2>1, Numbers DEF CallNext, Call, CallOK, None
<1>4. KeyKept' /\ BatchShape' /\ AtKey'
  BY <1>1 DEF CallNext, Call, KeyKept, BatchShape, AtKey
<1> QED BY <1>2, <1>3, <1>4

\* The calls that begin with SeekAccurate.
LEMMA AccurateCallTypes ==
  ASSUME ReaderInv, NEW i \in Frames, NEW next \in {"idle", "next"}, SeekAccurate(i, next),
         pc = "idle", want' \in {i, None}, last' = None, last_want' = None, recovered' = recovered,
         cursor' \in {i, i + 1}, UNCHANGED <<streamVars, rewind_offset, signal, batchVars>>
  PROVE  ReaderInv'
<1> USE DEF ReaderInv, TypeOK
<1>1. UNCHANGED <<out, signals, standins, rewind_offset, signal, indices, got>>
  BY DEF streamVars, batchVars
<1>2. i \in -RewindMax .. NumFrames
  BY Numbers DEF Frames
<1>3. /\ pc' \in {next, "skip", "seek_start"} /\ pos' \in -RewindMax .. NumFrames /\ then' = next
      /\ num' \in -RewindMax .. NumFrames /\ discard' \subseteq Frames
      /\ overrun' \in {overrun, FALSE}
      /\ UNCHANGED <<file, curr_frame, tmp_key_frame, cached_frame, failed_idx>>
  BY <1>2, SeekAccurateGives
<1>4. StreamOK' /\ ReaderOK' /\ StepOK'
  BY <1>1, <1>3 DEF StreamOK, ReaderOK, StepOK
<1>5. CallOK'
  BY <1>1, Numbers DEF CallOK, Frames, None
<1>6. BatchShape' /\ AtKey'
  BY <1>1, <1>3 DEF BatchShape, AtKey
<1>7. FlagsOK'
  BY <1>1, <1>3, Zenon DEF FlagsOK
<1>8. KeyKept'
  BY <1>3 DEF KeyKept
<1> QED BY <1>4, <1>5, <1>6, <1>7, <1>8

\* After of a batch is the position behind one of its frames.
LEMMA AfterIs ==
  ASSUME NEW n \in Nat, n > 0, NEW batch \in [1 .. n -> Frames]
  PROVE  After(batch) \in 1 .. NumFrames
<1> DEFINE T == {i \in DOMAIN batch : \A j \in 1 .. i - 1 : batch[j] # batch[i]}
<1>1. T \in SUBSET (0 .. n) /\ 1 \in T
  OBVIOUS
<1> HIDE DEF T
<1>2. Greatest(T) \in T
  BY <1>1, GreatestIs
<1>3. batch[Greatest(T)] \in Frames
  BY <1>2 DEF T
<1>4. After(batch) = 1 + batch[Greatest(T)]
  BY DEF After, T
<1> QED BY <1>3, <1>4, Numbers DEF Frames

LEMMA CallGetBatchTypes == ASSUME ReaderInv, CallGetBatch PROVE ReaderInv'
<1> USE DEF ReaderInv, TypeOK
<1>1. UNCHANGED <<file, out, signals, standins, curr_frame, overrun, tmp_key_frame, cached_frame,
                  failed_idx, then, pos, num, discard, rewind_offset, signal, got, recovered>>
  BY DEF CallGetBatch, Call, streamVars, readerVars, seekVars, loopVars
<1>2. PICK n \in 1 .. MaxBatch : indices' \in [1 .. n -> Frames]
  BY DEF CallGetBatch
<1>3. n \in Nat /\ n > 0 /\ indices' \in Seq(Frames) /\ Len(indices') = n
  BY <1>2, Numbers
<1>4. After(indices') \in 1 .. NumFrames
  BY <1>2, <1>3, AfterIs
<1>5. got = <<>>
  BY DEF CallGetBatch, Call, BatchShape, CallOK
<1>6. CallOK'
  BY <1>1, <1>3, <1>4, <1>5, Numbers DEF CallGetBatch, Call, CallOK, None
<1>7. StreamOK' /\ ReaderOK' /\ StepOK' /\ FlagsOK'
  BY <1>1 DEF CallGetBatch, StreamOK, ReaderOK, StepOK, FlagsOK
<1>8. KeyKept' /\ BatchShape' /\ AtKey'
  BY <1>1, <1>3 DEF CallGetBatch, Call, KeyKept, BatchShape, AtKey
<1> QED BY <1>6, <1>7, <1>8

LEMMA CallSeekTypes == ASSUME ReaderInv, CallSeek PROVE ReaderInv'
<1> USE DEF ReaderInv, TypeOK
<1>1. UNCHANGED <<file, pc, then, pos, num, discard, rewind_offset, signal, indices, got>>
  BY DEF CallSeek, seekVars, loopVars, batchVars
<1>2. PICK i \in Frames :
        /\ Seek(i) \/ SeekFails(i)
        /\ pc = "idle" /\ want' = None /\ last' = None /\ last_want' = None
        /\ UNCHANGED recovered /\ cursor' \in {i, None}
  BY DEF CallSeek, Call
<1>3. overrun' = overrun /\ StreamOK' /\ ReaderOK' /\ KeyKept'
  BY <1>1, <1>2, SeekGives, SeekFailsGives
<1>4. CallOK'
  BY <1>1, <1>2, Numbers DEF CallOK, Frames, None
<1>5. StepOK' /\ BatchShape' /\ AtKey'
  BY <1>1, <1>2 DEF StepOK, BatchShape, AtKey
<1> QED BY <1>1, <1>3, <1>4, <1>5, Zenon DEF FlagsOK

LEMMA CallSkipFramesTypes == ASSUME ReaderInv, CallSkipFrames PROVE ReaderInv'
<1> USE DEF ReaderInv, TypeOK
<1>1. UNCHANGED <<file, then, pos, rewind_offset, signal, indices, got, recovered>>
  BY DEF CallSkipFrames, Call, seekVars, batchVars
<1>2. PICK n \in 1 .. NumFrames :
        LET to == Forward(curr_frame, n)
            from == IF LastKey(to) > LastKey(curr_frame) THEN LastKey(to) ELSE curr_frame
        IN /\ Seek(from) \/ SeekFails(from)
           /\ Skip(to - from)
           /\ cursor' = IF cursor = None THEN None ELSE Forward(cursor, n)
  BY DEF CallSkipFrames
<1> DEFINE to == Forward(curr_frame, n)
           from == IF LastKey(to) > LastKey(curr_frame) THEN LastKey(to) ELSE curr_frame
<1>3. to \in 0 .. NumFrames /\ curr_frame <= to /\ curr_frame \in 0 .. NumFrames
  BY Numbers DEF ReaderOK, Forward
<1> HIDE DEF to
<1>4. LastKey(to) \in Frames /\ LastKey(to) <= to
  BY <1>3, LastKeyIs DEF ReaderOK
<1>5. from \in 0 .. NumFrames /\ from <= to /\ (from = curr_frame \/ from \in Frames)
  BY <1>3, <1>4, Numbers DEF Frames
<1>6. /\ Seek(from) \/ SeekFails(from)
      /\ Skip(to - from)
      /\ cursor' = IF cursor = None THEN None ELSE Forward(cursor, n)
  BY <1>2 DEF to
<1> HIDE DEF from
<1>7. overrun' = overrun /\ StreamOK' /\ ReaderOK' /\ KeyKept'
  <2>1. CASE from \in Frames \/ SeekFails(from)
    BY <1>1, <1>6, <2>1, SeekGives, SeekFailsGives
  <2>2. CASE from = curr_frame /\ Seek(from)
    BY <1>1, <2>2 DEF Seek, StreamOK, ReaderOK, KeyKept, streamVars, readerVars
  <2> QED BY <1>5, <1>6, <2>1, <2>2
<1>8. to - from \in -RewindMax .. NumFrames
  BY <1>3, <1>5, Numbers
<1>9. StepOK' /\ BatchShape' /\ AtKey'
  BY <1>1, <1>6, <1>8, SkipGives DEF CallSkipFrames, Call, StepOK, BatchShape, AtKey
<1>10. CallOK'
  <2>1. cursor' \in None .. NumFrames
    BY <1>6, Numbers DEF CallOK, Forward, None
  <2> QED BY <1>1, <2>1, Numbers DEF CallSkipFrames, Call, CallOK, None
<1> QED BY <1>1, <1>7, <1>9, <1>10, Zenon DEF FlagsOK

LEMMA StepReader == ReaderInv /\ [Next]_vars => ReaderInv'
<1> SUFFICES ASSUME ReaderInv, [Next]_vars PROVE ReaderInv'
  OBVIOUS
<1>1. CASE Continue
  BY <1>1, SeekStartTypes, SeekKeyTypes, KeyFrameFoundTypes, OtherFrameFoundTypes, NoFrameFoundTypes,
     SeekBackTypes, SkipOneTypes, SkipEndsTypes, NextOverrunTypes, NextStartTypes, NextEmptyTypes,
     NextPoppedTypes, NextSkippedTypes, NextCachedTypes, NextRewindsTypes, NextGivesUpTypes,
     BatchCopyTypes, BatchFrameTypes, BatchDoneTypes DEF Continue
<1>2. CASE CallGetItem
  BY <1>2, AccurateCallTypes DEF CallGetItem, Call
<1>3. CASE CallSeekAccurate
  BY <1>3, AccurateCallTypes DEF CallSeekAccurate, Call
<1>4. CASE CallNext \/ CallGetBatch \/ CallSeek \/ CallSkipFrames
  BY <1>4, CallNextTypes, CallGetBatchTypes, CallSeekTypes, CallSkipFramesTypes
<1>5. CASE UNCHANGED vars
  BY <1>5 DEF vars, streamVars, readerVars, seekVars, loopVars, batchVars, resultVars, ReaderInv,
     TypeOK, StreamOK, ReaderOK, StepOK, CallOK, FlagsOK, KeyKept, BatchShape, AtKey, LocateKeyframe,
     LastKey, KeyIndices
<1> QED BY <1>1, <1>2, <1>3, <1>4, <1>5 DEF Next, CallSomething

\* Whatever is asked of whatever video, no position, place in the stream or cached frame is outside
\* of it: the arithmetic of SeekAccurate, SkipFrames and the rewinding stays within its bounds.
THEOREM TypeTheorem == Spec => []TypeOK
<1>1. ReaderInv => TypeOK
  BY DEF ReaderInv
<1> QED BY <1>1, InitReader, StepReader, PTL DEF Spec

----------------------------------------------------------------------------
(***************************************************************************)
(* The end.  Nobody is told that the video has ended before it did, because *)
(* the reader is never ahead of its caller: by one frame at most, and then  *)
(* it has kept the key frame in between.  What a damaged or badly indexed   *)
(* stream can do is to leave it behind.                                     *)
(***************************************************************************)

Sought == Seeking \ {"skip"}
Reading == pc \in {"next", "pop"} \/ (pc \in Seeking /\ then # "idle")

\* The batch under way is for a frame it has not got yet, and the caller will be behind it.
AboutBatch ==
  indices # <<>> =>
    /\ cursor = After(indices)
    /\ pc # "batch" => want = Index /\ \A i \in 1 .. Len(got) : indices[i] # Index

\* A caller who reads one frame will be behind that one.
AboutNext == Reading /\ indices = <<>> /\ cursor # None => want # None /\ cursor = Forward(want, 1)

\* Only the loop of NextFrameImpl keeps a signal, and it rewinds only with one.
AboutSignal ==
  /\ signal => pc = "pop" \/ (pc \in Seeking /\ then = "pop")
  /\ pc \in Seeking /\ then = "pop" => signal

CallerInv == AboutBatch /\ AboutNext /\ AboutSignal

LEMMA CallerStill ==
  ASSUME ReaderInv, CallerInv, UNCHANGED <<indices, got, want, cursor, then, signal>>,
         \/ pc \in Seeking /\ pc' \in Seeking \cup {then}
         \/ pc = "next" /\ pc' = "pop"
  PROVE  CallerInv'
<1>1. Index' = Index
  BY DEF Index
<1>2. AboutBatch'
  BY <1>1 DEF CallerInv, AboutBatch, ReaderInv, BatchShape
<1>3. AboutNext'
  BY DEF CallerInv, AboutNext, Reading
<1>4. AboutSignal'
  BY DEF CallerInv, AboutSignal
<1> QED BY <1>2, <1>3, <1>4 DEF CallerInv

\* A failed seek ends the call or lets it go on.
LEMMA CallerFails ==
  ASSUME ReaderInv, CallerInv, NEW p, SeekAccurateFails(p), UNCHANGED <<batchVars, resultVars, signal>>,
         pc \in Seeking
  PROVE  CallerInv'
<1> USE DEF ReaderInv, TypeOK
<1>1. UNCHANGED <<indices, got, want>> /\ Index' = Index
  BY DEF batchVars, resultVars, Index
<1>2. CASE pc' = "idle" /\ cursor' = None /\ then' = "idle"
  <2>1. AboutBatch'
    BY <1>1, <1>2 DEF CallerInv, AboutBatch, BatchShape, SeekAccurateFails
  <2>2. AboutNext' /\ AboutSignal'
    BY <1>1, <1>2 DEF CallerInv, AboutNext, AboutSignal, Reading, SeekAccurateFails
  <2> QED BY <2>1, <2>2 DEF CallerInv
<1>3. CASE UNCHANGED <<cursor, then>> /\ pc' = then
  BY <1>1, <1>3, CallerStill
<1> QED BY <1>2, <1>3 DEF SeekAccurateFails

LEMMA CallerReturns ==
  ASSUME ReaderInv, CallerInv, NEW f, Return(f), pc \in {"next", "pop"}
  PROVE  CallerInv'
<1>1. AboutBatch'
  BY DEF CallerInv, AboutBatch, Return
<1>2. AboutNext' /\ AboutSignal'
  BY DEF AboutNext, AboutSignal, Reading, Return, LocalsEnd
<1> QED BY <1>1, <1>2 DEF CallerInv

LEMMA CallerRaises == ASSUME Raise PROVE CallerInv'
BY DEF CallerInv, AboutBatch, AboutNext, AboutSignal, Reading, Raise, LocalsEnd

LEMMA StepCaller == ReaderInv /\ CallerInv /\ [Next]_vars => CallerInv'
<1> SUFFICES ASSUME ReaderInv, CallerInv, [Next]_vars PROVE CallerInv'
  OBVIOUS
<1> USE DEF ReaderInv, TypeOK
<1>1. CASE SeekStart
  <2>1. UNCHANGED <<batchVars, resultVars, signal>> /\ UNCHANGED <<indices, got, want>> /\ pc = "seek_start"
    BY <1>1 DEF SeekStart, batchVars, resultVars, loopVars
  <2>2. CASE Seek(0) /\ pc' = "seek_key" /\ UNCHANGED <<cursor, then>>
    BY <2>1, <2>2, CallerStill
  <2>3. CASE SeekAccurateFails(0)
    BY <2>1, <2>3, CallerFails
  <2> QED BY <1>1, <2>2, <2>3 DEF SeekStart
<1>2. CASE SeekKey
  <2>1. UNCHANGED <<batchVars, resultVars, signal>> /\ UNCHANGED <<indices, got, want>> /\ pc = "seek_key"
    BY <1>2 DEF SeekKey, batchVars, resultVars, loopVars
  <2>2. CASE Seek(LocateKeyframe(pos)) /\ pc' = "check" /\ UNCHANGED <<cursor, then>>
    BY <2>1, <2>2, CallerStill
  <2>3. CASE SeekAccurateFails(LocateKeyframe(pos))
    BY <2>1, <2>3, CallerFails
  <2> QED BY <1>2, <2>2, <2>3 DEF SeekKey
<1>3. CASE KeyFrameFound \/ OtherFrameFound \/ NoFrameFound \/ SeekBack
  <2>1. UNCHANGED <<indices, got, want, cursor, then, signal>> /\ pc \in Seeking /\ pc' \in Seeking \cup {then}
    BY <1>3 DEF KeyFrameFound, OtherFrameFound, NoFrameFound, SeekBack, Skip, seekVars, loopVars,
       batchVars, resultVars
  <2> QED BY <2>1, CallerStill
<1>4. CASE SkipOne \/ SkipEnds
  <2>1. UNCHANGED <<indices, got, want, cursor, then, signal>> /\ pc \in Seeking /\ pc' \in Seeking \cup {then}
    BY <1>4 DEF SkipOne, SkipEnds, seekVars, batchVars, resultVars
  <2> QED BY <2>1, CallerStill
<1>5. CASE NextStart
  <2>1. UNCHANGED <<indices, got, want, cursor, then, signal>> /\ pc = "next" /\ pc' = "pop"
    BY <1>5 DEF NextStart, seekVars, loopVars, batchVars, resultVars
  <2> QED BY <2>1, CallerStill
<1>6. CASE NextOverrun \/ NextEmpty \/ NextPopped \/ NextCached \/ NextGivesUp
  <2>1. Raise \/ (pc \in {"next", "pop"} /\ \E f : Return(f))
    BY <1>6 DEF NextOverrun, NextEmpty, NextPopped, NextCached, NextGivesUp
  <2> QED BY <2>1, CallerReturns, CallerRaises
<1>7. CASE NextSkipped
  <2>1. UNCHANGED <<indices, got, want, cursor, then>> /\ pc = "pop" /\ pc' = "pop" /\ signal' = FALSE
    BY <1>7 DEF NextSkipped, seekVars, batchVars, resultVars
  <2>2. Index' = Index
    BY <2>1 DEF Index
  <2>3. AboutBatch'
    BY <2>1, <2>2 DEF CallerInv, AboutBatch
  <2>4. AboutNext' /\ AboutSignal'
    BY <2>1 DEF CallerInv, AboutNext, AboutSignal, Reading
  <2> QED BY <2>3, <2>4 DEF CallerInv
<1>8. CASE NextRewinds
  <2>1. /\ UNCHANGED <<indices, got, want, cursor>> /\ pc = "pop" /\ signal' = TRUE /\ then' = "pop"
        /\ pc' \in Seeking \cup {"pop"}
    BY <1>8 DEF NextRewinds, SeekAccurate, batchVars, resultVars
  <2>2. Index' = Index
    BY <2>1 DEF Index
  <2>3. AboutBatch'
    BY <2>1, <2>2 DEF CallerInv, AboutBatch
  <2>4. AboutNext' /\ AboutSignal'
    BY <2>1 DEF CallerInv, AboutNext, AboutSignal, Reading
  <2> QED BY <2>3, <2>4 DEF CallerInv
<1>9. CASE BatchCopy
  <2>1. UNCHANGED <<indices, cursor, want, pc, then, signal>> /\ pc = "batch"
    BY <1>9 DEF BatchCopy, BatchLeft, loopVars, seekVars
  <2>2. AboutBatch'
    BY <2>1 DEF CallerInv, AboutBatch
  <2>3. AboutNext' /\ AboutSignal'
    BY <2>1 DEF CallerInv, AboutNext, AboutSignal, Reading
  <2> QED BY <2>2, <2>3 DEF CallerInv
<1>10. CASE BatchFrame
  <2>1. /\ UNCHANGED <<indices, got, cursor, signal>> /\ pc = "batch" /\ want' = Index /\ Index' = Index
        /\ pc' \in {"next", "skip", "seek_start"} /\ then' = "next" /\ indices # <<>>
    BY <1>10 DEF BatchFrame, BatchLeft, SeekAccurate, batchVars, Index, BatchShape
  <2>2. \A i \in 1 .. Len(got) : indices[i] # Index
    BY <1>10 DEF BatchFrame, Repeats
  <2>3. AboutBatch'
    BY <2>1, <2>2 DEF CallerInv, AboutBatch
  <2>4. AboutNext'
    BY <2>1 DEF AboutNext
  <2>5. AboutSignal'
    BY <2>1 DEF CallerInv, AboutSignal
  <2> QED BY <2>3, <2>4, <2>5 DEF CallerInv
<1>11. CASE BatchDone
  <2>1. UNCHANGED signal /\ pc = "batch" /\ pc' = "idle" /\ indices' = <<>>
    BY <1>11 DEF BatchDone, loopVars
  <2> QED BY <2>1 DEF CallerInv, AboutBatch, AboutNext, AboutSignal, Reading
<1>12. CASE CallNext \/ CallGetItem
  <2>1. UNCHANGED signal /\ pc = "idle" /\ indices = <<>> /\ indices' = <<>>
    BY <1>12 DEF CallNext, CallGetItem, Call, loopVars, batchVars, BatchShape
  <2>2. AboutBatch' /\ AboutSignal'
    <3>1. pc' = "next" \/ then' = "next"
      BY <1>12 DEF CallNext, CallGetItem, SeekAccurate
    <3>2. pc' \in {"next", "skip", "seek_start"}
      BY <1>12 DEF CallNext, CallGetItem, SeekAccurate
    <3>3. ~signal'
      BY <2>1 DEF CallerInv, AboutSignal
    <3>4. AboutBatch'
      BY <2>1 DEF AboutBatch
    <3>5. AboutSignal'
      BY <3>1, <3>2, <3>3 DEF AboutSignal
    <3> QED BY <3>4, <3>5
  <2>3. cursor' # None => want' # None /\ cursor' = Forward(want', 1)
    <3>1. CASE CallNext
      BY <3>1 DEF CallNext, Call
    <3>2. CASE CallGetItem
      <4>1. PICK i \in Frames : want' = i /\ cursor' = i + 1
        BY <3>2 DEF CallGetItem, Call
      <4>2. Forward(i, 1) = i + 1 /\ i # None
        BY Numbers DEF Forward, Frames, None
      <4> QED BY <4>1, <4>2
    <3> QED BY <1>12, <3>1, <3>2
  <2>4. AboutNext'
    BY <2>3 DEF AboutNext, Forward
  <2> QED BY <2>2, <2>4 DEF CallerInv
<1>13. CASE CallGetBatch
  <2>1. UNCHANGED signal /\ pc = "idle" /\ pc' = "batch" /\ cursor' = After(indices')
    BY <1>13 DEF CallGetBatch, Call, loopVars
  <2>2. AboutBatch'
    BY <2>1 DEF AboutBatch
  <2>3. AboutNext' /\ AboutSignal'
    BY <2>1 DEF CallerInv, AboutNext, AboutSignal, Reading
  <2> QED BY <2>2, <2>3 DEF CallerInv
<1>14. CASE CallSeekAccurate \/ CallSeek \/ CallSkipFrames
  <2>1. /\ UNCHANGED signal /\ pc = "idle" /\ indices' = <<>> /\ then' = "idle"
        /\ pc' \in {"idle", "skip", "seek_start"}
    BY <1>14 DEF CallSeekAccurate, CallSeek, CallSkipFrames, Call, Skip, SeekAccurate, loopVars, seekVars,
       batchVars, BatchShape
  <2> QED BY <2>1 DEF CallerInv, AboutBatch, AboutNext, AboutSignal, Reading
<1>15. CASE UNCHANGED vars
  <2>1. UNCHANGED <<indices, got, want, cursor, then, signal, pc>> /\ Index' = Index
    BY <1>15 DEF vars, loopVars, seekVars, batchVars, resultVars, Index
  <2> QED BY <2>1 DEF CallerInv, AboutBatch, AboutNext, AboutSignal, Reading
<1> QED BY <1>1, <1>2, <1>3, <1>4, <1>5, <1>6, <1>7, <1>8, <1>9, <1>10, <1>11, <1>12, <1>13, <1>14,
        <1>15 DEF Next, Continue, CallSomething

----------------------------------------------------------------------------

\* At the start of the video nothing of the stream has been taken ...
AtStart ==
  curr_frame = 0 => out = 0 /\ standins = {} /\ (pc = "skip" /\ num <= 0 => discard = {})

\* ... so a signal in place of the first frame means that nothing can be decoded.
Dead == Frames \subseteq file.corrupt
NothingLeft == signal /\ want = 0 => Dead

LEMMA SeekToStart ==
  ASSUME ReaderInv, AtStart, NEW p \in Frames \cup {curr_frame}, Seek(p), curr_frame' = 0
  PROVE  out' = 0 /\ standins' = {}
<1>1. CASE curr_frame = p /\ UNCHANGED <<streamVars, readerVars>>
  BY <1>1 DEF AtStart, streamVars, readerVars
<1>2. CASE curr_frame # p /\ out' \in Landing(p) /\ standins' = {} /\ curr_frame' = p
  <2>1. Landing(0) = {0}
    BY <1>2, LandingIs DEF ReaderInv, TypeOK, ReaderOK
  <2> QED BY <1>2, <2>1
<1> QED BY <1>1, <1>2 DEF Seek

LEMMA SkipFromStart ==
  ASSUME NEW n \in Int, Skip(n), curr_frame' = 0
  PROVE  num' <= 0 => discard' = {}
<1>1. num' = n /\ discard' = {f \in Frames : 0 <= f /\ f < n}
  BY DEF Skip
<1>2. ASSUME n <= 0 PROVE \A f \in Frames : ~(0 <= f /\ f < n)
  BY <1>2, Numbers DEF Frames
<1> QED BY <1>1, <1>2

LEMMA AccurateAtStart ==
  ASSUME ReaderInv, AtStart, NEW p \in Int, NEW next, SeekAccurate(p, next),
         pc # "skip", next # "skip", out' = out, standins' = standins
  PROVE  AtStart'
<1>1. curr_frame' = curr_frame
  BY DEF SeekAccurate
<1>2. pc' = "skip" => num' = p - curr_frame /\ curr_frame < p
  BY DEF SeekAccurate
<1>3. curr_frame = 0 /\ pc' = "skip" => ~(num' <= 0)
  BY <1>2
<1> QED BY <1>1, <1>3 DEF AtStart

LEMMA StepStart == ReaderInv /\ AtStart /\ ~file.fails /\ [Next]_vars => AtStart'
<1> SUFFICES ASSUME ReaderInv, AtStart, ~file.fails, [Next]_vars PROVE AtStart'
  OBVIOUS
<1> USE DEF ReaderInv, TypeOK
<1>a. 0 \in Frames /\ \A f \in Frames : f + 1 # 0
  BY Numbers DEF Frames
<1>b. pos \in Int /\ num \in Int /\ curr_frame \in Nat
  BY Numbers DEF ReaderOK, StepOK
<1>c. LocateKeyframe(pos) \in Frames
  BY <1>b, LocateIs DEF ReaderOK
<1>1. CASE SeekStart \/ SeekKey \/ CallSeek
  <2>1. pc' # "skip" /\ \E p \in Frames : Seek(p)
    BY <1>1, <1>a, <1>c DEF SeekStart, SeekKey, CallSeek, Call, SeekAccurateFails, SeekFails
  <2> QED BY <2>1, SeekToStart DEF AtStart
<1>2. CASE SeekBack
  <2>1. Seek(LocateKeyframe(pos)) /\ Skip(pos - LocateKeyframe(pos))
    BY <1>2 DEF SeekBack, SeekFails
  <2>2. pos - LocateKeyframe(pos) \in Int
    BY <1>b, <1>c, Numbers DEF Frames
  <2> QED BY <1>c, <2>1, <2>2, SeekToStart, SkipFromStart DEF AtStart
<1>3. CASE KeyFrameFound \/ NoFrameFound \/ OtherFrameFound \/ SkipOne \/ NextPopped
  <2>1. curr_frame' # 0
    <3>1. ASSUME NEW f, PopFrame(f), curr_frame' = f + 1 PROVE curr_frame' # 0
      BY <3>1, <1>a, PopFrameGives
    <3>2. NumFrames # 0 /\ curr_frame + 1 # 0
      BY <1>b, Numbers
    <3> QED BY <1>3, <3>1, <3>2 DEF KeyFrameFound, NoFrameFound, OtherFrameFound, SkipOne, NextPopped
  <2> QED BY <2>1 DEF AtStart
<1>4. CASE SkipEnds
  <2>1. UNCHANGED <<out, curr_frame>> /\ pc' = then /\ pc = "skip"
    BY <1>4 DEF SkipEnds, readerVars
  <2>2. ASSUME curr_frame = 0 PROVE standins' = {}
    <3>1. num <= 0
      BY <1>4, <2>2, Numbers DEF SkipEnds
    <3> QED BY <1>4, <2>2, <3>1 DEF SkipEnds, AtStart
  <2> QED BY <2>1, <2>2 DEF AtStart, StepOK
<1>5. CASE NextOverrun \/ NextStart \/ NextEmpty \/ NextGivesUp \/ BatchCopy \/ BatchDone \/ CallNext
           \/ CallGetBatch
  <2>1. UNCHANGED <<out, standins, curr_frame>> /\ pc' # "skip"
    BY <1>5, PopSignalGives DEF NextOverrun, NextStart, NextEmpty, NextGivesUp, SignalSeen, BatchCopy, BatchLeft,
       BatchDone, CallNext, CallGetBatch, Return, Raise, streamVars, readerVars
  <2> QED BY <2>1 DEF AtStart
<1>6. CASE NextSkipped
  <2>1. UNCHANGED <<curr_frame, pc>> /\ pc = "pop"
    BY <1>6 DEF NextSkipped, readerVars
  <2>2. CASE UNCHANGED streamVars
    BY <2>1, <2>2 DEF AtStart, streamVars
  <2>3. CASE standins # {}
    BY <2>1, <2>3 DEF AtStart
  <2> QED BY <1>6, <2>2, <2>3 DEF NextSkipped
<1>7. CASE NextCached
  <2>1. UNCHANGED <<out, standins>> /\ pc' # "skip"
    BY <1>7, PopSignalGives DEF NextCached, Return, Raise, streamVars
  <2>2. curr_frame' = curr_frame \/ curr_frame' # 0
    BY <1>7, <1>b DEF NextCached
  <2> QED BY <2>1, <2>2 DEF AtStart
<1>8. CASE NextRewinds
  <2>1. UNCHANGED <<out, standins>> /\ pc = "pop"
    BY <1>8, PopSignalGives DEF NextRewinds, SignalSeen, streamVars
  <2>2. curr_frame - rewind_offset \in Int
    BY <1>b, Numbers DEF StepOK
  <2> QED BY <1>8, <2>1, <2>2, AccurateAtStart DEF NextRewinds
<1>9. CASE BatchFrame
  <2>1. UNCHANGED <<out, standins>> /\ pc = "batch"
    BY <1>9 DEF BatchFrame, BatchLeft, streamVars
  <2>2. Index \in Int
    <3>1. Len(got) + 1 \in 1 .. Len(indices)
      BY <1>9 DEF BatchFrame, BatchLeft, CallOK
    <3> QED BY <3>1, Numbers DEF Index, CallOK, Frames
  <2> QED BY <1>9, <2>1, <2>2, AccurateAtStart DEF BatchFrame
<1>10. CASE CallGetItem \/ CallSeekAccurate
  <2>1. UNCHANGED <<out, standins>> /\ pc = "idle"
    BY <1>10 DEF CallGetItem, CallSeekAccurate, Call, streamVars
  <2>2. PICK i \in Frames, next \in {"next", "idle"} : SeekAccurate(i, next)
    BY <1>10 DEF CallGetItem, CallSeekAccurate
  <2>3. i \in Int
    BY Numbers DEF Frames
  <2> QED BY <2>1, <2>2, <2>3, AccurateAtStart
<1>11. CASE CallSkipFrames
  <2>1. PICK n \in 1 .. NumFrames :
        LET to == Forward(curr_frame, n)
            from == IF LastKey(to) > LastKey(curr_frame) THEN LastKey(to) ELSE curr_frame
        IN Seek(from) /\ Skip(to - from)
    BY <1>11 DEF CallSkipFrames, SeekFails
  <2> DEFINE to == Forward(curr_frame, n)
             from == IF LastKey(to) > LastKey(curr_frame) THEN LastKey(to) ELSE curr_frame
  <2>2. to \in Nat
    BY <1>b, Numbers DEF Forward
  <2> HIDE DEF to
  <2>3. LastKey(to) \in Frames
    BY <2>2, LastKeyIs DEF ReaderOK
  <2>4. from \in Frames \cup {curr_frame}
    BY <2>3
  <2>5. to - from \in Int
    BY <1>b, <2>2, <2>4, Numbers DEF Frames
  <2>6. Seek(from) /\ Skip(to - from)
    BY <2>1 DEF to
  <2> HIDE DEF from
  <2> QED BY <2>4, <2>5, <2>6, SeekToStart, SkipFromStart DEF AtStart
<1>12. CASE UNCHANGED vars
  BY <1>12 DEF vars, streamVars, readerVars, loopVars, AtStart
<1> QED BY <1>1, <1>2, <1>3, <1>4, <1>5, <1>6, <1>7, <1>8, <1>9, <1>10, <1>11, <1>12
        DEF Next, Continue, CallSomething

LEMMA StepNothingLeft ==
  ASSUME ReaderInv, CallerInv, AtStart, NothingLeft, pc = "pop" /\ want # None => curr_frame <= want,
         [Next]_vars
  PROVE  NothingLeft'
<1> USE DEF ReaderInv, TypeOK
<1>1. CASE NextRewinds
  <2>1. UNCHANGED <<file, want>> /\ pc = "pop" /\ (signal \/ PopSignal)
    BY <1>1 DEF NextRewinds, SeekAccurate, SignalSeen, resultVars
  <2>2. CASE signal
    BY <2>1, <2>2 DEF NothingLeft, Dead
  <2>3. CASE PopSignal
    <3>1. Left = {}
      BY <2>3 DEF PopSignal
    <3>2. ASSUME want = 0 PROVE Dead
      <4>1. curr_frame = 0
        BY <2>1, <3>2, Numbers DEF ReaderOK, None
      <4>2. out = 0
        BY <4>1 DEF AtStart
      <4> QED BY <3>1, <4>2, Numbers DEF Left, Dead, Frames
    <3> QED BY <2>1, <3>2 DEF NothingLeft, Dead
  <2> QED BY <2>1, <2>2, <2>3
<1>2. CASE signal' = FALSE
  BY <1>2 DEF NothingLeft
<1>3. CASE UNCHANGED <<signal, want, file>>
  BY <1>3 DEF NothingLeft, Dead
<1>4. CASE NextOverrun \/ NextEmpty \/ NextPopped \/ NextCached \/ NextGivesUp \/ NextSkipped
  <2>1. signal' = FALSE
    BY <1>4 DEF NextOverrun, NextEmpty, NextPopped, NextCached, NextGivesUp, NextSkipped, Return, Raise, LocalsEnd
  <2> QED BY <1>2, <2>1
<1>5. CASE BatchFrame \/ CallSomething
  <2>1. pc \in {"idle", "batch"} /\ signal' = signal
    BY <1>5 DEF BatchFrame, BatchLeft, CallSomething, CallNext, CallGetItem, CallGetBatch,
       CallSeekAccurate, CallSeek, CallSkipFrames, Call, loopVars
  <2>2. ~signal
    BY <2>1 DEF CallerInv, AboutSignal
  <2> QED BY <2>1, <2>2 DEF NothingLeft
<1>6. CASE SeekStart \/ SeekKey \/ KeyFrameFound \/ OtherFrameFound \/ NoFrameFound \/ SeekBack
  BY <1>3, <1>6 DEF SeekStart, SeekKey, KeyFrameFound, OtherFrameFound, NoFrameFound, SeekBack,
     loopVars, resultVars
<1>7. CASE SkipOne \/ SkipEnds \/ NextStart \/ BatchCopy \/ BatchDone
  BY <1>3, <1>7 DEF SkipOne, SkipEnds, NextStart, BatchCopy, BatchDone, loopVars, resultVars
<1>8. CASE UNCHANGED vars
  BY <1>3, <1>8 DEF vars, loopVars, resultVars
<1> QED BY <1>1, <1>4, <1>5, <1>6, <1>7, <1>8 DEF Next, Continue

----------------------------------------------------------------------------
(* Batches: the reader is behind the newest frame of the batch that is not a copy. *)

FirstPlace(i) == i \in DOMAIN indices /\ \A j \in 1 .. i - 1 : indices[j] # indices[i]
Newest(m) == FirstPlace(m) /\ m <= Len(got) /\ \A i \in DOMAIN indices : FirstPlace(i) /\ i <= Len(got) => i <= m

LEMMA ReturnedIsNewest ==
  ASSUME ReaderInv, CallerInv, NEW f, Return(f), pc \in {"next", "pop"}, indices # <<>>,
         NEW n, n = Len(got)
  PROVE  Newest(n + 1)' /\ indices[n + 1] = want /\ indices' = indices /\ want \in Frames
<1> USE DEF ReaderInv, TypeOK, CallOK
<1>1. want = indices[Len(got) + 1] /\ \A i \in 1 .. Len(got) : indices[i] # want
  BY DEF CallerInv, AboutBatch, Index
<1>2. Len(got) + 1 \in 1 .. Len(indices)
  BY DEF BatchShape
<1>3. indices' = indices /\ Len(got') = Len(got) + 1
  BY DEF Return
<1>4. n \in Nat /\ n + 1 \in DOMAIN indices
  BY <1>2
<1>5. FirstPlace(n + 1)
  BY <1>1, <1>4 DEF FirstPlace
<1>6. FirstPlace(n + 1)' /\ Len(got') = n + 1
  BY <1>3, <1>5 DEF FirstPlace
<1>7. Newest(n + 1)'
  BY <1>4, <1>6 DEF Newest
<1> QED BY <1>1, <1>3, <1>4, <1>7

LEMMA CopyIsNotNewest ==
  ASSUME ReaderInv, BatchCopy, NEW m, Newest(m)
  PROVE  Newest(m)' /\ indices' = indices
<1> USE DEF ReaderInv, TypeOK, CallOK
<1>1. indices' = indices /\ Len(got') = Len(got) + 1
  BY DEF BatchCopy
<1>2. PICK i \in 1 .. Len(got) : indices[i] = indices[Len(got) + 1]
  BY DEF BatchCopy, Repeats, Index
<1>3. ~FirstPlace(Len(got) + 1)
  BY <1>2 DEF FirstPlace
<1>4. \A j \in DOMAIN indices : FirstPlace(j) /\ j <= Len(got) + 1 => j <= m
  BY <1>3 DEF Newest
<1>5. Newest(m)'
  BY <1>1, <1>4 DEF Newest, FirstPlace
<1> QED BY <1>1, <1>5

LEMMA NewestOfAll ==
  ASSUME ReaderInv, NEW m, Newest(m), Len(got) = Len(indices)
  PROVE  After(indices) = 1 + indices[m]
<1> USE DEF ReaderInv, TypeOK, CallOK
<1> DEFINE T == {i \in DOMAIN indices : \A j \in 1 .. i - 1 : indices[j] # indices[i]}
<1>1. \A i : i \in T <=> FirstPlace(i)
  BY DEF FirstPlace
<1>2. m \in T /\ \A i \in T : i <= m
  BY <1>1 DEF Newest
<1>3. T \in SUBSET (0 .. Len(indices))
  OBVIOUS
<1>4. After(indices) = 1 + indices[Greatest(T)]
  BY DEF After
<1> HIDE DEF T
<1>5. Greatest(T) \in T /\ \A i \in T : i <= Greatest(T)
  <2>1. Len(indices) \in Nat /\ T # {}
    BY <1>2
  <2> QED BY <2>1, <1>3, GreatestIs
<1>6. Greatest(T) = m
  <2>1. Greatest(T) \in Nat /\ m \in Nat
    <3>1. \A i \in T : i \in Nat
      BY DEF T
    <3> QED BY <3>1, <1>2, <1>5
  <2>2. m <= Greatest(T) /\ Greatest(T) <= m
    BY <1>2, <1>5, Zenon
  <2> QED BY <2>1, <2>2
<1> QED BY <1>4, <1>6

----------------------------------------------------------------------------

\* Where SkipFramesImpl will leave the reader.
Target == IF num > 0 THEN curr_frame + num ELSE curr_frame

\* The reader is where its caller believes, or behind; or one frame ahead and has kept that frame.
Near(f) == curr_frame <= f \/ (overrun /\ curr_frame = f + 1)

AtRest == pc = "idle" /\ cursor # None => Near(cursor)
Starting == pc = "next" /\ want # None => Near(want)
Popping == pc = "pop" /\ want # None => curr_frame <= want

\* Where SeekAccurate goes is where the caller wants to be, and going back it is before that.
SeekingFor ==
  pc \in Sought =>
    /\ then = "idle" => pos >= 0 /\ cursor = pos
    /\ then = "next" => pos >= 0 /\ want = pos
    /\ then = "pop" /\ want # None => pos < want

SkippingTo ==
  pc = "skip" =>
    /\ then = "idle" /\ cursor # None => Target <= cursor \/ (overrun /\ Target <= cursor + 1)
    /\ then # "idle" /\ want # None => Target <= want

Collecting == pc = "batch" /\ got # <<>> => \E m : Newest(m) /\ curr_frame <= 1 + indices[m]

NotAhead == AtRest /\ Starting /\ Popping /\ SeekingFor /\ SkippingTo /\ Collecting

LEMMA InitNotAhead == Init => NotAhead
BY DEF Init, NotAhead, AtRest, Starting, Popping, SeekingFor, SkippingTo, Collecting, Near, Sought

\* Where the caller is after the frame it waited for.
LEMMA BehindOne ==
  ASSUME ReaderInv, CallerInv, pc = "next" \/ pc = "pop", indices = <<>>, cursor # None
  PROVE  /\ want \in 0 .. NumFrames /\ cursor \in 0 .. NumFrames
         /\ cursor = want + 1 \/ (want = NumFrames /\ cursor = NumFrames)
<1>1. want # None /\ cursor = Forward(want, 1) /\ want \in None .. NumFrames
  BY DEF CallerInv, AboutNext, Reading, ReaderInv, TypeOK, CallOK
<1> QED BY <1>1, Numbers DEF Forward, None

\* A frame is returned to a caller the reader was not ahead of.
LEMMA ReturnNotAhead ==
  ASSUME ReaderInv, ReaderInv', CallerInv, NEW f, Return(f), pc = "next" \/ pc = "pop",
         want # None => curr_frame' <= want + 1
  PROVE  NotAhead'
<1> USE DEF ReaderInv, TypeOK
<1>1. CASE indices = <<>>
  <2>1. pc' = "idle" /\ cursor' = cursor
    BY <1>1 DEF Return
  <2>2. ASSUME cursor # None PROVE curr_frame' <= cursor
    <3>1. want # None
      BY <1>1, <2>2, BehindOne, Numbers DEF None
    <3>2. curr_frame' \in 0 .. NumFrames
      BY DEF ReaderOK
    <3>3. PICK c \in 0 .. NumFrames : c = curr_frame' /\ c <= want + 1
      BY <3>1, <3>2
    <3>4. c <= cursor
      BY <1>1, <2>2, <3>3, BehindOne, Numbers
    <3> QED BY <3>3, <3>4
  <2>3. AtRest'
    BY <2>1, <2>2 DEF AtRest, Near
  <2> QED BY <2>1, <2>3 DEF NotAhead, Starting, Popping, SeekingFor, SkippingTo, Collecting, Sought
<1>2. CASE indices # <<>>
  <2>0. PICK n : n = Len(got)
    OBVIOUS
  <2>1. Newest(n + 1)' /\ indices[n + 1] = want /\ indices' = indices /\ want \in Frames /\ pc' = "batch"
    BY <1>2, <2>0, ReturnedIsNewest DEF Return
  <2>2. curr_frame' <= 1 + indices'[n + 1]
    <3>1. want # None
      BY <2>1, Numbers DEF Frames, None
    <3>2. PICK c \in 0 .. NumFrames : c = curr_frame' /\ c <= want + 1
      BY <3>1 DEF ReaderOK
    <3>3. c <= 1 + want
      BY <2>1, <3>2, Numbers DEF Frames
    <3> QED BY <2>1, <3>2, <3>3
  <2>3. Collecting'
    BY <2>1, <2>2 DEF Collecting
  <2> QED BY <2>1, <2>3 DEF NotAhead, AtRest, Starting, Popping, SeekingFor, SkippingTo, Sought
<1> QED BY <1>1, <1>2

LEMMA RaiseNotAhead == ASSUME Raise PROVE NotAhead'
BY DEF Raise, NotAhead, AtRest, Starting, Popping, SeekingFor, SkippingTo, Collecting, Sought

\* The call that begins with SeekAccurate(p).
LEMMA AccurateNotAhead ==
  ASSUME ReaderInv, NEW p \in -RewindMax .. NumFrames, NEW next \in {"idle", "next", "pop"}, SeekAccurate(p, next),
         next = "idle" => p >= 0 /\ cursor' = p,
         next = "next" => p >= 0 /\ want' = p,
         next = "pop" /\ want' # None => p <= curr_frame /\ curr_frame <= want' /\ want' \in 0 .. NumFrames
  PROVE  NotAhead'
<1> USE DEF ReaderInv, TypeOK, ReaderOK
<1>0. curr_frame' = curr_frame /\ curr_frame \in Nat /\ p \in Int /\ pos' = p /\ then' = next
  BY Numbers DEF SeekAccurate
<1>1. CASE curr_frame = p /\ pc' = next
  <2>1. AtRest' /\ Starting' /\ Popping'
    BY <1>0, <1>1 DEF AtRest, Starting, Popping, Near
  <2> QED BY <1>1, <2>1 DEF NotAhead, SeekingFor, SkippingTo, Collecting, Sought
<1>2. CASE curr_frame < p /\ num' = p - curr_frame /\ pc' = "skip"
  <2>1. Target' = p
    <3>1. num' > 0 /\ curr_frame + num' = p
      BY <1>0, <1>2
    <3> QED BY <1>0, <3>1 DEF Target
  <2>2. SkippingTo'
    <3>1. next = "pop" /\ want' # None => p <= want'
      BY <1>0, <1>2
    <3> QED BY <1>0, <2>1, <3>1 DEF SkippingTo
  <2> QED BY <1>2, <2>2 DEF NotAhead, AtRest, Starting, Popping, SeekingFor, Collecting, Sought
<1>3. CASE pc' = "seek_start" /\ (curr_frame > p \/ LocateKeyframe(p) # LocateKeyframe(curr_frame))
  <2>1. p # curr_frame
    BY <1>0, <1>3
  <2>2. next = "pop" /\ want' # None => p < want'
    BY <1>0, <2>1, Numbers
  <2>3. SeekingFor'
    BY <1>0, <2>2 DEF SeekingFor
  <2> QED BY <1>3, <2>3 DEF NotAhead, AtRest, Starting, Popping, SkippingTo, Collecting, Sought
<1> QED BY <1>1, <1>2, <1>3 DEF SeekAccurate

LEMMA StepNotAhead ==
  ReaderInv /\ ReaderInv' /\ CallerInv /\ NothingLeft /\ NotAhead /\ ~file.fails /\ [Next]_vars => NotAhead'
<1> SUFFICES ASSUME ReaderInv, ReaderInv', CallerInv, NothingLeft, NotAhead, ~file.fails, [Next]_vars
             PROVE  NotAhead'
  OBVIOUS
<1> USE DEF ReaderInv, TypeOK
<1>a. pos \in Int /\ num \in Int /\ curr_frame \in 0 .. NumFrames /\ curr_frame \in Nat /\ file \in Files
  BY Numbers DEF ReaderOK, StepOK
<1>b. want \in None .. NumFrames /\ cursor \in None .. NumFrames
  BY DEF CallOK
<1>c. /\ LocateKeyframe(pos) \in Frames /\ LocateKeyframe(pos) \in Nat
      /\ pos >= 0 => LocateKeyframe(pos) <= pos
      /\ pos <= 0 => LocateKeyframe(pos) = 0
  BY <1>a, LocateIs, Numbers DEF Frames
<1>1. CASE SeekStart
  <2>1. UNCHANGED <<pos, then, want, cursor>> /\ pc = "seek_start" /\ pc' = "seek_key"
    BY <1>1 DEF SeekStart, SeekAccurateFails, SeekFails, resultVars
  <2> QED BY <2>1 DEF NotAhead, AtRest, Starting, Popping, SeekingFor, SkippingTo, Collecting, Sought
<1>2. CASE SeekKey
  <2>1. UNCHANGED <<pos, then, want, cursor>> /\ pc = "seek_key" /\ pc' = "check"
    BY <1>2 DEF SeekKey, SeekAccurateFails, SeekFails, resultVars
  <2> QED BY <2>1 DEF NotAhead, AtRest, Starting, Popping, SeekingFor, SkippingTo, Collecting, Sought
<1>3. CASE KeyFrameFound
  <2>1. /\ UNCHANGED <<pos, then, want, cursor>> /\ pc = "check" /\ curr_frame = LocateKeyframe(pos)
        /\ curr_frame' = curr_frame + 1 /\ overrun' = (pos = curr_frame) /\ curr_frame \notin file.corrupt
        /\ curr_frame \in Frames
    BY <1>3, PopFrameGives DEF KeyFrameFound, AtKey, seekVars, resultVars
  <2>2. /\ then = "idle" => pos >= 0 /\ cursor = pos
        /\ then = "next" => pos >= 0 /\ want = pos
        /\ then = "pop" /\ want # None => pos < want
    BY <2>1 DEF NotAhead, SeekingFor, Sought
  <2>3. CASE pos > curr_frame /\ Skip(pos - curr_frame')
    <3>1. num' = pos - (curr_frame + 1) /\ pc' = "skip"
      BY <2>1, <2>3 DEF Skip
    <3>2. Target' = pos
      BY <1>a, <2>1, <2>3, <3>1 DEF Target
    <3>3. SkippingTo'
      BY <1>a, <1>b, <2>1, <2>2, <3>1, <3>2, Numbers DEF SkippingTo, StepOK, None
    <3> QED BY <3>1, <3>3 DEF NotAhead, AtRest, Starting, Popping, SeekingFor, Collecting, Sought
  <2>4. CASE pos <= curr_frame /\ pc' = then
    <3>1. CASE pos >= 0
      <4>1. pos = curr_frame /\ overrun'
        <5>1. pos = curr_frame
          BY <1>a, <1>c, <2>1, <2>4, <3>1
        <5>2. overrun' = (pos = curr_frame)
          BY <2>1
        <5> QED BY <5>1, <5>2, Zenon
      <4>2. then \in {"idle", "next"} => pos = IF then = "idle" THEN cursor ELSE want
        BY <2>2
      <4>3. AtRest' /\ Starting'
        BY <2>1, <2>2, <2>4, <4>1 DEF AtRest, Starting, Near
      <4>4. Popping'
        BY <1>a, <1>b, <2>1, <2>2, <2>4, <4>1, Numbers DEF Popping, None
      <4> QED BY <2>4, <4>3, <4>4 DEF NotAhead, SeekingFor, SkippingTo, Collecting, Sought, StepOK
    <3>2. CASE pos < 0
      <4>1. then = "pop" /\ curr_frame = 0
        BY <1>a, <1>c, <2>1, <2>2, <3>2 DEF StepOK
      <4>2. ASSUME want # None PROVE curr_frame + 1 <= want
        <5>1. want # 0
          <6>1. signal
            BY <2>1, <4>1 DEF CallerInv, AboutSignal
          <6>2. ~Dead
            BY <2>1 DEF Dead
          <6> QED BY <6>1, <6>2 DEF NothingLeft
        <5> QED BY <1>b, <4>1, <4>2, <5>1, Numbers DEF None
      <4>3. Popping'
        BY <2>1, <4>2 DEF Popping
      <4> QED BY <2>4, <4>1, <4>3 DEF NotAhead, AtRest, Starting, SeekingFor, SkippingTo, Collecting, Sought
    <3> QED BY <1>a, <3>1, <3>2
  <2> QED BY <1>3, <1>a, <2>1, <2>3, <2>4 DEF KeyFrameFound
<1>4. CASE OtherFrameFound
  <2>1. UNCHANGED <<pos, then, want, cursor, overrun>> /\ pc = "check"
    BY <1>4 DEF OtherFrameFound, seekVars, resultVars
  <2>2. PICK f \in Frames : curr_frame' = f + 1
    BY <1>4, PopFrameGives DEF OtherFrameFound
  <2>3. /\ then = "idle" => pos >= 0 /\ cursor = pos
        /\ then = "next" => pos >= 0 /\ want = pos
        /\ then = "pop" /\ want # None => pos < want
    BY <2>1 DEF NotAhead, SeekingFor, Sought
  <2>4. CASE curr_frame' < pos /\ Skip(pos - curr_frame')
    <3>1. num' = pos - (f + 1) /\ pc' = "skip" /\ f + 1 < pos /\ f \in Int
      BY <2>2, <2>4, Numbers DEF Skip, Frames
    <3>2. Target' = pos
      BY <1>a, <2>2, <3>1 DEF Target
    <3>3. SkippingTo'
      BY <1>a, <1>b, <2>1, <2>3, <3>1, <3>2, Numbers DEF SkippingTo, StepOK, None
    <3> QED BY <3>1, <3>3 DEF NotAhead, AtRest, Starting, Popping, SeekingFor, Collecting, Sought
  <2>5. CASE pc' = "seek_back"
    BY <2>1, <2>5 DEF NotAhead, AtRest, Starting, Popping, SeekingFor, SkippingTo, Collecting, Sought
  <2> QED BY <1>4, <2>4, <2>5 DEF OtherFrameFound
<1>5. CASE NoFrameFound
  <2>1. UNCHANGED <<pos, then, want, cursor>> /\ pc = "check" /\ pc' = "seek_back"
    BY <1>5 DEF NoFrameFound, seekVars, resultVars
  <2> QED BY <2>1 DEF NotAhead, AtRest, Starting, Popping, SeekingFor, SkippingTo, Collecting, Sought
<1>6. CASE SeekBack
  <2>1. UNCHANGED <<pos, then, want, cursor>> /\ pc = "seek_back" /\ curr_frame' = LocateKeyframe(pos)
    BY <1>6, <1>c, SeekGives DEF SeekBack, SeekFails, seekVars, resultVars
  <2>2. num' = pos - LocateKeyframe(pos) /\ pc' = "skip"
    BY <1>6 DEF SeekBack, Skip
  <2>3. /\ then = "idle" => pos >= 0 /\ cursor = pos
        /\ then = "next" => pos >= 0 /\ want = pos
        /\ then = "pop" /\ want # None => pos < want
    BY <2>1 DEF NotAhead, SeekingFor, Sought
  <2>4. Target' = IF pos >= 0 THEN pos ELSE 0
    BY <1>a, <1>c, <2>1, <2>2 DEF Target
  <2>5. SkippingTo'
    <3>1. then = "idle" => Target' <= cursor
      BY <1>a, <2>3, <2>4
    <3>2. then = "next" => Target' <= want
      BY <1>a, <2>3, <2>4
    <3>3. then = "pop" /\ want # None => Target' <= want
      BY <1>a, <1>b, <2>3, <2>4, Numbers DEF None
    <3> QED BY <2>1, <3>1, <3>2, <3>3 DEF SkippingTo, StepOK
  <2> QED BY <2>2, <2>5 DEF NotAhead, AtRest, Starting, Popping, SeekingFor, Collecting, Sought
<1>7. CASE SkipOne
  <2>1. /\ UNCHANGED <<pc, then, want, cursor, overrun>> /\ pc = "skip" /\ num > 0
        /\ curr_frame' = curr_frame + 1 /\ num' = num - 1
    BY <1>7 DEF SkipOne, seekVars, resultVars
  <2>2. Target' = Target
    BY <1>a, <2>1 DEF Target
  <2>3. SkippingTo'
    BY <2>1, <2>2 DEF NotAhead, SkippingTo
  <2> QED BY <2>1, <2>3 DEF NotAhead, AtRest, Starting, Popping, SeekingFor, Collecting, Sought
<1>8. CASE SkipEnds
  <2>1. UNCHANGED <<curr_frame, then, want, cursor, overrun>> /\ pc = "skip" /\ pc' = then
    BY <1>8 DEF SkipEnds, readerVars, resultVars
  <2>2. curr_frame <= Target /\ Target \in Int
    BY <1>a DEF Target
  <2>3. then = "idle" /\ cursor # None => Near(cursor)
    BY <1>a, <1>b, <2>1, <2>2, Numbers DEF NotAhead, SkippingTo, Near, None
  <2>4. then # "idle" /\ want # None => curr_frame <= want
    BY <1>a, <1>b, <2>1, <2>2, Numbers DEF NotAhead, SkippingTo, None
  <2>5. AtRest' /\ Starting' /\ Popping'
    BY <2>1, <2>3, <2>4 DEF AtRest, Starting, Popping, Near
  <2> QED BY <2>1, <2>5 DEF NotAhead, SeekingFor, SkippingTo, Collecting, Sought, StepOK
<1>9. CASE NextOverrun
  <2>1. pc = "next" /\ curr_frame' = curr_frame /\ Return(tmp_key_frame)
    BY <1>9 DEF NextOverrun
  <2>2. want # None => curr_frame' <= want + 1
    BY <1>a, <1>b, <2>1, Numbers DEF NotAhead, Starting, Near, None
  <2> QED BY <2>1, <2>2, ReturnNotAhead
<1>10. CASE NextStart
  <2>1. pc = "next" /\ pc' = "pop" /\ ~overrun /\ UNCHANGED <<curr_frame, want>>
    BY <1>10 DEF NextStart, readerVars, resultVars
  <2> QED BY <2>1 DEF NotAhead, AtRest, Starting, Popping, SeekingFor, SkippingTo, Collecting, Sought, Near
<1>11. CASE NextEmpty
  <2>1. pc = "pop" /\ curr_frame' = curr_frame /\ (Raise \/ Return(Empty))
    BY <1>11 DEF NextEmpty, readerVars
  <2>2. want # None => curr_frame' <= want + 1
    BY <1>a, <1>b, <2>1, Numbers DEF NotAhead, Popping, None
  <2> QED BY <2>1, <2>2, ReturnNotAhead, RaiseNotAhead
<1>12. CASE NextPopped \/ NextCached
  <2>1. pc = "pop" /\ (Raise \/ (curr_frame' = curr_frame + 1 /\ \E f : Return(f)))
    BY <1>12 DEF NextPopped, NextCached
  <2>2. want # None => curr_frame + 1 <= want + 1
    BY <1>a, <1>b, <2>1, Numbers DEF NotAhead, Popping, None
  <2> QED BY <2>1, <2>2, ReturnNotAhead, RaiseNotAhead
<1>13. CASE NextSkipped
  <2>1. UNCHANGED <<pc, curr_frame, want>> /\ pc = "pop"
    BY <1>13 DEF NextSkipped, readerVars, resultVars
  <2> QED BY <2>1 DEF NotAhead, AtRest, Starting, Popping, SeekingFor, SkippingTo, Collecting, Sought
<1>14. CASE NextRewinds
  <2>1. SeekAccurate(curr_frame - rewind_offset, "pop") /\ want' = want /\ pc = "pop"
    BY <1>14 DEF NextRewinds, resultVars
  <2>2. curr_frame - rewind_offset \in -RewindMax .. NumFrames /\ curr_frame - rewind_offset <= curr_frame
    BY <1>14, <1>a, Numbers DEF NextRewinds, StepOK
  <2>3. want' # None => curr_frame <= want' /\ want' \in 0 .. NumFrames
    BY <1>b, <2>1, Numbers DEF NotAhead, Popping, None
  <2> QED BY <2>1, <2>2, <2>3, AccurateNotAhead
<1>15. CASE NextGivesUp
  BY <1>15, RaiseNotAhead DEF NextGivesUp
<1>16. CASE BatchCopy
  <2>1. UNCHANGED <<pc, curr_frame>> /\ pc = "batch"
    BY <1>16 DEF BatchCopy, BatchLeft, readerVars
  <2>2. got # <<>>
    BY <1>16 DEF BatchCopy, Repeats, CallOK
  <2>3. PICK m : Newest(m) /\ curr_frame <= 1 + indices[m]
    BY <2>1, <2>2 DEF NotAhead, Collecting
  <2>4. Newest(m)' /\ indices' = indices
    BY <1>16, <2>3, CopyIsNotNewest
  <2>5. Collecting'
    BY <2>1, <2>3, <2>4 DEF Collecting
  <2> QED BY <2>1, <2>5 DEF NotAhead, AtRest, Starting, Popping, SeekingFor, SkippingTo, Sought
<1>17. CASE BatchFrame
  <2>1. SeekAccurate(Index, "next") /\ want' = Index
    BY <1>17 DEF BatchFrame
  <2>2. Index \in -RewindMax .. NumFrames /\ Index >= 0
    <3>1. Len(got) + 1 \in 1 .. Len(indices)
      BY <1>17 DEF BatchFrame, BatchLeft, CallOK
    <3>2. Index \in Frames
      <4>1. indices \in Seq(Frames)
        BY DEF CallOK
      <4> QED BY <3>1, <4>1, ElementOfSeq DEF Index
    <3> QED BY <3>2, Numbers DEF Frames
  <2> QED BY <2>1, <2>2, AccurateNotAhead
<1>18. CASE BatchDone
  <2>1. UNCHANGED <<curr_frame, cursor>> /\ pc = "batch" /\ pc' = "idle" /\ Len(got) = Len(indices)
    BY <1>18 DEF BatchDone, readerVars
  <2>2. got # <<>> /\ indices # <<>>
    BY <2>1 DEF BatchShape, CallOK
  <2>3. PICK m : Newest(m) /\ curr_frame <= 1 + indices[m]
    BY <2>1, <2>2 DEF NotAhead, Collecting
  <2>4. cursor = 1 + indices[m]
    BY <2>1, <2>2, <2>3, NewestOfAll DEF CallerInv, AboutBatch
  <2>5. AtRest'
    BY <2>1, <2>3, <2>4 DEF AtRest, Near
  <2> QED BY <2>1, <2>5 DEF NotAhead, Starting, Popping, SeekingFor, SkippingTo, Collecting, Sought
<1>19. CASE CallNext
  <2>1. pc = "idle" /\ pc' = "next" /\ want' = cursor /\ UNCHANGED <<curr_frame, overrun>>
    BY <1>19 DEF CallNext, Call, readerVars
  <2> QED BY <2>1 DEF NotAhead, AtRest, Starting, Popping, SeekingFor, SkippingTo, Collecting, Sought, Near
<1>20. CASE CallGetItem
  <2>1. PICK i \in Frames : SeekAccurate(i, "next") /\ want' = i
    BY <1>20 DEF CallGetItem, Call
  <2>2. i \in -RewindMax .. NumFrames /\ i >= 0
    BY Numbers DEF Frames
  <2> QED BY <2>1, <2>2, AccurateNotAhead
<1>21. CASE CallSeekAccurate
  <2>1. PICK i \in Frames : SeekAccurate(i, "idle") /\ cursor' = i
    BY <1>21 DEF CallSeekAccurate, Call
  <2>2. i \in -RewindMax .. NumFrames /\ i >= 0
    BY Numbers DEF Frames
  <2> QED BY <2>1, <2>2, AccurateNotAhead
<1>22. CASE CallGetBatch
  <2>1. pc' = "batch" /\ got' = <<>>
    BY <1>22 DEF CallGetBatch, Call, BatchShape, CallOK
  <2> QED BY <2>1 DEF NotAhead, AtRest, Starting, Popping, SeekingFor, SkippingTo, Collecting, Sought
<1>23. CASE CallSeek
  <2>1. pc = "idle" /\ pc' = "idle" /\ \E i \in Frames : Seek(i) /\ cursor' \in {i, None}
    BY <1>23 DEF CallSeek, Call, SeekFails
  <2>2. cursor' # None => curr_frame' = cursor'
    <3>1. file' = file
      BY <1>23 DEF CallSeek
    <3> QED BY <2>1, <3>1, SeekGives
  <2>3. AtRest'
    BY <2>2, Numbers DEF AtRest, Near, ReaderOK
  <2> QED BY <2>1, <2>3 DEF NotAhead, Starting, Popping, SeekingFor, SkippingTo, Collecting, Sought
<1>24. CASE CallSkipFrames
  <2>1. PICK n \in 1 .. NumFrames :
        LET to == Forward(curr_frame, n)
            from == IF LastKey(to) > LastKey(curr_frame) THEN LastKey(to) ELSE curr_frame
        IN /\ Seek(from) /\ Skip(to - from)
           /\ cursor' = IF cursor = None THEN None ELSE Forward(cursor, n)
    BY <1>24 DEF CallSkipFrames, SeekFails
  <2> DEFINE to == Forward(curr_frame, n)
             from == IF LastKey(to) > LastKey(curr_frame) THEN LastKey(to) ELSE curr_frame
  <2>2. to \in Nat /\ curr_frame <= to /\ (cursor # None /\ Near(cursor) =>
           to <= Forward(cursor, n) \/ (overrun /\ to <= Forward(cursor, n) + 1))
    BY <1>a, <1>b, Numbers DEF Forward, Near, None
  <2> HIDE DEF to
  <2>3. LastKey(to) \in Frames /\ LastKey(to) <= to /\ LastKey(to) \in Nat
    BY <1>a, <2>2, LastKeyIs, Numbers DEF Frames
  <2>4. from \in Nat /\ from <= to
    BY <1>a, <2>2, <2>3
  <2>5. Seek(from) /\ Skip(to - from) /\ cursor' = IF cursor = None THEN None ELSE Forward(cursor, n)
    BY <2>1 DEF to
  <2> HIDE DEF from
  <2>6. pc = "idle" /\ pc' = "skip" /\ then' = "idle" /\ num' = to - from
    BY <1>24, <2>5 DEF CallSkipFrames, Call, Skip, seekVars, BatchShape
  <2>7. curr_frame' = from /\ overrun' = overrun
    BY <2>5 DEF Seek, readerVars
  <2>8. Target' = to
    BY <2>2, <2>4, <2>6, <2>7 DEF Target
  <2>9. cursor' # None => cursor # None /\ cursor' = Forward(cursor, n) /\ Near(cursor)
    BY <2>5, <2>6 DEF NotAhead, AtRest
  <2>10. SkippingTo'
    BY <2>2, <2>6, <2>7, <2>8, <2>9 DEF SkippingTo
  <2> QED BY <2>6, <2>10 DEF NotAhead, AtRest, Starting, Popping, SeekingFor, Collecting, Sought
<1>25. CASE UNCHANGED vars
  <2>1. UNCHANGED <<pc, then, pos, num, want, cursor, curr_frame, overrun, got, indices>>
    BY <1>25 DEF vars, readerVars, seekVars, loopVars, batchVars, resultVars
  <2>2. AtRest' /\ Starting' /\ Popping' /\ SeekingFor' /\ SkippingTo'
    BY <2>1 DEF NotAhead, AtRest, Starting, Popping, SeekingFor, SkippingTo, Near, Target, Sought
  <2>3. Collecting'
    BY <2>1 DEF NotAhead, Collecting, Newest, FirstPlace
  <2> QED BY <2>2, <2>3 DEF NotAhead
<1> QED BY <1>1, <1>2, <1>3, <1>4, <1>5, <1>6, <1>7, <1>8, <1>9, <1>10, <1>11, <1>12, <1>13, <1>14, <1>15,
        <1>16, <1>17, <1>18, <1>19, <1>20, <1>21, <1>22, <1>23, <1>24, <1>25
        DEF Next, Continue, CallSomething

LEMMA StepEndOnlyAtEnd ==
  ReaderInv /\ ReaderInv' /\ NotAhead /\ EndOnlyAtEnd /\ ~file.fails /\ [Next]_vars => EndOnlyAtEnd'
<1> SUFFICES ASSUME ReaderInv, ReaderInv', NotAhead, EndOnlyAtEnd, ~file.fails, [Next]_vars
             PROVE  EndOnlyAtEnd'
  OBVIOUS
<1> USE DEF ReaderInv, TypeOK
<1>1. CASE last' \in Frames \cup {None}
  BY <1>1, Numbers DEF EndOnlyAtEnd, Frames, Empty, None
<1>2. CASE UNCHANGED <<file, last, last_want>>
  BY <1>2 DEF EndOnlyAtEnd
<1>3. CASE NextEmpty
  <2>1. CASE Return(Empty)
    <3>1. last_want' = want /\ pc = "pop" /\ curr_frame = NumFrames
      BY <1>3, <2>1 DEF NextEmpty, Return
    <3>2. want \in {NumFrames, None}
      BY <3>1, Numbers DEF NotAhead, Popping, CallOK, None
    <3> QED BY <3>1, <3>2 DEF EndOnlyAtEnd
  <2>2. CASE Raise
    BY <1>2, <2>2 DEF Raise, resultVars
  <2> QED BY <1>3, <2>1, <2>2 DEF NextEmpty
<1>4. CASE NextOverrun
  BY <1>1, <1>4 DEF NextOverrun, Return, ReaderOK
<1>5. CASE NextPopped
  <2>1. PICK f \in Left : Return(f)
    BY <1>5 DEF NextPopped
  <2> QED BY <1>1, <2>1 DEF Return, Left
<1>6. CASE NextCached
  BY <1>1, <1>2, <1>6 DEF NextCached, Return, Raise, resultVars, ReaderOK
<1>7. CASE BatchCopy
  <2>1. Repeats \in SUBSET Nat /\ Repeats # {}
    BY <1>7 DEF BatchCopy, Repeats
  <2>2. Least(Repeats) \in 1 .. Len(got)
    BY <2>1, LeastIs DEF Repeats
  <2>3. last' \in Frames
    BY <1>7, <2>2 DEF BatchCopy, CallOK
  <2> QED BY <1>1, <2>3
<1>8. CASE CallSomething
  <2>1. last' = None
    BY <1>8 DEF CallSomething, CallNext, CallGetItem, CallGetBatch, CallSeekAccurate, CallSeek,
       CallSkipFrames, Call
  <2> QED BY <1>1, <2>1
<1>9. CASE SeekStart \/ SeekKey \/ KeyFrameFound \/ OtherFrameFound \/ NoFrameFound \/ SeekBack
  BY <1>2, <1>9 DEF SeekStart, SeekKey, KeyFrameFound, OtherFrameFound, NoFrameFound, SeekBack, resultVars
<1>10. CASE SkipOne \/ SkipEnds \/ NextStart \/ NextSkipped \/ NextRewinds \/ NextGivesUp
  BY <1>2, <1>10 DEF SkipOne, SkipEnds, NextStart, NextSkipped, NextRewinds, NextGivesUp, SeekAccurate,
     Raise, resultVars
<1>11. CASE BatchFrame \/ BatchDone
  BY <1>2, <1>11 DEF BatchFrame, BatchDone, SeekAccurate, resultVars
<1>12. CASE UNCHANGED vars
  BY <1>2, <1>12 DEF vars, resultVars
<1> QED BY <1>3, <1>4, <1>5, <1>6, <1>7, <1>8, <1>9, <1>10, <1>11, <1>12 DEF Next, Continue

EndInv == ~file.fails => AtStart /\ NothingLeft /\ NotAhead /\ EndOnlyAtEnd

\* No step changes the video.
LEMMA SameFile == [Next]_vars => file' = file
BY DEF Next, Continue, CallSomething, SeekStart, SeekKey, KeyFrameFound, OtherFrameFound, NoFrameFound,
   SeekBack, SkipOne, SkipEnds, NextOverrun, NextStart, NextEmpty, NextPopped, NextSkipped, NextCached,
   NextRewinds, NextGivesUp, BatchCopy, BatchFrame, BatchDone, CallNext, CallGetItem, CallGetBatch,
   CallSeekAccurate, CallSeek, CallSkipFrames, Return, Raise, SeekAccurate, vars

\* Of a file av_seek_frame works in, the empty array that ends an iteration is returned only to a
\* caller who has had, or passed over, every frame - damaged or not, however it was read before.
THEOREM EndTheorem == Spec => []EndOnlyAtEnd
<1> DEFINE Inv == ReaderInv /\ CallerInv /\ EndInv
<1>1. Init => Inv
  <2> SUFFICES ASSUME Init PROVE Inv
    OBVIOUS
  <2>1. ReaderInv /\ NotAhead
    BY InitReader, InitNotAhead
  <2>2. CallerInv
    BY DEF Init, CallerInv, AboutBatch, AboutNext, AboutSignal, Reading
  <2>3. AtStart /\ NothingLeft /\ EndOnlyAtEnd
    BY Numbers DEF Init, AtStart, NothingLeft, EndOnlyAtEnd, Empty, None
  <2> QED BY <2>1, <2>2, <2>3 DEF EndInv
<1>2. Inv /\ [Next]_vars => Inv'
  <2> SUFFICES ASSUME Inv, [Next]_vars PROVE Inv'
    OBVIOUS
  <2>1. ReaderInv' /\ CallerInv' /\ file' = file
    BY StepReader, StepCaller, SameFile
  <2>2. ASSUME ~file.fails PROVE AtStart' /\ NothingLeft' /\ NotAhead' /\ EndOnlyAtEnd'
    <3>1. AtStart /\ NothingLeft /\ NotAhead /\ EndOnlyAtEnd
      BY <2>2 DEF EndInv
    <3>2. AtStart' /\ NotAhead' /\ EndOnlyAtEnd'
      BY <2>1, <2>2, <3>1, StepStart, StepNotAhead, StepEndOnlyAtEnd
    <3>3. NothingLeft'
      BY <3>1, StepNothingLeft DEF NotAhead, Popping
    <3> QED BY <3>2, <3>3
  <2> QED BY <2>1, <2>2 DEF EndInv
<1>3. Inv => EndOnlyAtEnd
  BY DEF EndInv, EndOnlyAtEnd
<1> QED BY <1>1, <1>2, <1>3, PTL DEF Spec

----------------------------------------------------------------------------
(***************************************************************************)
(* Videos as they are meant to be played: av_seek_frame works and GOPs are  *)
(* closed; damaged ones are read in order; intact ones in any way, but by   *)
(* calls that move without reading only where av_seek_frame is exact, and   *)
(* by seek_accurate only as part of vr[i].                                  *)
(***************************************************************************)

Played ==
  \A f \in Files :
    /\ ~f.fails /\ \A k \in f.keys : f.leading[k] = 0
    /\ IF f.corrupt # {} THEN Calls[f] \subseteq {"next"}
       ELSE IF f.exact THEN Calls[f] \subseteq {"next", "getitem", "get_batch", "skip_frames", "seek_key"}
       ELSE Calls[f] \subseteq {"next", "getitem", "get_batch"}

LEMMA PlayedFile ==
  ASSUME Played, ReaderInv
  PROVE  /\ ~file.fails /\ KeyIndices = file.keys
         /\ Intact => Calls[file] \subseteq {"next", "getitem", "get_batch", "skip_frames", "seek_key"}
         /\ Intact /\ ~file.exact => Calls[file] \subseteq {"next", "getitem", "get_batch"}
         /\ ~Intact => Calls[file] \subseteq {"next"}
<1>1. file \in Files
  BY DEF ReaderInv, TypeOK, ReaderOK
<1>2. file.keys \subseteq Int
  BY <1>1, FileFacts, Numbers DEF Frames
<1>3. \A k \in file.keys : k - file.leading[k] = k
  BY <1>1, <1>2 DEF Played
<1>4. KeyIndices = file.keys
  BY <1>3 DEF KeyIndices
<1> QED BY <1>1, <1>4 DEF Played, Intact

LEMMA PlayedFails == ASSUME Played, ReaderInv, NEW p PROVE ~SeekFails(p)
BY PlayedFile DEF SeekFails

----------------------------------------------------------------------------
(***************************************************************************)
(* Intact videos: between two calls the stream is where the cursor is, and  *)
(* every step of SeekAccurate knows how far it has to go from where it is.  *)
(***************************************************************************)

At(f) == curr_frame = f /\ out = f

NothingOdd == standins = {} /\ ~signal /\ cursor # None /\ recovered = {}
BatchAsAsked == \A i \in 1 .. Len(got) : got[i] = indices[i]
ExactAtRest == pc = "idle" => At(cursor) /\ ~overrun
ExactStart ==
  pc = "next" => want # None /\ IF overrun THEN At(want + 1) /\ tmp_key_frame = want ELSE At(want)
ExactPop == pc = "pop" => At(want) /\ ~overrun
ExactBatch ==
  pc = "batch" =>
    /\ out = curr_frame /\ ~overrun
    /\ got # <<>> => \E m : Newest(m) /\ curr_frame = 1 + indices[m]
ExactSeek ==
  pc \in Sought =>
    /\ then = "next" /\ want = pos /\ pos \in Frames /\ ~overrun
    /\ pc = "seek_back" => out = curr_frame /\ pos <= curr_frame
ExactSkip ==
  pc = "skip" =>
    /\ out = curr_frame /\ ~overrun /\ num >= 0
    /\ \A f \in discard : f < curr_frame + num
    /\ then = "idle" => curr_frame + num = cursor /\ want = None
    /\ then # "idle" => then = "next" /\ curr_frame + num = want

Exact ==
  /\ NothingOdd /\ FramesAreThoseAsked /\ BatchAsAsked
  /\ ExactAtRest /\ ExactStart /\ ExactPop /\ ExactBatch /\ ExactSeek /\ ExactSkip

\* An intact stream gives the frame where it is, and a signal only at the end.
LEMMA IntactStream ==
  ASSUME Intact, TypeOK
  PROVE  /\ \A f : PopFrame(f) => f = out
         /\ Left = {} => out = NumFrames
<1>1. out \in 0 .. NumFrames
  BY DEF TypeOK, StreamOK
<1>2. out < NumFrames => out \in Left
  BY <1>1, Numbers DEF Left, Intact, Frames
<1>3. ASSUME NEW f, PopFrame(f) PROVE f = out
  <2>1. f \in Frames /\ f >= out /\ \A g \in Left : f <= g
    BY <1>3, PopFrameGives
  <2>2. out \in Left
    BY <1>1, <1>2, <2>1, Numbers DEF Frames
  <2>3. f <= out
    BY <2>1, <2>2, Zenon
  <2> QED BY <1>1, <2>1, <2>3, Numbers DEF Frames
<1> QED BY <1>1, <1>2, <1>3, Numbers

\* Going back, av_seek_frame finds a key frame; so it does going forward, if it is exact.
LEMMA SeekToKey ==
  ASSUME ReaderInv, NEW k \in file.keys, Seek(k), curr_frame = k => out = k, curr_frame < k => file.exact,
         standins = {}
  PROVE  curr_frame' = k /\ out' = k /\ standins' = {} /\ overrun' = overrun
<1>1. CASE curr_frame = k /\ UNCHANGED <<streamVars, readerVars>>
  BY <1>1 DEF streamVars, readerVars
<1>2. CASE /\ curr_frame # k /\ out' \in Landing(k)
           /\ signals' = 0 /\ standins' = {} /\ curr_frame' = k /\ UNCHANGED overrun
  <2>0. file \in Files /\ curr_frame \in 0 .. NumFrames
    BY DEF ReaderInv, TypeOK, ReaderOK
  <2>1. file.keys \subseteq 0 .. NumFrames - 1 /\ k \in Nat
    BY <2>0, FileFacts, Numbers DEF Frames
  <2> DEFINE T == {j \in file.keys : j <= k}
             U == {j \in file.keys : j >= k}
  <2>2. T \in SUBSET (0 .. k) /\ k \in T
    BY <2>1, Numbers
  <2>3. U \in SUBSET Nat /\ k \in U
    BY <2>1, Numbers
  <2> HIDE DEF T, U
  <2>4. Greatest(T) \in T /\ \A y \in T : y <= Greatest(T)
    BY <2>1, <2>2, GreatestIs
  <2>5. Least(U) \in U /\ \A y \in U : Least(U) <= y
    BY <2>3, LeastIs
  <2>6. Greatest(T) = k
    <3>1. k <= Greatest(T) /\ Greatest(T) \in 0 .. k
      BY <2>2, <2>4
    <3> QED BY <3>1, <2>1
  <2>7. Least(U) = k
    <3>1. Least(U) <= k
      BY <2>3, <2>5, Zenon
    <3>2. Least(U) >= k /\ Least(U) \in Nat
      BY <2>3, <2>5 DEF U
    <3> QED BY <3>1, <3>2, <2>1
  <2>8. ~ \A j \in file.keys : j < k
    BY <2>1
  <2>9. Landing(k) = IF curr_frame > k THEN {Greatest(T)}
                     ELSE IF file.exact THEN {Least(U)} ELSE file.keys \cup {NumFrames}
    BY <2>8 DEF Landing, T, U
  <2>10. curr_frame > k \/ file.exact
    BY <1>2, <2>0, <2>1
  <2>11. Landing(k) = {k}
    BY <2>6, <2>7, <2>9, <2>10
  <2> QED BY <1>2, <2>11
<1> QED BY <1>1, <1>2 DEF Seek

\* The frame the caller wants is returned, and the reader is behind it.
LEMMA ReturnExact ==
  ASSUME ReaderInv, ReaderInv', CallerInv, Exact, Return(want), pc \in {"next", "pop"},
         want \in 0 .. NumFrames, overrun' = FALSE, standins' = standins,
         curr_frame' = Forward(want, 1), out' = Forward(want, 1)
  PROVE  Exact'
<1> USE DEF ReaderInv, TypeOK, CallOK
<1>1. last' = want /\ last_want' = want /\ recovered' = recovered /\ ~signal' /\ cursor' = cursor
  BY DEF Return, LocalsEnd
<1>2. NothingOdd' /\ FramesAreThoseAsked'
  BY <1>1 DEF Exact, NothingOdd, FramesAreThoseAsked
<1>3. CASE indices = <<>>
  <2>1. pc' = "idle" /\ got' = <<>>
    BY <1>3 DEF Return
  <2>2. cursor = Forward(want, 1)
    BY <1>3 DEF CallerInv, AboutNext, Reading, Exact, NothingOdd
  <2>3. ExactAtRest' /\ BatchAsAsked'
    BY <1>1, <2>1, <2>2 DEF ExactAtRest, At, BatchAsAsked
  <2> QED BY <1>2, <2>1, <2>3 DEF Exact, ExactStart, ExactPop, ExactBatch, ExactSeek, ExactSkip, Sought
<1>4. CASE indices # <<>>
  <2>0. PICK n : n = Len(got)
    OBVIOUS
  <2>1. Newest(n + 1)' /\ indices[n + 1] = want /\ indices' = indices /\ want \in Frames /\ pc' = "batch"
    BY <1>4, <2>0, ReturnedIsNewest DEF Return
  <2>2. got' = Append(got, want)
    BY <1>4 DEF Return
  <2>3. BatchAsAsked'
    <3>1. \A i \in 1 .. n : got[i] = indices[i]
      BY <2>0 DEF Exact, BatchAsAsked
    <3>2. n \in Nat /\ got \in Seq(Frames)
      BY <2>0
    <3>3. Len(got') = n + 1 /\ got'[n + 1] = want /\ \A i \in 1 .. n : got'[i] = got[i]
      <4>1. want \in Frames
        BY <2>1
      <4> QED BY <2>0, <2>2, <3>2, <4>1, AppendProperties
    <3>4. \A i \in 1 .. n + 1 : got'[i] = indices'[i]
      <4>1. \A i \in 1 .. n + 1 : i \in 1 .. n \/ i = n + 1
        BY <3>2
      <4>2. indices' = indices /\ indices[n + 1] = want
        BY <2>1
      <4> QED BY <3>1, <3>3, <4>1, <4>2
    <3> QED BY <3>3, <3>4 DEF BatchAsAsked
  <2>4. Forward(want, 1) = 1 + want
    <3>1. want \in Int /\ want < NumFrames /\ NumFrames \in Int
      BY <2>1, Numbers DEF Frames
    <3> QED BY <3>1 DEF Forward
  <2>5. ExactBatch'
    BY <2>1, <2>4 DEF ExactBatch
  <2> QED BY <1>2, <2>1, <2>3, <2>5
          DEF Exact, ExactAtRest, ExactStart, ExactPop, ExactSeek, ExactSkip, Sought
<1> QED BY <1>3, <1>4

\* SeekAccurate from where the stream is.
LEMMA AccurateExact ==
  ASSUME ReaderInv, NEW p \in Frames, SeekAccurate(p, "next"), out = curr_frame, ~overrun, want' = p,
         out' = out, NothingOdd', FramesAreThoseAsked', BatchAsAsked'
  PROVE  Exact'
<1> USE DEF ReaderInv, TypeOK, ReaderOK
<1>0. curr_frame' = curr_frame /\ curr_frame \in Nat /\ p \in Nat /\ pos' = p /\ then' = "next" /\ p # None
  BY Numbers DEF SeekAccurate, Frames, None
<1>1. CASE curr_frame = p /\ pc' = "next" /\ overrun' = overrun
  <2>1. ExactStart'
    BY <1>0, <1>1 DEF ExactStart, At
  <2> QED BY <1>1, <2>1 DEF Exact, ExactAtRest, ExactPop, ExactBatch, ExactSeek, ExactSkip, Sought
<1>2. CASE /\ curr_frame < p /\ overrun' = FALSE
           /\ num' = p - curr_frame /\ discard' = curr_frame .. p - 1 /\ pc' = "skip"
  <2>1. num' >= 0 /\ curr_frame' + num' = p
    BY <1>0, <1>2
  <2>2. \A f \in discard' : f < p
    BY <1>0, <1>2
  <2>3. ExactSkip'
    BY <1>0, <1>2, <2>1, <2>2 DEF ExactSkip
  <2> QED BY <1>2, <2>3 DEF Exact, ExactAtRest, ExactStart, ExactPop, ExactBatch, ExactSeek, Sought
<1>3. CASE overrun' = FALSE /\ pc' = "seek_start"
  <2>1. ExactSeek'
    BY <1>0, <1>3 DEF ExactSeek
  <2> QED BY <1>3, <2>1 DEF Exact, ExactAtRest, ExactStart, ExactPop, ExactBatch, ExactSkip, Sought
<1> QED BY <1>1, <1>2, <1>3 DEF SeekAccurate

----------------------------------------------------------------------------

\* What no step of a seek changes of the caller.
SameCaller == UNCHANGED <<signal, cursor, indices, got, want, last, last_want, recovered>>

LEMMA SameCallerExact ==
  ASSUME Exact, SameCaller, standins' = {}
  PROVE  NothingOdd' /\ FramesAreThoseAsked' /\ BatchAsAsked'
BY DEF SameCaller, Exact, NothingOdd, FramesAreThoseAsked, BatchAsAsked

\* CheckKeyFrame has taken a frame off the stream, so the reader is where the stream is: it goes on
\* by the frames that are missing, or it is too far.
LEMMA CheckedExact ==
  ASSUME ReaderInv, ReaderInv', Exact, pc = "check", SameCaller, standins' = {}, then' = then, pos' = pos,
         out' = curr_frame', ~overrun',
         \/ curr_frame' <= pos /\ Skip(pos - curr_frame')
         \/ pos <= curr_frame' /\ pc' = "seek_back"
  PROVE  Exact'
<1> USE DEF ReaderInv, TypeOK
<1>1. then = "next" /\ want = pos /\ pos \in Frames
  BY DEF Exact, ExactSeek, Sought
<1>2. NothingOdd' /\ FramesAreThoseAsked' /\ BatchAsAsked'
  BY SameCallerExact
<1>3. PICK c \in 0 .. NumFrames : c = curr_frame'
  BY DEF ReaderOK
<1>4. CASE curr_frame' <= pos /\ Skip(pos - curr_frame')
  <2>1. num' = pos - c /\ discard' = {f \in Frames : c <= f /\ f < c + (pos - c)} /\ pc' = "skip"
    BY <1>3, <1>4 DEF Skip
  <2>2. num' >= 0 /\ c + num' = pos
    <3>1. c <= pos /\ c \in Nat /\ pos \in Nat
      BY <1>1, <1>3, <1>4, Numbers DEF Frames
    <3> QED BY <2>1, <3>1
  <2>3. \A f \in discard' : f < c + num'
    BY <2>1
  <2>4. ExactSkip'
    BY <1>1, <1>3, <2>2, <2>3 DEF ExactSkip, SameCaller
  <2> QED BY <1>2, <2>1, <2>4 DEF Exact, ExactAtRest, ExactStart, ExactPop, ExactBatch, ExactSeek, Sought
<1>5. CASE pos <= curr_frame' /\ pc' = "seek_back"
  <2>1. ExactSeek'
    BY <1>1, <1>5 DEF ExactSeek, SameCaller
  <2> QED BY <1>2, <1>5, <2>1 DEF Exact, ExactAtRest, ExactStart, ExactPop, ExactBatch, ExactSkip, Sought
<1> QED BY <1>4, <1>5

LEMMA SeekStepsExact ==
  ASSUME Played, ReaderInv, Exact, SeekStart \/ SeekKey
  PROVE  Exact'
<1> USE DEF ReaderInv, TypeOK
<1>1. PICK p \in Frames : Seek(p) /\ UNCHANGED <<cursor, then>>
  <2>1. LocateKeyframe(pos) \in Frames /\ 0 \in Frames
    BY LocateIs, Numbers DEF ReaderOK, StepOK, Frames
  <2> QED BY <2>1, PlayedFails DEF SeekStart, SeekKey, SeekAccurateFails
<1>2. pc \in Sought /\ pc' \in {"seek_key", "check"} /\ UNCHANGED <<pos, batchVars, resultVars, loopVars>>
  BY PlayedFails DEF SeekStart, SeekKey, SeekAccurateFails, Sought
<1>3. SameCaller
  BY <1>1, <1>2 DEF SameCaller, batchVars, resultVars, loopVars
<1>4. overrun' = overrun /\ standins' = {}
  BY <1>1 DEF Seek, streamVars, readerVars, Exact, NothingOdd
<1>5. NothingOdd' /\ FramesAreThoseAsked' /\ BatchAsAsked'
  BY <1>3, <1>4, SameCallerExact
<1>6. ExactSeek'
  BY <1>1, <1>2, <1>3, <1>4 DEF Exact, ExactSeek, SameCaller, Sought
<1> QED BY <1>2, <1>5, <1>6 DEF Exact, ExactAtRest, ExactStart, ExactPop, ExactBatch, ExactSkip, Sought

LEMMA KeyFrameFoundExact ==
  ASSUME ReaderInv, ReaderInv', Intact, Exact, KeyFrameFound
  PROVE  Exact'
<1> USE DEF ReaderInv, TypeOK
<1>1. SameCaller /\ pc = "check" /\ then' = then /\ pos' = pos /\ standins' = {}
  BY DEF KeyFrameFound, PopFrame, seekVars, batchVars, resultVars, SameCaller, Exact, NothingOdd
<1>2. then = "next" /\ want = pos /\ pos \in Frames /\ ~overrun
  BY <1>1 DEF Exact, ExactSeek, Sought
<1>3. curr_frame = LocateKeyframe(pos) /\ curr_frame <= pos /\ curr_frame \in Frames
  <2>1. pos \in Int /\ pos >= 0
    BY <1>2, Numbers DEF Frames
  <2> QED BY <1>1, <2>1, LocateIs DEF AtKey, ReaderOK
<1>4. curr_frame' = curr_frame + 1 /\ out' = curr_frame + 1 /\ tmp_key_frame' = curr_frame
  BY PopFrameGives DEF KeyFrameFound
<1>5. CASE pos > curr_frame /\ Skip(pos - curr_frame')
  <2>1. curr_frame' <= pos
    BY <1>2, <1>3, <1>4, <1>5, Numbers DEF Frames
  <2>2. ~overrun'
    <3>1. pos # curr_frame
      BY <1>2, <1>3, <1>5, Numbers DEF Frames
    <3>2. overrun' = (pos = curr_frame)
      BY DEF KeyFrameFound
    <3> QED BY <3>1, <3>2, Zenon
  <2> QED BY <1>1, <1>4, <1>5, <2>1, <2>2, CheckedExact
<1>6. CASE ~(pos > curr_frame) /\ pc' = then
  <2>1. pos = curr_frame
    BY <1>2, <1>3, <1>6, Numbers DEF Frames
  <2>2. overrun'
    <3>1. overrun' = (pos = curr_frame)
      BY DEF KeyFrameFound
    <3> QED BY <2>1, <3>1, Zenon
  <2>3. want # None
    BY <1>2, Numbers DEF Frames, None
  <2>4. ExactStart'
    BY <1>1, <1>2, <1>4, <2>1, <2>2, <2>3 DEF ExactStart, At, SameCaller
  <2>5. NothingOdd' /\ FramesAreThoseAsked' /\ BatchAsAsked'
    BY <1>1, SameCallerExact
  <2> QED BY <1>2, <1>6, <2>4, <2>5
          DEF Exact, ExactAtRest, ExactPop, ExactBatch, ExactSeek, ExactSkip, Sought
<1> QED BY <1>5, <1>6 DEF KeyFrameFound

LEMMA OtherFrameFoundExact ==
  ASSUME ReaderInv, ReaderInv', Intact, Exact, OtherFrameFound
  PROVE  Exact'
<1> USE DEF ReaderInv, TypeOK
<1>1. SameCaller /\ pc = "check" /\ then' = then /\ pos' = pos /\ standins' = {} /\ overrun' = overrun
  BY DEF OtherFrameFound, PopFrame, seekVars, batchVars, resultVars, SameCaller, Exact, NothingOdd
<1>2. pos \in Frames /\ ~overrun'
  BY <1>1 DEF Exact, ExactSeek, Sought
<1>3. PICK f \in Frames : curr_frame' = f + 1 /\ out' = f + 1
  BY PopFrameGives DEF OtherFrameFound
<1>4. CASE curr_frame' < pos /\ Skip(pos - curr_frame')
  <2>1. curr_frame' <= pos
    BY <1>2, <1>3, <1>4, Numbers DEF Frames
  <2> QED BY <1>1, <1>2, <1>3, <1>4, <2>1, CheckedExact
<1>5. CASE ~(curr_frame' < pos) /\ pc' = "seek_back"
  <2>1. pos <= curr_frame'
    BY <1>2, <1>3, <1>5, Numbers DEF Frames
  <2> QED BY <1>1, <1>2, <1>3, <1>5, <2>1, CheckedExact
<1> QED BY <1>4, <1>5 DEF OtherFrameFound

LEMMA NoFrameFoundExact ==
  ASSUME ReaderInv, ReaderInv', Intact, Exact, NoFrameFound
  PROVE  Exact'
<1> USE DEF ReaderInv, TypeOK
<1>1. SameCaller /\ pc = "check" /\ then' = then /\ pos' = pos /\ standins' = {} /\ overrun' = overrun
  BY DEF NoFrameFound, PopSignal, seekVars, loopVars, batchVars, resultVars, SameCaller, Exact, NothingOdd
<1>2. pos \in Frames /\ ~overrun'
  BY <1>1 DEF Exact, ExactSeek, Sought
<1>3. curr_frame' = NumFrames /\ out' = NumFrames
  BY PopSignalGives, IntactStream DEF NoFrameFound
<1>4. pos <= curr_frame' /\ pc' = "seek_back"
  BY <1>2, <1>3, Numbers DEF NoFrameFound, Frames
<1> QED BY <1>1, <1>2, <1>3, <1>4, CheckedExact

LEMMA SeekBackExact ==
  ASSUME Played, ReaderInv, ReaderInv', Exact, SeekBack
  PROVE  Exact'
<1> USE DEF ReaderInv, TypeOK
<1> DEFINE k == LocateKeyframe(pos)
<1>1. SameCaller /\ pc = "seek_back" /\ then' = then /\ pos' = pos /\ Seek(k) /\ Skip(pos - k)
  BY PlayedFails DEF SeekBack, seekVars, batchVars, resultVars, SameCaller
<1>2. then = "next" /\ want = pos /\ pos \in Frames /\ ~overrun /\ out = curr_frame /\ pos <= curr_frame
  BY <1>1 DEF Exact, ExactSeek, Sought
<1>3. k \in file.keys /\ k <= pos /\ k \in Frames
  <2>1. pos \in Nat
    BY <1>2, Numbers DEF Frames
  <2>2. LastKey(pos) \in file.keys
    BY <2>1, LastKeyIs, PlayedFile DEF ReaderOK
  <2>3. 0 \in file.keys
    BY FileFacts DEF ReaderOK
  <2>4. k <= pos /\ k \in Frames
    BY <2>1, LocateIs DEF ReaderOK
  <2> QED BY <2>2, <2>3, <2>4 DEF LocateKeyframe
<1> HIDE DEF k
<1>4. curr_frame' = k /\ out' = k /\ standins' = {} /\ overrun' = overrun
  <2>1. ~(curr_frame < k)
    BY <1>2, <1>3, Numbers DEF ReaderOK, Frames
  <2> QED BY <1>1, <1>2, <1>3, <2>1, SeekToKey DEF Exact, NothingOdd
<1>5. NothingOdd' /\ FramesAreThoseAsked' /\ BatchAsAsked'
  BY <1>1, <1>4, SameCallerExact
<1>6. /\ num' = pos - k /\ discard' = {f \in Frames : k <= f /\ f < k + (pos - k)} /\ pc' = "skip"
  BY <1>1, <1>4 DEF Skip
<1>7. num' >= 0 /\ k + num' = pos
  BY <1>2, <1>3, <1>6, Numbers DEF Frames
<1>8. \A f \in discard' : f < k + num'
  BY <1>6
<1>9. ExactSkip'
  BY <1>1, <1>2, <1>4, <1>7, <1>8 DEF ExactSkip, SameCaller
<1> QED BY <1>5, <1>6, <1>9 DEF Exact, ExactAtRest, ExactStart, ExactPop, ExactBatch, ExactSeek, Sought

LEMMA SkipOneExact ==
  ASSUME ReaderInv, Intact, Exact, SkipOne
  PROVE  Exact'
<1> USE DEF ReaderInv, TypeOK
<1>1. SameCaller /\ pc = "skip" /\ UNCHANGED <<pc, then, pos, discard, overrun>>
      /\ curr_frame' = curr_frame + 1 /\ num' = num - 1 /\ num > 0 /\ curr_frame < NumFrames
  BY DEF SkipOne, seekVars, batchVars, resultVars, SameCaller
<1>2. out = curr_frame /\ ~overrun /\ (\A f \in discard : f < curr_frame + num) /\ num \in Int /\ curr_frame \in Int
  BY <1>1, Numbers DEF Exact, ExactSkip, StepOK, ReaderOK
<1>3. out' = curr_frame' /\ standins' = {}
  <2>1. ~PopSignal
    BY <1>1, <1>2, IntactStream DEF PopSignal
  <2>2. PICK f : PopFrame(f)
    BY <2>1 DEF SkipOne
  <2> QED BY <1>1, <1>2, <2>2, IntactStream, PopFrameGives DEF Exact, NothingOdd
<1>4. NothingOdd' /\ FramesAreThoseAsked' /\ BatchAsAsked'
  BY <1>1, <1>3, SameCallerExact
<1>5. curr_frame' + num' = curr_frame + num /\ num' >= 0
  BY <1>1, <1>2
<1>6. ExactSkip'
  BY <1>1, <1>2, <1>3, <1>5 DEF Exact, ExactSkip, SameCaller
<1> QED BY <1>1, <1>4, <1>6 DEF Exact, ExactAtRest, ExactStart, ExactPop, ExactBatch, ExactSeek, Sought

LEMMA SkipEndsExact ==
  ASSUME ReaderInv, Intact, Exact, SkipEnds
  PROVE  Exact'
<1> USE DEF ReaderInv, TypeOK
<1>1. SameCaller /\ pc = "skip" /\ UNCHANGED <<out, curr_frame, then, overrun>> /\ pc' = then
  BY DEF SkipEnds, readerVars, batchVars, resultVars, SameCaller
<1>2. /\ out = curr_frame /\ ~overrun /\ num >= 0 /\ (\A f \in discard : f < curr_frame + num)
      /\ then = "idle" => curr_frame + num = cursor /\ want = None
      /\ then # "idle" => then = "next" /\ curr_frame + num = want
  BY <1>1 DEF Exact, ExactSkip
<1>3. num \in Int /\ curr_frame \in 0 .. NumFrames /\ cursor \in None .. NumFrames /\ want \in None .. NumFrames
  BY Numbers DEF StepOK, ReaderOK, CallOK
<1>4. num = 0 /\ curr_frame + num = curr_frame /\ (curr_frame # None)
  <2>1. curr_frame + num <= NumFrames
    BY <1>2, <1>3, Numbers DEF None
  <2>2. num <= 0 \/ curr_frame = NumFrames
    BY DEF SkipEnds
  <2> QED BY <1>2, <1>3, <2>1, <2>2, Numbers DEF None
<1>5. standins' = {}
  <2>1. standins = {}
    BY DEF Exact, NothingOdd
  <2>2. standins' \subseteq {f \in discard : out <= f}
    BY <2>1 DEF SkipEnds
  <2>3. \A f \in discard : ~(out <= f)
    BY <1>2, <1>3, <1>4, Numbers DEF StepOK, Frames
  <2> QED BY <2>2, <2>3
<1>6. NothingOdd' /\ FramesAreThoseAsked' /\ BatchAsAsked'
  BY <1>1, <1>5, SameCallerExact
<1>7. ExactAtRest' /\ ExactStart'
  BY <1>1, <1>2, <1>4 DEF ExactAtRest, ExactStart, At, SameCaller
<1> QED BY <1>1, <1>2, <1>6, <1>7 DEF Exact, ExactPop, ExactBatch, ExactSeek, ExactSkip, Sought

----------------------------------------------------------------------------

LEMMA NextOverrunExact ==
  ASSUME ReaderInv, ReaderInv', CallerInv, Exact, NextOverrun
  PROVE  Return(want) /\ want \in Frames /\ Exact'
<1> USE DEF ReaderInv, TypeOK
<1>1. At(want + 1) /\ tmp_key_frame = want
  BY DEF NextOverrun, Exact, ExactStart
<1>2. want \in Frames
  BY <1>1 DEF NextOverrun, KeyKept, ReaderOK
<1>3. Forward(want, 1) = want + 1 /\ want \in 0 .. NumFrames
  BY <1>2, Numbers DEF Forward, Frames
<1>4. Return(want)
  BY <1>1 DEF NextOverrun
<1>5. curr_frame' = want + 1 /\ out' = want + 1 /\ standins' = standins /\ overrun' = FALSE
  BY <1>1 DEF NextOverrun, At, streamVars
<1>6. pc \in {"next", "pop"}
  BY DEF NextOverrun
<1> HIDE DEF ReaderInv, TypeOK
<1> QED BY <1>2, <1>3, <1>4, <1>5, <1>6, ReturnExact

LEMMA NextStartExact == ASSUME Exact, NextStart PROVE Exact'
<1>1. /\ SameCaller /\ UNCHANGED <<out, curr_frame, overrun, standins>> /\ pc = "next" /\ ~overrun
      /\ pc' = "pop"
  BY DEF NextStart, streamVars, readerVars, loopVars, batchVars, resultVars, SameCaller
<1>2. NothingOdd' /\ FramesAreThoseAsked' /\ BatchAsAsked'
  BY <1>1, SameCallerExact DEF Exact, NothingOdd
<1>3. ExactPop'
  BY <1>1 DEF Exact, ExactStart, ExactPop, At, SameCaller
<1> QED BY <1>1, <1>2, <1>3 DEF Exact, ExactAtRest, ExactStart, ExactBatch, ExactSeek, ExactSkip, Sought

LEMMA NextEmptyExact ==
  ASSUME ReaderInv, ReaderInv', CallerInv, Exact, NextEmpty
  PROVE  Return(want) /\ want = NumFrames /\ indices = <<>> /\ Exact'
<1> USE DEF ReaderInv, TypeOK
<1>1. pc = "pop" /\ curr_frame = NumFrames /\ out = curr_frame /\ want = curr_frame /\ ~overrun
  BY DEF NextEmpty, Exact, ExactPop, At
<1>2. indices = <<>>
  <2>1. SUFFICES ASSUME indices # <<>> PROVE FALSE
    OBVIOUS
  <2>2. Len(got) + 1 \in 1 .. Len(indices) /\ want = indices[Len(got) + 1]
    <3>1. want = indices[Len(got) + 1] /\ Len(got) < Len(indices)
      <4>1. AboutBatch /\ BatchShape
        BY DEF CallerInv
      <4> QED BY <1>1, <2>1, <4>1 DEF AboutBatch, Index, BatchShape
    <3>2. Len(got) \in Nat /\ Len(indices) \in Nat
      BY DEF CallOK
    <3> QED BY <3>1, <3>2
  <2>3. want \in Frames
    <3>1. indices \in Seq(Frames)
      BY DEF CallOK
    <3> QED BY <2>2, <3>1, ElementOfSeq
  <2> QED BY <1>1, <2>3, Numbers DEF Frames
<1>3. Return(want)
  BY <1>1, <1>2 DEF NextEmpty, Empty
<1>4. Forward(want, 1) = NumFrames /\ want \in 0 .. NumFrames
  BY <1>1, Numbers DEF Forward
<1>5. overrun' = FALSE /\ standins' = standins /\ curr_frame' = NumFrames /\ out' = NumFrames
  BY <1>1 DEF NextEmpty, streamVars, readerVars, FlagsOK
<1> HIDE DEF ReaderInv, TypeOK
<1> QED BY <1>1, <1>2, <1>3, <1>4, <1>5, ReturnExact

LEMMA NextPoppedExact ==
  ASSUME ReaderInv, ReaderInv', CallerInv, Intact, Exact, NextPopped
  PROVE  Return(want) /\ want \in Frames /\ Exact'
<1> USE DEF ReaderInv, TypeOK
<1>1. pc = "pop" /\ out = want /\ curr_frame = want /\ ~overrun
  BY DEF NextPopped, Exact, ExactPop, At
<1>2. PICK f \in Left : PopFrame(f) /\ Return(f)
  BY DEF NextPopped
<1>3. f = want /\ want \in Frames /\ out' = want + 1
  BY <1>1, <1>2, IntactStream, PopFrameGives
<1>4. Forward(want, 1) = want + 1 /\ want \in 0 .. NumFrames
  BY <1>3, Numbers DEF Forward, Frames
<1>5. standins' = standins /\ overrun' = FALSE /\ curr_frame' = want + 1
  BY <1>1, <1>2 DEF NextPopped, PopFrame, FlagsOK
<1>6. Return(want)
  BY <1>2, <1>3
<1> HIDE DEF ReaderInv, TypeOK
<1> QED BY <1>1, <1>3, <1>4, <1>5, <1>6, ReturnExact

\* Nothing is ever skipped, replaced, sought again or given up.
LEMMA NoTrouble ==
  ASSUME ReaderInv, Intact, Exact
  PROVE  ~NextSkipped /\ ~NextCached /\ ~NextRewinds /\ ~NextGivesUp
<1> USE DEF ReaderInv, TypeOK
<1>1. standins = {} /\ ~signal
  BY DEF Exact, NothingOdd
<1>2. ~NextSkipped
  BY <1>1 DEF NextSkipped
<1>3. ASSUME pc = "pop", curr_frame < NumFrames PROVE Left # {}
  <2>1. out = curr_frame
    BY <1>3 DEF Exact, ExactPop, At
  <2> QED BY <1>3, <2>1, IntactStream, Numbers DEF ReaderOK
<1>4. ~NextCached /\ ~NextRewinds /\ ~NextGivesUp
  BY <1>1, <1>3 DEF NextCached, NextRewinds, NextGivesUp, SignalSeen, PopSignal, Starved
<1> QED BY <1>2, <1>4

LEMMA CopyIsAsked ==
  ASSUME ReaderInv, Exact, BatchCopy
  PROVE  got[Least(Repeats)] = Index /\ Index \in Frames
<1> USE DEF ReaderInv, TypeOK
<1>1. Repeats \in SUBSET Nat /\ Repeats # {}
  BY DEF BatchCopy, Repeats
<1>2. Least(Repeats) \in 1 .. Len(got) /\ indices[Least(Repeats)] = Index
  BY <1>1, LeastIs DEF Repeats
<1>3. Len(got) + 1 \in 1 .. Len(indices)
  BY DEF BatchCopy, BatchLeft, CallOK
<1> QED BY <1>2, <1>3 DEF Exact, BatchAsAsked, Index, CallOK

LEMMA BatchCopyExact == ASSUME ReaderInv, Exact, BatchCopy PROVE Exact'
<1> USE DEF ReaderInv, TypeOK
<1>1. /\ UNCHANGED <<out, standins, curr_frame, overrun, pc, signal, cursor, indices, recovered>>
      /\ pc = "batch" /\ got' = Append(got, Index) /\ last' = Index /\ last_want' = Index
  BY CopyIsAsked DEF BatchCopy, BatchLeft, streamVars, readerVars, loopVars
<1>2. NothingOdd' /\ FramesAreThoseAsked'
  BY <1>1 DEF Exact, NothingOdd, FramesAreThoseAsked
<1>3. BatchAsAsked'
  BY <1>1 DEF Exact, BatchAsAsked, Index, CallOK
<1>4. ExactBatch'
  <2>1. got # <<>>
    BY DEF BatchCopy, Repeats, CallOK
  <2>2. PICK m : Newest(m) /\ curr_frame = 1 + indices[m]
    BY <1>1, <2>1 DEF Exact, ExactBatch
  <2>3. Newest(m)'
    BY <2>2, CopyIsNotNewest
  <2> QED BY <1>1, <2>2, <2>3 DEF Exact, ExactBatch
<1> QED BY <1>1, <1>2, <1>3, <1>4 DEF Exact, ExactAtRest, ExactStart, ExactPop, ExactSeek, ExactSkip, Sought

LEMMA BatchFrameExact == ASSUME ReaderInv, Exact, BatchFrame PROVE Exact'
<1> USE DEF ReaderInv, TypeOK
<1>1. UNCHANGED <<out, standins, signal, cursor, indices, got, last, last_want, recovered>> /\ want' = Index
      /\ pc = "batch" /\ SeekAccurate(Index, "next")
  BY DEF BatchFrame, BatchLeft, streamVars, batchVars
<1>2. Index \in Frames
  <2>1. Len(got) + 1 \in 1 .. Len(indices)
    BY DEF BatchFrame, BatchLeft, CallOK
  <2> QED BY <2>1 DEF Index, CallOK
<1>3. NothingOdd' /\ FramesAreThoseAsked' /\ BatchAsAsked'
  BY <1>1 DEF Exact, NothingOdd, FramesAreThoseAsked, BatchAsAsked
<1>4. out = curr_frame /\ ~overrun
  BY <1>1 DEF Exact, ExactBatch
<1> QED BY <1>1, <1>2, <1>3, <1>4, AccurateExact

LEMMA BatchDoneExact == ASSUME ReaderInv, CallerInv, Exact, BatchDone PROVE Exact'
<1> USE DEF ReaderInv, TypeOK
<1>1. /\ UNCHANGED <<out, standins, curr_frame, overrun, signal, cursor, last, last_want, recovered>>
      /\ pc = "batch" /\ pc' = "idle" /\ got' = <<>> /\ Len(got) = Len(indices)
  BY DEF BatchDone, streamVars, readerVars, loopVars, resultVars
<1>2. NothingOdd' /\ FramesAreThoseAsked' /\ BatchAsAsked'
  BY <1>1 DEF Exact, NothingOdd, FramesAreThoseAsked, BatchAsAsked
<1>3. got # <<>> /\ indices # <<>>
  BY <1>1 DEF BatchShape, CallOK
<1>4. PICK m : Newest(m) /\ curr_frame = 1 + indices[m]
  BY <1>1, <1>3 DEF Exact, ExactBatch
<1>5. cursor = curr_frame
  BY <1>1, <1>3, <1>4, NewestOfAll DEF CallerInv, AboutBatch
<1>6. ExactAtRest'
  BY <1>1, <1>5 DEF Exact, ExactBatch, ExactAtRest, At
<1> QED BY <1>1, <1>2, <1>6 DEF Exact, ExactStart, ExactPop, ExactBatch, ExactSeek, ExactSkip, Sought

----------------------------------------------------------------------------

\* A call begins where the cursor is.
LEMMA CallExact ==
  ASSUME ReaderInv, Exact, NEW name, NEW f, Call(name, f)
  PROVE  /\ curr_frame = cursor /\ out = cursor /\ ~overrun /\ cursor # None /\ cursor \in 0 .. NumFrames
         /\ indices = <<>> /\ got = <<>> /\ then = "idle" /\ name \in Calls[file]
         /\ last' = None /\ last_want' = None /\ want' = f /\ recovered' = {} /\ FramesAreThoseAsked'
<1> USE DEF ReaderInv, TypeOK
<1>1. pc = "idle" /\ indices = <<>> /\ then = "idle" /\ got = <<>>
  BY DEF Call, BatchShape, CallOK
<1>2. cursor # None /\ recovered = {} /\ At(cursor) /\ ~overrun
  BY <1>1 DEF Exact, NothingOdd, ExactAtRest
<1>3. cursor \in 0 .. NumFrames
  BY <1>2, Numbers DEF CallOK, None
<1> QED BY <1>1, <1>2, <1>3 DEF Call, At, FramesAreThoseAsked

LEMMA CallNextExact == ASSUME ReaderInv, Exact, CallNext PROVE Exact'
<1>1. /\ curr_frame = cursor /\ out = cursor /\ ~overrun /\ cursor # None /\ cursor \in 0 .. NumFrames
      /\ got = <<>> /\ recovered' = {} /\ FramesAreThoseAsked' /\ want' = cursor
  BY CallExact DEF CallNext
<1>2. UNCHANGED <<out, standins, curr_frame, overrun, signal, got>> /\ pc' = "next"
  BY DEF CallNext, streamVars, readerVars, loopVars, batchVars
<1>3. cursor' # None
  BY <1>1, Numbers DEF CallNext, Forward, None
<1>4. NothingOdd' /\ BatchAsAsked'
  BY <1>1, <1>2, <1>3 DEF Exact, NothingOdd, BatchAsAsked
<1>5. ExactStart'
  BY <1>1, <1>2 DEF ExactStart, At
<1> QED BY <1>1, <1>2, <1>4, <1>5 DEF Exact, ExactAtRest, ExactPop, ExactBatch, ExactSeek, ExactSkip, Sought

LEMMA CallGetItemExact == ASSUME ReaderInv, Exact, CallGetItem PROVE Exact'
<1>1. PICK i \in Frames : Call("getitem", i) /\ SeekAccurate(i, "next") /\ cursor' = i + 1
  BY DEF CallGetItem
<1>2. /\ curr_frame = cursor /\ out = cursor /\ ~overrun
      /\ got = <<>> /\ recovered' = {} /\ FramesAreThoseAsked' /\ want' = i
  BY <1>1, CallExact
<1>3. UNCHANGED <<out, standins, signal, got>>
  BY DEF CallGetItem, streamVars, batchVars
<1>4. cursor' # None
  BY <1>1, Numbers DEF Frames, None
<1>5. NothingOdd' /\ BatchAsAsked'
  BY <1>2, <1>3, <1>4 DEF Exact, NothingOdd, BatchAsAsked
<1> QED BY <1>1, <1>2, <1>3, <1>5, AccurateExact

LEMMA CallGetBatchExact == ASSUME ReaderInv, Exact, CallGetBatch PROVE Exact'
<1>1. /\ curr_frame = cursor /\ out = cursor /\ ~overrun
      /\ got = <<>> /\ recovered' = {} /\ FramesAreThoseAsked'
  BY CallExact DEF CallGetBatch
<1>2. UNCHANGED <<out, standins, curr_frame, overrun, signal, got>> /\ pc' = "batch" /\ cursor' = After(indices')
  BY DEF CallGetBatch, streamVars, readerVars, loopVars
<1>3. PICK n \in 1 .. MaxBatch : indices' \in [1 .. n -> Frames]
  BY DEF CallGetBatch
<1>4. After(indices') \in 1 .. NumFrames
  <2>1. n \in Nat /\ n > 0
    BY Numbers
  <2> QED BY <1>3, <2>1, AfterIs
<1>5. NothingOdd' /\ BatchAsAsked'
  <2>1. cursor' # None
    BY <1>2, <1>4, Numbers DEF None
  <2> QED BY <1>1, <1>2, <2>1 DEF Exact, NothingOdd, BatchAsAsked
<1>6. ExactBatch'
  BY <1>1, <1>2 DEF ExactBatch
<1> QED BY <1>1, <1>2, <1>5, <1>6 DEF Exact, ExactAtRest, ExactStart, ExactPop, ExactSeek, ExactSkip, Sought

\* seek, of key frames: the container finds them.
LEMMA CallSeekExact ==
  ASSUME Played, ReaderInv, Intact, Exact, CallSeek
  PROVE  Exact' /\ cursor' \in Frames
<1> USE DEF ReaderInv, TypeOK
<1>1. PICK i \in Frames : i \in file.keys /\ Call("seek_key", None) /\ Seek(i) /\ cursor' = i
  BY PlayedFile, PlayedFails DEF CallSeek, Call
<1>2. /\ curr_frame = cursor /\ out = cursor /\ ~overrun
      /\ got = <<>> /\ recovered' = {} /\ FramesAreThoseAsked' /\ "seek_key" \in Calls[file]
  BY <1>1, CallExact
<1>3. UNCHANGED <<pc, signal, got>> /\ pc = "idle"
  BY <1>1 DEF CallSeek, Call, loopVars, batchVars
<1>4. curr_frame' = i /\ out' = i /\ standins' = {} /\ overrun' = overrun
  <2>1. file.exact
    BY <1>2, PlayedFile
  <2> QED BY <1>1, <1>2, <2>1, SeekToKey DEF Exact, NothingOdd
<1>5. cursor' # None
  BY <1>1, Numbers DEF Frames, None
<1>6. NothingOdd' /\ BatchAsAsked'
  BY <1>2, <1>3, <1>4, <1>5 DEF Exact, NothingOdd, BatchAsAsked
<1>7. ExactAtRest'
  BY <1>1, <1>2, <1>3, <1>4 DEF ExactAtRest, At
<1> QED BY <1>1, <1>2, <1>3, <1>6, <1>7
        DEF Exact, ExactStart, ExactPop, ExactBatch, ExactSeek, ExactSkip, Sought

\* skip_frames goes to the last key frame it would pass over, and then by frames.
LEMMA CallSkipFramesExact ==
  ASSUME Played, ReaderInv, ReaderInv', Intact, Exact, CallSkipFrames
  PROVE  Exact'
<1> USE DEF ReaderInv, TypeOK
<1>1. /\ curr_frame = cursor /\ out = cursor /\ ~overrun /\ cursor # None /\ cursor \in 0 .. NumFrames
      /\ got = <<>> /\ then = "idle" /\ recovered' = {} /\ FramesAreThoseAsked' /\ "skip_frames" \in Calls[file]
      /\ want' = None
  BY CallExact DEF CallSkipFrames
<1>2. PICK n \in 1 .. NumFrames :
        LET to == Forward(curr_frame, n)
            from == IF LastKey(to) > LastKey(curr_frame) THEN LastKey(to) ELSE curr_frame
        IN /\ Seek(from) /\ Skip(to - from)
           /\ cursor' = IF cursor = None THEN None ELSE Forward(cursor, n)
  BY PlayedFails DEF CallSkipFrames
<1> DEFINE to == Forward(curr_frame, n)
           from == IF LastKey(to) > LastKey(curr_frame) THEN LastKey(to) ELSE curr_frame
<1>3. to \in 0 .. NumFrames /\ curr_frame <= to
  BY <1>1, Numbers DEF Forward
<1> HIDE DEF to
<1>4. LastKey(to) \in file.keys /\ LastKey(to) <= to /\ LastKey(to) \in Frames
  BY <1>3, LastKeyIs, PlayedFile DEF ReaderOK
<1>5. from \in Nat /\ from <= to /\ (from = curr_frame \/ from \in file.keys)
  BY <1>1, <1>3, <1>4, Numbers DEF Frames
<1>6. Seek(from) /\ Skip(to - from) /\ cursor' = to
  BY <1>1, <1>2 DEF to
<1> HIDE DEF from
<1>7. curr_frame' = from /\ out' = from /\ standins' = {} /\ overrun' = overrun
  <2>1. CASE from = curr_frame
    BY <1>1, <1>6, <2>1 DEF Seek, streamVars, readerVars, Exact, NothingOdd
  <2>2. CASE from \in file.keys
    <3>1. file.exact
      BY <1>1, PlayedFile
    <3> QED BY <1>1, <1>6, <2>2, <3>1, SeekToKey DEF Exact, NothingOdd
  <2> QED BY <1>5, <2>1, <2>2
<1>8. num' = to - from /\ discard' = {f \in Frames : from <= f /\ f < from + (to - from)} /\ pc' = "skip"
  BY <1>6, <1>7 DEF Skip
<1>9. num' >= 0 /\ from + num' = to /\ \A f \in discard' : f < from + num'
  BY <1>3, <1>5, <1>8
<1>10. UNCHANGED <<then, signal, got>>
  BY DEF CallSkipFrames, seekVars, batchVars
<1>11. cursor' # None
  BY <1>3, <1>6, Numbers DEF None
<1>12. NothingOdd' /\ BatchAsAsked'
  BY <1>1, <1>7, <1>10, <1>11 DEF Exact, NothingOdd, BatchAsAsked
<1>13. ExactSkip'
  BY <1>1, <1>6, <1>7, <1>9, <1>10 DEF ExactSkip
<1> QED BY <1>1, <1>8, <1>12, <1>13
        DEF Exact, ExactAtRest, ExactStart, ExactPop, ExactBatch, ExactSeek, Sought

LEMMA StepExact ==
  ASSUME Played, ReaderInv, ReaderInv', CallerInv, Intact, Exact, [Next]_vars
  PROVE  Exact'
<1>1. CASE Continue
  BY <1>1, NoTrouble, SeekStepsExact, KeyFrameFoundExact, OtherFrameFoundExact, NoFrameFoundExact,
     SeekBackExact, SkipOneExact, SkipEndsExact, NextOverrunExact, NextStartExact, NextEmptyExact,
     NextPoppedExact, BatchCopyExact, BatchFrameExact, BatchDoneExact DEF Continue
<1>2. CASE CallSomething
  <2>1. ~CallSeekAccurate
    BY PlayedFile DEF CallSeekAccurate, Call
  <2> QED BY <1>2, <2>1, CallNextExact, CallGetItemExact, CallGetBatchExact, CallSeekExact,
             CallSkipFramesExact DEF CallSomething
<1>3. CASE UNCHANGED vars
  <2>1. /\ SameCaller
        /\ UNCHANGED <<pc, then, pos, num, discard, out, standins, curr_frame, overrun, tmp_key_frame>>
    BY <1>3 DEF vars, streamVars, readerVars, seekVars, loopVars, batchVars, resultVars, SameCaller
  <2>2. NothingOdd' /\ FramesAreThoseAsked' /\ BatchAsAsked'
    BY <2>1, SameCallerExact DEF Exact, NothingOdd
  <2>3. ExactAtRest' /\ ExactStart' /\ ExactPop' /\ ExactSeek' /\ ExactSkip'
    BY <2>1 DEF Exact, ExactAtRest, ExactStart, ExactPop, ExactSeek, ExactSkip, At, SameCaller, Sought
  <2>4. ExactBatch'
    BY <2>1 DEF Exact, ExactBatch, Newest, FirstPlace, SameCaller
  <2> QED BY <2>2, <2>3, <2>4 DEF Exact
<1> QED BY <1>1, <1>2, <1>3 DEF Next

----------------------------------------------------------------------------
(***************************************************************************)
(* Damaged videos read in order: as long as nothing was raised the reader   *)
(* is where its caller is and the stream is not behind it, so a frame that  *)
(* is replaced is one it has counted.  It rewinds only if nothing at all    *)
(* can be decoded, and then it comes back to the start of the video.        *)
(***************************************************************************)

Replaced == recovered \subseteq failed_idx /\ FaultTolIsALimit

\* The caller waits for a frame exactly if it knows where it is.
Waiting == pc # "idle" => (want = None <=> cursor = None)

Counted == FaultTol >= 0 => Cardinality(failed_idx) <= FaultTol
StreamAhead == (\A f \in Left : f >= curr_frame) /\ standins = {} /\ ~overrun
NothingYet ==
  /\ cached_frame = None => out = 0 /\ (pc # "seek_back" => curr_frame = 0)
  /\ Dead => cached_frame = None
Together ==
  /\ pc = "idle" => curr_frame = cursor
  /\ pc \in {"next", "pop"} => curr_frame = want
Rewinding ==
  /\ pc \in {"idle", "next", "pop"} \/ (pc \in Seeking /\ then = "pop" /\ Dead /\ want = 0 /\ pos <= 0)
  /\ pc = "skip" => num <= 0 /\ discard = {}
Following == cursor # None => Counted /\ StreamAhead /\ NothingYet /\ Together /\ Rewinding

InOrder == Replaced /\ IterationIsComplete /\ indices = <<>> /\ Waiting /\ Following

LEMMA InitInOrder == Init => InOrder
<1> SUFFICES ASSUME Init PROVE InOrder
  OBVIOUS
<1>1. Cardinality({}) = 0
  BY FS_EmptySet
<1>2. Replaced /\ Counted
  BY <1>1 DEF Init, Replaced, FaultTolIsALimit, Counted
<1>3. StreamAhead /\ NothingYet
  BY Numbers DEF Init, StreamAhead, NothingYet, Left, Dead, Frames
<1>4. IterationIsComplete /\ Waiting /\ Together /\ Rewinding
  BY DEF Init, IterationIsComplete, Waiting, Together, Rewinding
<1> QED BY <1>2, <1>3, <1>4 DEF InOrder, Following, Init

\* A frame is returned, of which it is known whether it stands in for the one expected.
LEMMA ReturnInOrder ==
  ASSUME ReaderInv, ReaderInv', InOrder, NEW f \in 0 .. NumFrames, Return(f), failed_idx \subseteq failed_idx',
         FaultTol >= 0 /\ f < want => want \in failed_idx' /\ Cardinality(failed_idx') <= FaultTol,
         want # None => (f = NumFrames <=> want = NumFrames)
  PROVE  Replaced' /\ IterationIsComplete' /\ indices' = <<>> /\ Waiting' /\ pc' = "idle" /\ cursor' = cursor
<1> USE DEF ReaderInv, TypeOK
<1>1. indices' = <<>> /\ pc' = "idle" /\ cursor' = cursor /\ last' = f /\ last_want' = want
  BY DEF InOrder, Return
<1>2. IterationIsComplete' /\ Waiting'
  BY <1>1 DEF IterationIsComplete, Waiting, Empty
<1>3. Replaced'
  <2>1. CASE recovered' = recovered
    BY <2>1 DEF InOrder, Replaced, FaultTolIsALimit
  <2>2. CASE FaultTol >= 0 /\ f < want /\ recovered' = recovered \cup {want}
    <3>1. recovered' \subseteq failed_idx' /\ Cardinality(failed_idx') <= FaultTol
      BY <2>2 DEF InOrder, Replaced
    <3>2. IsFiniteSet(failed_idx')
      <4>1. IsFiniteSet(Frames)
        BY Numbers, FS_Interval DEF Frames
      <4>2. failed_idx' \subseteq Frames
        BY DEF ReaderOK
      <4> QED BY <4>1, <4>2, FS_Subset
    <3>3. Cardinality(recovered') <= Cardinality(failed_idx') /\ IsFiniteSet(recovered')
      BY <3>1, <3>2, FS_Subset
    <3>4. Cardinality(recovered') \in Nat /\ Cardinality(failed_idx') \in Nat
      BY <3>2, <3>3, FS_CardinalityType
    <3>5. Cardinality(recovered') <= FaultTol
      BY <3>1, <3>3, <3>4, Numbers
    <3> QED BY <3>1, <3>5 DEF Replaced, FaultTolIsALimit
  <2> QED BY <2>1, <2>2 DEF Return
<1> QED BY <1>1, <1>2, <1>3

LEMMA RaiseInOrder ==
  ASSUME InOrder, Raise, failed_idx \subseteq failed_idx'
  PROVE  InOrder'
BY DEF Raise, InOrder, Replaced, FaultTolIsALimit, IterationIsComplete, Waiting, Following, resultVars

LEMMA NextPoppedInOrder ==
  ASSUME ReaderInv, ReaderInv', CallerInv, InOrder, NextPopped
  PROVE  InOrder'
<1> USE DEF ReaderInv, TypeOK
<1>1. PICK f \in Left : PopFrame(f) /\ Return(f) /\ cached_frame' = f
  BY DEF NextPopped
<1>2. f \in Frames /\ f \in 0 .. NumFrames /\ f >= out /\ f \notin file.corrupt
      /\ out' = f + 1 /\ standins' = standins /\ (\A g \in Left : f <= g)
  BY <1>1, PopFrameGives, Numbers DEF Frames
<1>3. failed_idx' = failed_idx /\ overrun' = overrun /\ curr_frame' = curr_frame + 1 /\ pc = "pop"
      /\ curr_frame < NumFrames /\ file' = file
  BY <1>1 DEF NextPopped, Return
<1>4. want = None <=> cursor = None
  BY <1>3 DEF InOrder, Waiting
<1>5. want # None => f >= want /\ want < NumFrames
  BY <1>1, <1>3, <1>4 DEF InOrder, Following, StreamAhead, Together
<1>6. want \in None .. NumFrames
  BY DEF CallOK
<1>7. ~(f < want) /\ (want # None => (f = NumFrames <=> want = NumFrames))
  BY <1>2, <1>5, <1>6, Numbers DEF Frames, None
<1>8. Replaced' /\ IterationIsComplete' /\ indices' = <<>> /\ Waiting' /\ pc' = "idle" /\ cursor' = cursor
  BY <1>1, <1>2, <1>3, <1>7, ReturnInOrder
<1>9. ASSUME cursor # None PROVE Counted' /\ StreamAhead' /\ NothingYet' /\ Together' /\ Rewinding'
  <2>1. Counted /\ StreamAhead /\ NothingYet /\ Together
    BY <1>9 DEF InOrder, Following
  <2>2. curr_frame = want /\ want \in Frames /\ f >= curr_frame
    BY <1>1, <1>2, <1>3, <1>4, <1>5, <1>6, <1>9, <2>1, Numbers DEF Together, StreamAhead, Frames, None
  <2>3. cursor = want + 1
    BY <1>3, <1>9, <2>2, BehindOne, Numbers DEF InOrder, Frames
  <2>4. StreamAhead'
    <3>1. Left' = {g \in Frames : g >= f + 1 /\ g \notin file.corrupt}
      BY <1>2, <1>3 DEF Left
    <3>2. \A g \in Left' : g >= curr_frame + 1
      BY <1>2, <2>2, <3>1, Numbers DEF Frames
    <3> QED BY <1>2, <1>3, <2>1, <3>2 DEF StreamAhead
  <2>5. NothingYet'
    <3>1. cached_frame' # None /\ ~Dead
      BY <1>1, <1>2, Numbers DEF Dead, Frames, None
    <3> QED BY <1>3, <3>1 DEF NothingYet, Dead
  <2>6. Counted' /\ Together' /\ Rewinding'
    BY <1>3, <1>8, <2>1, <2>2, <2>3 DEF Counted, Together, Rewinding
  <2> QED BY <2>4, <2>5, <2>6
<1> QED BY <1>8, <1>9 DEF InOrder, Following

LEMMA NextCachedInOrder ==
  ASSUME ReaderInv, ReaderInv', CallerInv, InOrder, NextCached
  PROVE  InOrder'
<1> USE DEF ReaderInv, TypeOK
<1>1. /\ Left = {} /\ UNCHANGED <<out, standins, overrun, cached_frame>> /\ cached_frame # None
      /\ failed_idx' = failed_idx \cup {curr_frame} /\ pc = "pop" /\ curr_frame < NumFrames
  BY PopSignalGives DEF NextCached, Starved, streamVars
<1>2. CASE Raise
  BY <1>1, <1>2, RaiseInOrder
<1>3. CASE ~TooManyFailed /\ Return(cached_frame) /\ curr_frame' = curr_frame + 1
  <2>1. cached_frame \in Frames /\ cached_frame \in 0 .. NumFrames
    BY <1>1, Numbers DEF ReaderOK, Frames
  <2>2. FaultTol >= 0 => Cardinality(failed_idx') <= FaultTol
    <3>1. IsFiniteSet(Frames)
      BY Numbers, FS_Interval DEF Frames
    <3>2. Cardinality(failed_idx') \in Nat
      <4>1. failed_idx' \subseteq Frames
        BY DEF ReaderOK
      <4> QED BY <3>1, <4>1, FS_Subset, FS_CardinalityType
    <3> QED BY <1>3, <3>2, Numbers DEF TooManyFailed
  <2>3. want = None <=> cursor = None
    BY <1>1 DEF InOrder, Waiting
  <2>4. want # None => want = curr_frame
    BY <1>1, <2>3 DEF InOrder, Following, Together
  <2>5. want \in None .. NumFrames
    BY DEF CallOK
  <2>6. cached_frame < want => want \in failed_idx'
    <3>1. cached_frame < want => want # None
      BY <2>1, <2>5, Numbers DEF None
    <3> QED BY <1>1, <2>4, <3>1
  <2>7. want # None => (cached_frame = NumFrames <=> want = NumFrames)
    BY <1>1, <2>1, <2>4, Numbers DEF Frames, ReaderOK
  <2>8. Replaced' /\ IterationIsComplete' /\ indices' = <<>> /\ Waiting' /\ pc' = "idle" /\ cursor' = cursor
    BY <1>1, <1>3, <2>1, <2>2, <2>6, <2>7, ReturnInOrder
  <2>9. ASSUME cursor # None PROVE Counted' /\ StreamAhead' /\ NothingYet' /\ Together' /\ Rewinding'
    <3>1. StreamAhead /\ NothingYet
      BY <2>9 DEF InOrder, Following
    <3>2. curr_frame \in Frames /\ want = curr_frame /\ cursor = want + 1
      <4>1. curr_frame \in Frames /\ want = curr_frame
        BY <1>1, <2>3, <2>4, <2>9, Numbers DEF ReaderOK, Frames
      <4> QED BY <1>1, <2>9, <4>1, BehindOne, Numbers DEF InOrder, Frames
    <3>3. file' = file
      BY <1>3 DEF Return
    <3>4. Left' = {}
      BY <1>1, <3>3 DEF Left
    <3>5. StreamAhead' /\ NothingYet'
      BY <1>1, <3>1, <3>3, <3>4 DEF StreamAhead, NothingYet, Dead
    <3>6. Counted' /\ Together' /\ Rewinding'
      BY <1>3, <2>2, <2>8, <3>2 DEF Counted, Together, Rewinding
    <3> QED BY <3>5, <3>6
  <2> QED BY <2>8, <2>9 DEF InOrder, Following
<1> QED BY <1>2, <1>3 DEF NextCached

LEMMA NextEmptyInOrder ==
  ASSUME ReaderInv, ReaderInv', CallerInv, InOrder, NextEmpty
  PROVE  InOrder'
<1> USE DEF ReaderInv, TypeOK
<1>1. /\ Return(Empty) /\ pc = "pop" /\ curr_frame = NumFrames
      /\ UNCHANGED <<out, standins, curr_frame, overrun, cached_frame, failed_idx>>
  BY DEF NextEmpty, InOrder, streamVars, readerVars
<1>2. want = None <=> cursor = None
  BY <1>1 DEF InOrder, Waiting
<1>3. want # None => want = NumFrames
  BY <1>1, <1>2 DEF InOrder, Following, Together
<1>4. want \in None .. NumFrames /\ Empty = NumFrames /\ NumFrames \in 0 .. NumFrames
  BY Numbers DEF CallOK, Empty
<1>5. ~(NumFrames < want)
  BY <1>4, Numbers DEF None
<1>6. Replaced' /\ IterationIsComplete' /\ indices' = <<>> /\ Waiting' /\ pc' = "idle" /\ cursor' = cursor
  BY <1>1, <1>3, <1>4, <1>5, ReturnInOrder
<1>7. ASSUME cursor # None PROVE Counted' /\ StreamAhead' /\ NothingYet' /\ Together' /\ Rewinding'
  <2>1. Counted /\ StreamAhead /\ NothingYet
    BY <1>7 DEF InOrder, Following
  <2>2. want = NumFrames /\ cursor = NumFrames
    BY <1>1, <1>2, <1>3, <1>7, BehindOne, Numbers DEF InOrder
  <2>3. file' = file
    BY <1>1 DEF Return
  <2>4. Left' = Left /\ Dead' = Dead
    BY <1>1, <2>3 DEF Left, Dead
  <2>5. StreamAhead' /\ NothingYet'
    BY <1>1, <2>1, <2>4 DEF StreamAhead, NothingYet
  <2>6. Counted' /\ Together' /\ Rewinding'
    BY <1>1, <1>6, <2>1, <2>2 DEF Counted, Together, Rewinding
  <2> QED BY <2>5, <2>6
<1> QED BY <1>6, <1>7 DEF InOrder, Following

\* The key frame of a seek is kept only for a caller who was lost.
LEMMA NextOverrunInOrder ==
  ASSUME ReaderInv, ReaderInv', InOrder, NextOverrun
  PROVE  InOrder'
<1> USE DEF ReaderInv, TypeOK
<1>1. pc = "next" /\ Return(tmp_key_frame) /\ failed_idx' = failed_idx
  BY DEF NextOverrun
<1>2. cursor = None /\ want = None
  BY <1>1 DEF NextOverrun, InOrder, Waiting, Following, StreamAhead
<1>3. tmp_key_frame \in 0 .. NumFrames /\ ~(tmp_key_frame < want)
  BY <1>2, Numbers DEF NextOverrun, KeyKept, ReaderOK, Frames, None
<1>4. Replaced' /\ IterationIsComplete' /\ indices' = <<>> /\ Waiting' /\ pc' = "idle" /\ cursor' = cursor
  BY <1>1, <1>2, <1>3, ReturnInOrder
<1> QED BY <1>2, <1>4 DEF InOrder, Following

\* Steps after which the caller has neither more nor less.
LEMMA SameCallerInOrder ==
  ASSUME InOrder, UNCHANGED <<cursor, indices, got, want, last, last_want, recovered, failed_idx>>, pc # "idle",
         cursor # None => Following'
  PROVE  InOrder'
BY DEF InOrder, Replaced, FaultTolIsALimit, IterationIsComplete, Waiting, Following

LEMMA NextRewindsInOrder ==
  ASSUME ReaderInv, AtStart, NothingLeft, InOrder, NextRewinds
  PROVE  InOrder'
<1> USE DEF ReaderInv, TypeOK
<1>1. /\ UNCHANGED <<file, curr_frame, cached_frame, failed_idx, out, standins>> /\ cached_frame = None
      /\ UNCHANGED <<cursor, indices, got, want, last, last_want, recovered>> /\ pc = "pop"
  BY PopSignalGives DEF NextRewinds, SignalSeen, SeekAccurate, streamVars, batchVars, resultVars
<1>2. ASSUME cursor # None PROVE Following'
  <2>1. Counted /\ StreamAhead /\ NothingYet /\ Together
    BY <1>2 DEF InOrder, Following
  <2>2. out = 0 /\ curr_frame = 0 /\ want = 0
    BY <1>1, <2>1 DEF NothingYet, Together
  <2>3. Dead
    <3>1. CASE signal
      BY <2>2, <3>1 DEF NothingLeft
    <3>2. CASE PopSignal
      BY <2>2, <3>2, Numbers DEF PopSignal, Left, Dead, Frames
    <3> QED BY <3>1, <3>2 DEF NextRewinds, SignalSeen
  <2>4. PICK p : p = curr_frame - rewind_offset
    OBVIOUS
  <2>9. SeekAccurate(p, "pop") /\ ~(curr_frame < p) /\ p <= 0 /\ p \in Int
    BY <2>2, <2>4, Numbers DEF NextRewinds, StepOK
  <2>5. \/ pc' = "pop" /\ overrun' = overrun
        \/ pc' = "seek_start" /\ then' = "pop" /\ pos' <= 0 /\ overrun' = FALSE
    <3>1. CASE pc' = "pop" /\ UNCHANGED <<overrun, num, discard>>
      BY <3>1
    <3>2. CASE overrun' = FALSE /\ pc' = "seek_start"
      <4>1. pos' = p /\ then' = "pop"
        BY <2>9 DEF SeekAccurate
      <4> QED BY <2>9, <3>2, <4>1
    <3> QED BY <2>9, <3>1, <3>2 DEF SeekAccurate
  <2>6. Left' = Left /\ Dead' = Dead
    BY <1>1 DEF Left, Dead
  <2>7. Counted' /\ StreamAhead' /\ NothingYet'
    BY <1>1, <2>1, <2>2, <2>5, <2>6 DEF Counted, StreamAhead, NothingYet
  <2>8. Together' /\ Rewinding'
    BY <1>1, <2>2, <2>3, <2>5, <2>6 DEF Together, Rewinding
  <2> QED BY <2>7, <2>8 DEF Following
<1> QED BY <1>1, <1>2, SameCallerInOrder

\* Rewinding, the reader leaves the start and comes back to it.
LEMMA SeekInOrder ==
  ASSUME Played, ReaderInv, InOrder, SeekStart \/ SeekKey \/ SeekBack
  PROVE  InOrder'
<1> USE DEF ReaderInv, TypeOK
<1>1. /\ UNCHANGED <<cursor, indices, got, want, last, last_want, recovered, file, then, pos>>
      /\ pc \in Seeking /\ overrun' = overrun
      /\ pc \in {"seek_start", "seek_key", "seek_back"}
  BY PlayedFails DEF SeekStart, SeekKey, SeekBack, SeekAccurateFails, Seek, readerVars, seekVars,
     batchVars, resultVars
<1>2. failed_idx' = failed_idx
  BY PlayedFails DEF SeekStart, SeekKey, SeekBack, SeekAccurateFails, Seek, readerVars
<1>3. ASSUME cursor # None PROVE Following'
  <2>1. Counted /\ StreamAhead /\ NothingYet /\ Rewinding
    BY <1>3 DEF InOrder, Following
  <2>2. then = "pop" /\ Dead /\ want = 0 /\ pos <= 0 /\ out = 0
    BY <1>1, <2>1 DEF Rewinding, NothingYet
  <2>3. LocateKeyframe(pos) = 0
    BY <2>2 DEF LocateKeyframe
  <2>4. /\ Seek(0)
        /\ \/ pc' \in {"seek_key", "check"} /\ pc \in {"seek_start", "seek_key"}
           \/ pc' = "skip" /\ Skip(pos - 0) /\ pc = "seek_back"
    BY <2>3, PlayedFails DEF SeekStart, SeekKey, SeekBack, SeekAccurateFails, Skip
  <2>5. curr_frame' = 0 /\ out' = 0 /\ standins' = {} /\ cached_frame' = None
    <3>1. CASE UNCHANGED <<streamVars, readerVars>> /\ curr_frame = 0
      BY <2>1, <2>2, <3>1 DEF streamVars, readerVars, StreamAhead, NothingYet
    <3>2. CASE curr_frame # 0 /\ out' \in Landing(0) /\ standins' = {} /\ curr_frame' = 0 /\ cached_frame' = None
      <4>1. 0 \in Frames
        BY Numbers DEF Frames
      <4>2. Landing(0) = {0}
        BY <3>2, <4>1, LandingIs DEF ReaderOK
      <4> QED BY <3>2, <4>2
    <3> QED BY <2>4, <3>1, <3>2 DEF Seek
  <2>6. pc' = "skip" => num' <= 0 /\ discard' = {}
    <3>1. ASSUME pc' = "skip" PROVE num' = pos /\ discard' = {f \in Frames : 0 <= f /\ f < pos}
      <4>1. Skip(pos - 0)
        BY <2>4, <3>1
      <4> QED BY <2>5, <4>1, Numbers DEF Skip, StepOK
    <3>2. \A f \in Frames : ~(0 <= f /\ f < pos)
      BY <2>2, Numbers DEF Frames, StepOK
    <3> QED BY <2>2, <3>1, <3>2
  <2>7. StreamAhead'
    <3>1. \A f \in Left' : f >= 0
      BY Numbers DEF Left, Frames
    <3> QED BY <1>1, <2>1, <2>5, <3>1 DEF StreamAhead
  <2>8. Counted' /\ NothingYet'
    BY <1>2, <2>1, <2>5 DEF Counted, NothingYet
  <2>9. pc' \in {"seek_key", "check", "skip"}
    BY <2>4
  <2>10. Together' /\ Rewinding'
    BY <1>1, <2>2, <2>6, <2>9 DEF Together, Rewinding, Dead
  <2> QED BY <2>7, <2>8, <2>10 DEF Following
<1> QED BY <1>1, <1>2, <1>3, SameCallerInOrder

LEMMA CheckInOrder ==
  ASSUME ReaderInv, InOrder, KeyFrameFound \/ OtherFrameFound \/ NoFrameFound
  PROVE  InOrder'
<1> USE DEF ReaderInv, TypeOK
<1>1. /\ UNCHANGED <<cursor, indices, got, want, last, last_want, recovered, file, then, pos, cached_frame,
                     failed_idx, standins>>
      /\ pc = "check"
  BY DEF KeyFrameFound, OtherFrameFound, NoFrameFound, PopFrame, PopSignal, seekVars, batchVars, resultVars
<1>2. ASSUME cursor # None PROVE Following'
  <2>1. Counted /\ StreamAhead /\ NothingYet /\ Rewinding
    BY <1>2 DEF InOrder, Following
  <2>2. then = "pop" /\ Dead /\ want = 0 /\ pos <= 0
    BY <1>1, <2>1 DEF Rewinding
  <2>3. Left = {}
    BY <2>2 DEF Dead, Left
  <2>4. NoFrameFound
    BY <2>3 DEF KeyFrameFound, OtherFrameFound, PopFrame
  <2>5. out' = out /\ overrun' = overrun /\ pc' = "seek_back"
    BY <2>4 DEF NoFrameFound, PopSignal
  <2>6. Left' = Left /\ Dead' = Dead
    BY <1>1, <2>5 DEF Left, Dead
  <2>7. Counted' /\ StreamAhead' /\ NothingYet'
    BY <1>1, <2>1, <2>3, <2>5, <2>6 DEF Counted, StreamAhead, NothingYet
  <2>8. Together' /\ Rewinding'
    BY <1>1, <2>2, <2>5, <2>6 DEF Together, Rewinding
  <2> QED BY <2>7, <2>8 DEF Following
<1> QED BY <1>1, <1>2, SameCallerInOrder

LEMMA SkipInOrder ==
  ASSUME ReaderInv, InOrder, SkipOne \/ SkipEnds
  PROVE  InOrder'
<1> USE DEF ReaderInv, TypeOK
<1>1. /\ UNCHANGED <<cursor, indices, got, want, last, last_want, recovered, file, then, cached_frame,
                     failed_idx, overrun>>
      /\ pc = "skip"
  BY DEF SkipOne, SkipEnds, seekVars, readerVars, batchVars, resultVars
<1>2. ASSUME cursor # None PROVE Following'
  <2>1. Counted /\ StreamAhead /\ NothingYet /\ Rewinding
    BY <1>2 DEF InOrder, Following
  <2>2. then = "pop" /\ Dead /\ want = 0 /\ num <= 0 /\ discard = {} /\ cached_frame = None
    BY <1>1, <2>1 DEF Rewinding, NothingYet
  <2>3. SkipEnds /\ out' = out /\ curr_frame' = curr_frame /\ pc' = "pop" /\ standins' = {}
    <3>1. SkipEnds
      BY <2>2, Numbers DEF SkipOne, StepOK
    <3> QED BY <2>1, <2>2, <3>1 DEF SkipEnds, readerVars, StreamAhead
  <2>4. Left' = Left /\ Dead' = Dead
    BY <1>1, <2>3 DEF Left, Dead
  <2>5. curr_frame = 0
    BY <1>1, <2>1, <2>2 DEF NothingYet
  <2>6. Counted' /\ StreamAhead' /\ NothingYet' /\ Together' /\ Rewinding'
    BY <1>1, <2>1, <2>2, <2>3, <2>4, <2>5
       DEF Counted, StreamAhead, NothingYet, Together, Rewinding
  <2> QED BY <2>6 DEF Following
<1> QED BY <1>1, <1>2, SameCallerInOrder

LEMMA QuietInOrder ==
  ASSUME InOrder, NextStart \/ NextSkipped
  PROVE  InOrder'
<1>1. /\ UNCHANGED <<cursor, indices, got, want, last, last_want, recovered, file, then, pos, cached_frame,
                     failed_idx, overrun, curr_frame>>
      /\ pc \in {"next", "pop"} /\ pc' = "pop"
  BY DEF NextStart, NextSkipped, seekVars, readerVars, batchVars, resultVars
<1>2. ASSUME cursor # None PROVE Following'
  <2>1. Counted /\ StreamAhead /\ NothingYet /\ Together
    BY <1>2 DEF InOrder, Following
  <2>2. UNCHANGED <<out, standins>>
    BY <2>1 DEF StreamAhead, NextStart, NextSkipped, streamVars
  <2>3. Left' = Left /\ Dead' = Dead
    BY <1>1, <2>2 DEF Left, Dead
  <2>4. Counted' /\ StreamAhead' /\ NothingYet' /\ Together' /\ Rewinding'
    BY <1>1, <2>1, <2>2, <2>3 DEF Counted, StreamAhead, NothingYet, Together, Rewinding
  <2> QED BY <2>4 DEF Following
<1> QED BY <1>1, <1>2, SameCallerInOrder

LEMMA CallNextInOrder == ASSUME ReaderInv, InOrder, CallNext PROVE InOrder'
<1> USE DEF ReaderInv, TypeOK
<1>1. /\ UNCHANGED <<indices, recovered, file, then, out, standins, cached_frame, failed_idx, overrun, curr_frame>>
      /\ pc = "idle" /\ pc' = "next" /\ want' = cursor /\ last_want' = None
      /\ cursor' = IF cursor = None THEN None ELSE Forward(cursor, 1)
  BY DEF CallNext, Call, seekVars, streamVars, readerVars, batchVars
<1>2. cursor' = None <=> cursor = None
  BY <1>1, Numbers DEF Forward, CallOK, None
<1>3. Replaced' /\ IterationIsComplete' /\ Waiting' /\ indices' = <<>>
  BY <1>1, <1>2 DEF InOrder, Replaced, FaultTolIsALimit, IterationIsComplete, Waiting
<1>4. ASSUME cursor # None PROVE Counted' /\ StreamAhead' /\ NothingYet' /\ Together' /\ Rewinding'
  <2>1. Counted /\ StreamAhead /\ NothingYet /\ Together
    BY <1>4 DEF InOrder, Following
  <2>2. Left' = Left /\ Dead' = Dead
    BY <1>1 DEF Left, Dead
  <2> QED BY <1>1, <2>1, <2>2 DEF Counted, StreamAhead, NothingYet, Together, Rewinding
<1> QED BY <1>2, <1>3, <1>4 DEF InOrder, Following

LEMMA StepInOrder ==
  ASSUME Played, ReaderInv, ReaderInv', CallerInv, AtStart, NothingLeft, ~Intact, InOrder, [Next]_vars
  PROVE  InOrder'
<1>1. CASE Continue
  <2>1. ~BatchCopy /\ ~BatchFrame /\ ~BatchDone
    BY DEF BatchCopy, BatchFrame, BatchDone, BatchLeft, InOrder, ReaderInv, BatchShape
  <2>2. CASE NextGivesUp
    BY <2>2, RaiseInOrder DEF NextGivesUp, readerVars
  <2> QED BY <1>1, <2>1, <2>2, SeekInOrder, CheckInOrder, SkipInOrder, QuietInOrder, NextOverrunInOrder,
             NextEmptyInOrder, NextPoppedInOrder, NextCachedInOrder, NextRewindsInOrder DEF Continue
<1>2. CASE CallSomething
  <2>1. CallNext
    BY <1>2, PlayedFile DEF CallSomething, CallGetItem, CallGetBatch, CallSeekAccurate, CallSeek,
       CallSkipFrames, Call
  <2> QED BY <2>1, CallNextInOrder
<1>3. CASE UNCHANGED vars
  BY <1>3 DEF vars, streamVars, readerVars, seekVars, loopVars, batchVars, resultVars, InOrder, Replaced,
     FaultTolIsALimit, IterationIsComplete, Waiting, Following, Counted, StreamAhead, NothingYet, Together,
     Rewinding, Left, Dead
<1> QED BY <1>1, <1>2, <1>3 DEF Next

----------------------------------------------------------------------------

PlayedInv == ReaderInv /\ CallerInv /\ EndInv /\ (Intact => Exact) /\ (~Intact => InOrder)

LEMMA InitPlayed == Init => PlayedInv
<1> SUFFICES ASSUME Init PROVE PlayedInv
  OBVIOUS
<1>1. ReaderInv /\ CallerInv /\ NotAhead /\ InOrder
  BY InitReader, InitNotAhead, InitInOrder
     DEF Init, CallerInv, AboutBatch, AboutNext, AboutSignal, Reading
<1>2. AtStart /\ NothingLeft /\ EndOnlyAtEnd
  BY Numbers DEF Init, AtStart, NothingLeft, EndOnlyAtEnd, Empty, None
<1>3. Exact
  BY Numbers DEF Init, Exact, NothingOdd, FramesAreThoseAsked, BatchAsAsked, ExactAtRest, ExactStart, ExactPop,
     ExactBatch, ExactSeek, ExactSkip, Sought, At, None
<1> QED BY <1>1, <1>2, <1>3 DEF PlayedInv, EndInv

LEMMA StepPlayed == ASSUME Played PROVE PlayedInv /\ [Next]_vars => PlayedInv'
<1> SUFFICES ASSUME PlayedInv, [Next]_vars PROVE PlayedInv'
  OBVIOUS
<1>1. ReaderInv' /\ CallerInv' /\ Intact' = Intact /\ ~file.fails /\ file' = file
  BY StepReader, StepCaller, SameFile, PlayedFile DEF PlayedInv, Intact
<1>2. AtStart /\ NothingLeft /\ NotAhead /\ EndOnlyAtEnd
  BY <1>1 DEF PlayedInv, EndInv
<1>3. AtStart' /\ NothingLeft' /\ NotAhead' /\ EndOnlyAtEnd'
  <2>1. AtStart' /\ NotAhead' /\ EndOnlyAtEnd'
    BY <1>1, <1>2, StepStart, StepNotAhead, StepEndOnlyAtEnd DEF PlayedInv
  <2>2. NothingLeft'
    BY <1>2, StepNothingLeft DEF PlayedInv, NotAhead, Popping
  <2> QED BY <2>1, <2>2
<1>4. EndInv'
  BY <1>3 DEF EndInv
<1>5. Intact => Exact'
  BY <1>1, StepExact DEF PlayedInv
<1>6. ~Intact => InOrder'
  BY <1>1, <1>2, StepInOrder DEF PlayedInv
<1> QED BY <1>1, <1>4, <1>5, <1>6 DEF PlayedInv

LEMMA PlayedInvHolds == ASSUME Played PROVE Spec => []PlayedInv
BY InitPlayed, StepPlayed, PTL DEF Spec

LEMMA PlayedGives ==
  ASSUME PlayedInv
  PROVE  IterationIsComplete /\ FaultTolIsALimit
<1>1. CASE Intact
  <2>1. recovered = {} /\ FramesAreThoseAsked
    BY <1>1 DEF PlayedInv, Exact, NothingOdd
  <2>2. Cardinality(recovered) = 0
    BY <2>1, FS_EmptySet
  <2> QED BY <2>1, <2>2, Numbers DEF IterationIsComplete, FaultTolIsALimit, FramesAreThoseAsked, Empty
<1>2. CASE ~Intact
  BY <1>2 DEF PlayedInv, InOrder, Replaced
<1> QED BY <1>1, <1>2

\* Iterating over a video gives a frame for each of its frames, however many cannot be decoded, and
\* only then the empty array; intact ones also after any other reads and moves.
THEOREM IterationTheorem == ASSUME Played PROVE Spec => []IterationIsComplete
BY PlayedInvHolds, PlayedGives, PTL

\* fault_tol is the limit it is documented to be: the frames another one was returned for are among
\* those the reader has counted, and it raises before it returns one more.
THEOREM FaultTolTheorem == ASSUME Played PROVE Spec => []FaultTolIsALimit
BY PlayedInvHolds, PlayedGives, PTL

----------------------------------------------------------------------------
(* The reader implements VideoCursor: every step of the reader is one of the cursor, or none. *)

LEMMA CursorAfter ==
  ASSUME NEW n \in Nat, n > 0, NEW batch \in [1 .. n -> Frames]
  PROVE  Cursor!After(batch) = After(batch)
<1> DEFINE T == {i \in DOMAIN batch : \A j \in 1 .. i - 1 : batch[j] # batch[i]}
<1>1. Cursor!Decoded(batch) = T
  <2>1. ASSUME NEW i \in 1 .. n
        PROVE  (\A j \in 1 .. i - 1 : batch[j] # batch[i]) <=> (\A j \in 1 .. n : batch[j] = batch[i] => i <= j)
    <3>1. \A j \in 1 .. i - 1 : j \in 1 .. n /\ ~(i <= j)
      OBVIOUS
    <3>2. \A j \in 1 .. n : ~(i <= j) => j \in 1 .. i - 1
      OBVIOUS
    <3> QED BY <3>1, <3>2, Zenon
  <2>2. DOMAIN batch = 1 .. n
    OBVIOUS
  <2> QED BY <2>1, <2>2 DEF Cursor!Decoded
<1>2. T \in SUBSET (0 .. n) /\ 1 \in T
  OBVIOUS
<1>3. After(batch) = 1 + batch[Greatest(T)]
  BY DEF After
<1>4. Cursor!After(batch) = batch[Greatest(T)] + 1
  BY <1>1 DEF Cursor!After, Greatest
<1> HIDE DEF T
<1>5. Greatest(T) \in T
  BY <1>2, GreatestIs
<1>6. batch[Greatest(T)] \in Int
  BY <1>5, Numbers DEF T, Frames
<1> QED BY <1>3, <1>4, <1>6

\* What is left of a batch, and the first of it.
LEMMA AskedOfBatch ==
  ASSUME ReaderInv, Intact, indices # <<>>, Len(got) < Len(indices)
  PROVE  Asked # <<>> /\ Head(Asked) = Index /\ Tail(Asked) = SubSeq(indices, Len(got) + 2, Len(indices))
<1> USE DEF ReaderInv, TypeOK, CallOK
<1>1. Len(got) + 1 \in 1 .. Len(indices) /\ Len(indices) \in Len(got) + 1 .. Len(indices)
  OBVIOUS
<1>2. Asked = SubSeq(indices, Len(got) + 1, Len(indices))
  BY DEF Asked
<1>3. Head(Asked) = indices[Len(got) + 1] /\ Tail(Asked) = SubSeq(indices, (Len(got) + 1) + 1, Len(indices))
  BY <1>1, <1>2, HeadTailOfSubSeq
<1>4. Len(Asked) = Len(indices) - (Len(got) + 1) + 1
  <2>1. \A i \in Len(got) + 1 .. Len(indices) : indices[i] \in Frames
    OBVIOUS
  <2> QED BY <1>1, <1>2, <2>1, SubSeqProperties
<1>5. Asked # <<>>
  BY <1>4, EmptySeq
<1>6. (Len(got) + 1) + 1 = Len(got) + 2
  OBVIOUS
<1> QED BY <1>3, <1>5, <1>6 DEF Index

\* Every frame returned is the one the cursor is at or the next of the batch.
LEMMA ReturnIsDeliver ==
  ASSUME ReaderInv, CallerInv, Intact, Exact, Return(want), pc \in {"next", "pop"}, want # None
  PROVE  Cursor!Deliver
<1> USE DEF ReaderInv, TypeOK, CallOK
<1>1. /\ last' = want /\ cursor' = cursor /\ file' = file /\ Intact' = Intact
      /\ indices' = indices
  BY DEF Return, Intact
<1>2. CASE indices = <<>>
  <2>1. Asked = <<want>> /\ Asked' = <<>> /\ pc' = "idle"
    BY <1>1, <1>2 DEF Asked, Return
  <2> QED BY <1>1, <2>1 DEF Cursor!Deliver
<1>3. CASE indices # <<>>
  <2>1. Len(got) < Len(indices) /\ want = Index
    BY <1>3 DEF BatchShape, CallerInv, AboutBatch
  <2>2. pc' = "batch" /\ Len(got') = Len(got) + 1
    BY <1>3 DEF Return
  <2>3. Asked' = SubSeq(indices, Len(got) + 2, Len(indices))
    <3>1. (Len(got) + 1) + 1 = Len(got) + 2
      OBVIOUS
    <3> QED BY <1>1, <1>3, <2>2, <3>1 DEF Asked
  <2>4. Asked # <<>> /\ Head(Asked) = want /\ Asked' = Tail(Asked)
    BY <1>3, <2>1, <2>3, AskedOfBatch
  <2> QED BY <1>1, <2>2, <2>4 DEF Cursor!Deliver
<1> QED BY <1>2, <1>3

LEMMA CopyIsDeliver ==
  ASSUME ReaderInv, Intact, Exact, BatchCopy
  PROVE  Cursor!Deliver
<1> USE DEF ReaderInv, TypeOK, CallOK
<1>1. /\ last' = Index /\ cursor' = cursor /\ file' = file /\ Intact' = Intact /\ pc = "batch" /\ pc' = "batch"
      /\ indices' = indices /\ indices # <<>> /\ Len(got) < Len(indices) /\ Len(got') = Len(got) + 1
  BY CopyIsAsked DEF BatchCopy, BatchLeft, Intact, BatchShape
<1>2. Asked' = SubSeq(indices, Len(got) + 2, Len(indices))
  <2>1. (Len(got) + 1) + 1 = Len(got) + 2
    OBVIOUS
  <2> QED BY <1>1, <2>1 DEF Asked
<1>3. Asked # <<>> /\ Head(Asked) = Index /\ Asked' = Tail(Asked)
  BY <1>1, <1>2, AskedOfBatch
<1> QED BY <1>1, <1>3 DEF Cursor!Deliver

\* A step in the middle of a call.
LEMMA InsideCall ==
  ASSUME SameCaller, file' = file, pc # "idle", pc' # "idle"
  PROVE  UNCHANGED Cursor!vars
<1>1. Intact' = Intact
  BY DEF Intact
<1>2. Asked' = Asked
  BY <1>1 DEF SameCaller, Asked
<1> QED BY <1>1, <1>2 DEF SameCaller, Cursor!vars

LEMMA SkipEndsIsFinish ==
  ASSUME ReaderInv, Intact, Exact, SkipEnds
  PROVE  Cursor!Finish \/ UNCHANGED Cursor!vars
<1>1. SameCaller /\ pc = "skip" /\ UNCHANGED <<file, then>> /\ pc' = then
  BY DEF SkipEnds, readerVars, batchVars, resultVars, SameCaller
<1>2. CASE then = "idle"
  <2>1. indices = <<>> /\ want = None /\ Intact' = Intact
    BY <1>1, <1>2 DEF ReaderInv, BatchShape, Exact, ExactSkip, Intact
  <2>2. Asked = <<>> /\ Asked' = <<>>
    BY <1>1, <1>2, <2>1 DEF Asked, SameCaller
  <2> QED BY <1>1, <1>2, <2>1, <2>2 DEF Cursor!Finish, SameCaller
<1>3. CASE then # "idle"
  BY <1>1, <1>3, InsideCall
<1> QED BY <1>2, <1>3

LEMMA BatchDoneIsFinish ==
  ASSUME ReaderInv, Intact, BatchDone
  PROVE  Cursor!Finish
<1>1. /\ UNCHANGED <<file, cursor, last>> /\ pc = "batch" /\ pc' = "idle" /\ Len(got) = Len(indices)
      /\ indices' = <<>> /\ indices # <<>>
  BY DEF BatchDone, resultVars, ReaderInv, BatchShape
<1>2. Asked = SubSeq(indices, Len(got) + 1, Len(indices))
  BY <1>1 DEF Asked
<1>3. Asked = <<>>
  <2>1. Len(got) + 1 \in Int /\ Len(indices) \in Int /\ Len(indices) < Len(got) + 1
    BY <1>1 DEF ReaderInv, TypeOK, CallOK
  <2> QED BY <1>2, <2>1, SubSeqEmpty
<1>4. Asked' = <<>> /\ Intact' = Intact
  BY <1>1 DEF Asked, Intact
<1> QED BY <1>1, <1>3, <1>4 DEF Cursor!Finish

LEMMA SameFrames == Cursor!Frames = Frames /\ Cursor!None = None /\ \A i, n : Cursor!Forward(i, n) = Forward(i, n)
BY DEF Cursor!Frames, Cursor!None, Cursor!Forward, Frames, None, Forward

\* A call is the action of the cursor that it is documented to be.
LEMMA CallIsOfCursor ==
  ASSUME Played, MaxBatch > 0, ReaderInv, ReaderInv', Intact, Exact, Exact', CallSomething
  PROVE  Cursor!Next
<1> USE DEF ReaderInv, TypeOK
<1>0. /\ pc = "idle" /\ indices = <<>> /\ Asked = <<>> /\ last' = None /\ file' = file /\ Intact' = Intact
  <2>1. pc = "idle" /\ last' = None /\ file' = file
    BY DEF CallSomething, CallNext, CallGetItem, CallGetBatch, CallSeekAccurate, CallSeek, CallSkipFrames,
       Call, SeekAccurate
  <2> QED BY <2>1 DEF BatchShape, Asked, Intact
<1>1. CASE CallNext
  <2>1. want' = cursor /\ cursor' = Forward(cursor, 1) /\ indices' = <<>> /\ pc' = "next" /\ want' # None
    BY <1>0, <1>1, CallExact DEF CallNext, Call, batchVars
  <2>2. Asked' = <<cursor>>
    BY <1>0, <2>1 DEF Asked
  <2>3. Cursor!Read
    BY <1>0, <2>1, <2>2, SameFrames DEF Cursor!Read
  <2> QED BY <2>3 DEF Cursor!Next
<1>2. CASE CallGetItem
  <2>1. PICK i \in Frames : want' = i /\ cursor' = i + 1 /\ indices' = <<>> /\ pc' # "idle"
    BY <1>0, <1>2 DEF CallGetItem, Call, batchVars, SeekAccurate
  <2>2. Asked' = <<i>> /\ <<i>> \in [1 .. 1 -> Frames]
    BY <1>0, <2>1, Numbers DEF Asked, Frames, None
  <2>3. Cursor!After(<<i>>) = i + 1
    <3>1. Cursor!Decoded(<<i>>) = {1}
      BY DEF Cursor!Decoded
    <3> QED BY <3>1 DEF Cursor!After
  <2>4. 1 \in 1 .. MaxBatch
    BY Numbers
  <2>5. Cursor!Get
    BY <1>0, <2>1, <2>2, <2>3, <2>4, SameFrames DEF Cursor!Get
  <2> QED BY <2>5 DEF Cursor!Next
<1>3. CASE CallGetBatch
  <2>1. PICK n \in 1 .. MaxBatch : \E b \in [1 .. n -> Frames] : indices' = b
    BY <1>3 DEF CallGetBatch
  <2> PICK b \in [1 .. n -> Frames] : indices' = b
    BY <2>1
  <2>2. n \in Nat /\ n > 0 /\ b \in Seq(Frames) /\ Len(b) = n
    BY <2>1, Numbers
  <2>3. /\ pc' = "batch" /\ got' = <<>> /\ cursor' = After(b) /\ b # <<>>
    BY <1>0, <1>3, <2>1, <2>2, CallExact DEF CallGetBatch
  <2>4. Asked' = b
    <3>1. Asked' = SubSeq(b, Len(got') + 1, Len(b))
      BY <1>0, <2>1, <2>3 DEF Asked
    <3>2. Len(got') + 1 = 1
      BY <2>3
    <3> QED BY <2>2, <3>1, <3>2, SubSeqFull
  <2>5. cursor' = Cursor!After(b)
    BY <2>1, <2>2, <2>3, CursorAfter
  <2>6. Cursor!Get
    BY <1>0, <2>1, <2>3, <2>4, <2>5, SameFrames DEF Cursor!Get
  <2> QED BY <2>6 DEF Cursor!Next
<1>4. CASE CallSeek
  <2>1. cursor' \in 0 .. NumFrames
    BY <1>4, CallSeekExact, Numbers DEF Frames
  <2>2. pc' = "idle" /\ indices' = <<>>
    BY <1>0, <1>4 DEF CallSeek, batchVars
  <2>3. Asked' = <<>>
    BY <1>0, <2>2 DEF Asked
  <2>4. Cursor!Move
    BY <1>0, <2>1, <2>2, <2>3, SameFrames DEF Cursor!Move
  <2> QED BY <2>4 DEF Cursor!Next
<1>5. CASE CallSkipFrames
  <2>1. want' = None /\ pc' = "skip" /\ indices' = <<>>
    BY <1>0, <1>5 DEF CallSkipFrames, Call, Skip, batchVars
  <2>2. cursor' \in 0 .. NumFrames
    BY Numbers DEF Exact, NothingOdd, CallOK, None
  <2>3. Asked' = <<>>
    BY <1>0, <2>1 DEF Asked
  <2>4. Cursor!Move
    BY <1>0, <2>1, <2>2, <2>3, SameFrames DEF Cursor!Move
  <2> QED BY <2>4 DEF Cursor!Next
<1>6. ~CallSeekAccurate
  BY PlayedFile DEF CallSeekAccurate, Call
<1> QED BY <1>1, <1>2, <1>3, <1>4, <1>5, <1>6 DEF CallSomething

LEMMA StepCursor ==
  ASSUME Played, MaxBatch > 0, PlayedInv, PlayedInv', [Next]_vars
  PROVE  Cursor!Next \/ UNCHANGED Cursor!vars
<1>1. file' = file /\ Intact' = Intact
  BY SameFile DEF Intact
<1>2. CASE ~Intact
  <2>1. Asked = <<>> /\ Asked' = <<>>
    BY <1>1, <1>2 DEF Asked
  <2> QED BY <1>1, <1>2, <2>1 DEF Cursor!vars
<1>3. CASE Intact
  <2>1. ReaderInv /\ CallerInv /\ Exact /\ ReaderInv' /\ Exact'
    BY <1>1, <1>3 DEF PlayedInv
  <2>2. CASE SeekStart \/ SeekKey \/ KeyFrameFound \/ OtherFrameFound \/ NoFrameFound \/ SeekBack \/ SkipOne
             \/ NextStart
    <3>1. ASSUME SeekStart \/ SeekKey PROVE SameCaller /\ pc # "idle" /\ pc' # "idle"
      BY <2>1, <3>1, PlayedFails DEF SeekStart, SeekKey, SeekAccurateFails, SameCaller, loopVars, batchVars, resultVars
    <3>2. ASSUME KeyFrameFound \/ OtherFrameFound \/ NoFrameFound
          PROVE  SameCaller /\ pc # "idle" /\ pc' # "idle"
      <4>1. pc = "check"
        BY <3>2 DEF KeyFrameFound, OtherFrameFound, NoFrameFound
      <4>2. then = "next"
        BY <2>1, <4>1 DEF Exact, ExactSeek, Sought
      <4> QED BY <3>2, <4>1, <4>2 DEF KeyFrameFound, OtherFrameFound, NoFrameFound, Skip, SameCaller, loopVars,
                 batchVars, resultVars
    <3>3. ASSUME SeekBack \/ SkipOne \/ NextStart PROVE SameCaller /\ pc # "idle" /\ pc' # "idle"
      BY <3>3 DEF SeekBack, SkipOne, NextStart, Skip, SameCaller, loopVars, batchVars, resultVars
    <3> QED BY <1>1, <2>2, <3>1, <3>2, <3>3, InsideCall
  <2>3. CASE SkipEnds
    BY <1>3, <2>1, <2>3, SkipEndsIsFinish DEF Cursor!Next
  <2>4. CASE NextOverrun \/ NextEmpty \/ NextPopped
    <3>1. Return(want) /\ want \in 0 .. NumFrames /\ pc \in {"next", "pop"}
      <4>1. CASE NextOverrun
        <5>1. Return(want) /\ want \in Frames
          BY <2>1, <4>1, NextOverrunExact
        <5>2. pc = "next"
          BY <4>1 DEF NextOverrun
        <5> QED BY <5>1, <5>2, Numbers DEF Frames
      <4>2. CASE NextEmpty
        <5>1. Return(want) /\ want = NumFrames
          BY <2>1, <4>2, NextEmptyExact
        <5>2. pc = "pop"
          BY <4>2 DEF NextEmpty
        <5> QED BY <5>1, <5>2, Numbers
      <4>3. CASE NextPopped
        <5>1. Return(want) /\ want \in Frames
          BY <1>3, <2>1, <4>3, NextPoppedExact
        <5>2. pc = "pop"
          BY <4>3 DEF NextPopped
        <5> QED BY <5>1, <5>2, Numbers DEF Frames
      <4> QED BY <2>4, <4>1, <4>2, <4>3
    <3>2. want # None
      BY <3>1, Numbers DEF None
    <3>3. Cursor!Deliver
      BY <1>3, <2>1, <3>1, <3>2, ReturnIsDeliver
    <3> QED BY <3>3 DEF Cursor!Next
  <2>5. CASE BatchCopy
    BY <1>3, <2>1, <2>5, CopyIsDeliver DEF Cursor!Next
  <2>6. CASE BatchFrame
    <3>1. UNCHANGED <<cursor, indices, got, last>> /\ pc = "batch" /\ pc' # "idle" /\ indices # <<>>
      BY <2>1, <2>6 DEF BatchFrame, BatchLeft, SeekAccurate, batchVars, ReaderInv, BatchShape
    <3>2. Asked' = Asked
      BY <1>1, <3>1 DEF Asked
    <3> QED BY <1>1, <3>1, <3>2 DEF Cursor!vars
  <2>7. CASE BatchDone
    BY <1>3, <2>1, <2>7, BatchDoneIsFinish DEF Cursor!Next
  <2>8. CASE CallSomething
    BY <1>3, <2>1, <2>8, CallIsOfCursor
  <2>9. CASE UNCHANGED vars
    <3>1. UNCHANGED <<pc, cursor, indices, got, want, last>>
      BY <2>9 DEF vars, batchVars, resultVars
    <3>2. Asked' = Asked
      BY <1>1, <3>1 DEF Asked
    <3> QED BY <1>1, <3>1, <3>2 DEF Cursor!vars
  <2>10. ~NextSkipped /\ ~NextCached /\ ~NextRewinds /\ ~NextGivesUp
    BY <1>3, <2>1, NoTrouble
  <2> QED BY <2>2, <2>3, <2>4, <2>5, <2>6, <2>7, <2>8, <2>9, <2>10 DEF Next, Continue
<1> QED BY <1>2, <1>3

\* Random access to an intact video is exact: whatever is read, sought or skipped before, every frame
\* returned is the one at the cursor or the next of the batch, as VideoCursor says.
THEOREM CursorTheorem == ASSUME Played, MaxBatch > 0 PROVE Spec => Cursor!Spec
<1>1. Init => Cursor!Init
  BY SameFrames DEF Init, Cursor!Init, Asked, None
<1>2. PlayedInv /\ PlayedInv' /\ [Next]_vars => [Cursor!Next]_(Cursor!vars)
  BY StepCursor
<1> QED BY <1>1, <1>2, PlayedInvHolds, PTL DEF Spec, Cursor!Spec

==============================================================================
