----------------------------- MODULE VideoLoader -----------------------------
(***************************************************************************)
(* VideoLoader (src/src/video/video_loader.cc, python/peli/video_loader.py) *)
(* and its samplers (src/src/sampler): batches of frames of several videos, *)
(* each video 1 .. Len(lens) cut into batches of bs frames, interval frames *)
(* apart within a batch and skip frames apart between two.                  *)
(*                                                                         *)
(* A batch is its video and its frames; decoding them is VideoReader's      *)
(* get_batch, which may raise.  __next__ is the only caller of Next,        *)
(* NextData and NextIndices and makes these calls in a row, so next_ready_  *)
(* is 0 between two calls of the user and is left out.                      *)
(***************************************************************************)
EXTENDS Integers, SequencesExt

CONSTANT Loaders   \* what the user opens; see LoadersAssumption

\* lens: frame counts; the samplers refuse a video of one frame.  shuffle: 0 none,
\* 1 random file order, 2 random.  damaged: get_batch may raise.
ASSUME LoadersAssumption ==
  Loaders \subseteq [lens : Seq(Nat \ {0, 1}) \ {<<>>}, bs : Nat \ {0}, interval : Int, skip : Int,
                     shuffle : 0 .. 2, damaged : BOOLEAN]

VARIABLES
  loader,
  visit_order,   \* of batches, or of videos for random file order
  visit_idx,     \* curr_ of the other two samplers
  current,       \* random file order: current of each video's record
  len, curr,     \* _len and _curr of the Python object
  given,         \* history: what __next__ gave in this epoch
  lost           \* history: batches whose get_batch raised in this epoch

vars == <<loader, visit_order, visit_idx, current, len, curr, given, lost>>

FileOrder == loader.shuffle = 1
Videos(l) == DOMAIN l.lens
AtLeastZero(n) == IF n < 0 THEN 0 ELSE n

\* The range of a video is 0 .. frame_count - 1, the samplers' end.
End(l, i) == l.lens[i] - 1
bs_length(l) == l.bs * (1 + l.interval) - l.interval
bs_skip(l) == bs_length(l) + l.skip
Samples(l, i, b) == [video |-> i, frames |-> [j \in 1 .. l.bs |-> b + (j - 1) * (l.interval + 1)]]

----------------------------------------------------------------------------
(* The samplers *)

\* for (b = begin; b + bs_length < end; b += bs_skip)
VideoBatches(l, i) ==
  LET n == Cardinality({b \in 0 .. End(l, i) : b % bs_skip(l) = 0 /\ b + bs_length(l) < End(l, i)})
  IN [k \in 1 .. n |-> Samples(l, i, (k - 1) * bs_skip(l))]

\* num_batches = (end + skip - begin) / bs_skip
NumBatches(l, i) == (End(l, i) + l.skip) \div bs_skip(l)

VisitOrder(l) ==
  FlattenSeq([i \in Videos(l) |->
    IF l.shuffle = 1 THEN [k \in 1 .. NumBatches(l, i) |-> i] ELSE VideoBatches(l, i)])

\* std::random_shuffle
Shuffles(s) == {[k \in DOMAIN s |-> s[p[k]]] : p \in Bijection(DOMAIN s, DOMAIN s)}

\* Slip: the records keep their place.
ResetOldPlace ==
  /\ visit_order' \in IF loader.shuffle = 0 THEN {visit_order} ELSE Shuffles(visit_order)
  /\ visit_idx' = 0 /\ UNCHANGED current

\* Reset of the sampler.
ResetSampler ==
  /\ visit_order' \in IF loader.shuffle = 0 THEN {visit_order} ELSE Shuffles(visit_order)
  /\ visit_idx' = 0 /\ current' = [i \in Videos(loader) |-> 0]

HasNext == visit_idx < Len(visit_order)

\* What Next gives, and the place behind it.
NextSamples ==
  LET v == visit_order[visit_idx + 1]
  IN IF FileOrder THEN Samples(loader, v, current[v]) ELSE v

\* The state Next leaves: record.current = pos - record.interval + record.skip.
Advance ==
  /\ visit_idx' = visit_idx + 1
  /\ IF FileOrder
     THEN LET v == visit_order[visit_idx + 1]
              pos == current[v] + loader.bs * (loader.interval + 1)
          IN current' = [current EXCEPT ![v] = pos - loader.interval + loader.skip]
     ELSE UNCHANGED current
  /\ UNCHANGED visit_order

----------------------------------------------------------------------------
(* The loader *)

\* The constructor clamps interval and skip, and resets.
Init ==
  /\ \E l \in Loaders :
       loader = [l EXCEPT !.interval = AtLeastZero(@), !.skip = AtLeastZero(@)]
  /\ visit_order \in IF loader.shuffle = 0 THEN {VisitOrder(loader)} ELSE Shuffles(VisitOrder(loader))
  /\ visit_idx = 0 /\ current = [i \in Videos(loader) |-> 0]
  /\ len = Len(visit_order) /\ curr = 0 /\ given = <<>> /\ lost = {}

reset ==
  /\ ResetSampler
  /\ curr' = 0 /\ given' = <<>> /\ lost' = {}
  /\ UNCHANGED <<loader, len>>

\* __next__, which raises StopIteration when _curr is _len.
NextBatch ==
  /\ curr < len /\ HasNext
  /\ Advance
  /\ given' = Append(given, NextSamples) /\ curr' = curr + 1
  /\ UNCHANGED <<loader, len, lost>>

\* get_batch raises: the sampler has moved on, _curr has not.
NextRaises ==
  /\ curr < len /\ HasNext /\ loader.damaged
  /\ Advance
  /\ lost' = lost \cup {NextSamples}
  /\ UNCHANGED <<loader, len, curr, given>>

NoFrames == [video |-> 0, frames |-> <<>>]

\* Nothing is left although _curr < _len: an empty batch.
NextEmpty ==
  /\ curr < len /\ ~HasNext
  /\ given' = Append(given, NoFrames) /\ curr' = curr + 1
  /\ UNCHANGED <<loader, visit_order, visit_idx, current, len, lost>>

Next == reset \/ NextBatch \/ NextRaises \/ NextEmpty

Spec == Init /\ [][Next]_vars

----------------------------------------------------------------------------
(* Properties *)

Batches == {b \in ToSet(given) : b # NoFrames}

\* The batches of video i: frames interval apart within, skip frames between two, and
\* none left out that ends before the end of the range (at the end for file order).
Grid(i) ==
  LET last == End(loader, i) - bs_length(loader)
      Fits(b) == b % bs_skip(loader) = 0 /\ IF FileOrder THEN b <= last ELSE b < last
  IN {Samples(loader, i, b) : b \in {b \in 0 .. End(loader, i) : Fits(b)}}

\* A batch is one of these, whole within its range, and is given once.
GivenOnce ==
  LET grid == UNION {Grid(i) : i \in Videos(loader)}
  IN /\ Batches \cup lost \subseteq grid
     /\ \A m, n \in DOMAIN given : given[m] = given[n] /\ given[m] # NoFrames => m = n
     /\ visit_idx = len => Batches \cup lost = grid

\* No more empty batches than get_batch raised, and as many at the end.
EmptyForRaised ==
  LET empty == {n \in DOMAIN given : given[n] = NoFrames}
  IN /\ Cardinality(empty) <= Cardinality(lost)
     /\ curr = len => Cardinality(empty) = Cardinality(lost)

\* An epoch gives every batch of every video once, whole within its range (the CHECK of the file-order
\* sampler), but the ones that raised, also after an epoch left half way. A caller that goes on after
\* an error gets as many empty batches at the end of the epoch as get_batch raised in it, and never
\* another.
EpochIsComplete == GivenOnce /\ EmptyForRaised
=============================================================================
