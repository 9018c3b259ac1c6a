----------------------------- MODULE ClipDataset -----------------------------
(* Clips of videos for training: VideoClsCustom samples the frames of a video
   (src/python/peli/data/base_action.py), a transform crops them
   (src/python/peli/data/transforms/action.py), and the flat list of images is
   cut into clips by a reshape. ShardedDataLoader splits a batch among devices
   (src/python/peli/data/dataloader.py).

   An image is the frame it shows, the region of it, whether it is flipped, and
   its size. Scale ratios are counted in eighths. *)
EXTENDS Integers, SequencesExt, Functions

CONSTANTS Datasets,  \* [mode, segments, length, step, jitter, slowfast, slow, fast, transform, crops]
          Durations, \* lengths of videos
          Frames,    \* sizes of the frames they are read with: [h, w]
          Target,    \* the size the crops shall have
          Ratios,    \* scale_ratios
          BatchSizes, MaxContexts

ASSUME ClipsAssumption ==
  /\ \A d \in Datasets :
       /\ d.mode \in {"train", "val", "test"} /\ d.jitter \in BOOLEAN /\ d.slowfast \in BOOLEAN
       /\ {d.segments, d.length, d.step, d.slow, d.fast, d.crops} \subseteq Nat \ {0}
  /\ Durations \subseteq Nat \ {0} /\ Frames \subseteq [h : Nat, w : Nat]
  /\ Target \in [h : Nat \ {0}, w : Nat \ {0}] /\ Ratios \in Seq(Nat)
  /\ BatchSizes \subseteq Nat \ {0} /\ MaxContexts \in Nat

VARIABLES dataset, duration, frame, \* what is read
          doing,                    \* sample, read, transform, clips; or batched
          offsets, skip_offsets,    \* the first frame of each segment, from 1; the jitter
          frame_id_list, clip_input,
          batch, shards             \* a batch, and its parts by device

clipVars == <<dataset, duration, frame, doing, offsets, skip_offsets, frame_id_list, clip_input, batch, shards>>

ClipInit ==
  /\ dataset \in Datasets /\ duration \in Durations /\ frame \in Frames
  /\ doing = "sample" /\ offsets = <<>> /\ skip_offsets = <<>>
  /\ frame_id_list = <<>> /\ clip_input = <<>> /\ batch = <<>> /\ shards = <<>>

(***************************************************************************)
(* The frames of a sample.                                                 *)
(***************************************************************************)
Segments == 1 .. dataset.segments
skip_length == dataset.length * dataset.step
Greatest(a, b) == IF a > b THEN a ELSE b
Ones == [s \in Segments |-> 1]

TrainOffsets ==
  LET average == (duration - skip_length + 1) \div dataset.segments
  IN  IF average > 0 THEN {[s \in Segments |-> (s - 1) * average + r[s] + 1] : r \in [Segments -> 0 .. average - 1]}
      ELSE IF duration > Greatest(dataset.segments, skip_length)
      THEN {o \in [Segments -> 1 .. duration - skip_length + 1] : \A s, t \in Segments : s < t => o[s] <= o[t]}
      ELSE {Ones}

\* tick / 2 + tick * x, with tick the length of a segment, rounded down.
Ticks == [s \in Segments |-> ((duration - skip_length + 1) * (2 * s - 1)) \div (2 * dataset.segments) + 1]
ValOffsets == {IF duration > dataset.segments + skip_length - 1 THEN Ticks ELSE Ones}
TestOffsets == {IF duration > skip_length - 1 THEN Ticks ELSE Ones}

SampleIndices ==
  /\ doing = "sample" /\ doing' = "read"
  /\ offsets' \in CASE dataset.mode = "train" -> TrainOffsets
                    [] dataset.mode = "val" -> ValOffsets
                    [] dataset.mode = "test" -> TestOffsets
  /\ skip_offsets' \in [1 .. dataset.length -> 0 .. IF dataset.jitter THEN dataset.step - 1 ELSE 0]
  /\ UNCHANGED <<dataset, duration, frame, frame_id_list, clip_input, batch, shards>>

\* The frames of a segment, one step after another as far as the video goes.
FrameIds(s) ==
  LET at[i \in 1 .. dataset.length] ==
        IF i = 1 THEN offsets[s]
        ELSE IF at[i - 1] + dataset.step < duration THEN at[i - 1] + dataset.step ELSE at[i - 1]
  IN  [i \in 1 .. dataset.length |->
        IF at[i] + skip_offsets[i] <= duration THEN at[i] + skip_offsets[i] - 1 ELSE at[i] - 1]

\* SlowFast takes some of them, and then some of those again.
Every(ids, stride) == [k \in 1 .. Len(ids) \div stride |-> ids[k * stride]]
SegmentFrames(s) ==
  IF dataset.slowfast THEN Every(FrameIds(s), dataset.fast) \o Every(FrameIds(s), dataset.slow)
  ELSE FrameIds(s)

ReadFrames ==
  /\ doing = "read" /\ doing' = "transform"
  /\ frame_id_list' = FlattenSeq([s \in Segments |-> SegmentFrames(s)])
  /\ UNCHANGED <<dataset, duration, frame, offsets, skip_offsets, clip_input, batch, shards>>

(***************************************************************************)
(* Transforms.                                                             *)
(***************************************************************************)
Region(y, x, h, w) == [y |-> y, x |-> x, h |-> h, w |-> w, flip |-> FALSE]
Crop(y, x) == Region(y, x, Target.h, Target.w)
Flip(r) == [r EXCEPT !.flip = TRUE]
Sized(r) == [h |-> r.h, w |-> r.w]
\* What VideoToTensor and VideoNormalize do to the values does not show here.
Image(id, region, size) == [id |-> id, region |-> region, size |-> size]

\* One region for all images, another for none.
SameForAll(region, size) == [i \in DOMAIN frame_id_list |-> Image(frame_id_list[i], region, size)]

\* round(n / 2.), to the even neighbour.
Halved(n) == IF n % 4 = 3 THEN n \div 2 + 1 ELSE n \div 2
CenterCrop == Crop(Halved(frame.h - Target.h), Halved(frame.w - Target.w))

\* Left, right and middle; or top, down and middle.
Thirds ==
  LET y == IF Target.h = frame.h THEN 0 ELSE (frame.h - Target.h) \div 2
      x == IF Target.h = frame.h THEN (frame.w - Target.w) \div 2 ELSE 0
  IN  <<Crop(0, 0), Crop(2 * y, 2 * x), Crop(y, x)>>

\* The center and the corners, and the same flipped.
Ten ==
  LET bottom == frame.h - Target.h
      right == frame.w - Target.w
      five == <<Crop(bottom \div 2, right \div 2), Crop(0, 0), Crop(bottom, 0), Crop(0, right), Crop(bottom, right)>>
  IN  five \o [k \in 1 .. 5 |-> Flip(five[k])]

\* All regions of one image, then those of the next.
ByImage(regions) ==
  FlattenSeq([i \in DOMAIN frame_id_list |->
    [k \in DOMAIN regions |-> Image(frame_id_list[i], regions[k], Sized(regions[k]))]])

TenCrop == ByImage(Ten)

\* The slip of three crops in the order of ten.
ThreeCropByImage == ByImage(Thirds)

\* All images in one region, then all in the next.
ThreeCrop == FlattenSeq([k \in DOMAIN Thirds |-> SameForAll(Thirds[k], Sized(Thirds[k]))])

\* The fixed places, in quarters of what the frame is bigger than the target.
FixOffset ==
  LET h == (frame.h - Target.h) \div 4
      w == (frame.w - Target.w) \div 4
  IN  {<<i * h, j * w>> : i \in {0, 2, 4}, j \in {0, 2, 4}} \cup {<<i * h, j * w>> : i \in {1, 3}, j \in {1, 3}}

\* Without fix_crop any place, if the frame is big enough.
RandomOffset == (0 .. frame.h - Target.h) \X (0 .. frame.w - Target.w)

CropSize ==
  LET base == IF frame.h < frame.w THEN frame.h ELSE frame.w
      scaled(i) == (base * Ratios[i]) \div 8
      near == {p \in (DOMAIN Ratios) \X (DOMAIN Ratios) : p[1] - p[2] \in -1 .. 1}
  IN  {<<scaled(p[1]), scaled(p[2])>> : p \in near}

\* A slice ends with the image: the crop may be smaller than chosen. It is scaled to the target.
Sliced(at, len, all) == IF at + len > all THEN all - at ELSE len
MultiScaleCrop(at, size) ==
  Region(at[1], at[2], Sliced(at[1], size[1], frame.h), Sliced(at[2], size[2], frame.w))

Transform ==
  /\ doing = "transform" /\ doing' = "clips"
  /\ \/ dataset.transform = "center" /\ clip_input' = SameForAll(CenterCrop, Sized(CenterCrop))
     \/ /\ dataset.transform = "three" /\ (Target.h = frame.h \/ Target.w = frame.w)
        /\ clip_input' = ThreeCrop
     \/ dataset.transform = "ten" /\ clip_input' = TenCrop
     \/ /\ dataset.transform = "train"
        /\ \E at \in FixOffset \cup RandomOffset, size \in CropSize, flipped \in BOOLEAN :
             LET r == MultiScaleCrop(at, size)
             IN  clip_input' = SameForAll(IF flipped THEN Flip(r) ELSE r, Target)
  /\ UNCHANGED <<dataset, duration, frame, offsets, skip_offsets, frame_id_list, batch, shards>>

(***************************************************************************)
(* Shards.                                                                 *)
(***************************************************************************)
\* The last device gets what is left of the batch size, which may be nothing or less.
BsList(size, num_ctx) ==
  LET per_ctx == (size + num_ctx - 1) \div num_ctx
  IN  [k \in 1 .. num_ctx + 1 |-> IF k <= num_ctx THEN (k - 1) * per_ctx ELSE size]

\* A batch, the last of which may be smaller, until a shard would start behind it.
ShardBatch ==
  /\ doing = "sample" /\ doing' = "batched"
  /\ \E size \in BatchSizes, num_ctx \in 1 .. MaxContexts : \E len \in 1 .. size :
       LET bs_list == BsList(size, num_ctx)
           parts == Cardinality({k \in 1 .. num_ctx : bs_list[k] < len})
           End(k) == IF bs_list[k + 1] > len THEN len ELSE bs_list[k + 1]
       IN  /\ batch' = [i \in 1 .. len |-> i]
           /\ shards' = [k \in 1 .. parts |-> SubSeq(batch', bs_list[k] + 1, End(k))]
  /\ UNCHANGED <<dataset, duration, frame, offsets, skip_offsets, frame_id_list, clip_input>>

ClipNext == SampleIndices \/ ReadFrames \/ Transform \/ ShardBatch
ClipSpec == ClipInit /\ [][ClipNext]_clipVars

(***************************************************************************)
(* Properties.                                                             *)
(***************************************************************************)
\* The images of a clip after the reshape.
PerClip ==
  IF dataset.slowfast THEN Len(clip_input) \div (dataset.segments * dataset.crops) ELSE dataset.length
Clip(n) == SubSeq(clip_input, (n - 1) * PerClip + 1, n * PerClip)

\* Cut at every length, the list gives clips.
ClipsAreWhole ==
  doing = "clips" =>
    /\ Len(clip_input) = PerClip * dataset.segments * dataset.crops
    /\ \A n \in 1 .. Len(clip_input) \div PerClip :
         LET clip == Clip(n)
             region == clip[1].region
         IN  /\ \E s \in Segments : [i \in DOMAIN clip |-> clip[i].id] = SegmentFrames(s)
             /\ \A i \in DOMAIN clip :
                  /\ clip[i].id \in 0 .. duration - 1
                  /\ clip[i].region = region /\ clip[i].size = Target
             /\ region.h > 0 /\ region.y >= 0 /\ region.y + region.h <= frame.h
             /\ region.w > 0 /\ region.x >= 0 /\ region.x + region.w <= frame.w

ShardsCoverBatch == FlattenSeq(shards) = batch

\* The list can be cut into clips, as many as there are segments and crops, and each of them is a
\* clip: the same region of the frames of one segment, in their order, all of the size asked for,
\* and frames the video has. And every image of a batch goes to one device, in order, whatever is
\* left for the last.
ClipsHoldTogether == ClipsAreWhole /\ ShardsCoverBatch
=============================================================================
