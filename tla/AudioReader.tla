----------------------------- MODULE AudioReader -----------------------------
(* Audio: AudioReader decodes a whole stream when it is opened
   (src/src/audio/audio_reader.cc), Python pads and cuts it
   (src/python/peli/audio_reader.py), and AVReader pairs it with the frames of
   the video (src/python/peli/av_reader.py).

   A sample is <<channel, place>>, channels from 0. Times are in ticks, and rates
   in samples per second. *)
EXTENDS Integers, Sequences, FiniteSetsExt

CONSTANTS Streams,     \* audio streams: [packets, rate, channels, start, bad], as in MCAudio
          Clips,       \* the times of the frames of a video: sequences of [from, to]
          Width,       \* bytes of a sample
          Monos,       \* the values of mono asked for
          Rates,       \* the values of sample_rate asked for: -1 leaves the stream's
          Second,       \* ticks of a second
          Significand  \* a time, a float32, and its product with a rate are off by at most this
                       \* part of them: about 2^23

ASSUME AudioAssumption ==
  /\ \A s \in Streams :
       /\ s.packets \in Seq(Nat) /\ s.rate \in Nat \ {0} /\ s.channels \in Nat \ {0}
       /\ s.start \in Nat /\ s.bad \in Nat
  /\ Clips \subseteq Seq([from : Nat, to : Nat])
  /\ Width \in Nat \ {0} /\ Monos \subseteq BOOLEAN
  /\ Rates \subseteq {-1} \cup (Nat \ {0})
  /\ Second \in Nat \ {0} /\ Significand \in Nat \ {0}

Silence == <<-1, 0>>
Garbled == <<-2, 0>>

VARIABLES stream, video, mono, sample_rate, \* what is opened, and how
          step,                \* decode, drain, array, pad, read
          packets,             \* the packets left: the samples in each
          decoder,             \* frames inside the decoder
          outputVector, numChannels, padding,
          array,               \* _array: a sequence of samples for each channel
          wanted, audio,       \* get_batch: the frames asked for, the audio given
          prev                 \* prev_video_idx, prev_audio_end_idx

audioVars ==
  <<stream, video, mono, sample_rate, step, packets, decoder, outputVector, numChannels, padding, array,
    wanted, audio, prev>>
opened == <<stream, video, mono, sample_rate>>
python == <<array, wanted, audio, prev>>

NoPrev == [idx |-> -1, end |-> 0]
AudioInit ==
  /\ stream \in Streams /\ video \in Clips /\ mono \in Monos /\ sample_rate \in Rates
  /\ step = "decode" /\ packets = stream.packets /\ decoder = <<>>
  /\ outputVector = <<>> /\ numChannels = stream.channels /\ padding = -1
  /\ array = <<>> /\ wanted = <<>> /\ audio = <<>> /\ prev = NoPrev

(***************************************************************************)
(* Decode, all of it before the constructor returns.                       *)
(***************************************************************************)
\* A packet the decoder refuses ends the reading; what is inside comes out all the same.
DecodePacket ==
  /\ step = "decode"
  /\ IF packets = <<>> \/ Len(packets) = stream.bad
     THEN step' = "drain" /\ UNCHANGED <<packets, decoder>>
     ELSE /\ packets' = Tail(packets) /\ decoder' = Append(decoder, Head(packets))
          /\ UNCHANGED step
  /\ UNCHANGED <<opened, outputVector, numChannels, padding, python>>

\* The samples of a frame go behind those of their channel.
SaveToVector(channels, n) ==
  outputVector' =
    [c \in 1 .. channels |->
       LET saved == IF outputVector = <<>> THEN <<>> ELSE outputVector[c]
       IN  saved \o [i \in 1 .. n |-> <<c - 1, Len(saved) + i - 1>>]]

\* if (targetSampleRate == -1) targetSampleRate = originalSampleRate; Python keeps what it was given.
targetSampleRate == IF sample_rate = -1 THEN stream.rate ELSE sample_rate

Ceil(x, n) == -((-x) \div n)

\* How many samples swr_convert makes of n: as many as last as long.
Resampled(n) == {(n * targetSampleRate) \div stream.rate, Ceil(n * targetSampleRate, stream.rate)}

\* The first frame that comes tells when the audio starts.
HandleFrame ==
  /\ step \in {"decode", "drain"} /\ decoder # <<>>
  /\ decoder' = Tail(decoder)
  /\ padding' = IF padding = -1 THEN stream.start ELSE padding
  /\ numChannels' = IF mono THEN 1 ELSE stream.channels
  /\ \E n \in Resampled(Head(decoder)) : SaveToVector(numChannels', n)
  /\ UNCHANGED <<opened, step, packets, python>>

\* Nothing came: no reader. Otherwise the array is made.
DrainDecoder ==
  /\ step = "drain" /\ decoder = <<>>
  /\ step' = IF outputVector = <<>> THEN "failed" ELSE "array"
  /\ UNCHANGED <<opened, packets, decoder, outputVector, numChannels, padding, python>>

\* Where the view of a channel starts, in bytes.
ViewOffset(c, total) == c * total

\* The byte i of the array: of the last channel whose view has it.
ByteAt(i, total) ==
  LET over == {c \in 0 .. numChannels - 1 : ViewOffset(c, total) <= i /\ i < ViewOffset(c, total) + Width * total}
      c == Max(over)
  IN  IF over = {} THEN <<Garbled, 0>>
      ELSE <<outputVector[c + 1][(i - ViewOffset(c, total)) \div Width + 1], (i - ViewOffset(c, total)) % Width>>

\* A float is a sample if its bytes are those of one.
SampleAt(c, s, total) ==
  LET first == (c * total + s) * Width
      sample == ByteAt(first, total)[1]
  IN  IF \A b \in 0 .. Width - 1 : ByteAt(first + b, total) = <<sample, b>> THEN sample ELSE Garbled

ToNDArray ==
  /\ step = "array" /\ step' = "pad"
  /\ array' = [c \in 1 .. numChannels |->
                 [s \in 1 .. Len(outputVector[1]) |-> SampleAt(c - 1, s - 1, Len(outputVector[1]))]]
  /\ UNCHANGED <<opened, packets, decoder, outputVector, numChannels, padding, wanted, audio, prev>>

(***************************************************************************)
(* Python.                                                                 *)
(***************************************************************************)
\* The slip of an audio that is used as it is.
AddPaddingNone ==
  /\ step = "pad" /\ step' = "read"
  /\ UNCHANGED <<opened, packets, decoder, outputVector, numChannels, padding, python>>

\* ceil(padding * targetSampleRate), a product of doubles: what is a whole number may be rounded up.
GetNumPaddingSamples ==
  {Ceil(padding * targetSampleRate, Second), (padding * targetSampleRate) \div Second + 1}

\* The array gets longer; _num_samples_per_channel stays what it was.
AddPadding ==
  /\ step = "pad" /\ step' = "read"
  /\ \E n \in GetNumPaddingSamples :
       array' = [c \in 1 .. numChannels |-> [i \in 1 .. n |-> Silence] \o array[c]]
  /\ UNCHANGED <<opened, packets, decoder, outputVector, numChannels, padding, wanted, audio, prev>>

\* What floating point makes of a time, or of its product: any number as near as it promises.
Nearly(x) == x - Ceil(x, Significand) .. x + Ceil(x, Significand)

\* math.ceil(timestamp * self.sample_rate), of a float32 and the sample_rate that was given: the
\* samples it may answer.
TimeToSample(t) ==
  {IF sample_rate = -1 THEN -(r \div Second) ELSE Ceil(r, Second) :
     r \in Nearly(t * (IF sample_rate = -1 THEN 1 ELSE sample_rate))}

\* slice.indices(_num_samples_per_channel): from the end if negative, and no further than either end.
NumSamplesPerChannel == Len(outputVector[1])
SliceIndex(i) ==
  IF i < 0 THEN Max({i + NumSamplesPerChannel, 0}) ELSE Min({i, NumSamplesPerChannel})
GetSlice(from, to) == [c \in 1 .. numChannels |-> SubSeq(array[c], SliceIndex(from) + 1, SliceIndex(to))]

\* vr[i], or get_batch of several frames: one after another.
GetBatch ==
  /\ step = "read" /\ wanted = <<>>
  /\ \E n \in 1 .. 3 : wanted' \in [1 .. n -> 0 .. Len(video) - 1]
  /\ audio' = <<>> /\ prev' = NoPrev
  /\ UNCHANGED <<opened, step, packets, decoder, outputVector, numChannels, padding, array>>

\* The frame behind the last one takes up its audio where that ended, unless that was frame 0.
BatchFrame ==
  /\ step = "read" /\ wanted # <<>>
  /\ LET idx == Head(wanted)
         goes_on == prev.idx > 0 /\ idx = prev.idx + 1
     IN  \E from \in IF goes_on THEN {prev.end} ELSE TimeToSample(video[idx + 1].from),
            to \in TimeToSample(video[idx + 1].to) :
           /\ audio' = Append(audio, [idx |-> idx, from |-> from, to |-> to, samples |-> GetSlice(from, to)])
           /\ prev' = [idx |-> idx, end |-> to]
  /\ wanted' = Tail(wanted)
  /\ UNCHANGED <<opened, step, packets, decoder, outputVector, numChannels, padding, array>>

AudioNext ==
  \/ DecodePacket \/ HandleFrame \/ DrainDecoder \/ ToNDArray
  \/ AddPadding \/ GetBatch \/ BatchFrame
AudioSpec == AudioInit /\ [][AudioNext]_audioVars

(***************************************************************************)
(* Properties.                                                             *)
(***************************************************************************)
\* Silence until the stream starts, up to a whole sample, and then its samples.
Padding == Len(array[1]) - NumSamplesPerChannel
StartsOnTime ==
  (Padding - 1) * Second <= stream.start * targetSampleRate /\ stream.start * targetSampleRate <= Padding * Second
Sound(c, i) == IF i < Padding THEN Silence ELSE <<c, i - Padding>>

\* The sample i of the array is the first at or after the time t, as near as floating point tells.
FirstSince(t, i) ==
  \E r \in Nearly(t * targetSampleRate) : (i - 1) * Second < r /\ r <= i * Second

\* The frame k was asked for behind its predecessor.
Follows(k) == k > 1 /\ audio[k].idx = audio[k - 1].idx + 1

\* The k-th frame given has the samples from its beginning, or from where the frame given before it
\* ended if it follows it, to its end.
Timely(k) ==
  /\ IF Follows(k) /\ audio[k - 1].idx > 0 THEN audio[k].from = audio[k - 1].to
     ELSE FirstSince(video[audio[k].idx + 1].from, audio[k].from)
  /\ FirstSince(video[audio[k].idx + 1].to, audio[k].to)

\* The samples from one place to another, without those behind the last one a reader knows of.
Cut(i) == Min({i, NumSamplesPerChannel})

\* A frame comes with what sounds on each channel while it is shown.
AudioMatchesFrames ==
  audio # <<>> =>
    /\ StartsOnTime
    /\ \A k \in DOMAIN audio :
         /\ Timely(k)
         /\ \A c \in 1 .. numChannels :
              audio[k].samples[c] =
                [i \in 1 .. Cut(audio[k].to) - Cut(audio[k].from) |-> Sound(c - 1, Cut(audio[k].from) + i - 1)]

\* However many channels there are: what a frame comes with is cut from the array in time.
CutInTime ==
  audio # <<>> =>
    /\ StartsOnTime
    /\ \A k \in DOMAIN audio :
         /\ Timely(k)
         /\ audio[k].samples = [c \in 1 .. numChannels |-> SubSeq(array[c], Cut(audio[k].from) + 1, Cut(audio[k].to))]
=============================================================================
