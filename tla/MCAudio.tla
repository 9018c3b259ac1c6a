------------------------------- MODULE MCAudio -------------------------------
(* Small audio streams and videos for TLC. *)
EXTENDS AudioReader

\* Audio of five samples, two in a second, or of seven some of which the decoder may refuse.
ShortStreams ==
  [packets : {<<2, 3>>}, rate : {2}, channels : {1}, start : {0}, bad : {0}]
    \cup [packets : {<<3, 2, 2>>}, rate : {2}, channels : {2}, start : {3}, bad : {0, 1, 3}]
OneStream == [packets |-> <<2, 3>>, rate |-> 2, channels |-> 1, start |-> 0, bad |-> 0]

\* Clips of three frames: evenly spaced, with gaps between frames, or with frames that overlap and
\* a last one that ends after the audio.
At(from, to) == [from |-> from, to |-> to]
Even == <<At(0, 2), At(2, 4), At(4, 6)>>
Gaps == <<At(0, 2), At(4, 5), At(7, 9)>>
ShortClips == {Gaps, <<At(0, 3), At(2, 6), At(6, 16)>>}
OneClip == {Even}
\* The default of sample_rate.
Unchanged == {-1}
=============================================================================
