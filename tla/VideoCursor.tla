----------------------------- MODULE VideoCursor -----------------------------
(***************************************************************************)
(* What peli.VideoReader promises (docs/api.md): a cursor over the frames   *)
(* 0 .. NumFrames - 1.  next() gives the frame at the cursor and moves on,  *)
(* vr[i] and get_batch() give the frames asked for and leave the cursor     *)
(* behind the last one they decoded, seek and skip_frames move the cursor.  *)
(* Reading at NumFrames gives the empty array (StopIteration).              *)
(***************************************************************************)
EXTENDS Integers, Sequences

CONSTANTS NumFrames, MaxBatch

VARIABLES
  position,  \* the frame the next read gives; set when a call is made
  busy,      \* a call is in progress
  asked,     \* frames it has still to give
  result     \* the frame given last in this call

vars == <<position, busy, asked, result>>

None == -1
Frames == 0 .. NumFrames - 1
Forward(i, n) == IF i + n < NumFrames THEN i + n ELSE NumFrames

\* Places of a batch that are decoded; the others are copies of those.
Decoded(batch) ==
  {i \in DOMAIN batch : \A j \in DOMAIN batch : batch[j] = batch[i] => i <= j}
After(batch) ==
  batch[CHOOSE i \in Decoded(batch) : \A j \in Decoded(batch) : j <= i] + 1

Init == position = 0 /\ busy = FALSE /\ asked = <<>> /\ result = None

Read ==
  /\ ~busy /\ busy' = TRUE
  /\ asked' = <<position>>
  /\ position' = Forward(position, 1)
  /\ result' = None

Get ==
  /\ ~busy /\ busy' = TRUE
  /\ \E n \in 1 .. MaxBatch : asked' \in [1 .. n -> Frames]
  /\ position' = After(asked')
  /\ result' = None

Move ==
  /\ ~busy /\ busy' \in BOOLEAN
  /\ position' \in 0 .. NumFrames
  /\ result' = None /\ UNCHANGED asked

Deliver ==
  /\ busy /\ asked # <<>>
  /\ result' = Head(asked)
  /\ asked' = Tail(asked)
  /\ busy' \in {TRUE, asked' # <<>>}
  /\ UNCHANGED position

Finish ==
  /\ busy /\ asked = <<>>
  /\ busy' = FALSE
  /\ UNCHANGED <<position, asked, result>>

Next == Read \/ Get \/ Move \/ Deliver \/ Finish

Spec == Init /\ [][Next]_vars
FairSpec == Spec /\ WF_vars(Deliver \/ Finish)
=============================================================================
