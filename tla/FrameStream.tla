----------------------------- MODULE FrameStream -----------------------------
(***************************************************************************)
(* What a threaded decoder promises the reader that feeds it                *)
(* (ThreadedDecoderInterface, src/src/video/threaded_decoder_interface.h):  *)
(* the frames of the packets the codec took come back in order, each once,  *)
(* and end-of-stream signals only once all of them did.  A reset forgets    *)
(* what was fed, and nothing fed before it comes back after it.  Frames may *)
(* be lost only after the decoder failed.                                   *)
(***************************************************************************)
EXTENDS Integers

VARIABLES
  fed,     \* packets fed since the beginning; packet n is the n-th
  queued,  \* packets fed and not yet decoded
  owed,    \* packets whose frames the reader will get
  last,    \* the last frame the reader got, or what was fed before the reset
  ended,   \* the reader fed its last packet
  signals, \* end-of-stream signals the reader got
  failed

vars == <<fed, queued, owed, last, ended, signals, failed>>

Init ==
  /\ fed = 0 /\ queued = {} /\ owed = {} /\ last = 0
  /\ ended = FALSE /\ signals = 0 /\ failed = FALSE

\* Packets are decoded, and frames given, in the order of their feeding.
First(p, packets) == \A q \in packets : p <= q

Feed ==
  /\ ~ended
  /\ fed' = fed + 1
  /\ queued' = queued \cup {fed + 1}
  /\ UNCHANGED <<owed, last, ended, signals, failed>>

End ==
  /\ ended' = TRUE
  /\ UNCHANGED <<fed, queued, owed, last, signals, failed>>

\* The codec takes the next packet, or makes no frame of it.
Decode ==
  /\ \E p \in queued :
       /\ First(p, queued) /\ queued' = queued \ {p}
       /\ owed' \in {owed, owed \cup {p}}
  /\ UNCHANGED <<fed, last, ended, signals, failed>>

Deliver ==
  /\ \E p \in owed :
       /\ First(p, owed) /\ owed' = owed \ {p}
       /\ last' = p
  /\ UNCHANGED <<fed, queued, ended, signals, failed>>

EndSignal ==
  /\ ended /\ queued = {} /\ owed = {}
  /\ signals' = signals + 1
  /\ UNCHANGED <<fed, queued, owed, last, ended, failed>>

\* The decoder fails on a packet or on a frame, which is lost ...
LoseOne ==
  \/ \E p \in owed : owed' = owed \ {p} /\ queued' = queued
  \/ \E p \in queued : First(p, queued) /\ queued' = queued \ {p} /\ owed' = owed
  \/ UNCHANGED <<owed, queued>>

Fail ==
  /\ LoseOne
  /\ failed' = TRUE
  /\ UNCHANGED <<fed, last, ended, signals>>

\* ... and after that more may be lost: the frame a call had in hand, or all of them.
Lose ==
  /\ failed
  /\ owed' \subseteq owed /\ queued' \subseteq queued
  /\ UNCHANGED <<fed, last, ended, signals, failed>>

Reset ==
  /\ queued' = {} /\ owed' = {}
  /\ last' = fed
  /\ ended' = FALSE /\ signals' = 0 /\ failed' = FALSE
  /\ fed' = fed

Next == Feed \/ End \/ Decode \/ Deliver \/ EndSignal \/ Fail \/ Lose \/ Reset

Spec == Init /\ [][Next]_vars
=============================================================================
