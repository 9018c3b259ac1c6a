------------------------- MODULE MCThreadedDecoder -------------------------
(* The threaded decoder on a small instance; the .cfg files give the bounds. *)
EXTENDS ThreadedDecoder
=============================================================================
