------------------------- MODULE MCCUThreadedDecoder -------------------------
(* The NVDEC decoder on a small instance; the .cfg files give the bounds. *)
EXTENDS CUThreadedDecoder
=============================================================================
