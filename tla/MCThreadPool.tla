---------------------------- MODULE MCThreadPool ----------------------------
(* One pool; the .cfg files say which launches its user makes. *)
EXTENDS ThreadPool
=============================================================================
