---------------------------- MODULE MCVideoReader ----------------------------
(* Videos of NumFrames frames for TLC, and how they are used. *)
EXTENDS VideoReader

KeySets == {keys \in SUBSET Frames : 0 \in keys}
Video(keys, corrupt, exact) ==
  [keys |-> keys, leading |-> [k \in keys |-> 0], corrupt |-> corrupt, exact |-> exact,
   fails |-> FALSE]

\* Every choice of key frames, closed GOPs, every packet decodable.
IntactFiles == {Video(keys, {}, TRUE) : keys \in KeySets}
InexactFiles == {Video(keys, {}, FALSE) : keys \in KeySets}

\* The same with any packets that cannot be decoded.
DamagedFiles == {Video(keys, corrupt, TRUE) : keys \in KeySets, corrupt \in SUBSET Frames \ {{}}}

\* Those in containers av_seek_frame is inexact or may fail in.
FaultyFiles ==
  {[f EXCEPT !.exact = FALSE, !.fails = fails] : f \in IntactFiles \cup DamagedFiles, fails \in BOOLEAN}

\* Intact, with at most one leading frame per key frame.
OpenGOPFiles ==
  {f \in UNION {{[Video(keys, {}, TRUE) EXCEPT !.leading = leading] : leading \in [keys -> 0 .. 1]} :
                keys \in KeySets} :
     f.leading[0] = 0 /\ \A j, k \in f.keys : j < k => j < k - f.leading[k]}

\* Intact videos are read in every way, inexact ones at random, damaged ones in order.
PlayedFiles == IntactFiles \cup InexactFiles \cup DamagedFiles
PlayedCalls ==
  [f \in PlayedFiles |->
     IF f.corrupt # {} THEN {"next"}
     ELSE IF f.exact THEN {"next", "getitem", "get_batch", "skip_frames", "seek_key"}
     ELSE {"next", "getitem", "get_batch"}]

FaultyCalls ==
  [f \in FaultyFiles |-> {"next", "getitem", "seek", "seek_accurate", "skip_frames"}]
OpenGOPCalls == [f \in OpenGOPFiles |-> {"getitem"}]
OverrunCalls == [f \in IntactFiles |-> {"next", "seek_accurate"}]

NoLimit == -1
=============================================================================
