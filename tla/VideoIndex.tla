----------------------------- MODULE VideoIndex -----------------------------
(* Opening a video (src/src/video/video_reader.cc): the stream to show is
   chosen, all packets of the file are read, and a table of the frames is made
   that everything VideoReader does by frame number goes through.

   Times are in ticks of the stream, not in seconds; what a frame looks like
   and its size are left out. *)
EXTENDS Integers, SequencesExt

CONSTANT Containers \* what is opened; see ContainersAssumption

\* streams: the kind of each stream, and whether there is a decoder for it; packets: in the order of the
\* file, stream, pts and duration of each and whether it is a key frame; start: start_time of the stream;
\* promised: the number of frames the metadata tell or let one estimate; broken: the packet whose reading
\* fails, 0 for none.
ASSUME ContainersAssumption ==
  \A c \in Containers :
    /\ c.streams \in Seq([kind : {"video", "other"}, decoder : BOOLEAN])
    /\ c.packets \in Seq([stream : Nat, pts : Int, duration : Nat, key : BOOLEAN])
    /\ c.start \in Int /\ c.promised \in Int /\ c.broken \in Nat

VARIABLES container,
          opening,       \* stream, index, sort, done; or failed
          actv_stm_idx,  \* 0 before it is set
          at,            \* packets read
          key_indices, frame_ts, pts_frame_map

indexVars == <<container, opening, actv_stm_idx, at, key_indices, frame_ts, pts_frame_map>>
indexTables == <<key_indices, frame_ts, pts_frame_map>>

NoMap == [p \in {} |-> 0]

IndexInit ==
  /\ container \in Containers /\ opening = "stream" /\ actv_stm_idx = 0 /\ at = 0
  /\ key_indices = <<>> /\ frame_ts = <<>> /\ pts_frame_map = NoMap

\* av_find_best_stream: a video stream with a decoder.
Showable == {s \in DOMAIN container.streams : container.streams[s] = [kind |-> "video", decoder |-> TRUE]}

GetFrameCount(table) == IF table # <<>> THEN Len(table) ELSE container.promised

\* The file does not open, there is no such stream or its codec does not open, or the metadata promise
\* no frame.
SetVideoStreamFails ==
  /\ opening = "stream" /\ opening' = "failed"
  /\ UNCHANGED <<container, actv_stm_idx, at, indexTables>>

SetVideoStream ==
  /\ opening = "stream" /\ GetFrameCount(frame_ts) >= 1
  /\ actv_stm_idx' \in Showable
  /\ opening' = "index"
  /\ UNCHANGED <<container, at, indexTables>>

(***************************************************************************)
(* IndexKeyframes.                                                         *)
(***************************************************************************)
MorePackets == at < Len(container.packets) /\ at + 1 # container.broken

FrameTime(p) == [pts |-> p.pts, begin |-> p.pts - container.start, end |-> p.pts + p.duration - container.start]

\* The slip of packets that are counted whatever stream they are of.
IndexPacketOfAny ==
  /\ opening = "index" /\ MorePackets /\ at' = at + 1
  /\ LET p == container.packets[at + 1]
     IN  IF p.stream = actv_stm_idx
         THEN /\ frame_ts' = Append(frame_ts, FrameTime(p))
              /\ key_indices' = IF p.key THEN Append(key_indices, at) ELSE key_indices
         ELSE UNCHANGED <<frame_ts, key_indices>>
  /\ UNCHANGED <<container, opening, actv_stm_idx, pts_frame_map>>

\* A packet of the stream is a frame of the table; cnt is its length.
IndexPacket ==
  /\ opening = "index" /\ MorePackets /\ at' = at + 1
  /\ LET p == container.packets[at + 1]
     IN  IF p.stream = actv_stm_idx
         THEN /\ frame_ts' = Append(frame_ts, FrameTime(p))
              /\ key_indices' = IF p.key THEN Append(key_indices, Len(frame_ts)) ELSE key_indices
         ELSE UNCHANGED <<frame_ts, key_indices>>
  /\ UNCHANGED <<container, opening, actv_stm_idx, pts_frame_map>>

IndexFails ==
  /\ opening = "index" /\ at + 1 = container.broken /\ at < Len(container.packets)
  /\ opening' = "failed"
  /\ UNCHANGED <<container, actv_stm_idx, at, indexTables>>

\* The end of the file: std::sort by pts, in any order where they are equal.
SortFrames ==
  /\ opening = "index" /\ at = Len(container.packets)
  /\ opening' = "sort"
  /\ \E p \in {f \in [DOMAIN frame_ts -> DOMAIN frame_ts] : \A i, j \in DOMAIN frame_ts : f[i] = f[j] => i = j} :
       /\ frame_ts' = [i \in DOMAIN frame_ts |-> frame_ts[p[i]]]
       /\ \A i, j \in DOMAIN frame_ts : i < j => frame_ts[p[i]].pts <= frame_ts[p[j]].pts
  /\ UNCHANGED <<container, actv_stm_idx, at, key_indices, pts_frame_map>>

\* insert leaves an entry that is there.
MapFrames ==
  /\ opening = "sort" /\ opening' = "done"
  /\ pts_frame_map' =
       [t \in {frame_ts[i].pts : i \in DOMAIN frame_ts} |-> Min({i \in DOMAIN frame_ts : frame_ts[i].pts = t}) - 1]
  /\ UNCHANGED <<container, actv_stm_idx, at, key_indices, frame_ts>>

IndexNext ==
  \/ SetVideoStream \/ SetVideoStreamFails
  \/ IndexPacket \/ IndexFails \/ SortFrames \/ MapFrames
IndexSpec == IndexInit /\ [][IndexNext]_indexVars

(***************************************************************************)
(* What is asked of the tables.                                            *)
(***************************************************************************)
FrameToPTS(pos) == frame_ts[pos + 1].pts
GetFramePTS == {<<frame_ts[n].begin, frame_ts[n].end>> : n \in DOMAIN frame_ts}
GetKeyIndices == ToSet(key_indices)

(***************************************************************************)
(* Properties.                                                             *)
(***************************************************************************)
Shown == {i \in DOMAIN container.packets : container.packets[i].stream = actv_stm_idx}
KeyPackets == {i \in Shown : container.packets[i].key}

Pts(i) == container.packets[i].pts

\* The number of a frame: how many are shown before it.
NumberOf(t) == Cardinality({i \in Shown : Pts(i) < t})

\* The frames that are shown before key frame k and stored behind it.
Leading(k) == {i \in Shown : i > k /\ Pts(i) < Pts(k)}

\* No frame is stored before a key frame and shown after it, or with it.
KeysInOrder == \A k \in KeyPackets, i \in Shown : i < k => Pts(i) < Pts(k)

\* The tables tell the order in which frames are shown, whatever the order in which they are stored:
\* frame pos is shown after pos others, or with some of them, the table has the times of every
\* frame, and the number of a frame is found by its pts. A key frame's index is as much too small
\* as it has leading frames: what VideoReader's KeyIndices take for granted.
IndexMatchesStream ==
  opening = "done" =>
    /\ Len(frame_ts) = Cardinality(Shown)
    /\ \A pos \in 0 .. Len(frame_ts) - 1 :
         /\ NumberOf(FrameToPTS(pos)) <= pos
         /\ pos < Cardinality({i \in Shown : Pts(i) <= FrameToPTS(pos)})
    /\ GetFramePTS =
         {<<Pts(i) - container.start, Pts(i) + container.packets[i].duration - container.start>> : i \in Shown}
    /\ pts_frame_map = [t \in {Pts(i) : i \in Shown} |-> NumberOf(t)]
    /\ KeysInOrder => GetKeyIndices = {NumberOf(Pts(k)) - Cardinality(Leading(k)) : k \in KeyPackets}
=============================================================================
