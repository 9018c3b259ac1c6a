------------------------------- MODULE MCParts -------------------------------
(* The parts of the system that one thread uses at a time, or that share
   nothing with each other, in one state space for TLC: in each behaviour one
   part, chosen at the start, is used, and the others stay as they were made.
   The states are those of the parts one after another, not their product. *)
EXTENDS VideoLoader, MCAudio, NDArrays, PackedCalls, Registry, Modules, WorkspacePool, ClipDataset, ThreadGroup, VideoIndex, CUDAModules, CUSurfaces

VARIABLE part

Parts == {"loader", "audio", "arrays", "calls", "registry", "modules", "workspace", "clips", "group", "index", "kernels", "surfaces"}

(***************************************************************************)
(* What they are given.                                                    *)
(***************************************************************************)
\* Two short videos, and all ways to cut them into few batches: what a shuffle may do grows fast.
TwoVideos ==
  [lens : {<<m, n>> : m \in 2 .. 8, n \in {2, 5}}, bs : 1 .. 3, interval : 0 .. 1, skip : -1 .. 2,
   shuffle : 0 .. 2, damaged : BOOLEAN]
Short == {l \in TwoVideos : 4 * (l.bs * (1 + l.interval) - l.interval + AtLeastZero(l.skip)) >= l.lens[1] + l.lens[2]}
NoBatch == [lens |-> <<2, 2>>, bs |-> 2, interval |-> 0, skip |-> 0, shuffle |-> 0, damaged |-> FALSE]

\* The library f1 has the symbol and f2 too, f3 calls it.
TheExports == [f \in {"f1", "f2", "f3"} |-> IF f = "f3" THEN {} ELSE {"s"}]

\* Each transform with clips of one or three segments; ten crops of a clip of one frame only, as the
\* order of TenCrop is that of such clips. SlowFast takes every second frame, and every fourth.
Reading == [mode : {"train", "val", "test"}, segments : {1, 3}, length : 1 .. 3, step : 1 .. 2, jitter : BOOLEAN,
            slowfast : {FALSE}, slow : {1}, fast : {1}]
Cropped(d, transform, crops) ==
  [f \in DOMAIN d \cup {"transform", "crops"} |-> CASE f = "transform" -> transform [] f = "crops" -> crops [] OTHER -> d[f]]
PlainDatasets == {Cropped(d, "three", 3) : d \in Reading} \cup {Cropped(d, "center", 1) : d \in Reading}
  \cup {Cropped(d, "ten", 10) : d \in {d \in Reading : d.length = 1 /\ d.step = 1}}
  \cup {Cropped(d, "train", 1) : d \in {d \in Reading : d.length = 2 /\ d.step = 1 /\ d.mode = "test"}}
SlowFastDatasets == {Cropped([d EXCEPT !.slowfast = TRUE, !.slow = 4, !.fast = 2, !.length = 8], "three", 3) :
  d \in {d \in Reading : d.step = 1 /\ ~d.jitter /\ d.length = 1}}
TheDatasets == PlainDatasets \cup SlowFastDatasets
OneDataset == CHOOSE d \in PlainDatasets : TRUE
TheFrames == {[h |-> 4, w |-> 7], [h |-> 9, w |-> 4], [h |-> 9, w |-> 10]}
TheTarget == [h |-> 4, w |-> 4]
TheRatios == <<8, 7, 5>>

\* Up to three cores of any speeds, unknown ones among them, and four of two.
TheMachines ==
  UNION {[cores : {n}, freqs : [0 .. n - 1 -> {-1, 1, 2}], halved : BOOLEAN] : n \in 1 .. 3}
  \cup [cores : {4}, freqs : [0 .. 3 -> {1, 2}], halved : BOOLEAN]
OneMachine == [cores |-> 1, freqs |-> [c \in {0} |-> 1], halved |-> FALSE]
AskedFor == {Default, 0, 2}
ForPools == {-1, 0, 2}

\* Files of up to three packets of either stream, with any times; the stream to show is the second. With one
\* packet also those without such a stream, whose metadata promise no frame or which cannot be read.
Packets(n) == [1 .. n -> [stream : 1 .. 2, pts : 0 .. 2, duration : {1}, key : BOOLEAN]]
Noise == [kind |-> "other", decoder |-> TRUE]
Picture(known) == [kind |-> "video", decoder |-> known]
OneContainer == [streams |-> <<Picture(TRUE)>>, packets |-> <<>>, start |-> 1, promised |-> 1, broken |-> 0]
TheContainers ==
  [streams : {<<Noise, Picture(TRUE)>>}, packets : UNION {Packets(n) : n \in 0 .. 3}, start : {1}, promised : {1}, broken : {0}]
  \cup {OneContainer}
  \cup [streams : {<<Noise, Picture(known)>> : known \in BOOLEAN}, packets : Packets(1), start : {0}, promised : 0 .. 1, broken : 0 .. 1]

\* Formats of two coded sizes, one of them with two display areas.
TheFormats ==
  {[coded |-> "small", width |-> 2, height |-> 2], [coded |-> "large", width |-> 4, height |-> 2],
   [coded |-> "large", width |-> 3, height |-> 2]}

(***************************************************************************)
(* One of them.                                                            *)
(***************************************************************************)
PartsInit ==
  /\ part \in Parts
  /\ Init /\ (part = "loader" \/ (loader = NoBatch /\ visit_order = VisitOrder(NoBatch)))
  /\ AudioInit /\ (part = "audio" \/ (stream = OneStream /\ video = Gaps /\ mono /\ sample_rate = 2))
  /\ ArrayInit /\ CallInit /\ RegistryInit /\ ModulesInit /\ WorkspaceInit
  /\ ClipInit /\ (part = "clips" \/ (dataset = OneDataset /\ duration = 3 /\ frame = [h |-> 4, w |-> 7]))
  /\ (part = "group" \/ (machine = OneMachine /\ env = Default /\ end_bound = "fast")) /\ GroupInit
  /\ (part = "index" \/ container = OneContainer) /\ IndexInit
  /\ KernelsInit /\ SurfacesInit

\* The turn of a part: the others stay.
Turn(p) ==
  /\ part = p /\ UNCHANGED part
  /\ IF p = "loader" THEN TRUE ELSE UNCHANGED vars
  /\ IF p = "audio" THEN TRUE ELSE UNCHANGED audioVars
  /\ IF p = "arrays" THEN TRUE ELSE UNCHANGED arrayVars
  /\ IF p = "calls" THEN TRUE ELSE UNCHANGED callVars
  /\ IF p = "registry" THEN TRUE ELSE UNCHANGED registryVars
  /\ IF p = "modules" THEN TRUE ELSE UNCHANGED moduleVars
  /\ IF p = "workspace" THEN TRUE ELSE UNCHANGED workspaceVars
  /\ IF p = "clips" THEN TRUE ELSE UNCHANGED clipVars
  /\ IF p = "group" THEN TRUE ELSE UNCHANGED groupVars
  /\ IF p = "index" THEN TRUE ELSE UNCHANGED indexVars
  /\ IF p = "kernels" THEN TRUE ELSE UNCHANGED kernelVars
  /\ IF p = "surfaces" THEN TRUE ELSE UNCHANGED surfaceVars

PartsNext ==
  \/ Turn("loader") /\ Next
  \/ Turn("audio") /\ AudioNext
  \/ Turn("arrays") /\ ArrayNext
  \/ Turn("calls") /\ CallNext
  \/ Turn("registry") /\ RegistryNext
  \/ Turn("modules") /\ ModulesNext
  \/ Turn("workspace") /\ WorkspaceNext
  \/ Turn("clips") /\ ClipNext
  \/ Turn("group") /\ GroupNext
  \/ Turn("index") /\ IndexNext
  \/ Turn("kernels") /\ KernelsNext
  \/ Turn("surfaces") /\ SurfacesNext

Symmetry == Permutations(Arrays)
=============================================================================
