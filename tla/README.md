# A TLA+ development of peli

peli reads videos: a C++ core around FFmpeg (and NVDEC), a small runtime of
arrays, thread pool and function registry, and a Python package on top. This
directory holds TLA+ modules translated from that code, the TLC configurations
that check them on small instances, and proofs that TLAPS checks.

## 1. The system

| component | state it keeps | operations | what is hard | what makes it correct |
|---|---|---|---|---|
| `FFMPEGThreadedDecoder` (`src/src/video/ffmpeg/threaded_decoder.cc`) | three blocking queues, `frame_count_`, `draining_`, `run_`, `error_status_`, the codec, one worker thread | `Start`, `Stop`, `Clear`, `Push`, `Pop`, `SuggestDiscardPTS`, `SetCodecContext`; the worker's loop | two threads over atomics and queues; shutdown; errors in the worker; the codec's delay | no wait that nothing ends; a buffer for every frame; frames in order, none of before a `Clear`; one drain per stretch |
| `VideoReader` (`src/src/video/video_reader.cc`, `src/python/peli/video_reader.py`) | the table of frames and key frames made at opening, `curr_frame_`, `overrun_`/`tmp_key_frame_`, `cached_frame_`, `failed_idx_`, `eof_` | `next`, `vr[i]`, `get_batch`, `seek`, `seek_accurate`, `skip_frames` | frames are shown in another order than they are stored; its counter mirrors a stream it does not see: inexact seeks, damaged packets, end-of-stream signals | the table tells the order of the frames; the frame given is the frame asked for; the end only at the end; `fault_tol`; every call returns |
| `ThreadPool`, `SpscTaskQueue`, barrier (`src/src/runtime/thread_pool.cc`) | a queue and a thread per worker, `num_pending_`, `has_error_`, `par_errors_`, the sync counters | `PELIBackendParallelLaunch`, `PELIBackendParallelBarrier`, the workers | lock-free queue with a sleeping consumer; a launcher reused while a worker still reports | each task once, `Launch` after all of them, failure reported, nobody passes a barrier early |
| `VideoLoader` and samplers (`src/src/video/video_loader.cc`, `src/src/sampler/`) | visit order, cursor, place in each video, `_curr`, `next_ready_`, the last batch | `Next`, `NextData`, `NextIndices`, `Reset`; `__next__`, `reset` | integer arithmetic at the ends of ranges, done twice in different ways; two counters that an error takes apart | an epoch gives each batch once; indices inside their video |
| `CUThreadedDecoder` (`src/src/video/nvcodec/`) | as the FFmpeg decoder, a bitstream filter, a parser in the driver with pictures of its own, `reorder_queue_` | the same; the launcher thread and the parser's callbacks | as above; `Push` waits for room before it brings the buffer a callback may wait for; `Clear` leaves `draining_` | nobody waits for the other; frames in order; the parser is flushed at the end |
| `NDArray`, storage pools (`src/src/runtime/ndarray.cc`, `src/src/video/storage_pool.cc`) | a counter per container, what it keeps (`manager_ctx`), the memory, arrays at rest in the pool | copy, view, reset, `DLPack` in and out, arguments and return values, recycling | owners in several languages that let go in any order; who counts what; pools that end first | usable while owned, freed with the last owner |
| C API and FFI (`src/src/runtime/c_runtime_api.cc`, `packed_func.h`, `_ffi/`) | return values of the calls in progress, temporary functions, Python's handles | `PELIFuncCall`, `PELICFuncSetReturn`, `Clear`, `MoveToCHost`, `check_call`, the `*Free` calls | ownership by a type code, kept through exceptions and nested calls in both directions | one owner for each object |
| `Registry` (`src/src/runtime/registry.cc`) | the function table | register, override, remove, get | the mutex covers the table, bodies are set and copied outside | pointers handed out stay valid |
| Modules (`src/src/runtime/module.cc`, `dso_module.cc`) | import graph, import cache, loaded libraries | load, import, look up, free | lifetimes of libraries behind functions | no circle of imports; a function can be called |
| `WorkspacePool` (`src/src/runtime/workspace_pool.cc`) | free list ordered by size, list of blocks lent | `Alloc`, `Free`, `Release` | reuse by best fit, memory that runs out in between | no block lent twice, none lost |
| `AudioReader`, `AVReader` (`src/src/audio/`, `audio_reader.py`, `av_reader.py`) | samples, padding, array, sample rate | opening, slices, frames with their audio | times in seconds against places of samples, offsets in samples and bytes, rounding at the ends | a frame comes with its audio |
| Data package (`src/python/peli/data/`) | frames, crops and clips of an item; a batch | sampling, cropping, cutting into clips, sharding | the order of a flat list that is cut by a reshape | a clip is one region of one segment |
| Threads and cores (`src/src/runtime/threading_backend.cc`) | cores by speed, what each worker is bound to, how many are used | `Configure`, `config_threadpool` | big and little cores, binding from either end, over and over | one core per worker, the best ones first |
| CUDA modules and device API (`src/src/runtime/cuda/`) | the device of each thread, a handle per device, a cache in each copy of a function | loading, calling, copying and freeing kernels, setting devices | lazy loading on the device that happens to be current, by several threads, with caches read outside the lock | a kernel runs from the handle of its device, and every handle is unloaded |
| CUDA frames and textures (`src/src/video/nvcodec/cuda_decoder_impl.cc`, `cuda_mapped_frame.cc`, `cuda_texture.cc`) | the driver's decoder, the format asked for, textures by address | `Initialize`, mapping, `GetTexture` | textures are kept by an address the driver uses again | a frame is read through a texture that fits it |
| not modelled | | | | see section 12 |

Python calls go through the FFI (`video_interface.cc`); a `VideoReader` owns one
decoder and calls it from the thread of its user. `VideoLoader` owns one
`VideoReader` per file and one sampler. The thread pool serves compiled modules
through the C backend API and shares nothing with the readers.

## 2. Plan

| # | modules | state |
|---|---|---|
| 1 | `ThreadedDecoder`, abstract `FrameStream`, `ThreadedDecoder_proofs` | modelled, checked; safety and the refinement proved |
| 2 | `VideoIndex`; `VideoReader` over its tables and over what `FrameStream` says of the decoder, abstract `VideoCursor`, `VideoReader_proofs` | modelled, checked; safety and the refinement of intact videos proved |
| 3 | `SpscTaskQueue`, abstract `TaskHandover`, `SpscTaskQueue_proofs`; `ThreadPool`, abstract `ParallelFor`, `ThreadPool_proofs`; `ThreadGroup` | modelled, checked; safety and both refinements proved |
| 4 | `VideoLoader` with the samplers | modelled, checked, proved |
| 5 | `CUThreadedDecoder`, compared with the same `FrameStream`, `CUSurfaces`, `CUThreadedDecoder_proofs` | modelled, checked; types, the absence of an embrace, the refinement, what is left of before a `Clear`, and the textures proved |
| 6 | `NDArrays`, `PackedCalls`, `Ownership_proofs` | modelled, checked, proved |
| 7 | `Registry`, `Modules`, `WorkspacePool`, `CUDAModules`, `Runtime_proofs` (with `ThreadGroup`) | modelled, checked, proved |
| 8 | `AudioReader`, `ClipDataset`, `Media_proofs` (with `VideoIndex` and `VideoLoader`) | modelled, checked, proved |
| | `MCThreads` composes `ThreadedDecoder`, `SpscTaskQueue` and `ThreadPool` for TLC (section 9); `MCParts` composes `VideoLoader`, `VideoIndex`, `ThreadGroup`, `CUSurfaces` and the modules of rows 6 to 8 (section 8) | |

Every safety property that a run checks is proved (section 10), some under conditions that sections
4 to 8 trace to the code. What is left to do is in section 12.

How the modules fit together: `VideoReader` does not contain the decoder; its
variables `out` and `signals` are what a reader sees of `FrameStream`, as
`ThreadedDecoder` is proved to implement it. It relies on the end-of-stream signals, so what
section 4 says is of a reader over the FFmpeg decoder. `CUThreadedDecoder` is compared with
`FrameStream` for the order of its frames alone: it gives no signals, it may show another picture under a
time stamp (section 7), and no module puts a `VideoReader` over it. `ThreadPool` does not contain the
ring buffers; its `queued[t]` is a `TaskHandover` with room for one task, which
`SpscTaskQueue` is proved to implement. A launch never puts a second task into a
queue before the first was taken, so room for one is enough (`LaunchWaits`).

The definitions marked "Slip" in the modules are not part of the specifications:
each is a plausible wrong form of the definition it precedes, and the property
paired with it in `PROJECT.json` is violated when it takes that definition's place.

## 3. ThreadedDecoder

| state of the module | in `threaded_decoder.cc` |
|---|---|
| `pkt_queue`, `buffer_queue`, `frame_queue` and their `_exit` | the three `dmlc::ConcurrentBlockingQueue`s and their `exit_now_` |
| `frame_count`, `draining`, `run`, `error_status` | the atomics of the same names |
| `codec` | the frames inside the `AVCodecContext` |
| `wpc`, `mode`, `item`, `signals` | the worker: next statement, decoding, draining or signalling; the output in hand |
| `cpc`, `then`, `frame` | the caller: next statement, what follows a `Stop`, the output `Pop` holds |
| `eof`, `ticket` | the reader's `eof_`, and that it pushed since its last `Pop` |
| `sent`, `segment`, `delivered`, `drained`, `clears` | history |

Each access to state that both threads touch is a step; work on private state is
folded into the step next to it. `Start` is `StartEnter`, `StartRunning` /
`StartThread` / `StartTwice`; `Push` is `PushPacket` or `PushNull`, and
`PushBuffer`; `Pop` is `PopEnter` ... `PopReturn`; `Stop` is `StopQueues`,
`StopRun`, `Join`; then `Clear`, or the end of the decoder. The worker's loop is
`WorkerLoop`, `Decode*`, `TakeBuffer`, `ProcessFrame`, `PutOutput`,
`AfterCount`, `CountOutput`, and for the null packet `StartDraining`,
`DrainFrame`, `DrainEnds`, `StopDraining`; an exception is `RecordError` and
`UnblockConsumers`. The codec may keep any number of frames back
(`DecodeNothing`), refuse a packet, or fail (`DecodeFails`, `FilterFails`).

Taken for granted: a packet holds at most one frame, which is so for video; the
atomics are sequentially consistent, as their default order is; the caller is one
thread that pushes before each `Pop`, as `VideoReader` does, and pushes one null
packet at the end of the file.

In the run `threads` (2 packets and one null packet per stretch, 1 clear, 2 signals,
0.25 million states):

* `BufferForEveryFrame`: the worker never waits for a buffer no `Push` will bring.
* `PopNeverStarves`: a `Pop` that waits has an output coming, through every drain, clear
  and failure. This is the reason for the 128 end-of-stream signals.
* `CallsReturn` (liveness): a `Pop` that waits returns, with an output or because the
  worker failed, and `Stop` joins a worker wherever it was.
* `CountTracksQueue`: `frame_count_` is the length of the queue up to the updates
  under way, -1 included.
* `NeverDrainsTwice`: the CHECK of `Push` on a second null packet never fires.
* `ImplementsFrameStream`: frames come in order, each once, none of before a
  `Clear`, signals only after them, and a frame is lost only by a decoder that failed.
  `FrameStream` has two sets, of packets waiting to be decoded and of packets whose frames are
  to come; the first of each is the next, so an overtaking shows as a step it does not have.

Run `decoder_restart` (finding): the worker fails between the two loads of
`Start`, which then replaces a thread that was not joined; the process ends.

Two packets are enough for one in the codec with one in the queue or in the
worker's hands, and for a frame to be overtaken; one clear is enough for what is
left of one stretch to meet the next. Only equality with the number of signals
matters, so 2 stand for 128. `MaxSignals <= NumSignals` is a condition on the caller:
a reader that takes one signal more may wait for ever. `VideoReader` clears at each
of its rewindings and stays below it, except in `SkipFramesImpl` when more frames
in a row are missing than there are signals (section 4).

Fairness (`FairSpec`): the operating system schedules both threads, so the reader
goes on inside a call and the worker goes on whenever its queue lets it; the
caller need not make a call.

Proved, for any number of packets, signals and clears: `TypeOK`,
`BufferForEveryFrame`, `CountTracksQueue`, `NeverDrainsTwice`, and
`PopNeverStarves` if `MaxSignals <= NumSignals`. None is inductive. `IInv` adds
where the two threads can be together (`Control`), that a new worker starts from
nothing (`Fresh`), the count of buffers against packets in every place a packet
can be (`Buffers`), the worker's phases (`Phases`), that the null packet is last
(`NullIsLast`), that a reader about to wait has an output outstanding (`Tickets`),
and that signals are the last outputs (`SignalsAreLast`).

Proved too, from the same assumptions: the decoder implements `FrameStream` (`StreamTheorem`). A packet
goes through five places, from `pkt_queue_` over the codec, the worker's hands and `frame_queue_` to
the hands of `Pop`; `Ordered` says that whatever is in a later place was pushed before
whatever is in an earlier one (`Places`), that the queues and the codec are in the order of pushing,
that the null packet is behind all others, and that behind a signal there is no frame in any place
(`AfterSignal`). Each step then takes the first of its place to the next place, which is a
`Decode`, a `Deliver`, an `EndSignal` or nothing. The `Reset` is the entry of `Stop`; what it leaves in the places is
out of the stream from then on, and `Clear` and the new queues of `Start` empty them before the next worker begins.

## 4. VideoReader

The module's variables have the names of the members of `VideoReader`
(`curr_frame`, `overrun`, `tmp_key_frame`, `cached_frame`, `failed_idx`), and of
the locals that live through the loops of `SeekAccurate`, `SkipFramesImpl`,
`NextFrameImpl` and `GetBatch` (`pos`, `num`, `rewind_offset`, `signal`, `indices`,
`got`). `out`, `signals` and `standins` are the demuxer and the decoder as one
stream: the frames of the packets from the last `av_seek_frame` on, then
`NumSignals` signals, then nothing. `file` says where the key frames are, what is
stored out of order, which packets cannot be decoded, and whether `av_seek_frame`
may fail. `cursor`, `want`, `last_want` and `recovered` are history.

What the constructor leaves, `frame_ts_` and `key_indices_`, is `VideoIndex` (section 8).
`Seek`, `LocateKeyframe` and `SeekAccurate` are `SeekStart`, `SeekKey`,
`KeyFrameFound` / `OtherFrameFound` / `NoFrameFound` (what `CheckKeyFrame` finds)
and `SeekBack`; `SkipFramesImpl` is `SkipOne`, `SkipEnds`;
`NextFrameImpl` is `NextOverrun` ... `NextGivesUp`, with `NextCached` for an earlier
frame given instead and `NextRewinds` for going back; `GetBatch` is `Batch*`. The
calls of the Python class are `Call*`; `vr[i]` is `seek_accurate(i)` and `next()`.

Taken for granted: a backward `av_seek_frame` finds the key frame at or before
the position; a forward one need not (`ExactSeek = FALSE`: any key frame or the end);
the leading frames of an open GOP are dropped after a seek to its key frame.

| run | videos | shows |
|---|---|---|
| `reader` | all videos of 5 frames: closed-GOP ones, the same with inexact forward seeks, and damaged ones that are iterated over with `fault_tol` 2 | `ImplementsCursor`: `next`, `vr[i]`, `get_batch`, `skip_frames` and seeks to key frames together are a cursor, and a call gives all it was asked for; `FaultTolIsALimit`, `IterationIsComplete` |
| `reader_damaged` | all videos of 3 frames with any packets undecodable, seeks inexact or failing | `CallsReturn` (liveness); `EndOnlyAtEnd` where seeks do not fail; types |
| `reader_overrun` | finding | `seek_accurate(k)`, `seek_accurate(k + 1)`, `next()` gives frame k |
| `reader_open_gop` | finding | `vr[i]` gives a frame of the group of pictures before |

Five frames hold two key frames with a frame on either side of each, what every
branch of `SeekAccurate` needs; three do where damage multiplies the states, and
all placements of key frames and damage are tried. In both passing runs there are
at least as many signals as frames, as in the code unless 128 frames in a row are
undecodable: with fewer, `SkipFramesImpl`, which counts signals as frames, spins
for ever. The findings need one signal, as nothing counts them there. `RewindMax` is 1
or 2 for 16: what matters is one round less and one more. Random access by inexact
seeks is checked without `skip_frames` and `seek`, which promise nothing there. With `fault_tol`, `recovered`
counts the frames replaced by an earlier one in an iteration. A rewinding in
`NextFrameImpl` may also make `SeekAccurate` return an earlier frame without
adding to `failed_idx_` when random access is mixed in, so the limit is
checked for iteration only.

Fairness: a call runs until it returns (`WF_vars(Continue)`); calls are not fair.

Proved for videos of any length with key frames anywhere, any number of signals and
any `RewindMax`: `TypeOK` and `EndOnlyAtEnd` of all videos; `IterationIsComplete`, `FaultTolIsALimit` and
`ImplementsCursor` where the code promises them (`Played`): `av_seek_frame` does not fail and
groups of pictures are closed; a damaged video is read in order by `next`; an intact one in any
way, but that `skip_frames` and seeks to key frames are used only where `av_seek_frame` is exact,
and that no `seek` or `seek_accurate` is left without a read (the finding `reader_overrun`). These
are the conditions of the runs, without the bound on signals.

None of it is inductive, and the argument has layers. `ReaderInv` adds to the types what
the reader keeps: the key frame of an `overrun_`, the shape of a batch under way, that a seek is at the
key frame it looked for. `CallerInv` says where the caller will be after what is under
way, and `NotAhead`, place by place, that the reader is never ahead of it, but by one frame, for which it
keeps the key frame in between; `EndOnlyAtEnd` follows. For an intact video `Exact` says that
between calls the stream is where the cursor is, and at each place of the loops how far it has to
go from where it is. For a damaged one read in order `InOrder` says that, until something is raised, the
stream is not behind the caller, so every frame replaced was counted in `failed_idx_` before,
and that the reader rewinds only if nothing at all can be decoded. `CursorTheorem` maps each step to one
of `VideoCursor` or to none: `NextOverrun`, `NextPopped`, `NextEmpty` and `BatchCopy` are its `Deliver`,
`SkipEnds` and `BatchDone` its `Finish`; the loops are stutters, and the replacements cannot happen.

The liveness property `CallsReturn` stays with TLC.

## 5. SpscTaskQueue and ThreadPool

`SpscTaskQueue` has the ring (`buffer`, `head`, `tail`), `pending_`, `exit_now_`,
the mutex and the place of both threads. `Push` is `Enqueue` (the slot), `Publish`
(`tail_`), `AddPending`, `Notify`; `Pop` is `SubPending`, `WaitEnter`, `Sleep`, `Wake`
or `SpuriousWake`, `CheckExit`, `Take`, `Release`; the destructor is `SignalForKill`,
`NotifyAll`, `JoinWorker`. The spinning of `Pop` before it subtracts only reads and is left out.
Memory is sequentially consistent, so neither the runs nor the proofs say anything
of the acquire and release annotations.

In the run `threads` (ring of 3, 6 tasks: it wraps around twice and is full and empty in
between): `NeverEmpty` is the CHECK of `Pop`; `ImplementsHandover`; `TasksAreTaken` (a worker that is behind
catches up: no wakeup is lost) and `KillJoins` are liveness, with both threads scheduled and no fairness for
spurious wakeups.

Proved for any ring of 2 to 128 slots and any number of tasks: `QueueTypeOK` (`pending_` stays in an `int8_t`),
`NeverEmpty`, and that the queue implements `TaskHandover`. The invariant says that
`pending` is the tasks added less those subtracted, a worker asleep accounting for
the -1 (`CountInv`), that the slots between `head` and `tail` hold the
tasks pushed and not taken, in order (`RingInv`), and what a kill leaves
(`ExitInv`).

`ThreadPool` has the launcher (`num_task`, `num_pending`, `has_error`, `par_size` and
`par_errors` for `par_errors_`, `counters` for the size of what `sync_counter_` points
to), a place for each thread, and the locals of the barrier's loop. `Launch` is
`Launch`, `PushTask`, `RunTaskZero`, `WaitForJobs`, `CheckErrors`; a worker is
`TakeTask` and the task; a task is `EnterBarrier`, `SeeTask` (one turn of the loop
over the counters), `LeaveBarrier`, and at its end `SignalJobFinish`, or
`SignalJobError`, `StoreError`, `FlagError`. All tasks of a launch enter the same
number of barriers and fail only behind the last, as a barrier needs to be of use.

In the run `threads` (2 launches, each of 2 or of all tasks, with 2 or 4 workers in use, up to 2
barriers, the master's task may fail): `BarrierHolds`, `LaunchWaits`,
`ErrorsReported`, `ImplementsParallelFor`, and `LaunchReturns`, for which every thread is
scheduled and tasks come to their end. Two launches are what the reuse of the
launcher takes, two barriers what the reuse of a counter takes. Deadlock is
checked: the pool may always be configured again. The sizes are 2 and 4, not 3, and
no launch has one task, because the code leaves defined behaviour there:
`par_errors_` gets `num_task + 1` entries and guards the allocation of
`num_task` counters, so a launch of one task more than the largest before uses a counter
that was not allocated; and a master that runs a single task and fails reports
`tsk.task_id`, which the loop never set. Both lead to the step "undefined". With no worker in
use a launch waits for ever: `little_count_` is 0 on a machine whose cores are alike, so
`config_threadpool` in the mode for little cores leaves none, and the proofs assume that it is not asked for there.

Run `pool_lost_error` (finding): a worker's failure is counted before it is
stored; `Launch` returns 0.

Proved for any number of workers, any launches, sizes and failing tasks: `PoolTypeOK` (`num_pending` never below none, but for a launch of no task),
`BarrierHolds`, `LaunchWaits`; `ErrorsReported`, and that the pool implements `ParallelFor`, if only the master's task can fail
(`FailingTasks \subseteq {0}`; otherwise the finding refutes it). The invariant: `num_pending` is
the tasks of the launch less those ended (`Counted`), so zero means that no worker
holds a task (`WorkersOwe`, `MasterKnows`) and the counters `Launch` clears are read
by nobody; a counter is the number of barriers its task entered
(`CountersFollow`), and what a task has seen of the others stays true
(`SeenStays`), so at the end of its loop all have entered. A step of the pool is one of
`ParallelFor` or none, with the same tasks ended, entered and left.

`ThreadGroup` is where the number of workers in use and their cores come from: `Configure`, as often and in
whatever mode it is asked for, on all machines of up to three cores of three speeds and of four of two (a part
of the run `parts`). `WorkersOnTheirCores`: bound workers never share a core, and those in use have the
best cores of the end that was asked for. Proved for any machine (`CoresTheorem`): the order has every
core once and worker `w` is at its place `w` from one end, so any other core comes
later. `hardware_concurrency()` is taken to be known: for 0 the constructor reads the first and the last of no cores.
A number of workers asked for that is 0 or negative is a number in use that is not positive.

## 6. VideoLoader

`visit_order` and `visit_idx` are the samplers' (`curr_` in two of them), `current` is
the place in each video of the file-order sampler's records, `len` and `curr` are `_len` and
`_curr` of the Python object. `VideoBatches` is the loop of the sequential and the random
sampler, `NumBatches` the division of the file-order sampler, `NextSamples` and `Advance` are
`Next`, `ResetSampler` is `Reset` with any permutation for `std::random_shuffle`. `__next__` is
`NextBatch`, `NextRaises` when `get_batch` raises, and `NextEmpty` when the sampler has
nothing left although `_curr` is below `_len`. `next_ready_` never differs from 0 between two
calls of the Python class and is left out.

It is the part "loader" of the run `parts` (section 8): all ways to cut two videos of 2
to 8 and 2 or 5 frames into batches of 1 to 3, interval 0 or 1, skip -1 (clamped) to 2,
each shuffle (of these, the ones that give few batches, as a shuffle of many has
too many outcomes), any number of epochs,
broken off anywhere, with a video whose frames raise. `EpochIsComplete`: every batch given is whole
within its range (the CHECK of the file-order sampler, whose number of batches and
place of each come from different formulas), is given once, and an epoch gives all of
them but those that raised, also after one that was left half way (`GivenOnce`); a caller
who goes on after an error is given an empty batch only for each that raised (`EmptyForRaised`).

It shows two things worth knowing. The samplers do not agree: a batch that ends
exactly at the end of the range is given by the file-order sampler and left out by
the others (`b + bs_length < end`), and the range itself leaves out the last frame.
And after an error in `get_batch` the sampler is ahead of `_curr`, so that the
epoch ends in an empty batch instead of StopIteration.

Proved for any videos, batches, intervals, skips and shuffles (`EpochTheorem`). Numbers first: the multiples of
`bs_skip` that fit are those up to a quotient, which is the number of batches the samplers' loop lists and
the one the file-order sampler computes (`BatchesOfVideo`, `VisitsOfVideo`). So a visit order pairs
off with the batches of all videos, or names each video as often as it has batches, and a shuffle leaves
that alone (`Complete`). In file order the n-th visit to a video gives its n-th batch, so that each place of the
visit order has a batch of its own in every sampler (`CompleteTaken`). The invariant: a video's record is
behind the batches taken from it; what was given or lost are the batches of the places passed so far, each
once; `_curr` and the batches lost add up to these places and the empty batches given.

## 7. CUThreadedDecoder

The granularity is that of `ThreadedDecoder`, and the members keep their names:
`pkt_queue` (the packets), `frame_queue` (the buffers to fill), `reorder_queue` (the frames to
pop), `frame_count`, `draining`, `run`, `error_status`, `discard_pts`. `parser` and `shown`
are the pictures inside the driver, kept back or about to be displayed by the call
under way. `Push` is `PushEnter`, `PushPacket` or `PushSpins` (the loop that waits for room in
`pkt_queue_`), `PushBuffer`, `PushCount`, or `PushNullDropped` when `draining_` is set. The launcher is `WorkerLoop`,
`PopPacket`, `ParsePacket` or `ParseEnd`, `ParseFails`, `ParseReturns`, and inside the parser the display
callback: `DisplayEnter`, `TakeBuffer`, `PutFrame`, `FillFails`. The parser and the
bitstream filter are external: any number of pictures may be kept back, a packet may
give none, and the end of the stream gives all that is left. Surfaces and the frame
mapping are part of the callbacks.

`Restart` is what both outcomes of `Start` have in common: new queues and a new parser, which may fail
(`StartFails`) or not (`StartThread`). Neither `Start` nor `Clear` flushes `bsf_ctx_`. Of the filters, only
`mpeg4_unpack_bframes` (`Unpacks`) keeps anything: of a packet with two pictures it gives the first and keeps the
second for the next packet, whose time stamp it then gets. A picture is therefore named by
the packet whose time stamp it has; `bframe` is what the filter keeps, and whether it is of before
the last `Clear`; `old` are the time stamps since then that show such a picture.

Run `cuda` (3 packets, 1 clear, `Unpacks`; room for one packet more than `MaxSurfaces`, which is 0,
so that `Push` waits at the second):

* `NoEmbrace`: the display callback waits, inside the driver, for a buffer that `Push`
  brings after it has waited for room; the two never wait for each other.
* `ImplementsFrameStream`: what the FFmpeg decoder promises, without the signals, of the time stamps
  of frames. A packet is fed when `Push` has found room for it.
* `OldFrames`: of the pictures of before a `Clear`, in the packets, the parser, the callbacks, `reorder_queue_`
  or the filter, none comes after it, but for one that `mpeg4_unpack_bframes` kept.
* `CallsReturn`: every call returns, but for a `Push` that waits for room when the launcher
  fails: it does not look at `run_` again.
* `FlushReachesParser`: a null packet that was queued brings out what the parser holds.

Run `cuda_bframe` (finding): `NoOldFrames`, which has no exception for the filter, is violated. The picture kept over the `Clear` of a seek is
given as that of the first packet after it.

`FlushReachesParser` speaks of null packets that were queued. `Clear` never resets `draining_`, so after a seek back from
the end the next null packet is dropped by `Push` (`PushNullDropped`), and the last frames of that stretch stay in the
parser, which no property forbids.

Fairness is that of `ThreadedDecoder`: both threads are scheduled; a `Push` that spins is not
a step of the call.

Proved for any number of packets, surfaces and clears, with and without `Unpacks`: `TypeOK`, `NoEmbrace`, `ImplementsFrameStream` and
`OldFrames`. For the first two the
invariant `BuffersSuffice` says that while the worker is well there are at least as many buffers as
packets and pictures that still need one, but for the one the reader is about to push. For the refinement, `StreamInv` says that packets, the
pictures in the parser, the one being displayed and `reorder_queue_` are in the order of pushing, and that nothing
of before a `Clear` is in any of them once there is a worker. What a picture shows is not its time stamp's but the
filter's, and `FilterInv` follows that: a picture comes into `old` only out of the filter, which is
empty of old ones from then on.

`CUSurfaces` is what the callbacks do with a picture: the hardware decoder made at the first
format of a stream, the address at which the driver shows a frame, and the registry of textures by
address. `TexturesFitFrames` is the comment of `cuda_texture.h` that an address defines a
texture: a frame is read through one with its own pitch and size, and the
texture objects that exist are those of the registry. It holds because `Initialize` refuses every
change of format and because the registry goes with its decoder. A part of the run `parts`: two addresses, two
pitches and three formats, of which two differ only in the display area, which `Initialize` does not
compare, so that every kind of change meets textures made before it. Proved for any of them (`TexturesTheorem`); the
invariant says that the decoder, if there is one, is that of the format asked for last, and that all
textures are of it. One scale method and one way to upsample chroma are used in the source, so the key of the
registry is the address. A destructor that throws ends the process and is left out.

## 8. The parts

`MCParts` puts the modules that share nothing, or that one thread uses at a time, into
one run: a behaviour chooses one part at its start and the others stay as they
were made. Its states are those of the parts one after another, not their
product, and nothing is claimed of their interaction. Deadlock is not checked there, as
parts end: audio is read, a clip is cut, memory for another array has run out. The other
constants are in `Parts.cfg`. `ThreadGroup` is described in section 5, `VideoLoader` in 6, `CUSurfaces` in 7.

### VideoIndex

Opening a video: `SetVideoStream` chooses the stream, `IndexPacket` is the loop of `IndexKeyframes` over the packets of
the file, `SortFrames` its `std::sort` by `pts` (in any order where they are equal), `MapFrames` makes `pts_frame_map`.
`IndexMatchesStream`: the table has the frames in the order in which they are shown, whatever the order in
which they are stored, with their times and their number; and a key frame's index, which counts packets, is
too small by as many as are stored behind it and shown before it. That is what `VideoReader` takes
for granted as `KeyIndices`, and the cause of the finding `reader_open_gop`. Files of up to three packets
with every choice of stream, time and key frame, equal times included, are enough for frames to be
shown out of the order of storage on both sides of a key frame.

Proved for any file (`IndexTheorem`). The invariant pairs off the entries of the table with the packets of
the stream read so far (`Listed`); sorting moves the pairs, and from the pairs the number of
entries, and of entries before a time, are counted. A stream without packets whose metadata promise frames is
opened by the code and has an empty table; nothing is claimed of reading it. Times are in ticks, as the
conversion to seconds rounds.

### NDArrays

`live`, `refs` (`ref_counter_`), `manager` (`manager_ctx`), `data` (the block `dl_tensor.data` points
into) and `blocks` are the containers; `cpp`, `py` and `tensors` the owners: variables of
C++, objects of Python, DLPack tensors. Taking the counter to zero and running the deleter are two
steps, as between them another thread may do anything. `Create`, `Share`, `Empty`, `Copy`, `Reset`, `CreateView`,
`ReturnArray`, `TakeArgument`, `CallbackArgument`, `PELIArrayFree`, `ToDLPack`, `FromDLPack`, `Consumed` and
the deleters have the names of the code; `Acquire`, `PoolDeleter` and `FreePool` are `NDArrayPool`.

`LiveWhileOwned`: whoever owns an array can use it and its memory, in whatever order the others
let go, and what nobody owns is freed. Three arrays are a view of a view, one
tensor is exported and imported, the pool has room for one, and two owners of each kind
are enough for the last and the one before. Two constants leave out what the code does not
define. `ReaderFirst = FALSE`: a reader, with its pool, is freed after its frames;
otherwise the deleter of a frame lent out asks a pool that is gone, since `~NDArrayPool` tells
only the arrays in its queue. `CallbackCodes` without `NDARRAY_CONTAINER`: a container passed to
a Python callback becomes an object that gives back a reference nobody took.

Proved under these two conditions for any number of arrays, tensors and owners
(`LiveTheorem`). The invariant: the counter is the number of owners, of five kinds
(`Counted`); a view has what it is a view of (`Parents`); views of views end at an array that is
none, so that no set of them keeps itself (`Grounded`); the pool has the only reference to
its arrays (`Pooled`); memory is that of the live arrays (`Backed`).

### PackedCalls

The stack of calls in progress, each with its caller, its return value and the
temporary functions Python made for its arguments; `heap`, the objects that exist with their kind;
`held`, those a Python object will free. `OwnedOnce`: each object has exactly one owner,
which knows its kind, whatever calls return, throw or overwrite. Checked with three
objects and three nested calls (Python, C++, Python), which holds a callback that fails
below another. `ReturnCodes` is without `kBytes`: `PELIRetValue::Clear` has no case for it, so a function
that returns bytes leaks them.

Proved for calls nested to any depth (`OwnedTheorem`): what calls and Python have is
disjoint (`Apart`), and together it is what is allocated (`AllHad`).

### Registry and Modules

`Registry` has concurrent threads: registration finds or makes the entry under the mutex and
sets the body outside, a lookup copies a body that may be half set, which gives `Torn`, or not set yet. `PointersStayValid`:
a pointer a thread or compiled code keeps names an entry that exists, however names are overridden
and removed. Proved for any number of threads (`PointersTheorem`): no step deletes an entry.
That a copy may be torn is the code's, and no property says otherwise.

`Modules` has the import graph, the import cache and the libraries. `ImportsAcyclic`: no module imports
itself over others, so none keeps itself loaded; proved for any graph (`AcyclicTheorem`, by the
sets closed under imports rather than by paths). `FunctionsStayValid`: a function someone has can be
called: its library is loaded, the module the library takes for its own exists, and cached
names are what a lookup would give. Checked with three modules of three libraries, two of which
export the same symbol, two imports each; `Twice = FALSE`, since a library loaded twice takes the
second module for its own and keeps it when that is freed. Proved under the same condition for any number of
modules, libraries and imports (`FunctionsTheorem`); the invariant `CallInv` adds that a module's imports and what it caches
exist as long as it does, and that a name cached is the one a look-up through the imports would find first.

### WorkspacePool

Lists of entries and the device's blocks; `Alloc` is `AllocNew`, `AllocFit` or `AllocResized`, each of which
may meet a device without memory. `BlocksListedOnce`: every block of the device is in one place
of one list, and the free list is ordered by size, on which the search relies. Four blocks and
four sizes (0, one page, less than two, less than three) make the search end at either end and in the middle.
Proved for any sizes and numbers of blocks (`ListedTheorem`): removing from a list and inserting into it keep its
other entries and their order, and what is inserted goes where the search of `Alloc` expects it.

### CUDAModules

Threads that call kernels, each with its current device (`gpu`), and the driver's handles (`loaded_on`). A call
reads the device and the cache, `GetFunc` loads the module on that device under the lock, `CacheFunc` writes
`fcache_`, `Launch` launches on the thread's device; in between the other threads call, copy and free functions, and use
the device API, whose every call changes their device. `KernelsOfTheirDevice`: a kernel is launched from the
handle loaded on its device, and each loaded handle is one that the destructor will unload. Two threads, two devices
and two functions, with a handle more than devices, let two threads load for the same device at the same time.

Proved for any numbers of them (`KernelsTheorem`): `module_` names for each device the handle
loaded on it and no other is loaded; a cache has nothing but that, or nothing; and a call in progress is on
the device of its thread, of a function that is there. A `CUfunction` is taken for the handle it
was found in; memory, streams and the shape of a launch are left out.

### AudioReader

Decoding, draining, resampling, the array with its channels behind each other byte by byte, padding, slices, and
`AVReader`'s audio of a frame or batch. Times are in ticks, of which there are `Second` in a second. Every
conversion is modelled by what it may answer: the resampler makes of a frame as many samples as last as long,
either way rounded (`Resampled`); padding is a product of doubles, so a whole number of samples may be rounded
up to one more (`GetNumPaddingSamples`); and `_time_to_sample` is the `ceil` of a float32 time multiplied by the sample rate
that was given, off by at most one part in `Significand` (`Nearly`, `TimeToSample`). A `sample_rate` of -1 leaves
the stream at its own rate in C++ (`targetSampleRate`) and stays -1 in Python (`sample_rate`).

`AudioMatchesFrames`: a frame comes with what sounds from its beginning, or the end of the frame given
before it, to its end, and the array is silent until the stream begins. The places are exact up to the rounding of the times;
only what lies behind `_num_samples_per_channel`, which padding does not move, is cut off. In `parts` there is one channel; a stream from 0 at rate 2 and one from a
later time, some of whose packets may be refused; rates of 2 and 3, so that the resampler
has something to do; a video with gaps between frames and one with overlaps and an end after the audio.
`Significand = 16`, where a float32 has about 2^23, makes rounding move a frame's first and last sample in times as short as these. Two more runs are findings:

* `audio_channels`: with `mono=False` the second channel is written over the first.
* `audio_rate`: with `sample_rate=-1`, the default, times are multiplied by -1, and a frame gets the audio counted from the end of the stream.

In a batch the audio of consecutive frames is made continuous, but for frames 0 and 1: `if prev_video_idx` takes frame 0 for no
frame, so with a gap behind it the samples in between are in neither. The module has the test as it is (`BatchFrame`), and
`AudioMatchesFrames` does not forbid what follows from it.

Proved for streams and clips of any length with any times, samples of any width, any rates and any precision: `AudioMatchesFrames` once the
sample rate is not -1 and there is one channel (`AudioTheorem`), which the first two findings show to be needed; and
of any number of channels that frames are cut from the array in time, whatever `ToNDArray` made of it (`CutInTime`, `CutTheorem`). Nothing is assumed of the times of
the frames. The invariant says what is decoded (`Saved`), what the array
holds before and after padding (`Filled`), and that `prev` is the last frame given and where it ended (`Given`); that a sample of
the array is read back takes the arithmetic of its bytes (`OneView`), and `Timely` the arithmetic of `ceil`.

### ClipDataset

The frames of an item for training, validation and test, with and without slow and fast pathways; the
transforms as what they do to the region, size and order of images; the reshape into clips; and
the split of a batch. `ClipsHoldTogether`: a clip is one region, of the size asked for and inside
the frame, of the frames of one segment, in their order. `ShardsCoverBatch`: every image goes to one device. Videos of 1 to 6 frames
with clips of up to three frames are shorter and longer than what a clip needs. A crop for training is at one of the fixed
places or, without `fix_crop`, anywhere (`FixOffset`, `RandomOffset`). `VideoTenCrop` orders its images by image rather than by
crop: it is run for clips of one frame, where the two are the same; with clips of two the reshape mixes the regions, and
`ClipsHoldTogether` does not hold (`Croppings` leaves this out). A clip at the end of a video
repeats a frame instead of reaching the last one, which no property forbids. `transform=None` is not modelled: the images would go into the
reshape with their channels behind the pixels, so that what is mixed is inside an image, where the model has nothing.

Proved for any numbers of segments, frames, devices and images (`ClipsTheorem`). The lists are folds, and what the fold
computes is found by induction over its steps (`Flattened`): of parts of equal length each place of the whole
is a place of one part (`Blocks`). The invariant: the first frames and the jitter are those of frames of the video
(`Sampled`), the list holds the frames of one segment after another (`ListedBySegment`), and the images
are cut at every length into clips (`CutsInto`). `Croppings` says what a caller does: it counts the crops as the transform makes
them, takes ten crops of clips of one frame, and asks of SlowFast for at least one frame; `Sizes` that no frame
is smaller than the crops. That the shards are the batch needs neither. `DataLoader` reads `self.iter`, which nothing sets; it is not modelled.

## 9. The runs

| run | module, configuration | expected |
|---|---|---|
| `threads` | `MCThreads`, `Threads.cfg` | holds |
| `decoder_restart` | `MCThreadedDecoder`, `ThreadedDecoder_restart.cfg` | finding |
| `pool_lost_error` | `MCThreadPool`, `ThreadPool_lost_error.cfg` | finding |
| `reader` | `MCVideoReader`, `VideoReader.cfg` | holds |
| `reader_damaged` | `MCVideoReader`, `VideoReader_damaged.cfg` | holds |
| `reader_overrun` | `MCVideoReader`, `VideoReader_overrun.cfg` | finding |
| `reader_open_gop` | `MCVideoReader`, `VideoReader_open_gop.cfg` | finding |
| `cuda` | `MCCUThreadedDecoder`, `CUThreadedDecoder.cfg` | holds |
| `cuda_bframe` | `MCCUThreadedDecoder`, `CUThreadedDecoder_bframe.cfg` | finding |
| `parts` | `MCParts`, `Parts.cfg` | holds |
| `audio_channels` | `MCAudio`, `AudioReader_channels.cfg` | finding |
| `audio_rate` | `MCAudio`, `AudioReader_rate.cfg` | finding |

`threads` runs one of the decoder, the queue and the pool in each behaviour: they share nothing that
changes, so their product would show nothing more. The fairness is theirs, in their turn (`FairThreadsSpec`).

`tlc -config <configuration> <module>` repeats a run, `tlapm <module>_proofs.tla` a proof.

## 10. What is proved

| module | theorems | under |
|---|---|---|
| `ThreadedDecoder_proofs` | types, `BufferForEveryFrame`, `CountTracksQueue`, `NeverDrainsTwice`, `ImplementsFrameStream`; `PopNeverStarves` | `DecoderAssumption`; `MaxSignals <= NumSignals` for the last |
| `VideoReader_proofs` | types, `EndOnlyAtEnd`; `IterationIsComplete`, `FaultTolIsALimit`; every step is one of `VideoCursor` or none | `FilesAssumption`; `Played` for the last three, and `MaxBatch > 0` for the very last |
| `Media_proofs` | `IndexMatchesStream`; `CutInTime`; `AudioMatchesFrames`; `ClipsHoldTogether`; `EpochIsComplete` | `ContainersAssumption`; `AudioAssumption` and a sample rate other than -1; the same and one channel; `ClipsAssumption`, `Croppings`, `Sizes`; `LoadersAssumption` |
| `SpscTaskQueue_proofs` | types, `NeverEmpty`, `ImplementsHandover` | `QueueAssumption` |
| `ThreadPool_proofs` | types, `BarrierHolds`, `LaunchWaits`; `ErrorsReported`, `ImplementsParallelFor` | `PoolAssumption`; `FailingTasks \subseteq {0}` for the last two |
| `CUThreadedDecoder_proofs` | types, `NoEmbrace`, `ImplementsFrameStream`, `OldFrames`; `TexturesFitFrames` | `CudaAssumption`; `SurfacesAssumption` |
| `Ownership_proofs` | `LiveWhileOwned`; `OwnedOnce` | `ArraysAssumption`, `~ReaderFirst`, no container passed to a callback; `CallsAssumption`, no bytes returned |
| `Runtime_proofs` | `PointersStayValid`; `ImportsAcyclic`; `FunctionsStayValid`; `BlocksListedOnce`; `WorkersOnTheirCores`; `KernelsOfTheirDevice` | `RegistryAssumption`; `ModulesAssumption`; the same and `~Twice`; `WorkspaceAssumption`; `MachinesAssumption`; `KernelsAssumption` |

TLC evaluates the assumptions in every run of the module. The extra conditions are
the ones sections 3 to 8 give a reason for, and the runs have them too.

## 11. What is only checked

By TLC, on small instances: all liveness, since fairness and ENABLED are out of the prover's reach; of
`ImplementsCursor` the fairness only.

## 12. Not modelled

* CUDA contexts and image kernels (`cuda_context.cc`, `improc.cu`): a context pushed once; what a kernel computes.
* `FFMPEGFilterGraph`: one frame in, one out; it is part of `ProcessFrame`.
* Files and strings: calls of the operating system.
* The Python bridge and logging: one global name, and conversions that are DLPack's.
* `Segmenter`: empty in the repository.

Of components that are modelled in part: rotation and frame rate of `VideoReader`;
contents, shapes, copies and streams of arrays; conversions of plain values, error
texts and the Cython twin of the FFI; binary blobs of device modules, streams and memory of the device API, the global barrier's preparation; what resampled audio sounds like; the mxnet
loader with its processes that the data package may hand over to.
