------------------------------ MODULE MCThreads ------------------------------
(* The parts whose own threads meet, in one state space for TLC: in each
   behaviour one of them, chosen at the start, runs, and the others stay as they
   were made.  The .cfg file gives their bounds.  They share nothing that
   changes: the states are those of one after another, not their product. *)
EXTENDS ThreadedDecoder, SpscTaskQueue, ThreadPool

VARIABLE part

ThreadsInit ==
  /\ part \in {"decoder", "queue", "pool"}
  /\ Init /\ QueueInit
  /\ PoolInit /\ (part = "pool" \/ num_workers_used = NumWorkers)

\* The turn of a part: the others stay.
Turn(p) ==
  /\ part = p /\ UNCHANGED part
  /\ IF p = "decoder" THEN TRUE ELSE UNCHANGED vars
  /\ IF p = "queue" THEN TRUE ELSE UNCHANGED spscVars
  /\ IF p = "pool" THEN TRUE ELSE UNCHANGED poolVars

ThreadsNext ==
  \/ Turn("decoder") /\ Next
  \/ Turn("queue") /\ QueueNext
  \/ Turn("pool") /\ PoolNext

allVars == <<part, vars, spscVars, poolVars>>

\* Thread 0 is the one that calls: the reader, or the master.  The others are the
\* workers; the decoder and the queue have one.
Runs(t) ==
  \/ Turn("decoder") /\ (IF t = 0 THEN ReaderStep ELSE t = 1 /\ WorkerStep)
  \/ Turn("queue") /\ (IF t = 0 THEN QueueMaster ELSE t = 1 /\ QueueWorker)
  \/ Turn("pool") /\ (IF t = 0 THEN PoolMaster ELSE PoolWorker(t))

\* The fairness of FairSpec, FairQueueSpec and FairPoolSpec: a behaviour has only one part.
FairThreadsSpec == ThreadsInit /\ [][ThreadsNext]_allVars /\ \A t \in Threads : WF_allVars(Runs(t))
=============================================================================
