---------------------------- MODULE SpscTaskQueue ----------------------------
(***************************************************************************)
(* SpscTaskQueue (src/src/runtime/thread_pool.cc): the lock-free queue that *)
(* takes tasks from the master thread to one worker, which sleeps on a      *)
(* condition variable when there is none.                                   *)
(*                                                                         *)
(* Each access to an atomic, to the ring or to the mutex is a step.  The    *)
(* acquire and release pairs of the code give the order of the steps of one *)
(* thread as the other sees them; spinning changes nothing and is not a     *)
(* step.  The master is the thread that owns the pool: it pushes, and in    *)
(* the destructor of the pool it kills the queue and joins the worker.      *)
(***************************************************************************)
EXTENDS Integers

CONSTANTS
  RingSize,  \* kRingSize, 2 in the code
  MaxTasks   \* bound: tasks the master pushes

\* pending_ is an int8_t.
ASSUME QueueAssumption == RingSize \in 2 .. 128 /\ MaxTasks \in Nat

VARIABLES
  buffer, head, tail,  \* the ring; slots are 0 .. RingSize - 1
  pending, exit_now,   \* atomic<int8_t>, atomic<bool>
  mutex,               \* who holds mutex_
  master_pc, worker_pc,            \* next step of the master and of the worker
  pushed,              \* task Push is working on, or did last; task n is the n-th
  output               \* the task Pop returned last

ringVars == <<buffer, head, tail>>
spscVars == <<ringVars, pending, exit_now, mutex, master_pc, worker_pc, pushed, output>>

Slots == 0 .. RingSize - 1
NoTask == 0
\* (i + 1) % kRingSize
After(i) == IF i + 1 = RingSize THEN 0 ELSE i + 1

QueueInit ==
  /\ buffer = [i \in Slots |-> NoTask] /\ head = 0 /\ tail = 0
  /\ pending = 0 /\ exit_now = FALSE /\ mutex = "free"
  /\ master_pc = "idle" /\ worker_pc = "running"
  /\ pushed = 0 /\ output = NoTask

Producer(pc, next) == master_pc = pc /\ master_pc' = next /\ UNCHANGED <<worker_pc, output>>
Consumer(pc, next) == worker_pc = pc /\ worker_pc' = next /\ UNCHANGED <<master_pc, pushed>>

----------------------------------------------------------------------------
(* Push and SignalForKill *)

Push ==
  /\ Producer("idle", "enqueue") /\ pushed < MaxTasks
  /\ pushed' = pushed + 1
  /\ UNCHANGED <<ringVars, pending, exit_now, mutex>>

\* Slip: the ring is filled to the last slot.
EnqueueWhenFull ==
  /\ Producer("enqueue", "publish") /\ ~exit_now
  /\ buffer' = [buffer EXCEPT ![tail] = pushed]
  /\ UNCHANGED <<head, tail, pending, exit_now, mutex, pushed>>

\* Enqueue finds room and writes the task; until then Push spins.
Enqueue ==
  /\ Producer("enqueue", "publish") /\ ~exit_now
  /\ After(tail) # head
  /\ buffer' = [buffer EXCEPT ![tail] = pushed]
  /\ UNCHANGED <<head, tail, pending, exit_now, mutex, pushed>>

Publish ==
  /\ Producer("publish", "add")
  /\ tail' = After(tail)
  /\ UNCHANGED <<buffer, head, pending, exit_now, mutex, pushed>>

\* Slip: the worker is woken for the second task only.
AddPendingLate ==
  /\ Producer("add", IF pending = 0 THEN "notify" ELSE "idle")
  /\ pending' = pending + 1
  /\ UNCHANGED <<ringVars, exit_now, mutex, pushed>>

\* if (pending_.fetch_add(1) == -1)
AddPending ==
  /\ Producer("add", IF pending = -1 THEN "notify" ELSE "idle")
  /\ pending' = pending + 1
  /\ UNCHANGED <<ringVars, exit_now, mutex, pushed>>

\* notify_one under the mutex wakes the worker if it waits.
Notify ==
  /\ master_pc = "notify" /\ master_pc' = "idle"
  /\ mutex = "free"
  /\ worker_pc' = IF worker_pc = "waiting" THEN "wake" ELSE worker_pc
  /\ UNCHANGED <<ringVars, pending, exit_now, mutex, pushed, output>>

SignalForKill ==
  /\ Producer("idle", "kill") /\ mutex = "free"
  /\ mutex' = "master" /\ exit_now' = TRUE
  /\ UNCHANGED <<ringVars, pending, pushed>>

NotifyAll ==
  /\ master_pc = "kill" /\ master_pc' = "join"
  /\ worker_pc' = IF worker_pc = "waiting" THEN "wake" ELSE worker_pc
  /\ mutex' = "free"
  /\ UNCHANGED <<ringVars, pending, exit_now, pushed, output>>

JoinWorker ==
  /\ Producer("join", "joined") /\ worker_pc = "exited"
  /\ UNCHANGED <<ringVars, pending, exit_now, mutex, pushed>>

----------------------------------------------------------------------------
(* Pop, called by RunWorker between two tasks *)

\* Slip: the worker does not wait for the task it has counted.
SubPendingNoWait ==
  /\ Consumer("running", IF pending = -1 THEN "wait" ELSE "check")
  /\ pending' = pending - 1
  /\ UNCHANGED <<ringVars, exit_now, mutex, output>>

\* if (pending_.fetch_sub(1) == 0), after spinning for as long as it may.
SubPending ==
  /\ Consumer("running", IF pending = 0 THEN "wait" ELSE "check")
  /\ pending' = pending - 1
  /\ UNCHANGED <<ringVars, exit_now, mutex, output>>

\* Slip: the worker looks before it takes the mutex.
WaitEnterUnlocked ==
  /\ Consumer("wait", IF pending >= 0 \/ exit_now THEN "check" ELSE "sleep")
  /\ UNCHANGED <<ringVars, pending, exit_now, mutex, output>>

\* cv_.wait takes the mutex, looks at its condition ...
WaitEnter ==
  /\ Consumer("wait", IF pending >= 0 \/ exit_now THEN "check" ELSE "sleep")
  /\ mutex = "free"
  /\ mutex' = IF pending >= 0 \/ exit_now THEN "free" ELSE "worker"
  /\ UNCHANGED <<ringVars, pending, exit_now, output>>

\* ... and, if it is false, releases the mutex as it falls asleep.
Sleep ==
  /\ Consumer("sleep", "waiting")
  /\ mutex' = "free"
  /\ UNCHANGED <<ringVars, pending, exit_now, output>>

\* A condition variable may wake a thread nobody notified.
SpuriousWake ==
  /\ Consumer("waiting", "wake")
  /\ UNCHANGED <<ringVars, pending, exit_now, mutex, output>>

\* Woken: the same test again.
Wake ==
  /\ Consumer("wake", "wait")
  /\ UNCHANGED <<ringVars, pending, exit_now, mutex, output>>

CheckExit ==
  /\ Consumer("check", IF exit_now THEN "exited" ELSE "take")
  /\ UNCHANGED <<ringVars, pending, exit_now, mutex, output>>

\* CHECK(tail_ != head), then the task is copied out ...
Take ==
  /\ Consumer("take", "release") /\ tail # head
  /\ output' = buffer[head]
  /\ UNCHANGED <<ringVars, pending, exit_now, mutex>>

\* ... and its slot is free again.
Release ==
  /\ Consumer("release", "running")
  /\ head' = After(head)
  /\ UNCHANGED <<buffer, tail, pending, exit_now, mutex, output>>

QueueMaster ==
  \/ Enqueue \/ Publish \/ AddPending \/ Notify \/ NotifyAll \/ JoinWorker

QueueWorker ==
  \/ SubPending \/ WaitEnter \/ Sleep \/ Wake \/ CheckExit \/ Take \/ Release

QueueDone == master_pc = "joined" /\ UNCHANGED spscVars

QueueNext == QueueMaster \/ QueueWorker \/ Push \/ SignalForKill \/ SpuriousWake \/ QueueDone

QueueSpec == QueueInit /\ [][QueueNext]_spscVars

\* Both threads are scheduled.  The master need not push or end, and no thread
\* can count on waking without a notification.
FairQueueSpec == QueueSpec /\ WF_spscVars(QueueMaster) /\ WF_spscVars(QueueWorker)

----------------------------------------------------------------------------
(* Properties *)

\* No variable leaves its type; pending_, an int8_t, counts at most the tasks of
\* the ring, and one less than none when the worker waits.
QueueTypeOK ==
  /\ buffer \in [Slots -> 0 .. MaxTasks] /\ head \in Slots /\ tail \in Slots
  /\ pending \in -1 .. RingSize - 1 /\ exit_now \in BOOLEAN
  /\ mutex \in {"free", "master", "worker"}
  /\ master_pc \in {"idle", "enqueue", "publish", "add", "notify", "kill", "join", "joined"}
  /\ worker_pc \in {"running", "wait", "sleep", "waiting", "wake", "check", "take", "release", "exited"}
  /\ pushed \in 0 .. MaxTasks /\ output \in 0 .. MaxTasks

\* CHECK(tail_.load(std::memory_order_acquire) != head): a worker that got past
\* pending_ finds a task, however its decrement and the master's increment fell.
NeverEmpty == worker_pc = "take" => tail # head

\* A worker that is behind catches up with the master, whose pushes are bounded, unless
\* the pool is destroyed: every task is taken, no wakeup is lost.
TasksAreTaken == pushed > output ~> pushed = output \/ exit_now

\* The destructor gets the worker to exit, wherever it is.
KillJoins == exit_now ~> (master_pc = "joined")

\* The queue hands tasks over as TaskHandover says: in order, each once.
Handover == INSTANCE TaskHandover WITH
  Capacity <- RingSize - 1,
  pushed <- IF master_pc \in {"enqueue", "publish"} THEN pushed - 1 ELSE pushed,
  taken <- output,
  killed <- exit_now,
  gone <- worker_pc = "exited"
ImplementsHandover == Handover!Spec
=============================================================================
