----------------------------- MODULE ThreadPool -----------------------------
(***************************************************************************)
(* ThreadPool, ParallelLauncher and PELIBackendParallelBarrier              *)
(* (src/src/runtime/thread_pool.cc): one master thread and its workers run  *)
(* the tasks of a launch, task t on thread t, the master task 0.            *)
(*                                                                         *)
(* The queue of a worker is what SpscTaskQueue is shown to implement, with  *)
(* room for one task.  A task enters as many barriers as every other task   *)
(* of its launch and fails, if it does, after the last one.  "undefined"    *)
(* stands for what follows an access out of bounds.  Launch refuses, before *)
(* it changes anything, more tasks than the workers in use.                 *)
(***************************************************************************)
EXTENDS Integers, FiniteSets

CONSTANTS
  NumWorkers,   \* num_workers_: MaxConcurrency(), the master counted
  UsedCounts,   \* what ThreadGroup::Configure may answer
  Sizes,        \* num_task arguments of the callers
  FailingTasks, \* tasks that may return an error
  MaxLaunches, MaxBarriers  \* bounds: calls of Launch, barriers in a task

ASSUME PoolAssumption ==
  /\ NumWorkers \in Nat \ {0} /\ MaxLaunches \in Nat /\ MaxBarriers \in Nat
  /\ UsedCounts \subseteq 0 .. NumWorkers /\ UsedCounts # {}
  /\ Sizes \subseteq 0 .. NumWorkers /\ FailingTasks \subseteq 0 .. NumWorkers - 1

VARIABLES
  num_workers_used,
  num_task, num_pending, has_error,  \* the launcher of the master
  par_size,      \* par_errors_.size()
  par_errors,    \* tasks whose par_errors_ entry holds a message
  counters,      \* entries allocated behind sync_counter_
  sync_counter,  \* and their values
  queued,        \* queued[t]: the queue of worker t holds its task
  pc,            \* pc[t]: what thread t does next
  next,          \* i of Launch's loop
  old, look,     \* old_counter and i of the barrier thread t is in
  result,        \* what Launch returned last, and the tasks its message names
  launches, barriers,     \* launches so far, barriers in a task of this one
  entered, left, ended, failed  \* history of this launch

launcher == <<num_task, has_error, par_size, counters>>
barrierVars == <<sync_counter, old, look, entered, left>>
poolVars == <<num_workers_used, launcher, num_pending, par_errors, barrierVars, queued, pc,
          next, result, launches, barriers, ended, failed>>

Threads == 0 .. NumWorkers - 1
Workers == Threads \ {0}
Tasks == 0 .. num_task - 1

Zero == [t \in Threads |-> 0]

PoolInit ==
  /\ num_workers_used \in UsedCounts
  /\ num_task = 0 /\ num_pending = 0 /\ has_error = FALSE
  /\ par_size = 0 /\ par_errors = {} /\ counters = 0
  /\ sync_counter = Zero /\ old = Zero /\ look = Zero /\ entered = Zero /\ left = Zero
  /\ queued = [t \in Threads |-> FALSE] /\ pc = [t \in Threads |-> "idle"]
  /\ next = 0 /\ result = [code |-> 0, tasks |-> {}]
  /\ launches = 0 /\ barriers = 0 /\ ended = {} /\ failed = {}

Goes(t, from, to) == pc[t] = from /\ pc' = [pc EXCEPT ![t] = to]

----------------------------------------------------------------------------
(* The master *)

\* UpdateWorkerConfiguration
Configure ==
  /\ pc[0] = "idle" /\ num_workers_used' \in UsedCounts
  /\ UNCHANGED <<launcher, num_pending, par_errors, barrierVars, queued, pc, next,
                 result, launches, barriers, ended, failed>>

\* Slip: the counters of the launch before are kept.
LaunchOldCounters(n) ==
  LET m == IF n = 0 THEN num_workers_used ELSE n
      grow == m > par_size
  IN /\ m <= num_workers_used /\ launches < MaxLaunches
     /\ Goes(0, "idle", IF ~grow /\ counters < m THEN "undefined" ELSE "push")
     /\ num_task' = m /\ num_pending' = m /\ has_error' = FALSE
     /\ par_size' = IF grow THEN m + 1 ELSE par_size
     /\ counters' = IF grow THEN m ELSE counters
     /\ next' = 1 /\ launches' = launches + 1 /\ barriers' \in 0 .. MaxBarriers
     /\ entered' = Zero /\ left' = Zero /\ ended' = {} /\ failed' = {}
     /\ UNCHANGED <<num_workers_used, par_errors, old, look, queued, result, sync_counter>>

\* Slip: the error of the launch before is kept.
LaunchOldError(n) ==
  LET m == IF n = 0 THEN num_workers_used ELSE n
      grow == m > par_size
  IN /\ m <= num_workers_used /\ launches < MaxLaunches
     /\ Goes(0, "idle", IF ~grow /\ counters < m THEN "undefined" ELSE "push")
     /\ num_task' = m /\ num_pending' = m
     /\ par_size' = IF grow THEN m + 1 ELSE par_size
     /\ counters' = IF grow THEN m ELSE counters
     /\ sync_counter' = [t \in Threads |-> IF t < m THEN 0 ELSE sync_counter[t]]
     /\ next' = 1 /\ launches' = launches + 1 /\ barriers' \in 0 .. MaxBarriers
     /\ entered' = Zero /\ left' = Zero /\ ended' = {} /\ failed' = {}
     /\ UNCHANGED <<num_workers_used, par_errors, old, look, queued, result, has_error>>

\* Launch as far as its loop: ParallelLauncher::Init resizes par_errors_ to one
\* more than it needs, and the counters only when it resizes par_errors_.
Launch(n) ==
  LET m == IF n = 0 THEN num_workers_used ELSE n
      grow == m > par_size
  IN /\ m <= num_workers_used /\ launches < MaxLaunches
     /\ Goes(0, "idle", IF ~grow /\ counters < m THEN "undefined" ELSE "push")
     /\ num_task' = m /\ num_pending' = m /\ has_error' = FALSE
     /\ par_size' = IF grow THEN m + 1 ELSE par_size
     /\ counters' = IF grow THEN m ELSE counters
     /\ sync_counter' = [t \in Threads |-> IF t < m THEN 0 ELSE sync_counter[t]]
     /\ next' = 1 /\ launches' = launches + 1 /\ barriers' \in 0 .. MaxBarriers
     /\ entered' = Zero /\ left' = Zero /\ ended' = {} /\ failed' = {}
     /\ UNCHANGED <<num_workers_used, par_errors, old, look, queued, result>>

\* Push, for task next, once the queue has room.
PushTask ==
  /\ pc[0] = "push" /\ next < num_task /\ ~queued[next]
  /\ queued' = [queued EXCEPT ![next] = TRUE] /\ next' = next + 1
  /\ UNCHANGED <<num_workers_used, launcher, num_pending, par_errors, barrierVars, pc,
                 result, launches, barriers, ended, failed>>

RunTaskZero ==
  /\ Goes(0, "push", "run") /\ next >= num_task
  /\ UNCHANGED <<num_workers_used, launcher, num_pending, par_errors, barrierVars, queued,
                 next, result, launches, barriers, ended, failed>>

\* Slip: the master leaves one job behind.
WaitForJobsButOne ==
  /\ Goes(0, "wait", "check") /\ num_pending <= 1
  /\ UNCHANGED <<num_workers_used, launcher, num_pending, par_errors, barrierVars, queued,
                 next, result, launches, barriers, ended, failed>>

WaitForJobs ==
  /\ Goes(0, "wait", "check") /\ num_pending = 0
  /\ UNCHANGED <<num_workers_used, launcher, num_pending, par_errors, barrierVars, queued,
                 next, result, launches, barriers, ended, failed>>

\* The rest of WaitForJobs, and the return from Launch.
CheckErrors ==
  /\ Goes(0, "check", "idle")
  /\ result' = IF has_error THEN [code |-> -1, tasks |-> par_errors]
                            ELSE [code |-> 0, tasks |-> {}]
  /\ par_errors' = IF has_error THEN {} ELSE par_errors
  /\ UNCHANGED <<num_workers_used, launcher, num_pending, barrierVars, queued, next,
                 launches, barriers, ended, failed>>

----------------------------------------------------------------------------
(* Every thread of the launch *)

\* RunWorker: Pop returns the task.
TakeTask(t) ==
  /\ queued[t] /\ Goes(t, "idle", "run")
  /\ queued' = [queued EXCEPT ![t] = FALSE]
  /\ UNCHANGED <<num_workers_used, launcher, num_pending, par_errors, barrierVars, next,
                 result, launches, barriers, ended, failed>>

\* The fetch_add of PELIBackendParallelBarrier.
EnterBarrier(t) ==
  /\ left[t] < barriers
  /\ Goes(t, "run", IF t < counters THEN "look" ELSE "undefined")
  /\ old' = [old EXCEPT ![t] = sync_counter[t]] /\ look' = [look EXCEPT ![t] = 0]
  /\ sync_counter' = [sync_counter EXCEPT ![t] = @ + 1]
  /\ entered' = [entered EXCEPT ![t] = @ + 1]
  /\ UNCHANGED <<num_workers_used, launcher, num_pending, par_errors, left, queued, next,
                 result, launches, barriers, ended, failed>>

\* Slip: a task is found in the barrier when it has left the one before.
SeeTaskBefore(t) ==
  LET i == look[t]
  IN /\ pc[t] = "look" /\ i < num_task
     /\ i = t \/ sync_counter[i] >= old[t]
     /\ look' = [look EXCEPT ![t] = i + 1]
     /\ UNCHANGED <<num_workers_used, launcher, num_pending, par_errors, sync_counter, old,
                    entered, left, queued, pc, next, result, launches, barriers, ended, failed>>

\* One turn of its loop: the task looked at has entered too.
SeeTask(t) ==
  LET i == look[t]
  IN /\ pc[t] = "look" /\ i < num_task
     /\ i = t \/ sync_counter[i] > old[t]
     /\ look' = [look EXCEPT ![t] = i + 1]
     /\ UNCHANGED <<num_workers_used, launcher, num_pending, par_errors, sync_counter, old,
                    entered, left, queued, pc, next, result, launches, barriers, ended, failed>>

LeaveBarrier(t) ==
  /\ Goes(t, "look", "run") /\ look[t] >= num_task
  /\ left' = [left EXCEPT ![t] = @ + 1]
  /\ UNCHANGED <<num_workers_used, launcher, num_pending, par_errors, sync_counter, old,
                 look, entered, queued, next, result, launches, barriers, ended, failed>>

AfterJob(t) == IF t = 0 THEN "wait" ELSE "idle"

\* Slip: a job that ends in the middle of others is not counted.
SignalJobFinishLost(t) ==
  /\ left[t] = barriers /\ Goes(t, "run", AfterJob(t))
  /\ num_pending' = IF num_pending = 2 THEN 2 ELSE num_pending - 1
  /\ ended' = ended \cup {t}
  /\ UNCHANGED <<num_workers_used, launcher, par_errors, barrierVars, queued, next,
                 result, launches, barriers, failed>>

\* The lambda returns 0.
SignalJobFinish(t) ==
  /\ left[t] = barriers /\ Goes(t, "run", AfterJob(t))
  /\ num_pending' = num_pending - 1 /\ ended' = ended \cup {t}
  /\ UNCHANGED <<num_workers_used, launcher, par_errors, barrierVars, queued, next,
                 result, launches, barriers, failed>>

\* It returns an error; SignalJobError counts the job first ...
SignalJobError(t) ==
  /\ t \in FailingTasks /\ left[t] = barriers /\ Goes(t, "run", "record")
  /\ num_pending' = num_pending - 1
  /\ ended' = ended \cup {t} /\ failed' = failed \cup {t}
  /\ UNCHANGED <<num_workers_used, launcher, par_errors, barrierVars, queued, next,
                 result, launches, barriers>>

\* ... then stores the message.  The master passes tsk.task_id, which the loop
\* left at its last task, or never set; then any index, or memory, may be hit.
StoreError(t) ==
  /\ \E id \in IF t # 0 THEN {t} ELSE IF num_task > 1 THEN {num_task - 1} ELSE Threads \cup {-1} :
       /\ Goes(t, "record", IF id \in 0 .. par_size - 1 THEN "flag" ELSE "undefined")
       /\ par_errors' = IF id \in 0 .. par_size - 1 THEN par_errors \cup {id} ELSE par_errors
  /\ UNCHANGED <<num_workers_used, launcher, num_pending, barrierVars, queued, next,
                 result, launches, barriers, ended, failed>>

\* ... and raises the flag.
FlagError(t) ==
  /\ Goes(t, "flag", AfterJob(t)) /\ has_error' = TRUE
  /\ UNCHANGED <<num_workers_used, num_task, num_pending, par_size, counters, par_errors,
                 barrierVars, queued, next, result, launches, barriers, ended, failed>>

TaskStep(t) ==
  \/ EnterBarrier(t) \/ SeeTask(t) \/ LeaveBarrier(t)
  \/ SignalJobFinish(t) \/ SignalJobError(t) \/ StoreError(t) \/ FlagError(t)

PoolMaster == PushTask \/ RunTaskZero \/ WaitForJobs \/ CheckErrors \/ TaskStep(0)
PoolWorker(t) == TakeTask(t) \/ TaskStep(t)

PoolNext ==
  \/ Configure \/ PoolMaster
  \/ \E n \in Sizes : Launch(n)
  \/ \E t \in Workers : PoolWorker(t)

PoolSpec == PoolInit /\ [][PoolNext]_poolVars

\* Every thread is scheduled, and every task comes to its end.
FairPoolSpec == PoolSpec /\ WF_poolVars(PoolMaster) /\ \A t \in Workers : WF_poolVars(PoolWorker(t))

----------------------------------------------------------------------------
(* Properties *)

\* No variable leaves its type; num_pending_ counts jobs down to none, and to -1
\* only in a launch of no task, which the master runs all the same.
PoolTypeOK ==
  /\ num_workers_used \in 0 .. NumWorkers
  /\ num_task \in 0 .. NumWorkers
  /\ num_pending \in (IF num_task = 0 THEN -1 ELSE 0) .. num_task
  /\ has_error \in BOOLEAN /\ par_size \in 0 .. NumWorkers + 1
  /\ par_errors \subseteq Threads /\ counters \in 0 .. NumWorkers
  /\ sync_counter \in [Threads -> Nat] /\ old \in [Threads -> Nat]
  /\ look \in [Threads -> 0 .. NumWorkers]
  /\ queued \in [Threads -> BOOLEAN]
  /\ pc \in [Threads -> {"idle", "push", "run", "look", "record", "flag", "wait", "check", "undefined"}]
  /\ next \in 0 .. NumWorkers
  /\ result \in [code : {0, -1}, tasks : SUBSET Threads]
  /\ launches \in 0 .. MaxLaunches /\ barriers \in 0 .. MaxBarriers
  /\ entered \in [Threads -> Nat] /\ left \in [Threads -> Nat]
  /\ ended \subseteq Threads /\ failed \subseteq Threads

\* PELIBackendParallelBarrier: nobody has left a barrier that some task of the
\* launch has not entered, with counters that are used from launch to launch.
BarrierHolds == \A s, t \in Tasks : left[t] <= entered[s]

\* When Launch has returned all its tasks have, and no thread uses cdata.
LaunchWaits ==
  pc[0] = "idle" =>
    /\ ended = Tasks
    /\ \A t \in Workers : ~queued[t] /\ pc[t] \notin {"run", "look"}

\* "0 when no error is thrown, -1 when failure happens" (c_backend_api.h), and
\* then a message that names a task.
ErrorsReported ==
  pc[0] = "idle" =>
    (result.code = -1 <=> failed # {}) /\ (result.tasks # {} <=> failed # {})

\* A launch comes to its end, however the threads meet at its barriers.
LaunchReturns == pc[0] # "idle" ~> pc[0] = "idle"

\* The pool does what ParallelFor says.
Abstract == INSTANCE ParallelFor WITH
  MaxTasks <- NumWorkers, busy <- pc[0] # "idle",
  running <- Tasks \ ended, round <- left,
  result <- IF result.code = 0 THEN "ok" ELSE "error"
ImplementsParallelFor == Abstract!Spec
=============================================================================
