-------------------------- MODULE ThreadPool_proofs --------------------------
(***************************************************************************)
(* The thread pool is proved for any number of workers, any launches and    *)
(* any tasks that fail.  The invariant says who is still to end a job: then *)
(* num_pending_ is zero only when nobody is, Launch resets counters nobody  *)
(* looks at, and a task that has looked at them all finds what it saw.      *)
(***************************************************************************)
EXTENDS ThreadPool, FiniteSetTheorems, TLAPS

USE PoolAssumption DEF PoolAssumption

Inside == {"run", "look"}

\* num_pending_ is what the launch has left to end.
Counted ==
  /\ ended \subseteq Tasks \cup {0}
  /\ num_pending = num_task - Cardinality(ended)

\* Where the master is, and what it knows there.
MasterKnows ==
  /\ pc[0] \in {"idle", "check"} => ended = Tasks
  /\ pc[0] \in {"record", "flag", "wait"} => 0 \in ended
  /\ pc[0] \in {"push", "run", "look"} => 0 \notin ended
  /\ pc[0] = "push" => next >= 1 /\ \A t \in Tasks : t >= next => t \notin ended

\* A worker has its task in its queue or in its hands, and only until it ends.
WorkersOwe ==
  \A t \in Workers :
    /\ pc[t] \in {"idle", "run", "look", "record", "flag", "undefined"}
    /\ queued[t] => pc[t] \notin Inside
    /\ queued[t] \/ pc[t] \in Inside =>
         t \in Tasks /\ t \notin ended /\ (pc[0] = "push" => t < next)

\* The counter of a task says how many barriers it has entered, and a task that
\* looks has entered one more than it has left.
CountersFollow ==
  \A t \in Tasks :
    /\ sync_counter[t] = entered[t] /\ left[t] <= entered[t]
    /\ pc[t] = "look" => old[t] = entered[t] - 1 /\ left[t] <= old[t]

\* What a task has looked at stays so.
SeenStays ==
  \A s, t \in Tasks : pc[t] = "look" /\ s < look[t] /\ s # t => sync_counter[s] > old[t]

IInv ==
  PoolTypeOK /\ Counted /\ MasterKnows /\ WorkersOwe /\ CountersFollow /\ SeenStays /\ BarrierHolds

----------------------------------------------------------------------------
(* Jobs *)

\* A launch of num_task tasks has as many jobs, or one if it has no task; if the
\* master's is among those that ended and all are counted, all tasks ended.
LEMMA JobsBound ==
  ASSUME num_task \in Nat, NEW S \in SUBSET (Tasks \cup {0})
  PROVE  /\ IsFiniteSet(S) /\ Cardinality(S) \in Nat
         /\ Cardinality(S) <= IF num_task = 0 THEN 1 ELSE num_task
         /\ 0 \in S /\ Cardinality(S) = num_task => S = Tasks
<1> DEFINE jobs == IF num_task = 0 THEN 1 ELSE num_task
<1>1. Tasks \cup {0} = 0 .. jobs - 1
  BY DEF Tasks
<1>2. IsFiniteSet(0 .. jobs - 1) /\ Cardinality(0 .. jobs - 1) = jobs
  BY FS_Interval
<1>3. S \in SUBSET (0 .. jobs - 1)
  BY <1>1
<1>4. /\ IsFiniteSet(S) /\ Cardinality(S) <= jobs
      /\ jobs = Cardinality(S) => 0 .. jobs - 1 = S
  <2>1. /\ IsFiniteSet(S) /\ Cardinality(S) <= Cardinality(0 .. jobs - 1)
        /\ Cardinality(0 .. jobs - 1) = Cardinality(S) => 0 .. jobs - 1 = S
    BY <1>2, <1>3, FS_Subset, Zenon
  <2> QED
    BY <2>1, <1>2
<1>5. Cardinality(S) \in Nat
  BY <1>4, FS_CardinalityType
<1>6. ASSUME 0 \in S, Cardinality(S) = num_task PROVE S = Tasks
  <2>1. num_task # 0
    BY <1>4, <1>6, FS_EmptySet
  <2> QED
    BY <2>1, <1>1, <1>4, <1>6 DEF Tasks
<1> QED
  BY <1>4, <1>5, <1>6

\* One more job has ended: there was one left to count.
LEMMA EndOneJob ==
  ASSUME num_task \in Nat, Counted, NEW t \in Tasks \cup {0}, t \notin ended,
         ended' = ended \cup {t}, num_pending' = num_pending - 1, num_task' = num_task
  PROVE  Counted' /\ num_pending' \in (IF num_task' = 0 THEN -1 ELSE 0) .. num_task'
<1>1. ended \in SUBSET (Tasks \cup {0}) /\ ended' \in SUBSET (Tasks \cup {0})
  BY DEF Counted
<1>2. IsFiniteSet(ended) /\ Cardinality(ended) \in Nat /\ Cardinality(ended') \in Nat
  BY <1>1, JobsBound
<1>3. Cardinality(ended') <= IF num_task = 0 THEN 1 ELSE num_task
  BY <1>1, JobsBound
<1>4. Cardinality(ended') = Cardinality(ended) + 1
  BY <1>2, FS_AddElement
<1>5. num_pending' = num_task - Cardinality(ended')
  BY <1>2, <1>4 DEF Counted
<1>6. Tasks' = Tasks
  BY DEF Tasks
<1> QED
  BY <1>1, <1>2, <1>3, <1>5, <1>6 DEF Counted

\* Whoever ends a job owed it.
LEMMA OneJobEnds ==
  ASSUME PoolTypeOK, Counted, MasterKnows, WorkersOwe, NEW t \in Threads,
         SignalJobFinish(t) \/ SignalJobError(t)
  PROVE  /\ t \in Tasks \cup {0} /\ t \notin ended /\ ended' = ended \cup {t}
         /\ Counted' /\ num_pending' \in (IF num_task' = 0 THEN -1 ELSE 0) .. num_task'
<1>1. /\ pc[t] = "run" /\ ended' = ended \cup {t}
      /\ num_pending' = num_pending - 1 /\ num_task' = num_task /\ num_task \in Nat
  BY DEF SignalJobFinish, SignalJobError, Goes, launcher, PoolTypeOK
<1>2. t \in Tasks \cup {0} /\ t \notin ended
  BY <1>1 DEF MasterKnows, WorkersOwe, Inside, Workers
<1> QED
  BY <1>1, <1>2, EndOneJob

----------------------------------------------------------------------------
(* The invariant *)

\* The pool starts with nothing launched.
LEMMA InitIInv == PoolInit => IInv
<1> SUFFICES ASSUME PoolInit PROVE IInv
  OBVIOUS
<1> USE DEF PoolInit
<1>1. PoolTypeOK
  <2>1. num_workers_used \in 0 .. NumWorkers /\ num_pending \in (IF num_task = 0 THEN -1 ELSE 0) .. num_task
    OBVIOUS
  <2>2. result \in [code : {0, -1}, tasks : SUBSET Threads] /\ has_error \in BOOLEAN
    OBVIOUS
  <2>3. queued \in [Threads -> BOOLEAN] /\ Zero \in [Threads -> Nat] /\ Zero \in [Threads -> 0 .. NumWorkers]
    BY DEF Zero
  <2> QED
    BY <2>1, <2>2, <2>3 DEF PoolTypeOK
<1>2. Tasks = {} /\ Cardinality({}) = 0
  BY FS_EmptySet DEF Tasks
<1> QED
  BY <1>1, <1>2 DEF IInv, Counted, MasterKnows, WorkersOwe, CountersFollow, SeenStays,
     BarrierHolds, Inside, Workers, Threads, Zero

\* A step of the pool is one of these.
LEMMA NextCases ==
  ASSUME [PoolNext]_poolVars
  PROVE  \/ Configure \/ PushTask \/ RunTaskZero \/ WaitForJobs \/ CheckErrors
         \/ \E n \in Sizes : Launch(n)
         \/ \E t \in Workers : TakeTask(t)
         \/ \E t \in Threads : \/ EnterBarrier(t) \/ SeeTask(t) \/ LeaveBarrier(t)
                               \/ SignalJobFinish(t) \/ SignalJobError(t)
                               \/ StoreError(t) \/ FlagError(t)
         \/ UNCHANGED poolVars
<1>1. 0 \in Threads /\ Workers \subseteq Threads
  BY DEF Threads, Workers
<1> QED
  BY <1>1 DEF PoolNext, PoolMaster, PoolWorker, TaskStep

\* What Launch sets, and in whose absence: no worker holds a task.
LEMMA LaunchResets ==
  ASSUME IInv, NEW n \in Sizes, Launch(n)
  PROVE  /\ num_task' \in 0 .. NumWorkers /\ num_pending' = num_task' /\ ended' = {}
         /\ pc'[0] \in {"push", "undefined"} /\ next' = 1
         /\ \A t \in Workers : pc'[t] = pc[t] /\ pc[t] \notin Inside /\ ~queued[t]
         /\ queued' = queued /\ Tasks' \subseteq Threads
         /\ \A t \in Tasks' : sync_counter'[t] = 0 /\ entered'[t] = 0 /\ left'[t] = 0
<1> USE DEF Launch, Goes
<1>1. num_task' \in 0 .. NumWorkers
  BY DEF IInv, PoolTypeOK
<1>2. Tasks' \subseteq Threads
  BY <1>1 DEF Tasks, Threads
<1>3. \A t \in Tasks' : sync_counter'[t] = 0 /\ entered'[t] = 0 /\ left'[t] = 0
  <2>1. \A t \in Threads :
          /\ sync_counter'[t] = IF t < num_task' THEN 0 ELSE sync_counter[t]
          /\ entered'[t] = 0 /\ left'[t] = 0
    BY DEF Zero
  <2>2. \A t \in Tasks' : t \in Threads /\ t < num_task'
    BY <1>1, <1>2 DEF Tasks
  <2> QED
    BY <2>1, <2>2
<1>4. /\ pc'[0] \in {"push", "undefined"}
      /\ \A t \in Workers : pc'[t] = pc[t]
  BY DEF IInv, PoolTypeOK, Workers, Threads
<1>5. \A t \in Workers : pc[t] \notin Inside /\ ~queued[t]
  BY DEF IInv, MasterKnows, WorkersOwe
<1> QED
  BY <1>1, <1>2, <1>3, <1>4, <1>5

\* The count follows the jobs that end.
LEMMA StepCounted ==
  ASSUME IInv, [PoolNext]_poolVars
  PROVE  Counted'
<1> USE DEF IInv
<1>1. CASE Configure
  BY <1>1 DEF Configure, Counted, Tasks, launcher, barrierVars
<1>2. CASE PushTask
  BY <1>2 DEF PushTask, Counted, Tasks, launcher, barrierVars
<1>3. CASE RunTaskZero
  BY <1>3 DEF RunTaskZero, Counted, Tasks, launcher, barrierVars
<1>4. CASE WaitForJobs
  BY <1>4 DEF WaitForJobs, Counted, Tasks, launcher, barrierVars
<1>5. CASE CheckErrors
  BY <1>5 DEF CheckErrors, Counted, Tasks, launcher, barrierVars
<1>6. ASSUME NEW n \in Sizes, Launch(n) PROVE Counted'
  <2>1. ended' = {} /\ num_pending' = num_task' /\ num_task' \in 0 .. NumWorkers
    BY <1>6, LaunchResets
  <2>2. IsFiniteSet({}) /\ Cardinality({}) = 0
    BY FS_EmptySet
  <2> QED
    BY <2>1, <2>2 DEF Counted
<1>7. ASSUME NEW t \in Workers, TakeTask(t) PROVE Counted'
  BY <1>7 DEF TakeTask, Counted, Tasks, launcher, barrierVars
<1>8. ASSUME NEW t \in Threads, EnterBarrier(t) PROVE Counted'
  BY <1>8 DEF EnterBarrier, Counted, Tasks, launcher, barrierVars
<1>9. ASSUME NEW t \in Threads, SeeTask(t) PROVE Counted'
  BY <1>9 DEF SeeTask, Counted, Tasks, launcher, barrierVars
<1>10. ASSUME NEW t \in Threads, LeaveBarrier(t) PROVE Counted'
  BY <1>10 DEF LeaveBarrier, Counted, Tasks, launcher, barrierVars
<1>11. ASSUME NEW t \in Threads, SignalJobFinish(t) PROVE Counted'
  BY <1>11, OneJobEnds DEF IInv
<1>12. ASSUME NEW t \in Threads, SignalJobError(t) PROVE Counted'
  BY <1>12, OneJobEnds DEF IInv
<1>13. ASSUME NEW t \in Threads, StoreError(t) PROVE Counted'
  BY <1>13 DEF StoreError, Counted, Tasks, launcher, barrierVars
<1>14. ASSUME NEW t \in Threads, FlagError(t) PROVE Counted'
  BY <1>14 DEF FlagError, Counted, Tasks, launcher, barrierVars
<1>15. CASE UNCHANGED poolVars
  BY <1>15 DEF poolVars, Counted, Tasks, launcher, barrierVars
<1> QED
  BY NextCases, <1>1, <1>2, <1>3, <1>4, <1>5, <1>6, <1>7, <1>8, <1>9, <1>10, <1>11, <1>12, <1>13, <1>14, <1>15

\* In a barrier a thread stays with its task.
LEMMA InBarrier ==
  ASSUME PoolTypeOK, NEW t \in Threads, EnterBarrier(t) \/ SeeTask(t) \/ LeaveBarrier(t)
  PROVE  /\ pc[t] \in Inside /\ pc'[t] \in Inside \cup {"undefined"}
         /\ \A s \in Threads \ {t} : pc'[s] = pc[s]
         /\ UNCHANGED <<num_task, num_pending, queued, next, ended>>
<1> USE DEF PoolTypeOK, Goes, Inside, launcher
<1>1. CASE EnterBarrier(t)
  BY <1>1 DEF EnterBarrier
<1>2. CASE SeeTask(t)
  BY <1>2 DEF SeeTask
<1>3. CASE LeaveBarrier(t)
  BY <1>3 DEF LeaveBarrier
<1> QED
  BY <1>1, <1>2, <1>3

\* Where a thread that ends its job goes.
LEMMA AtJobEnd ==
  ASSUME PoolTypeOK, NEW t \in Threads, SignalJobFinish(t) \/ SignalJobError(t)
  PROVE  /\ pc[t] = "run" /\ pc'[t] \in {AfterJob(t), "record"}
         /\ \A s \in Threads \ {t} : pc'[s] = pc[s]
         /\ UNCHANGED <<num_task, queued, next>>
<1> USE DEF PoolTypeOK, Goes, launcher
<1>1. CASE SignalJobFinish(t)
  BY <1>1 DEF SignalJobFinish
<1>2. CASE SignalJobError(t)
  BY <1>2 DEF SignalJobError
<1> QED
  BY <1>1, <1>2

\* What a thread does after a failure changes nothing but what it reports.
LEMMA AfterFailure ==
  ASSUME PoolTypeOK, NEW t \in Threads, StoreError(t) \/ FlagError(t)
  PROVE  /\ pc[t] \in {"record", "flag"} /\ pc'[t] \in {"flag", "undefined", AfterJob(t)}
         /\ t = 0 /\ pc'[t] = AfterJob(t) => pc[t] = "flag"
         /\ \A s \in Threads \ {t} : pc'[s] = pc[s]
         /\ UNCHANGED <<num_task, num_pending, queued, next, ended, barrierVars>>
<1> USE DEF PoolTypeOK, Goes, launcher
<1>1. CASE StoreError(t)
  BY <1>1 DEF StoreError, AfterJob
<1>2. CASE FlagError(t)
  BY <1>2 DEF FlagError
<1> QED
  BY <1>1, <1>2

\* A worker takes its task.
LEMMA AtTake ==
  ASSUME PoolTypeOK, NEW t \in Workers, TakeTask(t)
  PROVE  /\ queued[t] /\ ~queued'[t] /\ pc'[t] = "run"
         /\ \A s \in Threads \ {t} : pc'[s] = pc[s] /\ queued'[s] = queued[s]
         /\ UNCHANGED <<num_task, num_pending, next, ended, barrierVars>>
BY DEF PoolTypeOK, TakeTask, Goes, launcher, Workers, Threads

\* A step of the master moves no worker.
LEMMA MasterMoves ==
  ASSUME PoolTypeOK, PushTask \/ RunTaskZero \/ WaitForJobs \/ CheckErrors
  PROVE  /\ \A s \in Workers : pc'[s] = pc[s]
         /\ UNCHANGED <<num_task, num_pending, ended, barrierVars>>
<1> USE DEF PoolTypeOK, Goes, launcher, Workers, Threads
<1>1. CASE PushTask
  BY <1>1 DEF PushTask
<1>2. CASE RunTaskZero
  BY <1>2 DEF RunTaskZero
<1>3. CASE WaitForJobs
  BY <1>3 DEF WaitForJobs
<1>4. CASE CheckErrors
  BY <1>4 DEF CheckErrors
<1> QED
  BY <1>1, <1>2, <1>3, <1>4

\* The master knows what it has to at every point of Launch.
LEMMA StepMasterKnows ==
  ASSUME IInv, [PoolNext]_poolVars
  PROVE  MasterKnows'
<1> USE DEF IInv
<1>0. 0 \in Threads /\ pc \in [Threads -> {"idle", "push", "run", "look", "record", "flag", "wait", "check", "undefined"}]
  BY DEF Threads, PoolTypeOK
<1>1. CASE Configure
  BY <1>1 DEF Configure, MasterKnows, Tasks, launcher
<1>2. CASE PushTask
  <2>1. /\ pc[0] = "push" /\ pc' = pc /\ next' = next + 1 /\ next \in 0 .. NumWorkers
        /\ UNCHANGED <<num_task, ended>>
    BY <1>2 DEF PushTask, PoolTypeOK, launcher
  <2>2. \A t \in Tasks : t >= next' => t >= next
    BY <2>1 DEF Tasks, PoolTypeOK
  <2>3. 0 \notin ended /\ next >= 1 /\ \A t \in Tasks : t >= next => t \notin ended
    BY <2>1 DEF MasterKnows
  <2>4. Tasks' = Tasks
    BY <2>1 DEF Tasks
  <2> QED
    BY <2>1, <2>2, <2>3, <2>4 DEF MasterKnows
<1>3. CASE RunTaskZero
  BY <1>0, <1>3 DEF RunTaskZero, MasterKnows, Goes, Tasks, launcher
<1>4. CASE WaitForJobs
  <2>1. /\ pc[0] = "wait" /\ pc'[0] = "check" /\ num_pending = 0
        /\ UNCHANGED <<num_task, ended>>
    BY <1>0, <1>4 DEF WaitForJobs, Goes, launcher
  <2>2. num_task \in Nat /\ ended \in SUBSET (Tasks \cup {0}) /\ 0 \in ended
    BY <2>1 DEF PoolTypeOK, Counted, MasterKnows
  <2>3. Cardinality(ended) \in Nat
    BY <2>2, JobsBound
  <2>4. Cardinality(ended) = num_task
    BY <2>1, <2>2, <2>3 DEF Counted
  <2>5. ended = Tasks
    BY <2>2, <2>4, JobsBound
  <2> QED
    BY <2>1, <2>5 DEF MasterKnows, Tasks
<1>5. CASE CheckErrors
  BY <1>0, <1>5 DEF CheckErrors, MasterKnows, Goes, Tasks, launcher
<1>6. ASSUME NEW n \in Sizes, Launch(n) PROVE MasterKnows'
  BY <1>6, LaunchResets DEF MasterKnows
<1>7. ASSUME NEW t \in Workers, TakeTask(t) PROVE MasterKnows'
  BY <1>0, <1>7, AtTake DEF MasterKnows, Workers, Tasks
<1>8. ASSUME NEW t \in Threads, EnterBarrier(t) \/ SeeTask(t) \/ LeaveBarrier(t)
      PROVE  MasterKnows'
  <2>1. CASE t = 0
    BY <2>1, <1>8, InBarrier DEF MasterKnows, Inside, Tasks
  <2>2. CASE t # 0
    BY <1>0, <2>2, <1>8, InBarrier DEF MasterKnows, Tasks
  <2> QED
    BY <2>1, <2>2
<1>9. ASSUME NEW t \in Threads, SignalJobFinish(t) \/ SignalJobError(t)
      PROVE  MasterKnows'
  <2>1. CASE t = 0
    BY <2>1, <1>9, AtJobEnd, OneJobEnds DEF MasterKnows, AfterJob
  <2>2. CASE t # 0
    <3>1. t \in Workers /\ pc[t] = "run" /\ t \in Tasks /\ (pc[0] = "push" => t < next)
      BY <2>2, <1>9, AtJobEnd DEF WorkersOwe, Workers, Inside
    <3>2. /\ pc'[0] = pc[0] /\ ended' = ended \cup {t} /\ t \notin ended /\ Tasks' = Tasks
          /\ next' = next
      BY <1>0, <2>2, <1>9, AtJobEnd, OneJobEnds DEF Tasks
    <3>3. pc[0] \notin {"idle", "check"}
      BY <3>1, <3>2 DEF MasterKnows
    <3>4. pc[0] = "push" => \A s \in Tasks : s >= next => s # t
      BY <3>1 DEF Tasks, PoolTypeOK
    <3> QED
      BY <2>2, <3>2, <3>3, <3>4 DEF MasterKnows
  <2> QED
    BY <2>1, <2>2
<1>10. ASSUME NEW t \in Threads, StoreError(t) \/ FlagError(t)
       PROVE  MasterKnows'
  <2>1. CASE t = 0
    <3>1. 0 \in ended
      BY <2>1, <1>10, AfterFailure DEF MasterKnows
    <3> QED
      BY <3>1, <2>1, <1>10, AfterFailure DEF MasterKnows, AfterJob
  <2>2. CASE t # 0
    BY <1>0, <2>2, <1>10, AfterFailure DEF MasterKnows, Tasks
  <2> QED
    BY <2>1, <2>2
<1>11. CASE UNCHANGED poolVars
  BY <1>11 DEF poolVars, MasterKnows, Tasks, launcher
<1> QED
  BY NextCases, <1>1, <1>2, <1>3, <1>4, <1>5, <1>6, <1>7, <1>8, <1>9, <1>10, <1>11

\* A worker is given a task once, and keeps it until it ends.
LEMMA StepWorkersOwe ==
  ASSUME IInv, [PoolNext]_poolVars
  PROVE  WorkersOwe'
<1> USE DEF IInv
<1>1. CASE Configure
  BY <1>1 DEF Configure, WorkersOwe, Tasks, launcher
<1>2. CASE PushTask
  <2>1. /\ pc[0] = "push" /\ pc' = pc /\ next' = next + 1
        /\ queued' = [queued EXCEPT ![next] = TRUE]
        /\ next < num_task /\ next >= 1 /\ next \in 0 .. NumWorkers
        /\ next \in Tasks /\ next \in Workers /\ Tasks' = Tasks /\ ended' = ended
    BY <1>2 DEF PushTask, MasterKnows, PoolTypeOK, Tasks, Workers, Threads, launcher
  <2>2. ~queued[next] /\ next \notin ended
    BY <2>1, <1>2 DEF PushTask, MasterKnows
  <2>3. pc[next] \notin Inside /\ pc[next] \in {"idle", "run", "look", "record", "flag", "undefined"}
    BY <2>1 DEF WorkersOwe
  <2>4. /\ queued'[next] /\ next < next' /\ next \in Tasks'
        /\ \A t \in Workers \ {next} : queued'[t] = queued[t] /\ (t < next => t < next')
    BY <2>1 DEF PoolTypeOK, Workers, Threads
  <2> QED
    BY <2>1, <2>2, <2>3, <2>4 DEF WorkersOwe
<1>3. CASE RunTaskZero
  BY <1>3, MasterMoves DEF RunTaskZero, WorkersOwe, Goes, Tasks, PoolTypeOK
<1>4. CASE WaitForJobs
  BY <1>4, MasterMoves DEF WaitForJobs, WorkersOwe, Goes, Tasks, PoolTypeOK
<1>5. CASE CheckErrors
  BY <1>5, MasterMoves DEF CheckErrors, WorkersOwe, Goes, Tasks, PoolTypeOK
<1>6. ASSUME NEW n \in Sizes, Launch(n) PROVE WorkersOwe'
  BY <1>6, LaunchResets DEF WorkersOwe
<1>7. ASSUME NEW t \in Workers, TakeTask(t) PROVE WorkersOwe'
  BY <1>7, AtTake DEF WorkersOwe, Workers, Threads, Tasks, Inside
<1>8. ASSUME NEW t \in Threads, EnterBarrier(t) \/ SeeTask(t) \/ LeaveBarrier(t)
      PROVE  WorkersOwe'
  BY <1>8, InBarrier DEF WorkersOwe, Workers, Threads, Tasks, Inside
<1>9. ASSUME NEW t \in Threads, SignalJobFinish(t) \/ SignalJobError(t)
      PROVE  WorkersOwe'
  BY <1>9, AtJobEnd, OneJobEnds DEF WorkersOwe, Workers, Threads, Tasks, Inside, AfterJob
<1>10. ASSUME NEW t \in Threads, StoreError(t) \/ FlagError(t)
       PROVE  WorkersOwe'
  BY <1>10, AfterFailure DEF WorkersOwe, Workers, Threads, Tasks, Inside, AfterJob
<1>11. CASE UNCHANGED poolVars
  BY <1>11 DEF poolVars, WorkersOwe, Tasks, launcher
<1> QED
  BY NextCases, <1>1, <1>2, <1>3, <1>4, <1>5, <1>6, <1>7, <1>8, <1>9, <1>10, <1>11

\* What the tasks saw and counted is in the barriers only.
LEMMA SameBarriers ==
  ASSUME CountersFollow, SeenStays, BarrierHolds,
         UNCHANGED <<num_task, barrierVars>>, \A t \in Tasks : pc'[t] = "look" => pc[t] = "look"
  PROVE  CountersFollow' /\ SeenStays' /\ BarrierHolds'
BY DEF CountersFollow, SeenStays, BarrierHolds, barrierVars, Tasks

\* The barrier holds, by counters that only a launch without tasks under way resets.
LEMMA StepBarrier ==
  ASSUME IInv, [PoolNext]_poolVars
  PROVE  CountersFollow' /\ SeenStays' /\ BarrierHolds'
<1> USE DEF IInv
<1>0. 0 \in Threads /\ Tasks \subseteq Threads
  BY DEF Threads, PoolTypeOK, Tasks
<1>1. CASE Configure
  BY <1>1, SameBarriers DEF Configure, launcher
<1>2. CASE PushTask \/ RunTaskZero \/ WaitForJobs \/ CheckErrors
  <2>1. \A t \in Tasks : pc'[t] = "look" => pc[t] = "look"
    BY <1>0, <1>2 DEF PushTask, RunTaskZero, WaitForJobs, CheckErrors, Goes, PoolTypeOK
  <2> QED
    BY <2>1, <1>2, MasterMoves, SameBarriers
<1>3. ASSUME NEW n \in Sizes, Launch(n) PROVE CountersFollow' /\ SeenStays' /\ BarrierHolds'
  <2>1. \A t \in Tasks' : pc'[t] # "look"
    BY <1>3, LaunchResets DEF Inside, Workers
  <2> QED
    BY <2>1, <1>3, LaunchResets DEF CountersFollow, SeenStays, BarrierHolds
<1>4. ASSUME NEW t \in Workers, TakeTask(t) PROVE CountersFollow' /\ SeenStays' /\ BarrierHolds'
  <2>1. \A s \in Tasks : pc'[s] = "look" => pc[s] = "look"
    BY <1>0, <1>4, AtTake
  <2> QED
    BY <2>1, <1>4, AtTake, SameBarriers
<1>5. ASSUME NEW t \in Threads, EnterBarrier(t)
      PROVE  CountersFollow' /\ SeenStays' /\ BarrierHolds'
  <2>1. /\ sync_counter' = [sync_counter EXCEPT ![t] = @ + 1]
        /\ entered' = [entered EXCEPT ![t] = @ + 1]
        /\ old' = [old EXCEPT ![t] = sync_counter[t]] /\ look' = [look EXCEPT ![t] = 0]
        /\ left' = left /\ Tasks' = Tasks
    BY <1>5 DEF EnterBarrier, launcher, Tasks
  <2>2. pc[t] = "run" /\ \A s \in Threads \ {t} : pc'[s] = pc[s]
    BY <1>5, InBarrier DEF EnterBarrier, Goes
  <2>3. /\ \A s \in Threads : /\ sync_counter[s] \in Nat /\ entered[s] \in Nat
                              /\ old[s] \in Nat /\ left[s] \in Nat
        /\ \A s \in Threads \ {t} : /\ sync_counter'[s] = sync_counter[s] /\ entered'[s] = entered[s]
                                    /\ old'[s] = old[s] /\ look'[s] = look[s]
        /\ sync_counter'[t] = sync_counter[t] + 1 /\ entered'[t] = entered[t] + 1
        /\ old'[t] = sync_counter[t] /\ look'[t] = 0
    BY <2>1 DEF PoolTypeOK
  <2>4. CountersFollow'
    BY <1>0, <2>1, <2>2, <2>3 DEF CountersFollow
  <2>5. SeenStays'
    <3> SUFFICES ASSUME NEW s \in Tasks, NEW r \in Tasks, pc'[r] = "look", s < look'[r], s # r
                 PROVE  sync_counter'[s] > old'[r]
      BY <2>1 DEF SeenStays
    <3>1. r # t
      <4>1. ~(s < 0)
        BY DEF Tasks
      <4> QED
        BY <4>1, <2>3
    <3>2. sync_counter[s] > old[r]
      BY <1>0, <2>2, <2>3, <3>1 DEF SeenStays
    <3> QED
      BY <1>0, <2>3, <3>1, <3>2
  <2>6. BarrierHolds'
    BY <1>0, <2>1, <2>3 DEF BarrierHolds
  <2> QED
    BY <2>4, <2>5, <2>6
<1>6. ASSUME NEW t \in Threads, SeeTask(t)
      PROVE  CountersFollow' /\ SeenStays' /\ BarrierHolds'
  <2>1. /\ UNCHANGED <<sync_counter, old, entered, left, pc, num_task>>
        /\ look[t] = t \/ sync_counter[look[t]] > old[t]
        /\ look' = [look EXCEPT ![t] = look[t] + 1]
    BY <1>6 DEF SeeTask, launcher
  <2>2. Tasks' = Tasks
    BY <2>1 DEF Tasks
  <2>3. /\ look'[t] = look[t] + 1 /\ look[t] \in Int
        /\ \A s \in Threads \ {t} : look'[s] = look[s]
    BY <2>1 DEF PoolTypeOK
  <2>4. \A s \in Tasks : s < look[t] + 1 => s < look[t] \/ s = look[t]
    BY <2>3 DEF Tasks, PoolTypeOK
  <2>5. SeenStays'
    BY <1>0, <2>1, <2>2, <2>3, <2>4 DEF SeenStays
  <2> QED
    BY <2>1, <2>2, <2>5 DEF CountersFollow, BarrierHolds
<1>7. ASSUME NEW t \in Threads, LeaveBarrier(t)
      PROVE  CountersFollow' /\ SeenStays' /\ BarrierHolds'
  <2>1. /\ UNCHANGED <<sync_counter, old, look, entered, num_task>>
        /\ look[t] >= num_task /\ left' = [left EXCEPT ![t] = @ + 1]
        /\ pc[t] = "look" /\ pc'[t] = "run"
        /\ \A s \in Threads \ {t} : pc'[s] = pc[s]
    BY <1>7, InBarrier DEF LeaveBarrier, launcher, Goes, PoolTypeOK
  <2>2. /\ Tasks' = Tasks /\ left'[t] = left[t] + 1
        /\ \A s \in Threads \ {t} : left'[s] = left[s]
        /\ \A s \in Threads : /\ entered[s] \in Nat /\ left[s] \in Nat /\ old[s] \in Nat
                              /\ sync_counter[s] \in Nat
    BY <2>1 DEF Tasks, PoolTypeOK
  <2>3. \A s \in Tasks : s < look[t]
    BY <2>1 DEF Tasks, PoolTypeOK
  <2>4. CASE t \in Tasks
    <3>1. old[t] = entered[t] - 1 /\ left[t] <= old[t]
      BY <2>1, <2>4 DEF CountersFollow
    <3>2. \A s \in Tasks : entered[s] >= entered[t]
      BY <1>0, <2>1, <2>2, <2>3, <2>4, <3>1 DEF SeenStays, CountersFollow
    <3>3. BarrierHolds'
      BY <1>0, <2>1, <2>2, <2>4, <3>1, <3>2 DEF BarrierHolds
    <3>4. CountersFollow' /\ SeenStays'
      BY <1>0, <2>1, <2>2, <2>4, <3>1 DEF CountersFollow, SeenStays
    <3> QED
      BY <3>3, <3>4
  <2>5. CASE t \notin Tasks
    BY <1>0, <2>1, <2>2, <2>5 DEF CountersFollow, SeenStays, BarrierHolds
  <2> QED
    BY <2>4, <2>5
<1>8. ASSUME NEW t \in Threads, SignalJobFinish(t) \/ SignalJobError(t)
      PROVE  CountersFollow' /\ SeenStays' /\ BarrierHolds'
  <2>1. \A s \in Tasks : pc'[s] = "look" => pc[s] = "look"
    BY <1>0, <1>8, AtJobEnd DEF AfterJob
  <2>2. UNCHANGED barrierVars
    BY <1>8 DEF SignalJobFinish, SignalJobError
  <2> QED
    BY <2>1, <2>2, <1>8, AtJobEnd, SameBarriers
<1>9. ASSUME NEW t \in Threads, StoreError(t) \/ FlagError(t)
      PROVE  CountersFollow' /\ SeenStays' /\ BarrierHolds'
  <2>1. \A s \in Tasks : pc'[s] = "look" => pc[s] = "look"
    BY <1>0, <1>9, AfterFailure DEF AfterJob
  <2> QED
    BY <2>1, <1>9, AfterFailure, SameBarriers
<1>10. CASE UNCHANGED poolVars
  BY <1>10, SameBarriers DEF poolVars, launcher
<1> QED
  BY NextCases, <1>1, <1>2, <1>3, <1>4, <1>5, <1>6, <1>7, <1>8, <1>9, <1>10

\* Every step keeps the types.
LEMMA StepType ==
  ASSUME IInv, [PoolNext]_poolVars
  PROVE  PoolTypeOK'
<1> USE DEF IInv
<1>1. CASE Configure
  BY <1>1 DEF Configure, PoolTypeOK, launcher, barrierVars
<1>2. CASE PushTask
  <2>1. next + 1 \in 0 .. NumWorkers
    BY <1>2 DEF PushTask, PoolTypeOK
  <2>2. [queued EXCEPT ![next] = TRUE] \in [Threads -> BOOLEAN]
    BY Zenon DEF PoolTypeOK
  <2> QED
    BY <2>1, <2>2, <1>2 DEF PushTask, PoolTypeOK, launcher, barrierVars
<1>3. CASE RunTaskZero
  BY <1>3 DEF RunTaskZero, Goes, PoolTypeOK, launcher, barrierVars
<1>4. CASE WaitForJobs
  BY <1>4 DEF WaitForJobs, Goes, PoolTypeOK, launcher, barrierVars
<1>5. CASE CheckErrors
  BY <1>5 DEF CheckErrors, Goes, PoolTypeOK, launcher, barrierVars
<1>6. ASSUME NEW n \in Sizes, Launch(n) PROVE PoolTypeOK'
  <2>1. /\ num_task' \in 0 .. NumWorkers /\ num_pending' = num_task' /\ next' = 1
        /\ ended' = {} /\ queued' = queued
    BY <1>6, LaunchResets
  <2>2. Zero \in [Threads -> Nat] /\ has_error' \in BOOLEAN
    BY <1>6, Zenon DEF Zero, Launch
  <2>3. sync_counter' \in [Threads -> Nat]
    BY <1>6 DEF Launch, PoolTypeOK
  <2>4. par_size' \in 0 .. NumWorkers + 1 /\ counters' \in 0 .. NumWorkers
    BY <1>6, <2>1 DEF Launch, PoolTypeOK
  <2>5. pc' \in [Threads -> {"idle", "push", "run", "look", "record", "flag", "wait", "check", "undefined"}]
    BY <1>6 DEF Launch, Goes, PoolTypeOK
  <2>6. /\ launches' \in 0 .. MaxLaunches /\ barriers' \in 0 .. MaxBarriers
        /\ entered' = Zero /\ left' = Zero /\ failed' = {}
        /\ UNCHANGED <<num_workers_used, par_errors, old, look, result>>
    BY <1>6 DEF Launch, PoolTypeOK
  <2>7. num_pending' \in (IF num_task' = 0 THEN -1 ELSE 0) .. num_task' /\ 1 \in 0 .. NumWorkers
    BY <2>1
  <2> QED
    BY <2>1, <2>2, <2>3, <2>4, <2>5, <2>6, <2>7 DEF PoolTypeOK
<1>7. ASSUME NEW t \in Workers, TakeTask(t) PROVE PoolTypeOK'
  BY <1>7 DEF TakeTask, Goes, PoolTypeOK, launcher, barrierVars
<1>8. ASSUME NEW t \in Threads, EnterBarrier(t) PROVE PoolTypeOK'
  BY <1>8 DEF EnterBarrier, Goes, PoolTypeOK, launcher
<1>9. ASSUME NEW t \in Threads, SeeTask(t) PROVE PoolTypeOK'
  BY <1>9 DEF SeeTask, PoolTypeOK, launcher
<1>10. ASSUME NEW t \in Threads, LeaveBarrier(t) PROVE PoolTypeOK'
  BY <1>10 DEF LeaveBarrier, Goes, PoolTypeOK, launcher
<1>11. ASSUME NEW t \in Threads, SignalJobFinish(t) PROVE PoolTypeOK'
  BY <1>11, OneJobEnds DEF SignalJobFinish, Goes, AfterJob, PoolTypeOK, launcher, barrierVars
<1>12. ASSUME NEW t \in Threads, SignalJobError(t) PROVE PoolTypeOK'
  BY <1>12, OneJobEnds DEF SignalJobError, Goes, PoolTypeOK, launcher, barrierVars
<1>13. ASSUME NEW t \in Threads, StoreError(t) PROVE PoolTypeOK'
  <2>1. PICK id : /\ Goes(t, "record", IF id \in 0 .. par_size - 1 THEN "flag" ELSE "undefined")
                  /\ par_errors' = IF id \in 0 .. par_size - 1 THEN par_errors \cup {id} ELSE par_errors
                  /\ id \in IF t # 0 THEN {t} ELSE IF num_task > 1 THEN {num_task - 1} ELSE Threads \cup {-1}
    BY <1>13 DEF StoreError
  <2>2. id \in 0 .. par_size - 1 => id \in Threads
    BY <2>1 DEF Threads, PoolTypeOK
  <2>3. par_errors' \subseteq Threads
    BY <2>1, <2>2 DEF PoolTypeOK
  <2>4. pc' \in [Threads -> {"idle", "push", "run", "look", "record", "flag", "wait", "check", "undefined"}]
    BY <2>1 DEF Goes, PoolTypeOK
  <2> QED
    BY <1>13, <2>3, <2>4 DEF StoreError, PoolTypeOK, launcher, barrierVars
<1>14. ASSUME NEW t \in Threads, FlagError(t) PROVE PoolTypeOK'
  BY <1>14 DEF FlagError, Goes, AfterJob, PoolTypeOK, launcher, barrierVars
<1>15. CASE UNCHANGED poolVars
  BY <1>15 DEF poolVars, PoolTypeOK, launcher, barrierVars
<1> QED
  BY NextCases, <1>1, <1>2, <1>3, <1>4, <1>5, <1>6, <1>7, <1>8, <1>9, <1>10, <1>11,
     <1>12, <1>13, <1>14, <1>15

\* Every step keeps the invariant.
LEMMA StepIInv == IInv /\ [PoolNext]_poolVars => IInv'
BY StepType, StepCounted, StepMasterKnows, StepWorkersOwe, StepBarrier DEF IInv

\* The invariant of the pool holds for every number of workers, whatever the
\* tasks and the launches.
THEOREM Invariance == PoolSpec => []IInv
BY InitIInv, StepIInv, PTL DEF PoolSpec

\* No variable leaves its type; num_pending_ never goes below none, except in a
\* launch of no task.
THEOREM TypeInvariant == PoolSpec => []PoolTypeOK
<1>1. IInv => PoolTypeOK
  BY DEF IInv
<1> QED
  BY <1>1, Invariance, PTL

\* PELIBackendParallelBarrier: no task leaves a barrier another has not entered.
THEOREM BarrierSafe == PoolSpec => []BarrierHolds
<1>1. IInv => BarrierHolds
  BY DEF IInv
<1> QED
  BY <1>1, Invariance, PTL

\* Launch returns after all its tasks, when no worker can use its arguments.
THEOREM LaunchIsDone == PoolSpec => []LaunchWaits
<1>1. IInv => LaunchWaits
  BY DEF IInv, MasterKnows, WorkersOwe, LaunchWaits, Inside
<1> QED
  BY <1>1, Invariance, PTL

----------------------------------------------------------------------------
(* Errors *)

\* When no task but the master's fails: the flag is down and there is no message
\* until that task fails, and WaitForJobs finds both if it has failed.
ErrorsInOrder ==
  /\ failed \subseteq {0} /\ \A t \in Workers : pc[t] \notin {"record", "flag"}
  /\ pc[0] = "idle" => (result.code = -1 <=> failed # {}) /\ (result.tasks # {} <=> failed # {})
  /\ pc[0] \in {"push", "run", "look"} => failed = {} /\ has_error = FALSE
  /\ pc[0] \in {"idle", "push", "run", "look", "record"} => par_errors = {}
  /\ pc[0] \in {"record", "flag"} => failed # {}
  /\ pc[0] = "flag" => par_errors # {}
  /\ pc[0] \in {"wait", "check"} =>
       (has_error = TRUE <=> failed # {}) /\ (par_errors # {} <=> failed # {})

\* Every step keeps the errors in order when no worker's task fails.
LEMMA StepErrors ==
  ASSUME FailingTasks \subseteq {0}, IInv, ErrorsInOrder, [PoolNext]_poolVars
  PROVE  ErrorsInOrder'
<1> USE DEF IInv
<1>0. 0 \in Threads /\ Workers = Threads \ {0} /\ 0 \notin Workers
  BY DEF Threads, Workers
<1>1. CASE Configure
  BY <1>1 DEF Configure, ErrorsInOrder, launcher
<1>2. CASE PushTask
  BY <1>2 DEF PushTask, ErrorsInOrder, launcher
<1>3. CASE RunTaskZero
  <2>1. pc[0] = "push" /\ pc'[0] = "run" /\ UNCHANGED <<failed, has_error, par_errors, result>>
    BY <1>0, <1>3 DEF RunTaskZero, Goes, PoolTypeOK, launcher
  <2> QED
    BY <2>1, <1>3, MasterMoves DEF ErrorsInOrder
<1>4. CASE WaitForJobs
  <2>1. pc[0] = "wait" /\ pc'[0] = "check" /\ UNCHANGED <<failed, has_error, par_errors, result>>
    BY <1>0, <1>4 DEF WaitForJobs, Goes, PoolTypeOK, launcher
  <2> QED
    BY <2>1, <1>4, MasterMoves DEF ErrorsInOrder
<1>5. CASE CheckErrors
  <2>1. /\ pc[0] = "check" /\ pc'[0] = "idle" /\ failed' = failed
        /\ result'.code = -1 <=> has_error = TRUE
        /\ result'.tasks = IF has_error = TRUE THEN par_errors ELSE {}
        /\ par_errors' = IF has_error = TRUE THEN {} ELSE par_errors
    BY <1>0, <1>5 DEF CheckErrors, Goes, PoolTypeOK
  <2> QED
    BY <2>1, <1>5, MasterMoves DEF ErrorsInOrder
<1>6. ASSUME NEW n \in Sizes, Launch(n) PROVE ErrorsInOrder'
  <2>1. failed' = {} /\ has_error' = FALSE /\ par_errors' = {}
    BY <1>6 DEF Launch, Goes, ErrorsInOrder
  <2> QED
    BY <2>1, <1>6, LaunchResets DEF ErrorsInOrder
<1>7. ASSUME NEW t \in Workers, TakeTask(t) PROVE ErrorsInOrder'
  <2>1. UNCHANGED <<failed, has_error, par_errors, result>>
    BY <1>7 DEF TakeTask, launcher
  <2> QED
    BY <2>1, <1>0, <1>7, AtTake DEF ErrorsInOrder
<1>8. ASSUME NEW t \in Threads, EnterBarrier(t) \/ SeeTask(t) \/ LeaveBarrier(t)
      PROVE  ErrorsInOrder'
  <2>1. UNCHANGED <<failed, has_error, par_errors, result>>
    BY <1>8 DEF EnterBarrier, SeeTask, LeaveBarrier, launcher
  <2> QED
    BY <2>1, <1>0, <1>8, InBarrier DEF ErrorsInOrder, Inside
<1>9. ASSUME NEW t \in Threads, SignalJobFinish(t) PROVE ErrorsInOrder'
  <2>1. UNCHANGED <<failed, has_error, par_errors, result>> /\ pc'[t] = AfterJob(t)
    BY <1>9 DEF SignalJobFinish, Goes, launcher, PoolTypeOK
  <2> QED
    BY <2>1, <1>0, <1>9, AtJobEnd DEF ErrorsInOrder, AfterJob
<1>10. ASSUME NEW t \in Threads, SignalJobError(t) PROVE ErrorsInOrder'
  <2>1. /\ t = 0 /\ failed' = failed \cup {0} /\ pc'[0] = "record"
        /\ par_errors' = par_errors
    BY <1>0, <1>10 DEF SignalJobError, Goes, PoolTypeOK
  <2> QED
    BY <2>1, <1>0, <1>10, AtJobEnd DEF ErrorsInOrder
<1>11. ASSUME NEW t \in Threads, StoreError(t) \/ FlagError(t) PROVE ErrorsInOrder'
  <2>1. t = 0
    BY <1>0, <1>11, AfterFailure DEF ErrorsInOrder
  <2>2. /\ failed' = failed /\ pc'[0] \in {"flag", "undefined", "wait"}
        /\ pc'[0] = "flag" => par_errors' # {}
        /\ pc'[0] = "wait" => has_error' = TRUE /\ pc[0] = "flag" /\ par_errors' = par_errors
    BY <1>0, <1>11, <2>1 DEF StoreError, FlagError, Goes, AfterJob, PoolTypeOK
  <2> QED
    BY <2>1, <2>2, <1>0, <1>11, AfterFailure DEF ErrorsInOrder
<1>12. CASE UNCHANGED poolVars
  BY <1>12 DEF poolVars, ErrorsInOrder, launcher
<1> QED
  BY NextCases, <1>1, <1>2, <1>3, <1>4, <1>5, <1>6, <1>7, <1>8, <1>9, <1>10, <1>11, <1>12

\* Launch returns -1, with a message, exactly when a task failed, if only the task
\* of the master may: what a worker's task returns may come too late.
THEOREM MasterErrorsReported == FailingTasks \subseteq {0} => (PoolSpec => []ErrorsReported)
<1> SUFFICES ASSUME FailingTasks \subseteq {0} PROVE PoolSpec => []ErrorsReported
  OBVIOUS
<1>1. PoolInit => ErrorsInOrder
  BY DEF PoolInit, ErrorsInOrder, Workers, Threads
<1>2. IInv /\ ErrorsInOrder /\ [PoolNext]_poolVars => ErrorsInOrder'
  BY StepErrors
<1>3. ErrorsInOrder => ErrorsReported
  BY DEF ErrorsInOrder, ErrorsReported
<1> QED
  BY <1>1, <1>2, <1>3, Invariance, PTL DEF PoolSpec


----------------------------------------------------------------------------
(* The pool implements ParallelFor *)

\* A task is in a barrier or has left all it has entered; between two calls there is a launch of some task.
InStep ==
  /\ \A t \in Tasks : /\ pc[t] = "look" => entered[t] = left[t] + 1
                      /\ pc[t] \notin {"look", "undefined"} => entered[t] = left[t]
                      /\ entered[t] <= left[t] + 1
  /\ num_workers_used \in UsedCounts
  /\ pc[0] # "idle" => num_task >= 1

RInv == IInv /\ ErrorsInOrder /\ InStep

\* Every step keeps it, if Configure finds a core of the kind asked for.
LEMMA StepInStep ==
  ASSUME 0 \notin UsedCounts, IInv, InStep, [PoolNext]_poolVars
  PROVE  InStep'
<1> USE DEF IInv
<1>0. 0 \in Threads /\ Tasks \subseteq Threads /\ Workers \subseteq Threads
  BY DEF Threads, PoolTypeOK, Tasks, Workers
<1> DEFINE still == /\ UNCHANGED <<num_task, entered, left, num_workers_used>>
                    /\ \A t \in Threads : (pc'[t] = "look" <=> pc[t] = "look")
                                          /\ (pc'[t] # "undefined" => pc[t] # "undefined")
                    /\ pc'[0] # "idle" => pc[0] # "idle"
<1>a. ASSUME still PROVE InStep'
  <2>1. Tasks' = Tasks
    BY <1>a DEF Tasks
  <2> QED BY <1>0, <1>a, <2>1 DEF InStep
<1> HIDE DEF still
<1>1. CASE Configure
  BY <1>1 DEF Configure, InStep, Tasks, launcher, barrierVars
<1>2. CASE PushTask \/ RunTaskZero \/ WaitForJobs \/ CheckErrors
  <2>1. still
    BY <1>0, <1>2 DEF still, PushTask, RunTaskZero, WaitForJobs, CheckErrors, Goes, PoolTypeOK, launcher, barrierVars
  <2> QED BY <2>1, <1>a
<1>3. ASSUME NEW n \in Sizes, Launch(n) PROVE InStep'
  <2>1. num_workers_used' = num_workers_used /\ num_task' = IF n = 0 THEN num_workers_used ELSE n
    BY <1>3 DEF Launch
  <2>2. num_task' >= 1
    BY <2>1 DEF InStep
  <2>3. \A t \in Tasks' : pc'[t] # "look" /\ entered'[t] = 0 /\ left'[t] = 0
    BY <1>3, LaunchResets DEF Inside, Workers
  <2> QED BY <2>1, <2>2, <2>3 DEF InStep
<1>4. ASSUME NEW t \in Workers, TakeTask(t) PROVE InStep'
  <2>1. still
    BY <1>0, <1>4, AtTake DEF still, TakeTask, Goes, PoolTypeOK, Workers, barrierVars
  <2> QED BY <2>1, <1>a
<1>5. ASSUME NEW t \in Threads, EnterBarrier(t) \/ LeaveBarrier(t) PROVE InStep'
  <2>1. Tasks' = Tasks /\ num_workers_used' = num_workers_used /\ num_task' = num_task
    BY <1>5 DEF EnterBarrier, LeaveBarrier, launcher, Tasks
  <2>2. \A s \in Threads \ {t} : pc'[s] = pc[s] /\ entered'[s] = entered[s] /\ left'[s] = left[s]
    BY <1>5, InBarrier DEF EnterBarrier, LeaveBarrier, PoolTypeOK
  <2>3. entered[t] \in Nat /\ left[t] \in Nat
    BY DEF PoolTypeOK
  <2>4. CASE EnterBarrier(t)
    BY <1>0, <2>1, <2>2, <2>3, <2>4 DEF EnterBarrier, InStep, Goes, PoolTypeOK
  <2>5. CASE LeaveBarrier(t)
    BY <1>0, <2>1, <2>2, <2>3, <2>5 DEF LeaveBarrier, InStep, Goes, PoolTypeOK
  <2> QED BY <1>5, <2>4, <2>5
<1>6. ASSUME NEW t \in Threads, SeeTask(t) PROVE InStep'
  <2>1. still
    BY <1>6 DEF still, SeeTask, launcher
  <2> QED BY <2>1, <1>a
<1>7. ASSUME NEW t \in Threads, SignalJobFinish(t) \/ SignalJobError(t) PROVE InStep'
  <2>1. still
    BY <1>0, <1>7, AtJobEnd DEF still, SignalJobFinish, SignalJobError, AfterJob, barrierVars
  <2> QED BY <2>1, <1>a
<1>8. ASSUME NEW t \in Threads, StoreError(t) \/ FlagError(t) PROVE InStep'
  <2>1. still
    BY <1>0, <1>8, AfterFailure DEF still, StoreError, FlagError, AfterJob, barrierVars
  <2> QED BY <2>1, <1>a
<1>9. CASE UNCHANGED poolVars
  BY <1>9 DEF poolVars, InStep, Tasks, launcher, barrierVars
<1> QED BY NextCases, <1>1, <1>2, <1>3, <1>4, <1>5, <1>6, <1>7, <1>8, <1>9

\* Who leaves a barrier finds every task of the launch in it, or just behind it.
LEMMA LeavesInStep ==
  ASSUME IInv, InStep, NEW t \in Tasks, LeaveBarrier(t), NEW s \in Tasks
  PROVE  left[s] \in {left[t], left[t] + 1}
<1>0. PoolTypeOK /\ CountersFollow /\ SeenStays /\ BarrierHolds
  BY DEF IInv
<1>1. pc[t] = "look" /\ look[t] >= num_task
  BY DEF LeaveBarrier, Goes
<1>2. entered[t] = left[t] + 1 /\ old[t] = entered[t] - 1
  BY <1>0, <1>1 DEF InStep, CountersFollow
<1>3. left[s] <= entered[t]
  BY <1>0 DEF BarrierHolds
<1>4. s \in Threads /\ t \in Threads /\ s < look[t]
  <2>1. num_task \in 0 .. NumWorkers /\ look \in [Threads -> 0 .. NumWorkers]
    BY <1>0 DEF PoolTypeOK
  <2>2. s \in Threads /\ t \in Threads /\ s \in Nat /\ s < num_task
    BY <2>1 DEF Tasks, Threads
  <2>3. look[t] \in Nat
    BY <2>1, <2>2
  <2> QED BY <1>1, <2>1, <2>2, <2>3
<1>5. s # t => entered[s] > old[t]
  BY <1>0, <1>1, <1>4 DEF SeenStays, CountersFollow
<1>6. entered[s] <= left[s] + 1
  BY DEF InStep
<1>7. /\ entered[s] \in Nat /\ left[s] \in Nat /\ entered[t] \in Nat /\ left[t] \in Nat /\ old[t] \in Nat
  BY <1>0, <1>4 DEF PoolTypeOK
<1> QED BY <1>2, <1>3, <1>5, <1>6, <1>7

\* The pool starts as ParallelFor does.
LEMMA ParallelInit == PoolInit => Abstract!Init
<1> SUFFICES ASSUME PoolInit PROVE Abstract!Init
  OBVIOUS
<1>1. pc[0] = "idle"
  BY DEF PoolInit, Threads
<1>2. Tasks \ ended = {}
  BY DEF PoolInit, Tasks
<1>3. left = [t \in Abstract!Tasks |-> 0]
  BY DEF PoolInit, Zero, Abstract!Tasks, Threads
<1>4. failed = {} /\ result.code = 0
  BY DEF PoolInit
<1> QED BY <1>1, <1>2, <1>3, <1>4 DEF Abstract!Init

\* And every step is a step of ParallelFor, or none.
LEMMA ParallelStep ==
  ASSUME RInv, RInv', [PoolNext]_poolVars, FailingTasks \subseteq {0}
  PROVE  [Abstract!Next]_Abstract!vars
<1>t. num_task \in 0 .. NumWorkers
  BY DEF RInv, IInv, PoolTypeOK
<1>0. 0 \in Threads /\ Tasks \subseteq Threads /\ Workers \subseteq Threads /\ Abstract!Tasks = Threads
  <2>1. 0 \in Threads /\ Tasks \subseteq Threads /\ Workers \subseteq Threads
    BY <1>t DEF Threads, Tasks, Workers
  <2>2. Abstract!Tasks = Threads
    BY DEF Threads, Abstract!Tasks
  <2> QED BY <2>1, <2>2
<1> USE DEF RInv, IInv
<1> DEFINE quiet == /\ UNCHANGED <<num_task, ended, left, failed, result>>
                    /\ (pc'[0] = "idle") <=> (pc[0] = "idle")
<1>a. ASSUME quiet PROVE UNCHANGED Abstract!vars
  BY <1>a DEF Abstract!vars, Tasks
<1>b. ASSUME quiet PROVE [Abstract!Next]_Abstract!vars
  BY <1>a, <1>b
<1> HIDE DEF quiet
<1>1. CASE Configure
  <2>1. quiet
    BY <1>1 DEF Configure, quiet, launcher, barrierVars
  <2> QED BY <2>1, <1>b
<1>2. CASE PushTask
  <2>1. quiet
    BY <1>2 DEF PushTask, quiet, launcher, barrierVars
  <2> QED BY <2>1, <1>b
<1>3. CASE RunTaskZero \/ WaitForJobs
  <2>1. quiet
    BY <1>0, <1>3 DEF RunTaskZero, WaitForJobs, Goes, PoolTypeOK, quiet, launcher, barrierVars
  <2> QED BY <2>1, <1>b
<1>4. CASE CheckErrors
  <2>1. pc[0] = "check" /\ pc'[0] = "idle"
    BY <1>0, <1>4 DEF CheckErrors, Goes, PoolTypeOK
  <2>2. Tasks' = Tasks /\ ended' = ended /\ ended = Tasks /\ left' = left /\ failed' = failed
    BY <2>1, <1>4 DEF CheckErrors, launcher, barrierVars, MasterKnows, Tasks
  <2>3. has_error = TRUE <=> failed # {}
    BY <2>1 DEF ErrorsInOrder
  <2>4. result'.code = IF has_error = TRUE THEN -1 ELSE 0
    BY <1>4 DEF CheckErrors, PoolTypeOK
  <2>5. Abstract!Return
    BY <2>1, <2>2, <2>3, <2>4 DEF Abstract!Return
  <2> QED BY <2>5 DEF Abstract!Next
<1>5. ASSUME NEW n \in Sizes, Launch(n) PROVE [Abstract!Next]_Abstract!vars
  <2>1. pc[0] = "idle" /\ pc'[0] # "idle"
    BY <1>5, LaunchResets DEF Launch, Goes
  <2>2. num_task' \in 1 .. NumWorkers /\ ended' = {}
    BY <2>1, <1>5, LaunchResets DEF InStep
  <2>3. Tasks' \ ended' = 0 .. num_task' - 1
    BY <2>2 DEF Tasks
  <2>4. left' = [t \in Abstract!Tasks |-> 0] /\ failed' = {} /\ result' = result
    BY <1>0, <1>5 DEF Launch, Zero
  <2>5. Abstract!Launch
    BY <2>1, <2>2, <2>3, <2>4 DEF Abstract!Launch
  <2> QED BY <2>5 DEF Abstract!Next
<1>6. ASSUME NEW t \in Workers, TakeTask(t) PROVE [Abstract!Next]_Abstract!vars
  <2>1. pc'[0] = pc[0]
    BY <1>0, <1>6, AtTake DEF Workers
  <2>2. quiet
    BY <1>6, <2>1 DEF TakeTask, quiet, launcher, barrierVars
  <2> QED BY <2>2, <1>b
<1>7. ASSUME NEW t \in Threads, EnterBarrier(t) \/ SeeTask(t) PROVE [Abstract!Next]_Abstract!vars
  <2>1. (pc'[0] = "idle") <=> (pc[0] = "idle")
    BY <1>0, <1>7, InBarrier DEF Inside
  <2>2. quiet
    BY <1>7, <2>1 DEF EnterBarrier, SeeTask, quiet, launcher, barrierVars
  <2> QED BY <2>2, <1>b
<1>c. ASSUME NEW t \in Threads, pc[t] \in Inside
      PROVE  t \in Tasks /\ t \notin ended /\ pc[0] # "idle"
  <2>1. CASE t = 0
    <3>1. pc[0] \in {"run", "look"} /\ 0 \notin ended
      BY <2>1, <1>c DEF MasterKnows, Inside
    <3>2. num_task \in Nat /\ num_task >= 1
      BY <3>1 DEF InStep, PoolTypeOK
    <3> QED BY <2>1, <3>1, <3>2 DEF Tasks
  <2>2. CASE t # 0
    BY <2>2, <1>c DEF WorkersOwe, Workers, MasterKnows
  <2> QED BY <2>1, <2>2
<1>8. ASSUME NEW t \in Threads, LeaveBarrier(t) PROVE [Abstract!Next]_Abstract!vars
  <2>1. pc[t] = "look" /\ left' = [left EXCEPT ![t] = @ + 1]
    BY <1>8 DEF LeaveBarrier, Goes
  <2>2. t \in Tasks /\ t \notin ended /\ pc[0] # "idle"
    BY <2>1, <1>c DEF Inside
  <2>3. pc'[0] # "idle" /\ Tasks' = Tasks /\ ended' = ended /\ failed' = failed /\ result' = result
    BY <1>0, <2>2, <1>8, InBarrier DEF LeaveBarrier, Inside, Tasks
  <2>4. \A s \in Tasks : left[s] \in {left[t], left[t] + 1}
    BY <2>2, <1>8, LeavesInStep
  <2>5. Abstract!Leave(t)
    BY <2>1, <2>2, <2>3, <2>4 DEF Abstract!Leave
  <2> QED BY <1>0, <2>5 DEF Abstract!Next
<1>9. ASSUME NEW t \in Threads, SignalJobFinish(t) \/ SignalJobError(t) PROVE [Abstract!Next]_Abstract!vars
  <2>1. pc[t] = "run" /\ ended' = ended \cup {t} /\ left' = left /\ result' = result
        /\ failed' \in {failed, failed \cup {t}}
    BY <1>9 DEF SignalJobFinish, SignalJobError, Goes, barrierVars
  <2>2. t \in Tasks /\ t \notin ended /\ pc[0] # "idle"
    BY <2>1, <1>c DEF Inside
  <2>3. pc'[0] # "idle" /\ Tasks' = Tasks
    BY <1>0, <2>2, <1>9, AtJobEnd DEF AfterJob, Tasks
  <2>4. Abstract!Finish(t)
    BY <2>1, <2>2, <2>3 DEF Abstract!Finish
  <2> QED BY <1>0, <2>4 DEF Abstract!Next
<1>10. ASSUME NEW t \in Threads, StoreError(t) \/ FlagError(t) PROVE [Abstract!Next]_Abstract!vars
  <2>1. t = 0
    BY <1>10, AfterFailure DEF ErrorsInOrder, Workers
  <2>2. (pc'[0] = "idle") <=> (pc[0] = "idle")
    BY <1>0, <1>10, <2>1, AfterFailure DEF AfterJob
  <2>3. quiet
    BY <1>10, <2>2 DEF StoreError, FlagError, quiet, launcher, barrierVars
  <2> QED BY <2>3, <1>b
<1>11. CASE UNCHANGED poolVars
  <2>1. quiet
    BY <1>11 DEF poolVars, quiet, launcher, barrierVars
  <2> QED BY <2>1, <1>b
<1> QED BY NextCases, <1>1, <1>2, <1>3, <1>4, <1>5, <1>6, <1>7, <1>8, <1>9, <1>10, <1>11

\* The pool is a parallel for: its tasks run once each, meet at their barriers, and the call returns
\* after all of them with an error if one failed - for any number of workers and launches, if only
\* the master's task fails (what a worker's task returns may come too late) and Configure finds a core.
THEOREM Refinement ==
  ASSUME FailingTasks \subseteq {0}, 0 \notin UsedCounts
  PROVE  PoolSpec => ImplementsParallelFor
<1>1. PoolInit => ErrorsInOrder
  BY DEF PoolInit, ErrorsInOrder, Workers, Threads
<1>2. PoolInit => InStep
  BY DEF PoolInit, InStep, Tasks, Threads
<1>3. IInv /\ ErrorsInOrder /\ [PoolNext]_poolVars => ErrorsInOrder'
  BY StepErrors
<1>4. IInv /\ InStep /\ [PoolNext]_poolVars => InStep'
  BY StepInStep
<1>5. RInv /\ RInv' /\ [PoolNext]_poolVars => [Abstract!Next]_Abstract!vars
  BY ParallelStep
<1>6. PoolSpec => []RInv
  BY <1>1, <1>2, <1>3, <1>4, Invariance, PTL DEF PoolSpec, RInv
<1> QED
  BY <1>5, <1>6, ParallelInit, PTL DEF PoolSpec, ImplementsParallelFor, Abstract!Spec
=============================================================================
