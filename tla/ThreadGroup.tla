----------------------------- MODULE ThreadGroup -----------------------------
(* The threads of a pool and the cores they are bound to
   (src/src/runtime/threading_backend.cc): the cores sorted by speed when the
   pool is made, its workers bound from the fast end or from the slow end each
   time the pool is configured (src/src/runtime/thread_pool.cc). Worker 0 is
   the thread that owns the pool. *)
EXTENDS Integers, FiniteSetsExt

CONSTANTS Machines,     \* [cores, freqs, halved]; see MachinesAssumption
          ThreadsAsked, \* PELI_NUM_THREADS or OMP_NUM_THREADS as atoi reads it, Default for neither
          Wanted,       \* nthreads of runtime.config_threadpool, 0 for all
          Default

Modes == {"big", "little", "other"}

\* cores: hardware_concurrency(); freqs[c]: cpuinfo_max_freq of core c, 0 without that file and -1 if it holds no number; halved: the
\* build is for x86, where half of the cores are taken for hyper-threads.
ASSUME MachinesAssumption ==
  /\ \A m \in Machines :
       /\ m.cores \in Nat \ {0} /\ m.freqs \in [0 .. m.cores - 1 -> Int] /\ m.halved \in BOOLEAN
  /\ Wanted \subseteq Int /\ Default \notin Int /\ ThreadsAsked \subseteq Int \cup {Default}

VARIABLES machine, env,        \* where the pool is made
          num_workers,
          sorted_order, big_count, little_count,
          core_of,             \* the core each worker is bound to, Default before
          end_bound,           \* history: the end of sorted_order SetAffinity started from
          num_workers_used

groupVars == <<machine, env, num_workers, sorted_order, big_count, little_count, core_of, end_bound, num_workers_used>>

Cores(m) == 0 .. m.cores - 1
Least(a, b) == IF a < b THEN a ELSE b
GroupWorkers == 0 .. num_workers - 1

MaxConcurrency(m, threads) ==
  LET n == IF threads # Default THEN threads ELSE IF m.halved THEN m.cores \div 2 ELSE m.cores
  IN  IF n < 1 THEN 1 ELSE n

(***************************************************************************)
(* The constructor.                                                        *)
(***************************************************************************)
\* fcmpbyfreq
Before(m, a, b) == m.freqs[a] > m.freqs[b] \/ (m.freqs[a] = m.freqs[b] /\ a < b)

\* The cores in this order, each once.
Sorted(m, s) ==
  /\ \A i, j \in DOMAIN s : i < j => Before(m, s[i], s[j])
  /\ \A c \in Cores(m) : \E i \in DOMAIN s : s[i] = c

Like(m, c) == Cardinality({d \in Cores(m) : m.freqs[d] = m.freqs[c]})

\* Big cores are the fastest, little ones the slowest if there is a difference.
InitSortedOrder ==
  /\ sorted_order \in {s \in [1 .. machine.cores -> Cores(machine)] : Sorted(machine, s)}
  /\ LET fast == sorted_order[1]
         slow == sorted_order[machine.cores]
     IN  /\ big_count = Like(machine, fast)
         /\ little_count = IF machine.freqs[fast] = machine.freqs[slow] THEN 0 ELSE Like(machine, slow)

(***************************************************************************)
(* Configure.                                                              *)
(***************************************************************************)
\* The slip of a master that is bound to the first core whatever the end.
PlaceMasterFirst(w, reverse) == sorted_order[IF reverse /\ w > 0 THEN machine.cores - w ELSE w + 1]

Place(w, reverse) == sorted_order[IF reverse THEN machine.cores - w ELSE w + 1]

SetAffinity(reverse) ==
  /\ core_of' = [w \in GroupWorkers |-> Place(w, reverse)]
  /\ end_bound' = IF reverse THEN "slow" ELSE "fast"

UsedBy(mode, nthreads) ==
  Least(num_workers,
        IF nthreads # 0 THEN nthreads
        ELSE CASE mode = "little" -> little_count
               [] mode = "big" -> big_count
               [] mode = "other" -> MaxConcurrency(machine, env))

\* PELI_BIND_THREADS is read each time; there is no binding with more workers than cores.
Configure(mode, nthreads) ==
  /\ num_workers_used' = UsedBy(mode, nthreads)
  /\ \/ machine.cores >= num_workers /\ SetAffinity(mode = "little")
     \/ UNCHANGED <<core_of, end_bound>>
  /\ UNCHANGED <<machine, env, num_workers, sorted_order, big_count, little_count>>

\* The constructors: ThreadPool asks for the big cores.
GroupInit ==
  /\ machine \in Machines /\ env \in ThreadsAsked
  /\ num_workers = MaxConcurrency(machine, env)
  /\ InitSortedOrder
  /\ num_workers_used = UsedBy("big", 0)
  /\ \/ /\ machine.cores >= num_workers
        /\ core_of = [w \in GroupWorkers |-> Place(w, FALSE)] /\ end_bound = "fast"
     \/ core_of = [w \in GroupWorkers |-> Default] /\ end_bound = "none"

\* runtime.config_threadpool
ConfigurePool == \E mode \in Modes, nthreads \in Wanted : Configure(mode, nthreads)

GroupNext == ConfigurePool
GroupSpec == GroupInit /\ [][GroupNext]_groupVars

(***************************************************************************)
(* Properties.                                                             *)
(***************************************************************************)
Used == {w \in GroupWorkers : w < num_workers_used}

\* Once bound, no two workers share a core, and those in use have the fastest cores of the machine,
\* or the slowest when that was asked for: no core that none of them has would have been better.
WorkersOnTheirCores ==
  end_bound # "none" =>
    /\ \A v, w \in GroupWorkers : core_of[v] = core_of[w] => v = w
    /\ \A w \in Used, c \in Cores(machine) \ {core_of[v] : v \in Used} :
         IF end_bound = "fast" THEN machine.freqs[c] <= machine.freqs[core_of[w]]
         ELSE machine.freqs[c] >= machine.freqs[core_of[w]]
=============================================================================
