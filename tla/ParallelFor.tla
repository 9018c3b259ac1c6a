---------------------------- MODULE ParallelFor ----------------------------
(***************************************************************************)
(* What PELIBackendParallelLaunch promises                                  *)
(* (src/include/peli/runtime/c_backend_api.h): the tasks 0 .. n - 1 run,    *)
(* each once, in any order; they may meet at barriers, which nobody leaves  *)
(* before all have entered; the call returns when all tasks have, with an   *)
(* error if one of them failed.                                             *)
(***************************************************************************)
EXTENDS Integers

CONSTANT MaxTasks

VARIABLES
  busy,     \* a call is in progress
  running,  \* tasks that have not returned
  round,    \* round[t]: barriers task t has left in this call
  failed,   \* tasks that returned an error
  result    \* of the last call that returned

vars == <<busy, running, round, failed, result>>

Tasks == 0 .. MaxTasks - 1

Init ==
  /\ busy = FALSE /\ running = {} /\ round = [t \in Tasks |-> 0]
  /\ failed = {} /\ result = "ok"

Launch ==
  /\ ~busy /\ busy' = TRUE
  /\ \E n \in 1 .. MaxTasks : running' = 0 .. n - 1
  /\ round' = [t \in Tasks |-> 0] /\ failed' = {}
  /\ UNCHANGED result

\* The first task to leave finds that all have left the barrier before.
Leave(t) ==
  /\ busy /\ t \in running
  /\ \A s \in running : round[s] \in {round[t], round[t] + 1}
  /\ round' = [round EXCEPT ![t] = @ + 1]
  /\ UNCHANGED <<busy, running, failed, result>>

Finish(t) ==
  /\ busy /\ t \in running /\ running' = running \ {t}
  /\ failed' \in {failed, failed \cup {t}}
  /\ UNCHANGED <<busy, round, result>>

Return ==
  /\ busy /\ running = {} /\ busy' = FALSE
  /\ result' = IF failed = {} THEN "ok" ELSE "error"
  /\ UNCHANGED <<running, round, failed>>

Next == Launch \/ Return \/ \E t \in Tasks : Leave(t) \/ Finish(t)

Spec == Init /\ [][Next]_vars
FairSpec == Spec /\ WF_vars(Return \/ \E t \in Tasks : Finish(t))
=============================================================================
