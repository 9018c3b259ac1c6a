---------------------------- MODULE TaskHandover ----------------------------
(***************************************************************************)
(* What a worker's task queue promises the thread pool: the tasks pushed    *)
(* are handed to the worker one by one, in the order of the pushes, with at *)
(* most Capacity of them waiting; a worker told to exit takes no more.      *)
(***************************************************************************)
EXTENDS Integers

CONSTANT Capacity

VARIABLES
  pushed,  \* tasks put into the queue; task n is the n-th
  taken,   \* tasks the worker took
  killed,  \* the worker is told to exit
  gone     \* the worker exited

vars == <<pushed, taken, killed, gone>>

Init == pushed = 0 /\ taken = 0 /\ killed = FALSE /\ gone = FALSE

Put ==
  /\ pushed - taken < Capacity /\ ~killed
  /\ pushed' = pushed + 1
  /\ UNCHANGED <<taken, killed, gone>>

\* A worker on its way out of the queue may still take what is there.
Take ==
  /\ taken < pushed /\ ~gone
  /\ taken' = taken + 1
  /\ UNCHANGED <<pushed, killed, gone>>

Kill ==
  /\ killed' = TRUE
  /\ UNCHANGED <<pushed, taken, gone>>

Exit ==
  /\ killed /\ gone' = TRUE
  /\ UNCHANGED <<pushed, taken, killed>>

Next == Put \/ Take \/ Kill \/ Exit

Spec == Init /\ [][Next]_vars
=============================================================================
