------------------------------ MODULE Registry ------------------------------
(* The table of global functions (src/include/peli/runtime/registry.h,
   src/src/runtime/registry.cc) and its use from Python
   (src/python/peli/_ffi/function.py).

   An entry is a Registry object, and a function a PackedFunc. The mutex covers
   the table only: a body is set, and copied, through a pointer that outlives it.
   Threads of Python come here without the interpreter's lock. *)
EXTENDS Naturals

CONSTANTS Threads, Names, Entries, Funcs, None,
          Overrides \* may a function be registered over another?

\* What func_ holds before set_body, and what a copy made during one may be.
Unset == "unset"
Torn == "torn"

ASSUME RegistryAssumption == Overrides \in BOOLEAN /\ None \notin Entries \cup Funcs \cup {Unset}

VARIABLES fmap,    \* the entry of each name
          func,    \* func_ of each entry, None if the object does not exist
          thread,  \* what each thread is about to do: [op, entry, f]
          got,     \* the function each thread got last
          kept     \* entries with pointers that compiled code keeps

registryVars == <<fmap, func, thread, got, kept>>

Idle == [op |-> "idle", entry |-> None, f |-> None]

RegistryInit ==
  /\ fmap = [n \in Names |-> None]
  /\ func = [e \in Entries |-> None]
  /\ thread = [t \in Threads |-> Idle]
  /\ got = [t \in Threads |-> None]
  /\ kept = {}

Goes(t, op, e, f) == thread' = [thread EXCEPT ![t] = [op |-> op, entry |-> e, f |-> f]]
Is(t, op) == thread[t].op = op

\* A new entry has no body yet; an old one keeps its until set_body.
Register(t, n, f) ==
  /\ Is(t, "idle")
  /\ \/ \E e \in Entries :
          /\ fmap[n] = None /\ func[e] = None
          /\ fmap' = [fmap EXCEPT ![n] = e] /\ func' = [func EXCEPT ![e] = Unset]
          /\ Goes(t, "set_body", e, f)
     \/ /\ Overrides /\ fmap[n] # None
        /\ Goes(t, "set_body", fmap[n], f) /\ UNCHANGED <<fmap, func>>
  /\ UNCHANGED <<got, kept>>

\* set_body copies the function into the entry: begun, then done.
SetBody(t) ==
  /\ \/ Is(t, "set_body") /\ Goes(t, "copying", thread[t].entry, thread[t].f) /\ UNCHANGED func
     \/ /\ Is(t, "copying") /\ thread' = [thread EXCEPT ![t] = Idle]
        /\ func' = [func EXCEPT ![thread[t].entry] = thread[t].f]
  /\ UNCHANGED <<fmap, got, kept>>

\* The slip that deletes it.
RemoveNameDeletes(t, n) ==
  /\ Is(t, "idle") /\ fmap[n] # None
  /\ fmap' = [fmap EXCEPT ![n] = None]
  /\ func' = [func EXCEPT ![fmap[n]] = None]
  /\ UNCHANGED <<thread, got, kept>>

\* The name goes; the object stays, for the pointers to it.
RemoveName(t, n) ==
  /\ Is(t, "idle") /\ fmap[n] # None
  /\ fmap' = [fmap EXCEPT ![n] = None]
  /\ UNCHANGED <<func, thread, got, kept>>

Get(t, n) ==
  /\ Is(t, "idle")
  /\ IF fmap[n] = None THEN got' = [got EXCEPT ![t] = None] /\ UNCHANGED thread
     ELSE Goes(t, "got", fmap[n], None) /\ UNCHANGED got
  /\ UNCHANGED <<fmap, func, kept>>

\* PELIFuncGetGlobal copies what the pointer shows, while another thread may be writing it.
Copied(e) == IF \E t \in Threads : Is(t, "copying") /\ thread[t].entry = e THEN Torn ELSE func[e]
GetGlobal(t) ==
  /\ Is(t, "got") /\ thread' = [thread EXCEPT ![t] = Idle]
  /\ got' = [got EXCEPT ![t] = Copied(thread[t].entry)]
  /\ UNCHANGED <<fmap, func, kept>>

\* Compiled code, or a static variable, keeps the pointer itself.
Keep(t) ==
  /\ Is(t, "got") /\ thread' = [thread EXCEPT ![t] = Idle]
  /\ kept' = kept \cup {thread[t].entry}
  /\ UNCHANGED <<fmap, func, got>>

RegistryNext ==
  \E t \in Threads :
    \/ \E n \in Names : (\E f \in Funcs : Register(t, n, f)) \/ RemoveName(t, n) \/ Get(t, n)
    \/ SetBody(t) \/ GetGlobal(t) \/ Keep(t)

RegistrySpec == RegistryInit /\ [][RegistryNext]_registryVars

(***************************************************************************)
(* Properties.                                                             *)
(***************************************************************************)
\* Whoever has a pointer to an entry, on the way to set, copy or call its function, may use it
\* however the name is removed and registered anew meanwhile.
PointersStayValid ==
  \A e \in Entries : e \in kept \/ (\E t \in Threads : thread[t].entry = e) => func[e] # None
=============================================================================
