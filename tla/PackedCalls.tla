----------------------------- MODULE PackedCalls -----------------------------
(* Calls of packed functions, and who owns what they return: PELIRetValue
   (src/include/peli/runtime/packed_func.h), the C API that hands its contents
   to Python (src/src/runtime/c_runtime_api.cc), and the Python objects that
   free them (src/python/peli/_ffi/_ctypes/function.py).

   One thread's stack of calls. Python calls C++, and C++ calls functions which
   may be Python again. An object stands for what a return value owns: a string,
   a copy of a function or module, a reference to an array, a clone of an
   extension type. *)
EXTENDS Naturals, Sequences, FiniteSets

CONSTANTS Objects,     \* objects that exist at a time
          MaxCalls,    \* bound: nested calls
          ReturnCodes  \* type codes of objects the functions return

Kinds == {"kStr", "kBytes", "kFuncHandle", "kModuleHandle", "kNDArrayContainer", "ext"}
CONSTANT NoObject
ASSUME CallsAssumption ==
  MaxCalls \in Nat /\ ReturnCodes \subseteq Kinds /\ NoObject \notin Objects \cup Kinds

PODCodes == {"kNull", "kDLInt", "kPELIType"}

VARIABLES heap,   \* the kind of each object, NoObject if it does not exist
          calls,  \* the calls in progress, the innermost last
          held    \* objects with a Python object that frees them

callVars == <<heap, calls, held>>

CallInit == heap = [o \in Objects |-> NoObject] /\ calls = <<>> /\ held = {}

Null == [code |-> "kNull", obj |-> NoObject]
Value(code, o) == [code |-> code, obj |-> o]
Top == Len(calls)
rv == calls[Top].rv
SetReturn(v) == calls' = [calls EXCEPT ![Top].rv = v]
Allocated(h, o, kind) == [h EXCEPT ![o] = kind]
Freed(h, os) == [o \in Objects |-> IF o \in os THEN NoObject ELSE h[o]]
Unallocated == {o \in Objects : heap[o] = NoObject}

\* The slip of a Clear() that forgets the modules as well.
ClearNoModules(v) ==
  IF v.code \in Kinds \ {"kBytes", "kModuleHandle"} THEN {v.obj} ELSE {}

\* What Clear() deletes: bytes are not among it.
Clear(v) == IF v.code \in Kinds \ {"kBytes"} THEN {v.obj} ELSE {}

(***************************************************************************)
(* Assignments to the innermost return value, by C++ or PELICFuncSetReturn. *)
(***************************************************************************)
SwitchToPOD ==
  \E code \in PODCodes :
    /\ Top > 0 /\ SetReturn(Value(code, NoObject))
    /\ heap' = Freed(heap, Clear(rv)) /\ UNCHANGED held

\* Strings, functions, modules and extensions. A value of the code it has is overwritten in place.
ClassCodes == ReturnCodes \ {"kNDArrayContainer"}
SwitchToClass ==
  \E code \in ClassCodes :
    /\ Top > 0
    /\ IF code = rv.code THEN UNCHANGED callVars
       ELSE \E o \in Unallocated :
              /\ heap' = Allocated(Freed(heap, Clear(rv)), o, code)
              /\ SetReturn(Value(code, o)) /\ UNCHANGED held

\* An array, or the clone of an extension: what was there goes first.
AssignObject ==
  \E code \in ReturnCodes \cap {"kNDArrayContainer", "ext"}, o \in Unallocated :
    /\ Top > 0
    /\ heap' = Allocated(Freed(heap, Clear(rv)), o, code)
    /\ SetReturn(Value(code, o)) /\ UNCHANGED held

(***************************************************************************)
(* Calls.                                                                  *)
(***************************************************************************)
\* A callable among the arguments becomes a function of its own, kept for the call.
TempArgs == {temps \in SUBSET Unallocated : Cardinality(temps) <= 1}

\* Python calls, at the top or in a callback.
FunctionCall ==
  /\ Top < MaxCalls
  /\ \E temps \in TempArgs :
       /\ heap' = [o \in Objects |-> IF o \in temps THEN "kFuncHandle" ELSE heap[o]]
       /\ calls' = Append(calls, [caller |-> "py", rv |-> Null, temps |-> temps])
       /\ UNCHANGED held

\* A function calls another, or a callback it was given.
PackedFuncCall ==
  /\ 0 < Top /\ Top < MaxCalls
  /\ calls' = Append(calls, [caller |-> "cpp", rv |-> Null, temps |-> {}])
  /\ UNCHANGED <<heap, held>>

Pop(cs) == SubSeq(cs, 1, Len(cs) - 1)

\* It throws: every call up to the one Python made, which raises, loses its value.
PyCall(i) == calls[i].caller = "py" /\ \A j \in i + 1 .. Top : calls[j].caller = "cpp"
Throws ==
  \E i \in 1 .. Top :
    /\ PyCall(i)
    /\ heap' = Freed(heap, UNION {Clear(calls[j].rv) \cup calls[j].temps : j \in i .. Top})
    /\ calls' = SubSeq(calls, 1, i - 1) /\ UNCHANGED held

\* operator() returns its value to C++, which assigns it or lets it go.
ReturnToCpp ==
  /\ Top > 1 /\ calls[Top].caller = "cpp"
  /\ \/ /\ heap' = Freed(heap, Clear(calls[Top - 1].rv))
        /\ calls' = [Pop(calls) EXCEPT ![Top - 1].rv = rv]
     \/ /\ heap' = Freed(heap, Clear(rv))
        /\ calls' = Pop(calls)
  /\ UNCHANGED held

\* PELIFuncCall copies a string into the thread's store; the value is cleared.
ReturnString ==
  /\ Top > 0 /\ calls[Top].caller = "py" /\ rv.code \in {"kStr", "kBytes", "kPELIType"}
  /\ heap' = Freed(heap, Clear(rv) \cup calls[Top].temps)
  /\ calls' = Pop(calls) /\ UNCHANGED held

\* Anything else moves to Python, whose object for the type code owns it from then on.
MoveToCHost ==
  /\ Top > 0 /\ calls[Top].caller = "py" /\ rv.code \notin {"kStr", "kBytes", "kPELIType"}
  /\ held' = held \cup (IF rv.obj = NoObject THEN {} ELSE {rv.obj})
  /\ heap' = Freed(heap, calls[Top].temps)
  /\ calls' = Pop(calls)

\* A handle Python asked for: get_global_func, get_function, load_module; or the
\* copy PELICbArgToReturn makes of a callback's argument.
NewHandle ==
  \E o \in Unallocated, kind \in {"kFuncHandle", "kModuleHandle"} :
    heap' = Allocated(heap, o, kind) /\ held' = held \cup {o} /\ UNCHANGED calls

\* __del__ of a function, module or array.
FreeHandle ==
  \E o \in held : heap' = Freed(heap, {o}) /\ held' = held \ {o} /\ UNCHANGED calls

CallNext ==
  \/ SwitchToPOD \/ SwitchToClass \/ AssignObject
  \/ FunctionCall \/ PackedFuncCall \/ Throws
  \/ ReturnToCpp \/ ReturnString \/ MoveToCHost
  \/ NewHandle \/ FreeHandle

CallSpec == CallInit /\ [][CallNext]_callVars

(***************************************************************************)
(* Properties.                                                             *)
(***************************************************************************)
\* The places that will delete an object.
Owners(o) ==
  {<<"rv", i>> : i \in {j \in 1 .. Top : calls[j].rv = Value(heap[o], o)}}
    \cup {<<"temp", i>> : i \in {j \in 1 .. Top : o \in calls[j].temps}}
    \cup (IF o \in held THEN {<<"python">>} ELSE {})

\* Whatever calls return, throw or overwrite, an object has one owner, which knows what it is,
\* until it is deleted: nothing is leaked, nothing is deleted twice or used afterwards.
OwnedOnce ==
  /\ \A o \in Objects : Cardinality(Owners(o)) = IF heap[o] = NoObject THEN 0 ELSE 1
  /\ \A i \in 1 .. Top : calls[i].rv.code \in Kinds => heap[calls[i].rv.obj] = calls[i].rv.code
=============================================================================
