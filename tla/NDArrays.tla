------------------------------ MODULE NDArrays ------------------------------
(* The arrays of the runtime: NDArray and its reference counted Container
   (src/include/peli/runtime/ndarray.h, src/src/runtime/ndarray.cc), the Python
   objects and DLPack tensors that share them, and the pool a GPU reader takes
   its frames from (src/src/video/storage_pool.cc).

   An array is a Container; the block of memory it was made with has its name.
   cpp and py count the NDArray variables of C++ and the objects of Python that
   own a reference. The counter is atomic, so owners of any thread come and go
   in any order; whoever takes it to zero runs the deleter, a step of its own. *)
EXTENDS Integers, FiniteSets

CONSTANTS Arrays,          \* containers that exist at a time
          Tensors,         \* DLManagedTensors that exist at a time
          MaxOwners,       \* bound: variables, and objects, that share an array
          PoolSize,        \* size_ of the pool
          CallbackCodes,   \* the type codes arrays have as arguments of Python callbacks
          ReaderFirst      \* may a reader, with its pool, be freed before its frames?

\* The values of manager_ctx besides the array a view shares and the tensor it was made of.
CONSTANTS Nothing, Frame, Pool
Roots == {Nothing, Frame, Pool}

ASSUME ArraysAssumption ==
  /\ MaxOwners \in Nat /\ PoolSize \in Nat /\ ReaderFirst \in BOOLEAN
  /\ IsFiniteSet(Arrays) /\ IsFiniteSet(Tensors)
  /\ Nothing # Frame /\ Nothing # Pool /\ Frame # Pool /\ Arrays \cap Tensors = {} /\ Roots \cap (Arrays \cup Tensors) = {}

VARIABLES live,       \* containers not deleted
          refs,       \* ref_counter_
          manager,    \* manager_ctx
          data,       \* the block dl_tensor.data points into
          blocks,     \* blocks that are allocated
          cpp, py,    \* owners: NDArray variables, Python objects that are no views
          tensors,    \* the array each DLManagedTensor shows, if it exists
          dying,      \* containers whose deleter has not run yet
          pool,       \* queue_ of the pool
          poolAlive

arrayVars == <<live, refs, manager, data, blocks, cpp, py, tensors, dying, pool, poolAlive>>

ArrayInit ==
  /\ live = {} /\ blocks = {} /\ dying = {} /\ pool = {} /\ poolAlive = TRUE
  /\ refs = [c \in Arrays |-> 0]
  /\ manager = [c \in Arrays |-> Nothing]
  /\ data = [c \in Arrays |-> c]
  /\ cpp = [c \in Arrays |-> 0] /\ py = [c \in Arrays |-> 0]
  /\ tensors = [t \in Tensors |-> Nothing]

Unused == {c \in Arrays \ (live \cup blocks) : cpp[c] + py[c] = 0}
More(owners, c) == owners[c] < MaxOwners /\ owners' = [owners EXCEPT ![c] = @ + 1]
Fewer(owners, c) == owners[c] > 0 /\ owners' = [owners EXCEPT ![c] = @ - 1]

IncRef(c) == refs' = [refs EXCEPT ![c] = @ + 1]
DecRef(c) ==
  /\ refs' = [refs EXCEPT ![c] = @ - 1]
  /\ dying' = IF refs[c] = 1 THEN dying \cup {c} ELSE dying

\* A container for a new block, or for another's: the reference is its first owner's.
Create(c, ctx) ==
  /\ live' = live \cup {c} /\ blocks' = blocks \cup {c}
  /\ refs' = [refs EXCEPT ![c] = 1]
  /\ manager' = [manager EXCEPT ![c] = ctx]
  /\ data' = [data EXCEPT ![c] = c]
  /\ UNCHANGED <<tensors, dying, pool, poolAlive>>
Share(c, ctx, of) ==
  /\ live' = live \cup {c}
  /\ manager' = [manager EXCEPT ![c] = ctx]
  /\ data' = [data EXCEPT ![c] = data[of]]
  /\ UNCHANGED <<blocks, dying, pool, poolAlive>>

Empty == \E c \in Unused : Create(c, Nothing) /\ More(cpp, c) /\ UNCHANGED py
PELIArrayAlloc == \E c \in Unused : Create(c, Nothing) /\ More(py, c) /\ UNCHANGED cpp

\* A frame of the decoder, kept by the manager of a tensor nobody else knows.
AsNDArray == \E c \in Unused : Create(c, Frame) /\ More(cpp, c) /\ UNCHANGED py

Copy(c) ==
  /\ cpp[c] > 0 /\ More(cpp, c) /\ IncRef(c)
  /\ UNCHANGED <<live, manager, data, blocks, py, tensors, dying, pool, poolAlive>>

Reset(c) ==
  /\ Fewer(cpp, c) /\ DecRef(c)
  /\ UNCHANGED <<live, manager, data, blocks, py, tensors, pool, poolAlive>>

\* The slip of a view that does not count itself among the owners.
CreateViewNotCounted(c, view) ==
  /\ cpp[c] > 0 /\ More(cpp, view)
  /\ Share(view, c, c)
  /\ refs' = [refs EXCEPT ![view] = 1]
  /\ UNCHANGED <<py, tensors>>

CreateView(c, view) ==
  /\ cpp[c] > 0 /\ More(cpp, view)
  /\ Share(view, c, c)
  /\ refs' = [refs EXCEPT ![view] = 1, ![c] = @ + 1]
  /\ UNCHANGED <<py, tensors>>

(***************************************************************************)
(* Across the C API.                                                       *)
(***************************************************************************)
\* A function returns an array: the variable's reference goes to the object.
ReturnArray(c) ==
  /\ Fewer(cpp, c) /\ More(py, c)
  /\ UNCHANGED <<live, refs, manager, data, blocks, tensors, dying, pool, poolAlive>>

\* A function takes an argument as an NDArray.
TakeArgument(c) ==
  /\ py[c] > 0 /\ More(cpp, c) /\ IncRef(c)
  /\ UNCHANGED <<live, manager, data, blocks, py, tensors, dying, pool, poolAlive>>

\* A Python callback gets one: as a view, or as an object that owns the reference it never took.
CallbackArgument(c) ==
  \E code \in CallbackCodes :
    /\ cpp[c] + py[c] > 0
    /\ IF code = "NDARRAY_CONTAINER" THEN More(py, c) ELSE UNCHANGED py
    /\ UNCHANGED <<live, refs, manager, data, blocks, cpp, tensors, dying, pool, poolAlive>>

PELIArrayFree(c) ==
  /\ Fewer(py, c) /\ DecRef(c)
  /\ UNCHANGED <<live, manager, data, blocks, cpp, tensors, pool, poolAlive>>

ToDLPack(c, t) ==
  /\ py[c] > 0 /\ tensors[t] = Nothing
  /\ tensors' = [tensors EXCEPT ![t] = c] /\ IncRef(c)
  /\ UNCHANGED <<live, manager, data, blocks, cpp, py, dying, pool, poolAlive>>

\* A capsule is consumed once: afterwards the array made of it has the tensor.
Consumed(t) == \E c \in live : manager[c] = t
FromDLPack(t, c) ==
  /\ tensors[t] # Nothing /\ ~Consumed(t) /\ More(py, c)
  /\ Share(c, t, tensors[t])
  /\ refs' = [refs EXCEPT ![c] = 1]
  /\ UNCHANGED <<cpp, tensors>>

\* The capsule goes, or another framework is done with the tensor.
NDArrayDLPackDeleter(t) ==
  /\ tensors[t] # Nothing /\ ~Consumed(t)
  /\ tensors' = [tensors EXCEPT ![t] = Nothing] /\ DecRef(tensors[t])
  /\ UNCHANGED <<live, manager, data, blocks, cpp, py, pool, poolAlive>>

(***************************************************************************)
(* Deleters, the pool's being the third.                                   *)
(***************************************************************************)
Delete(c) ==
  live' = live \ {c} /\ manager' = [manager EXCEPT ![c] = Nothing] /\ data' = [data EXCEPT ![c] = c]
Drop(c, of) ==
  /\ refs' = [refs EXCEPT ![of] = @ - 1]
  /\ dying' = (dying \ {c}) \cup (IF refs[of] = 1 THEN {of} ELSE {})

FreeBlock(c) ==
  /\ c \in dying /\ manager[c] \in {Nothing, Frame}
  /\ Delete(c) /\ blocks' = blocks \ {data[c]} /\ dying' = dying \ {c}
  /\ UNCHANGED <<refs, cpp, py, tensors, pool, poolAlive>>

DefaultDeleter(c) ==
  /\ c \in dying /\ manager[c] \in Arrays
  /\ Delete(c) /\ Drop(c, manager[c])
  /\ UNCHANGED <<blocks, cpp, py, tensors, pool, poolAlive>>

DLPackDeleter(c) ==
  /\ c \in dying /\ manager[c] \in Tensors
  /\ Delete(c) /\ Drop(c, tensors[manager[c]])
  /\ tensors' = [tensors EXCEPT ![manager[c]] = Nothing]
  /\ UNCHANGED <<blocks, cpp, py, pool, poolAlive>>

\* Without its pool the deleter reads memory that was freed: either answer may come.
PoolDeleter(c) ==
  /\ c \in dying /\ manager[c] = Pool
  /\ dying' = dying \ {c}
  /\ \/ /\ poolAlive => PoolSize <= Cardinality(pool)
        /\ Delete(c) /\ blocks' = blocks \ {data[c]}
        /\ UNCHANGED <<refs, pool>>
     \/ /\ poolAlive => PoolSize > Cardinality(pool)
        /\ pool' = pool \cup {c} /\ IncRef(c)
        /\ UNCHANGED <<live, manager, data, blocks>>
  /\ UNCHANGED <<cpp, py, tensors, poolAlive>>

Acquire ==
  /\ poolAlive
  /\ \/ \E c \in pool :
          /\ pool' = pool \ {c} /\ More(cpp, c)
          /\ UNCHANGED <<live, refs, manager, data, blocks, py, tensors, dying, poolAlive>>
     \/ pool = {} /\ \E c \in Unused : Create(c, Pool) /\ More(cpp, c) /\ UNCHANGED py

\* ~NDArrayPool, with the reader that has it: only the arrays in the queue are told.
Lent == {c \in live : manager[c] = Pool} \ pool
FreePool ==
  /\ poolAlive /\ (ReaderFirst \/ Lent = {})
  /\ poolAlive' = FALSE /\ pool' = {}
  /\ manager' = [c \in Arrays |-> IF c \in pool THEN Nothing ELSE manager[c]]
  /\ refs' = [c \in Arrays |-> IF c \in pool THEN refs[c] - 1 ELSE refs[c]]
  /\ dying' = dying \cup pool
  /\ UNCHANGED <<live, data, blocks, cpp, py, tensors>>

ArrayNext ==
  \/ Empty \/ PELIArrayAlloc \/ AsNDArray \/ Acquire \/ FreePool
  \/ \E c \in Arrays :
       \/ Copy(c) \/ Reset(c) \/ ReturnArray(c) \/ TakeArgument(c) \/ CallbackArgument(c)
       \/ PELIArrayFree(c) \/ FreeBlock(c) \/ DefaultDeleter(c) \/ DLPackDeleter(c) \/ PoolDeleter(c)
       \/ \E view \in Unused : CreateView(c, view)
       \/ \E t \in Tensors : ToDLPack(c, t) \/ (c \in Unused /\ FromDLPack(t, c))
  \/ \E t \in Tensors : NDArrayDLPackDeleter(t)

ArraySpec == ArrayInit /\ [][ArrayNext]_arrayVars

(***************************************************************************)
(* Properties.                                                             *)
(***************************************************************************)
Owned(c) ==
  \/ cpp[c] + py[c] > 0 \/ c \in pool
  \/ \E t \in Tensors : tensors[t] = c
  \/ \E v \in live : manager[v] = c

\* Whoever has an array can use it: a variable, a Python object, an exported tensor, a view, in
\* whatever order the others let go. With the last of them it is freed: nothing stays allocated
\* that no owner reaches.
LiveWhileOwned ==
  /\ \A c \in Arrays : Owned(c) => c \in live \ dying /\ data[c] \in blocks
  /\ blocks = {data[c] : c \in live}
  /\ \A c \in live : Owned(c) \/ c \in dying
  /\ \A t \in Tensors : Consumed(t) => tensors[t] # Nothing

=============================================================================
