------------------------------ MODULE CUDAModules ------------------------------
(* A module of CUDA kernels (src/src/runtime/cuda/cuda_module.cc), used by
   several threads on several devices. The driver loads the module for one
   device at a time, the current one of the calling thread; CUDAModuleNode
   loads it when a kernel is first called there and keeps the handle in
   module_. A function got from the module keeps it alive and has a cache of
   its own, fcache_, that it reads and writes without the lock. A call is taken
   apart: the current device and the cache are read, GetFunc runs under the
   lock, the cache is written, the kernel is launched on the thread's device.
   Meanwhile other threads call, load, and let go of what they hold; whoever
   lets go last runs the destructor, which walks the devices and leaves the
   last one current.

   A CUfunction is named by the handle it was found in, for one kernel. The
   device of a thread is set by the device API too; memory, streams and what
   the kernels compute are left out. *)
EXTENDS Integers

CONSTANTS Callers,  \* threads that call kernels
          Devices,  \* numbers of GPUs
          Handles,  \* CUmodules that exist at a time
          Wrappers, \* functions of the module that exist at a time
          NoHandle

kMaxNumGPUs == 32
NoDevice == -1
Host == -2

ASSUME KernelsAssumption ==
  0 \in Devices /\ Devices \subseteq 0 .. kMaxNumGPUs - 1 /\ NoHandle \notin Handles

VARIABLES gpu,       \* the current device of each thread
          loaded_on, \* driver: the device each handle is loaded on
          owned,     \* a Module holds the CUDAModuleNode
          module_,   \* the handle for each device
          wrappers,  \* functions that exist, each with its sptr_
          fcache_,   \* of each function: the CUfunction for each device
          doing_     \* the call each thread is in

kernelVars == <<gpu, loaded_on, owned, module_, wrappers, fcache_, doing_>>

NoCall == [at |-> "none", f |-> NoHandle, device_id |-> NoDevice, found |-> NoHandle]
NoHandles == [d \in Devices |-> NoHandle]

\* The CUDAModuleNode exists: someone shares it.
Alive == owned \/ wrappers # {}

KernelsInit ==
  /\ gpu = [t \in Callers |-> 0]
  /\ loaded_on = [h \in Handles |-> NoDevice]
  /\ owned = FALSE /\ module_ = NoHandles
  /\ wrappers = {} /\ fcache_ = [k \in Wrappers |-> NoHandles]
  /\ doing_ = [t \in Callers |-> NoCall]

(***************************************************************************)
(* The module and its functions, as any thread makes and frees them.       *)
(***************************************************************************)
Outside(t) == doing_[t].at = "none"

CUDAModuleCreate(t) ==
  /\ Outside(t) /\ ~Alive
  /\ owned' = TRUE /\ module_' = NoHandles
  /\ UNCHANGED <<gpu, loaded_on, wrappers, fcache_, doing_>>

GetKernel(t, k) ==
  /\ Outside(t) /\ owned /\ k \notin wrappers
  /\ wrappers' = wrappers \cup {k} /\ fcache_' = [fcache_ EXCEPT ![k] = NoHandles]
  /\ UNCHANGED <<gpu, loaded_on, owned, module_, doing_>>

\* A PackedFunc is copied, with what its cache holds.
CopyKernel(t, k, copy) ==
  /\ Outside(t) /\ k \in wrappers /\ copy \notin wrappers
  /\ wrappers' = wrappers \cup {copy} /\ fcache_' = [fcache_ EXCEPT ![copy] = fcache_[k]]
  /\ UNCHANGED <<gpu, loaded_on, owned, module_, doing_>>

\* The destructor unloads each handle with its device current.
LoadedDevices == {d \in Devices : module_[d] # NoHandle}
UnloadAll(t) ==
  /\ \/ LoadedDevices = {} /\ UNCHANGED gpu
     \/ \E d \in LoadedDevices : (\A e \in LoadedDevices : e <= d) /\ gpu' = [gpu EXCEPT ![t] = d]
  /\ loaded_on' = [h \in Handles |->
       IF \E d \in LoadedDevices : module_[d] = h THEN NoDevice ELSE loaded_on[h]]
  /\ module_' = NoHandles

LetGo(t) ==
  /\ Outside(t) /\ owned /\ owned' = FALSE
  /\ IF wrappers = {} THEN UnloadAll(t) ELSE UNCHANGED <<gpu, loaded_on, module_>>
  /\ UNCHANGED <<wrappers, fcache_, doing_>>

\* Who calls a function keeps it until the call returns.
FreeKernel(t, k) ==
  /\ Outside(t) /\ k \in wrappers /\ \A u \in Callers : doing_[u].f # k
  /\ wrappers' = wrappers \ {k}
  /\ IF wrappers = {k} /\ ~owned THEN UnloadAll(t) ELSE UNCHANGED <<gpu, loaded_on, module_>>
  /\ UNCHANGED <<owned, fcache_, doing_>>

(***************************************************************************)
(* A call.                                                                 *)
(***************************************************************************)
Call(t, k) ==
  /\ Outside(t) /\ k \in wrappers
  /\ doing_' = [doing_ EXCEPT ![t] =
       [at |-> IF fcache_[k][gpu[t]] = NoHandle THEN "look up" ELSE "launch",
        f |-> k, device_id |-> gpu[t], found |-> NoHandle]]
  /\ UNCHANGED <<gpu, loaded_on, owned, module_, wrappers, fcache_>>

Raised(t) == doing_' = [doing_ EXCEPT ![t] = NoCall]
Found(t, h) == doing_' = [doing_ EXCEPT ![t].at = "found", ![t].found = h]

\* cuModuleLoadData, for the device that is current.
LoadData(t, d, h) ==
  /\ loaded_on[h] = NoDevice
  /\ loaded_on' = [loaded_on EXCEPT ![h] = gpu[t]] /\ module_' = [module_ EXCEPT ![d] = h]

\* A slip: GetFunc does not look again under the lock.
GetFuncAtOnce(t) ==
  LET d == doing_[t].device_id IN
  /\ doing_[t].at = "look up"
  /\ \E h \in Handles : LoadData(t, d, h) /\ Found(t, h)
  /\ UNCHANGED <<gpu, owned, wrappers, fcache_>>

\* Under the lock. The driver may fail to load, or know no such name: what was loaded stays.
GetFunc(t) ==
  LET d == doing_[t].device_id IN
  /\ doing_[t].at = "look up"
  /\ \/ /\ module_[d] # NoHandle
        /\ Found(t, module_[d]) \/ Raised(t)
        /\ UNCHANGED <<loaded_on, module_>>
     \/ /\ module_[d] = NoHandle
        /\ \/ \E h \in Handles : LoadData(t, d, h) /\ (Found(t, h) \/ Raised(t))
           \/ Raised(t) /\ UNCHANGED <<loaded_on, module_>>
  /\ UNCHANGED <<gpu, owned, wrappers, fcache_>>

CacheFunc(t) ==
  /\ doing_[t].at = "found"
  /\ fcache_' = [fcache_ EXCEPT ![doing_[t].f][doing_[t].device_id] = doing_[t].found]
  /\ doing_' = [doing_ EXCEPT ![t].at = "launch", ![t].found = NoHandle]
  /\ UNCHANGED <<gpu, loaded_on, owned, module_, wrappers>>

\* Launched, or raised.
Launch(t) ==
  /\ doing_[t].at = "launch" /\ Raised(t)
  /\ UNCHANGED <<gpu, loaded_on, owned, module_, wrappers, fcache_>>

(***************************************************************************)
(* The device API. Each call makes its device current, whatever it then    *)
(* does there, and whether or not that fails.                              *)
(***************************************************************************)
OnDevice(t, d) ==
  /\ Outside(t) /\ gpu' = [gpu EXCEPT ![t] = d]
  /\ UNCHANGED <<loaded_on, owned, module_, wrappers, fcache_, doing_>>

SetDevice(t, d) == OnDevice(t, d)
DataSpace(t, d) == OnDevice(t, d)
StreamCall(t, d) == OnDevice(t, d)

\* From one GPU to another, or the host: on the device copied from, if it is one.
CopyDataFromTo(t, from, to) ==
  /\ from \in Devices \/ to \in Devices
  /\ OnDevice(t, IF from \in Devices THEN from ELSE to)

\* The decoder's stream is made on its device, and the thread's own is made current again;
\* an error leaves the decoder's.
DecoderStream(t, d) ==
  \/ OnDevice(t, gpu[t])
  \/ OnDevice(t, d)

KernelsNext == \E t \in Callers :
  \/ CUDAModuleCreate(t)
  \/ LetGo(t)
  \/ \E k \in Wrappers : GetKernel(t, k) \/ FreeKernel(t, k) \/ Call(t, k)
  \/ \E k, copy \in Wrappers : CopyKernel(t, k, copy)
  \/ GetFunc(t) \/ CacheFunc(t) \/ Launch(t)
  \/ \E d \in Devices : SetDevice(t, d) \/ DataSpace(t, d) \/ StreamCall(t, d) \/ DecoderStream(t, d)
  \/ \E from, to \in Devices \cup {Host} : CopyDataFromTo(t, from, to)

KernelsSpec == KernelsInit /\ [][KernelsNext]_kernelVars

(***************************************************************************)
(* Properties.                                                             *)
(***************************************************************************)
\* A kernel is launched from the handle that is loaded on the device it is launched on, whoever loaded it,
\* whatever device other threads use and however the functions were copied; and no handle is lost: each
\* that is loaded is the module's for its device, so the destructor will unload it.
KernelsOfTheirDevice ==
  /\ \A t \in Callers : doing_[t].at = "launch" =>
       LET h == fcache_[doing_[t].f][gpu[t]] IN h \in Handles /\ loaded_on[h] = gpu[t]
  /\ \A h \in Handles : loaded_on[h] # NoDevice => Alive /\ module_[loaded_on[h]] = h
=============================================================================
