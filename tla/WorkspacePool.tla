---------------------------- MODULE WorkspacePool ----------------------------
(* The temporary memory of one thread and device: WorkspacePool::Pool
   (src/src/runtime/workspace_pool.cc) over the device's allocator
   (src/src/runtime/cpu_device_api.cc).

   The lists' safe guard header, of size 0, is place 0 and left out. The pool
   is thread local, so its calls do not overlap. *)
EXTENDS Naturals, Sequences, SequencesExt

CONSTANTS Blocks,    \* addresses the device can give out
          PageSize,  \* kWorkspacePageSize
          Requests   \* the sizes asked for

ASSUME WorkspaceAssumption == PageSize \in Nat \ {0} /\ Requests \subseteq Nat

VARIABLES free_list, allocated, \* sequences of entries: [data, size]
          device                \* blocks the device has given out, with their sizes

workspaceVars == <<free_list, allocated, device>>

WorkspaceInit == free_list = <<>> /\ allocated = <<>> /\ device = {}

Entry(data, size) == [data |-> data, size |-> size]
Vacant(taken) == {b \in Blocks : \A e \in taken : e.data # b}

\* Whole pages, and at least one.
Rounded(nbytes) ==
  IF nbytes = 0 THEN PageSize ELSE ((nbytes + PageSize - 1) \div PageSize) * PageSize

\* Nothing free: a new block. Memory may run out, which leaves the lists as they are.
AllocNew(size) ==
  /\ free_list = <<>>
  /\ \E b \in Vacant(device) :
       /\ device' = device \cup {Entry(b, size)}
       /\ allocated' = Append(allocated, Entry(b, size))
  /\ UNCHANGED free_list

\* The place behind the last entry that is too small.
SmallestFit(size) ==
  CHOOSE i \in 1 .. Len(free_list) :
    /\ free_list[i].size >= size
    /\ i = 1 \/ free_list[i - 1].size < size
    /\ \A j \in i .. Len(free_list) : free_list[j].size >= size

AllocFit(size) ==
  /\ free_list # <<>> /\ Last(free_list).size >= size
  /\ free_list' = RemoveAt(free_list, SmallestFit(size))
  /\ allocated' = Append(allocated, free_list[SmallestFit(size)])
  /\ UNCHANGED device

\* All too small: the biggest is given back for one that is not. If the device has none
\* left, the block is gone from all lists.
AllocResized(size) ==
  /\ free_list # <<>> /\ Last(free_list).size < size
  /\ free_list' = Front(free_list)
  /\ LET others == device \ {Last(free_list)}
     IN  \/ \E b \in Vacant(others) :
              /\ device' = others \cup {Entry(b, size)}
              /\ allocated' = Append(allocated, Entry(b, size))
         \/ device' = others /\ UNCHANGED allocated

Alloc ==
  \E nbytes \in Requests :
    AllocNew(Rounded(nbytes)) \/ AllocFit(Rounded(nbytes)) \/ AllocResized(Rounded(nbytes))

\* The slip of a list of two whose order is not looked at.
PlaceForSecond(size) ==
  IF Len(free_list) = 1 THEN 2
  ELSE CHOOSE i \in 1 .. Len(free_list) + 1 :
         /\ i = Len(free_list) + 1 \/ free_list[i].size > size
         /\ \A j \in 1 .. i - 1 : free_list[j].size <= size

\* The place an entry of a size goes: behind those that are not bigger, but before a single
\* one of its size.
PlaceFor(size) ==
  IF Len(free_list) = 1 /\ free_list[1].size = size THEN 1 ELSE
  CHOOSE i \in 1 .. Len(free_list) + 1 :
    /\ i = Len(free_list) + 1 \/ free_list[i].size > size
    /\ \A j \in 1 .. i - 1 : free_list[j].size <= size

Free ==
  \E i \in 1 .. Len(allocated) :
    /\ allocated' = RemoveAt(allocated, i)
    /\ free_list' = InsertAt(free_list, PlaceFor(allocated[i].size), allocated[i])
    /\ UNCHANGED device

\* ~WorkspacePool at the thread's end, with nothing allocated.
Release ==
  /\ allocated = <<>> /\ free_list' = <<>> /\ device' = device \ ToSet(free_list)
  /\ UNCHANGED allocated

WorkspaceNext == Alloc \/ Free \/ Release
WorkspaceSpec == WorkspaceInit /\ [][WorkspaceNext]_workspaceVars

(***************************************************************************)
(* Properties.                                                             *)
(***************************************************************************)
\* Every block of the device is in one place of one list, with the size it was made with, and the
\* free ones are ordered by size, on which the search relies.
BlocksListedOnce ==
  /\ ToSet(free_list \o allocated) = device
  /\ \A i, j \in DOMAIN (free_list \o allocated) :
       i # j => (free_list \o allocated)[i].data # (free_list \o allocated)[j].data
  /\ \A i, j \in DOMAIN free_list : i < j => free_list[i].size <= free_list[j].size
=============================================================================
