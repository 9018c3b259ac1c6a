---------------------------- MODULE Runtime_proofs ----------------------------
(***************************************************************************)
(* The runtime: what the global function registry, the modules of compiled  *)
(* functions, the workspace pool, the thread group and the modules of CUDA  *)
(* kernels promise, for any number of threads, functions, modules, blocks,  *)
(* cores and devices.                                                       *)
(***************************************************************************)
EXTENDS Registry, Modules, WorkspacePool, ThreadGroup, CUDAModules,
        WellFoundedInduction, SequenceTheorems, FiniteSetTheorems, TLAPS

\* Every nonempty set of natural numbers has a least one.
LEMMA LeastNatural ==
  ASSUME NEW T \in SUBSET Nat, T # {}
  PROVE  \E x \in T : \A y \in T : x <= y
<1> DEFINE R == OpToRel(<, Nat)
<1>1. IsWellFoundedOn(R, Nat)
  BY NatLessThanWellFounded
<1>2. \A x, y \in Nat : y < x => <<y, x>> \in R
  BY DEF OpToRel
<1> HIDE DEF R
<1>3. PICK x \in T : \A y \in T : ~(<<y, x>> \in R)
  BY <1>1, WFMin
<1>4. \A y \in T : ~(y < x)
  BY <1>2, <1>3, Zenon
<1>5. T \subseteq Nat
  OBVIOUS
<1> HIDE <1>2, <1>3
<1> QED BY <1>4, <1>5

----------------------------------------------------------------------------
(***************************************************************************)
(* The registry.  Pointers into the function table stay valid: an entry is *)
(* never deleted once it is made, and a pointer is only made to an entry   *)
(* that exists.                                                            *)
(***************************************************************************)

USE RegistryAssumption DEF RegistryAssumption

Ops == {"idle", "set_body", "copying", "got"}

TableTypeOK ==
  /\ fmap \in [Names -> Entries \cup {None}]
  /\ func \in [Entries -> Funcs \cup {Unset, None}]
  /\ thread \in [Threads -> [op : Ops, entry : Entries \cup {None}, f : Funcs \cup {None}]]
  /\ kept \subseteq Entries

\* Who sets a body has one, and whoever is not idle has an entry.
ThreadsKnow ==
  \A t \in Threads :
    /\ thread[t].op \in {"set_body", "copying"} => thread[t].f \in Funcs
    /\ thread[t].op # "idle" => thread[t].entry \in Entries

\* The entries of the table exist.
NamedExist == \A n \in Names : fmap[n] # None => func[fmap[n]] # None

\* And so do those a thread, or compiled code, has a pointer to.
PointedExist ==
  /\ \A t \in Threads : thread[t].entry # None => func[thread[t].entry] # None
  /\ \A e \in kept : func[e] # None

TableInv == TableTypeOK /\ ThreadsKnow /\ NamedExist /\ PointedExist

----------------------------------------------------------------------------
(* The steps *)

\* Registering a name makes an entry for it, or finds the one it has.
LEMMA RegisterKeeps ==
  ASSUME TableInv, NEW t \in Threads, NEW n \in Names, NEW f \in Funcs, Register(t, n, f)
  PROVE  TableInv'
<1> USE DEF TableInv, Ops
<1>1. CASE \E e \in Entries :
             /\ fmap[n] = None /\ func[e] = None
             /\ fmap' = [fmap EXCEPT ![n] = e] /\ func' = [func EXCEPT ![e] = Unset]
             /\ Goes(t, "set_body", e, f)
  <2>1. PICK e \in Entries :
          /\ func[e] = None
          /\ fmap' = [fmap EXCEPT ![n] = e] /\ func' = [func EXCEPT ![e] = Unset]
          /\ Goes(t, "set_body", e, f)
    BY <1>1
  <2>2. TableTypeOK'
    BY <2>1 DEF TableTypeOK, Register, Goes
  <2>3. ThreadsKnow'
    BY <2>1 DEF TableTypeOK, ThreadsKnow, Goes
  <2>4. func'[e] # None /\ \A d \in Entries : func[d] # None => func'[d] # None
    BY <2>1 DEF TableTypeOK
  <2>5. NamedExist'
    BY <2>1, <2>4 DEF TableTypeOK, NamedExist
  <2>6. PointedExist'
    BY <2>1, <2>4 DEF TableTypeOK, PointedExist, Goes, Register
  <2> QED BY <2>2, <2>3, <2>5, <2>6
<1>2. CASE fmap[n] # None /\ Goes(t, "set_body", fmap[n], f) /\ UNCHANGED <<fmap, func>>
  <2>1. TableTypeOK' /\ ThreadsKnow'
    BY <1>2 DEF TableTypeOK, ThreadsKnow, Register, Goes
  <2>2. NamedExist' /\ PointedExist'
    BY <1>2 DEF TableTypeOK, NamedExist, PointedExist, Register, Goes
  <2> QED BY <2>1, <2>2
<1> QED BY <1>1, <1>2 DEF Register

\* A body replaces a body.
LEMMA SetBodyKeeps ==
  ASSUME TableInv, NEW t \in Threads, SetBody(t)
  PROVE  TableInv'
<1> USE DEF TableInv, Ops
<1>1. TableTypeOK'
  BY DEF TableTypeOK, ThreadsKnow, SetBody, Goes, Is, Idle
<1>2. ThreadsKnow'
  BY DEF TableTypeOK, ThreadsKnow, SetBody, Goes, Is, Idle
<1>3. \A e \in Entries : func[e] # None => func'[e] # None
  BY DEF TableTypeOK, ThreadsKnow, SetBody, Goes, Is
<1>4. NamedExist'
  BY <1>3 DEF TableTypeOK, NamedExist, SetBody
<1>5. \A s \in Threads : thread'[s].entry \in {thread[s].entry, None}
  BY DEF TableTypeOK, SetBody, Goes, Is, Idle
<1>6. PointedExist'
  BY <1>1, <1>3, <1>5 DEF TableTypeOK, PointedExist, SetBody
<1> QED BY <1>1, <1>2, <1>4, <1>6

\* The other operations leave the entries alone, and take a pointer only from the table.
LEMMA OthersKeep ==
  ASSUME TableInv, NEW t \in Threads,
         (\E n \in Names : RemoveName(t, n) \/ Get(t, n)) \/ GetGlobal(t) \/ Keep(t)
  PROVE  TableInv'
<1> USE DEF TableInv, Ops
<1>1. CASE \E n \in Names : RemoveName(t, n)
  BY <1>1 DEF TableTypeOK, ThreadsKnow, NamedExist, PointedExist, RemoveName
<1>2. CASE \E n \in Names : Get(t, n)
  <2>1. TableTypeOK' /\ ThreadsKnow'
    BY <1>2 DEF TableTypeOK, ThreadsKnow, Get, Goes, Is
  <2>2. NamedExist' /\ PointedExist'
    BY <1>2 DEF TableTypeOK, NamedExist, PointedExist, Get, Goes
  <2> QED BY <2>1, <2>2
<1>3. CASE GetGlobal(t)
  BY <1>3 DEF TableTypeOK, ThreadsKnow, NamedExist, PointedExist, GetGlobal, Idle
<1>4. CASE Keep(t)
  BY <1>4 DEF TableTypeOK, ThreadsKnow, NamedExist, PointedExist, Keep, Is, Idle
<1> QED BY <1>1, <1>2, <1>3, <1>4

----------------------------------------------------------------------------
(* The theorem *)

\* The invariant holds at first and is kept.
LEMMA TableInvariance == RegistrySpec => []TableInv
<1>1. RegistryInit => TableInv
  BY DEF RegistryInit, TableInv, TableTypeOK, ThreadsKnow, NamedExist, PointedExist, Idle, Ops
<1>2. TableInv /\ [RegistryNext]_registryVars => TableInv'
  <2> SUFFICES ASSUME TableInv, [RegistryNext]_registryVars PROVE TableInv'
    OBVIOUS
  <2>1. CASE RegistryNext
    BY <2>1, RegisterKeeps, SetBodyKeeps, OthersKeep DEF RegistryNext
  <2>2. CASE UNCHANGED registryVars
    BY <2>2 DEF registryVars, TableInv, TableTypeOK, ThreadsKnow, NamedExist, PointedExist
  <2> QED BY <2>1, <2>2
<1> QED BY <1>1, <1>2, PTL DEF RegistrySpec

\* A pointer to an entry may be used, whatever other threads register, override and remove:
\* what compiled code keeps and what GetGlobal copies through is never a deleted object.
THEOREM PointersTheorem == RegistrySpec => []PointersStayValid
<1>1. TableInv => PointersStayValid
  BY DEF TableInv, TableTypeOK, PointedExist, PointersStayValid
<1> QED BY <1>1, TableInvariance, PTL

----------------------------------------------------------------------------
(***************************************************************************)
(* Modules.  No modules, however many and whatever they import, import     *)
(* each other in a circle: the detection at each import is enough for      *)
(* circles of any length.  "n does not reach m" is a set that has n, has   *)
(* with each module what it imports, and does not have m; the proof follows *)
(* such sets through each step.  On it rests that functions stay valid.    *)
(***************************************************************************)

USE ModulesAssumption DEF ModulesAssumption

\* A set of modules that has what they import.
Closed(S) == S \subseteq Exist /\ \A n \in S : Imports(n) \subseteq S

GraphTypeOK ==
  /\ file \in [Nodes -> Files \cup {NoModule}]
  /\ imports \in [Nodes -> Seq(Nodes)]

\* Who has a handle or is imported exists, and who does not exist imports nothing.
ImportedExist ==
  /\ handles \subseteq Exist
  /\ \A m \in Exist : Imports(m) \subseteq Exist
  /\ \A m \in Nodes \ Exist : imports[m] = <<>>

GraphInv == GraphTypeOK /\ ImportedExist /\ ImportsAcyclic

----------------------------------------------------------------------------
(* Graphs *)

\* A module that another does not reach is outside a closed set of that other.
LEMMA Separated ==
  ASSUME NEW m, NEW n, ~Reaches(n, m)
  PROVE  \E S : Closed(S) /\ n \in S /\ m \notin S
BY DEF Reaches, Closed

\* And the other way.
LEMMA NotReached ==
  ASSUME NEW m, NEW n, NEW S, Closed(S), n \in S, m \notin S
  PROVE  ~Reaches(n, m)
BY DEF Reaches, Closed

\* What is closed in two ways is closed.
LEMMA ClosedMeet ==
  ASSUME NEW S, NEW T, Closed(S), Closed(T)
  PROVE  Closed(S \cap T)
BY DEF Closed

----------------------------------------------------------------------------
(* The steps that change the graph *)

\* A new module imports nothing and nobody imports it.
LEMMA LoadKeepsGraph ==
  ASSUME GraphInv, NEW f \in Files, NEW m \in Nodes, LoadFromFile(f, m)
  PROVE  GraphInv'
<1>1. GraphTypeOK'
  BY DEF GraphInv, GraphTypeOK, LoadFromFile
<1>2. Exist' = Exist \cup {m} /\ m \notin Exist
  BY DEF GraphInv, GraphTypeOK, LoadFromFile, Exist
<1>3. \A n : Imports(n)' = Imports(n)
  BY DEF LoadFromFile, Imports
<1>4. Imports(m) = {}
  BY <1>2 DEF GraphInv, ImportedExist, Imports
<1>5. ImportedExist'
  BY <1>2, <1>3, <1>4 DEF GraphInv, ImportedExist, LoadFromFile
<1>6. ImportsAcyclic'
  <2> SUFFICES ASSUME NEW x \in Exist', NEW n \in Imports(x)' PROVE ~Reaches(n, x)'
    BY DEF ImportsAcyclic
  <2>1. x \in Exist /\ n \in Imports(x)
    BY <1>2, <1>3, <1>4
  <2>2. PICK S : Closed(S) /\ n \in S /\ x \notin S
    BY <2>1, Separated DEF GraphInv, ImportsAcyclic
  <2>3. S \in SUBSET Exist' /\ \A k \in S : Imports(k)' \subseteq S
    BY <2>2, <1>2, <1>3 DEF Closed
  <2> QED BY <2>2, <2>3 DEF Reaches
<1> QED BY <1>1, <1>5, <1>6 DEF GraphInv

\* An import adds one edge.  The set that keeps the importing module away from the new one is
\* closed with the edge too; cut with it, so is every other.
LEMMA ImportKeepsGraph ==
  ASSUME GraphInv, NEW m \in Nodes, NEW other \in Nodes, Import(m, other)
  PROVE  GraphInv'
<1>1. GraphTypeOK'
  BY DEF GraphInv, GraphTypeOK, Import
<1>2. Exist' = Exist /\ m \in Exist /\ other \in Exist
  BY DEF GraphInv, ImportedExist, Import, Exist
<1>3. Imports(m)' = Imports(m) \cup {other}
  <2>1. imports[m] \in Seq(Nodes) /\ imports'[m] = Append(imports[m], other)
    BY DEF GraphInv, GraphTypeOK, Import
  <2>2. Len(imports'[m]) = Len(imports[m]) + 1 /\ imports'[m][Len(imports[m]) + 1] = other
    BY <2>1
  <2>3. \A i \in 1 .. Len(imports[m]) : imports'[m][i] = imports[m][i]
    BY <2>1
  <2>4. Len(imports[m]) \in Nat
    BY <2>1
  <2>5. \A i : i \in 1 .. Len(imports'[m]) <=> i \in 1 .. Len(imports[m]) \/ i = Len(imports[m]) + 1
    BY <2>2, <2>4
  <2> QED BY <2>2, <2>3, <2>5 DEF Imports
<1>4. \A n \in Nodes : n # m => Imports(n)' = Imports(n)
  BY DEF GraphInv, GraphTypeOK, Import, Imports
<1>5. ImportedExist'
  <2>1. handles' \subseteq Exist'
    BY <1>2 DEF GraphInv, ImportedExist, Import
  <2>2. ASSUME NEW n \in Exist' PROVE Imports(n)' \subseteq Exist'
    <3>1. n \in Nodes /\ n \in Exist /\ Imports(n) \subseteq Exist
      BY <1>2 DEF GraphInv, ImportedExist, Exist
    <3> QED BY <3>1, <1>2, <1>3, <1>4
  <2>3. \A n \in Nodes \ Exist' : imports'[n] = <<>>
    BY <1>2 DEF GraphInv, GraphTypeOK, ImportedExist, Import
  <2> QED BY <2>1, <2>2, <2>3 DEF ImportedExist
<1>6. PICK S0 : Closed(S0) /\ other \in S0 /\ m \notin S0
  BY Separated DEF Import
<1>7. ASSUME NEW T, Closed(T), m \notin T
      PROVE  T \in SUBSET Exist' /\ \A k \in T : Imports(k)' \subseteq T
  BY <1>2, <1>4, <1>7 DEF Closed, Exist
<1>8. ImportsAcyclic'
  <2> SUFFICES ASSUME NEW x \in Exist', NEW n \in Imports(x)' PROVE ~Reaches(n, x)'
    BY DEF ImportsAcyclic
  <2>1. CASE n \in Imports(x)
    <3>1. PICK S : Closed(S) /\ n \in S /\ x \notin S
      BY <2>1, <1>2, Separated DEF GraphInv, ImportsAcyclic
    <3>2. CASE m \notin S
      BY <3>1, <3>2, <1>7 DEF Reaches
    <3>3. CASE m \in S /\ x \notin S0
      <4>1. Imports(m) \subseteq S
        BY <3>1, <3>3 DEF Closed
      <4> DEFINE U == S \cup S0
      <4>2. U \in SUBSET Exist' /\ \A k \in U : Imports(k)' \subseteq U
        BY <3>1, <1>2, <1>3, <1>4, <1>6 DEF Closed, Exist
      <4> QED BY <3>1, <3>3, <4>2 DEF Reaches
    <3>4. CASE m \in S /\ x \in S0
      <4>1. n \in S0
        BY <2>1, <3>4, <1>6 DEF Closed
      <4> DEFINE U == S \cap S0
      <4>2. Closed(U) /\ m \notin U
        BY <3>1, <1>6, ClosedMeet
      <4>3. U \in SUBSET Exist' /\ \A k \in U : Imports(k)' \subseteq U
        BY <4>2, <1>7
      <4>4. n \in U /\ x \notin U
        BY <3>1, <4>1
      <4> QED BY <4>3, <4>4 DEF Reaches
    <3> QED BY <3>2, <3>3, <3>4
  <2>2. CASE n \notin Imports(x)
    <3>1. x = m /\ n = other
      BY <2>2, <1>2, <1>3, <1>4 DEF Exist
    <3> QED BY <3>1, <1>6, <1>7 DEF Reaches
  <2> QED BY <2>1, <2>2
<1> QED BY <1>1, <1>5, <1>8 DEF GraphInv

\* Nobody imports a module that goes.
LEMMA UnloadKeepsGraph ==
  ASSUME GraphInv, NEW m \in Nodes, Unload(m)
  PROVE  GraphInv'
<1>1. GraphTypeOK'
  BY DEF GraphInv, GraphTypeOK, Unload
<1>2. Exist' = Exist \ {m} /\ m \in Exist
  BY DEF GraphInv, GraphTypeOK, Unload, Exist
<1>3. Imports(m)' = {} /\ imports'[m] = <<>>
  BY DEF GraphInv, GraphTypeOK, Unload, Imports
<1>4. \A n \in Nodes : n # m => Imports(n)' = Imports(n) /\ imports'[n] = imports[n]
  BY DEF GraphInv, GraphTypeOK, Unload, Imports
<1>5. \A n \in Exist : m \notin Imports(n)
  BY DEF Unload, Shared
<1>6. ImportedExist'
  <2>1. handles' \subseteq Exist'
    BY <1>2 DEF GraphInv, ImportedExist, Unload, Shared
  <2>2. \A n \in Exist' : Imports(n)' \subseteq Exist'
    BY <1>2, <1>4, <1>5 DEF GraphInv, ImportedExist, Exist
  <2>3. \A n \in Nodes \ Exist' : imports'[n] = <<>>
    BY <1>2, <1>3, <1>4 DEF GraphInv, ImportedExist
  <2> QED BY <2>1, <2>2, <2>3 DEF ImportedExist
<1>7. ImportsAcyclic'
  <2> SUFFICES ASSUME NEW x \in Exist', NEW n \in Imports(x)' PROVE ~Reaches(n, x)'
    BY DEF ImportsAcyclic
  <2>1. x \in Exist /\ n \in Imports(x) /\ n # m
    BY <1>2, <1>4, <1>5 DEF Exist
  <2>2. PICK S : Closed(S) /\ n \in S /\ x \notin S
    BY <2>1, Separated DEF GraphInv, ImportsAcyclic
  <2> DEFINE U == S \ {m}
  <2>3. U \in SUBSET Exist' /\ \A k \in U : Imports(k)' \subseteq U
    BY <2>2, <1>2, <1>4, <1>5 DEF Closed, Exist
  <2> QED BY <2>1, <2>2, <2>3 DEF Reaches
<1> QED BY <1>1, <1>6, <1>7 DEF GraphInv

\* Handles and functions come and go, and names are resolved, without a change of the graph.
LEMMA OthersKeepGraph ==
  ASSUME GraphInv, UNCHANGED <<file, imports>>, handles' \subseteq handles
  PROVE  GraphInv'
<1>1. Exist' = Exist /\ \A n : Imports(n)' = Imports(n)
  BY DEF Exist, Imports
<1>2. \A n, m : Reaches(n, m)' <=> Reaches(n, m)
  BY <1>1 DEF Reaches
<1> QED BY <1>1, <1>2 DEF GraphInv, GraphTypeOK, ImportedExist, ImportsAcyclic

----------------------------------------------------------------------------
(* The theorem *)

\* No module imports itself, over any number of others (the check in Module::Import).
THEOREM AcyclicTheorem == ModulesSpec => []ImportsAcyclic
<1>1. ModulesInit => GraphInv
  <2> SUFFICES ASSUME ModulesInit PROVE GraphInv
    OBVIOUS
  <2>1. Exist = {}
    BY DEF ModulesInit, Exist
  <2> QED BY <2>1 DEF ModulesInit, GraphInv, GraphTypeOK, ImportedExist, ImportsAcyclic
<1>2. GraphInv /\ [ModulesNext]_moduleVars => GraphInv'
  <2> SUFFICES ASSUME GraphInv, [ModulesNext]_moduleVars PROVE GraphInv'
    OBVIOUS
  <2>1. CASE UNCHANGED moduleVars
    BY <2>1, OthersKeepGraph DEF moduleVars
  <2>2. ASSUME NEW m \in Nodes, NEW f \in Files, LoadFromFile(f, m) PROVE GraphInv'
    BY <2>2, LoadKeepsGraph
  <2>3. ASSUME NEW m \in Nodes, NEW other \in Nodes, Import(m, other) PROVE GraphInv'
    BY <2>3, ImportKeepsGraph
  <2>4. ASSUME NEW m \in Nodes, NEW s \in Symbols, GetFuncFromEnv(m, s) PROVE GraphInv'
    BY <2>4, OthersKeepGraph DEF GetFuncFromEnv
  <2>5. ASSUME NEW m \in Nodes, NEW s \in Symbols, NEW query \in BOOLEAN, GetFunction(m, s, query) PROVE GraphInv'
    BY <2>5, OthersKeepGraph DEF GetFunction
  <2>6. ASSUME NEW m \in Nodes, PELIModFree(m) PROVE GraphInv'
    BY <2>6, OthersKeepGraph DEF PELIModFree
  <2>7. ASSUME NEW m \in Nodes, PELIFuncFree(m) PROVE GraphInv'
    BY <2>7, OthersKeepGraph DEF PELIFuncFree
  <2>8. ASSUME NEW m \in Nodes, Unload(m) PROVE GraphInv'
    BY <2>8, UnloadKeepsGraph
  <2> QED BY <2>1, <2>2, <2>3, <2>4, <2>5, <2>6, <2>7, <2>8 DEF ModulesNext
<1>3. GraphInv => ImportsAcyclic
  BY DEF GraphInv
<1> QED BY <1>1, <1>2, <1>3, PTL DEF ModulesSpec

----------------------------------------------------------------------------
(* Finding a function *)

\* i is the first place of a module with the symbol.
FirstAt(ms, s, i) ==
  /\ i \in 1 .. Len(ms) /\ s \in Exports[file[ms[i]]]
  /\ \A j \in 1 .. Len(ms) : s \in Exports[file[ms[j]]] => i <= j

\* There is no module with it, or a first one, which is found.
LEMMA FirstFound ==
  ASSUME NEW ms \in Seq(Nodes), NEW s
  PROVE  \/ (\A j \in 1 .. Len(ms) : s \notin Exports[file[ms[j]]]) /\ First(ms, s) = NoModule
         \/ \E i \in 1 .. Len(ms) : FirstAt(ms, s, i)
<1> DEFINE has == {i \in 1 .. Len(ms) : s \in Exports[file[ms[i]]]}
<1>1. CASE has = {}
  BY <1>1 DEF First
<1>2. CASE has # {}
  <2>1. has \in SUBSET Nat
    OBVIOUS
  <2>2. PICK i \in has : \A j \in has : i <= j
    BY <1>2, <2>1, LeastNatural
  <2> QED BY <2>2 DEF FirstAt
<1> QED BY <1>1, <1>2

LEMMA FirstIs ==
  ASSUME NEW ms \in Seq(Nodes), NEW s, NEW i \in 1 .. Len(ms), FirstAt(ms, s, i)
  PROVE  First(ms, s) = ms[i]
<1> DEFINE has == {k \in 1 .. Len(ms) : s \in Exports[file[ms[k]]]}
<1> DEFINE least == CHOOSE k \in has : \A j \in has : k <= j
<1>1. i \in has /\ \A j \in has : i <= j
  BY DEF FirstAt
<1>2. has \subseteq Nat
  OBVIOUS
<1>3. least \in has /\ \A j \in has : least <= j
  BY <1>1
<1>4. least = i
  <2> HIDE DEF least, has
  <2> QED BY <1>1, <1>2, <1>3
<1>5. First(ms, s) = ms[least]
  BY <1>1 DEF First
<1> QED BY <1>4, <1>5

\* What is found does not depend on the libraries of other modules...
LEMMA FirstSame ==
  ASSUME NEW n, NEW s, imports'[n] = imports[n],
         \A i \in 1 .. Len(imports[n]) : file'[imports[n][i]] = file[imports[n][i]]
  PROVE  First(imports[n], s)' = First(imports[n], s)
<1>1. {i \in 1 .. Len(imports'[n]) : s \in Exports[file'[imports'[n][i]]]}
      = {i \in 1 .. Len(imports[n]) : s \in Exports[file[imports[n][i]]]}
  OBVIOUS
<1>2. CASE {i \in 1 .. Len(imports[n]) : s \in Exports[file[imports[n][i]]]} = {}
  BY <1>1, <1>2 DEF First
<1>3. CASE {i \in 1 .. Len(imports[n]) : s \in Exports[file[imports[n][i]]]} # {}
  <2> DEFINE has == {i \in 1 .. Len(imports[n]) : s \in Exports[file[imports[n][i]]]}
             now == {i \in 1 .. Len(imports'[n]) : s \in Exports[file'[imports'[n][i]]]}
  <2>1. First(imports[n], s)' = imports'[n][CHOOSE i \in now : \A j \in now : i <= j]
    BY <1>1, <1>3 DEF First
  <2>2. First(imports[n], s) = imports[n][CHOOSE i \in has : \A j \in has : i <= j]
    BY <1>3 DEF First
  <2>3. now = has
    BY <1>1
  <2> HIDE DEF now, has
  <2> QED BY <2>1, <2>2, <2>3
<1> QED BY <1>2, <1>3

\* ...nor on the modules behind the one that has it.
LEMMA FirstStays ==
  ASSUME NEW ms \in Seq(Nodes), NEW s, NEW other \in Nodes
  PROVE  First(ms, s) \in {NoModule, First(Append(ms, other), s)}
<1>1. CASE First(ms, s) = NoModule
  BY <1>1
<1>2. CASE \E i \in 1 .. Len(ms) : FirstAt(ms, s, i)
  <2>1. PICK i \in 1 .. Len(ms) : FirstAt(ms, s, i)
    BY <1>2
  <2> DEFINE more == Append(ms, other)
  <2>2. more \in Seq(Nodes) /\ Len(more) = Len(ms) + 1 /\ \A j \in 1 .. Len(ms) : more[j] = ms[j]
    BY AppendProperties
  <2>3. i \in 1 .. Len(more) /\ FirstAt(more, s, i)
    <3> HIDE DEF more
    <3> QED BY <2>1, <2>2, LenProperties DEF FirstAt
  <2>4. First(more, s) = more[i] /\ First(ms, s) = ms[i]
    <3> HIDE DEF more
    <3> QED BY <2>1, <2>2, <2>3, FirstIs
  <2> QED BY <2>2, <2>4
<1> QED BY <1>1, <1>2, FirstFound

\* What is found is one of them.
LEMMA FirstOfThem ==
  ASSUME NEW ms \in Seq(Nodes), NEW s, First(ms, s) # NoModule
  PROVE  \E i \in 1 .. Len(ms) : First(ms, s) = ms[i]
BY FirstFound, FirstIs

----------------------------------------------------------------------------
(* The invariant *)

ResolvedAnew ==
  \A m \in Exist : \A s \in Symbols : cache[m][s] \in {NoModule, First(imports[m], s)}

\* Who has a function exists; each library knows its module; what a module resolved is what it
\* would find, and who does not exist has resolved nothing.
CallInv ==
  /\ GraphInv
  /\ ctx \in [Files -> Nodes \cup {NoModule}]
  /\ cache \in [Nodes -> [Symbols -> Nodes \cup {NoModule}]]
  /\ functions \subseteq Exist
  /\ \A m \in Exist : ctx[file[m]] = m
  /\ ResolvedAnew
  /\ \A m \in Nodes \ Exist : \A s \in Symbols : cache[m][s] = NoModule

\* An existing module finds only modules that exist, itself or what it imports.
LEMMA FoundExists ==
  ASSUME GraphInv, NEW m \in Exist, NEW s, NEW ms \in {imports[m], <<m>>, <<m>> \o imports[m]},
         First(ms, s) # NoModule
  PROVE  ms \in Seq(Nodes) /\ First(ms, s) \in Exist
<1>1. m \in Nodes /\ imports[m] \in Seq(Nodes)
  BY DEF GraphInv, GraphTypeOK, Exist
<1>2. ms \in Seq(Nodes)
  <2>1. <<m>> \in Seq(Nodes) /\ <<m>> \o imports[m] \in Seq(Nodes)
    BY <1>1
  <2> QED BY <1>1, <2>1
<1>3. PICK i \in 1 .. Len(ms) : First(ms, s) = ms[i]
  BY <1>2, FirstOfThem
<1>4. \A j \in 1 .. Len(imports[m]) : imports[m][j] \in Exist
  BY DEF GraphInv, ImportedExist, Imports
<1>5. ms[i] \in Exist
  <2>1. CASE ms = imports[m]
    BY <2>1, <1>4
  <2>2. CASE ms = <<m>>
    BY <2>2
  <2>3. CASE ms = <<m>> \o imports[m]
    <3>1. Len(ms) = 1 + Len(imports[m]) /\ Len(imports[m]) \in Nat /\ i \in 1 .. Len(ms)
      BY <2>3, <1>1
    <3>2. CASE i = 1
      BY <2>3, <3>2, <1>1
    <3>3. CASE i # 1
      <4>1. ms[i] = imports[m][i - 1] /\ i - 1 \in 1 .. Len(imports[m])
        BY <2>3, <3>1, <3>3, <1>1
      <4> QED BY <4>1, <1>4
    <3> QED BY <3>2, <3>3
  <2> QED BY <2>1, <2>2, <2>3
<1> QED BY <1>2, <1>3, <1>5

LEMMA LoadKeepsCalls ==
  ASSUME ~Twice, CallInv, NEW f \in Files, NEW m \in Nodes, LoadFromFile(f, m)
  PROVE  CallInv'
<1>1. GraphInv /\ GraphInv'
  BY LoadKeepsGraph DEF CallInv
<1>2. Exist' = Exist \cup {m} /\ m \notin Exist
  BY <1>1 DEF GraphInv, GraphTypeOK, LoadFromFile, Exist
<1>3. \A n \in Exist : file[n] # f /\ file'[n] = file[n] /\ ctx'[file'[n]] = n
  BY <1>2 DEF CallInv, GraphInv, GraphTypeOK, LoadFromFile, Loaded, Exist
<1>4. ctx' \in [Files -> Nodes \cup {NoModule}] /\ file'[m] = f /\ ctx'[f] = m
  BY f \in Files, m \in Nodes DEF CallInv, GraphInv, GraphTypeOK, LoadFromFile
<1>5. \A n \in Exist : \A s \in Symbols : First(imports[n], s)' = First(imports[n], s)
  <2> SUFFICES ASSUME NEW n \in Exist, NEW s \in Symbols PROVE First(imports[n], s)' = First(imports[n], s)
    OBVIOUS
  <2>1. imports[n] \in Seq(Nodes) /\ \A i \in 1 .. Len(imports[n]) : imports[n][i] \in Exist
    BY DEF CallInv, GraphInv, GraphTypeOK, ImportedExist, Imports, Exist
  <2> QED BY <2>1, <1>3, FirstSame DEF LoadFromFile
<1>6. ResolvedAnew'
  BY <1>2, <1>5 DEF CallInv, ResolvedAnew, LoadFromFile
<1> QED BY <1>1, <1>2, <1>3, <1>4, <1>6 DEF CallInv, LoadFromFile

LEMMA ImportKeepsCalls ==
  ASSUME CallInv, NEW m \in Nodes, NEW other \in Nodes, Import(m, other)
  PROVE  CallInv'
<1>1. GraphInv'
  BY ImportKeepsGraph DEF CallInv
<1>2. Exist' = Exist
  BY DEF Import, Exist
<1>3. ASSUME NEW n \in Exist, NEW s \in Symbols
      PROVE  cache[n][s] \in {NoModule, First(imports[n], s)'}
  <2>1. imports[n] \in Seq(Nodes) /\ cache[n][s] \in {NoModule, First(imports[n], s)}
    BY DEF CallInv, ResolvedAnew, GraphInv, GraphTypeOK, Exist
  <2>2. CASE n = m
    <3>1. imports'[n] = Append(imports[n], other) /\ file' = file
      BY <2>2 DEF CallInv, GraphInv, GraphTypeOK, Import
    <3>2. {i \in 1 .. Len(imports'[n]) : s \in Exports[file'[imports'[n][i]]]}
          = {i \in 1 .. Len(Append(imports[n], other)) : s \in Exports[file[Append(imports[n], other)[i]]]}
      BY <3>1
    <3>3. First(imports[n], s)' = First(Append(imports[n], other), s)
      BY <3>1, <3>2 DEF First
    <3> QED BY <2>1, <3>3, FirstStays
  <2>3. CASE n # m
    <3>1. First(imports[n], s)' = First(imports[n], s)
      BY <2>3, FirstSame DEF Import, CallInv, GraphInv, GraphTypeOK, Exist
    <3> QED BY <2>1, <3>1
  <2> QED BY <2>2, <2>3
<1>4. ResolvedAnew'
  BY <1>2, <1>3 DEF ResolvedAnew, Import
<1> QED BY <1>1, <1>2, <1>4 DEF CallInv, Import

LEMMA ResolveKeepsCalls ==
  ASSUME CallInv, NEW m \in Nodes, NEW s \in Symbols, GetFuncFromEnv(m, s)
  PROVE  CallInv'
<1>1. GraphInv'
  BY OthersKeepGraph DEF CallInv, GetFuncFromEnv
<1>2. m \in Exist /\ ctx[file[m]] = m
  BY DEF CallInv, GetFuncFromEnv
<1>3. Exist' = Exist /\ \A n, t : First(imports[n], t)' = First(imports[n], t)
  BY FirstSame DEF GetFuncFromEnv, Exist
<1>4. imports[m] \in Seq(Nodes) /\ First(imports[m], s) \in Nodes \cup {NoModule}
  <2>1. GraphInv /\ m \in Nodes /\ Exist \subseteq Nodes
    BY <1>2 DEF CallInv, Exist
  <2>2. imports[m] \in Seq(Nodes)
    BY <2>1 DEF GraphInv, GraphTypeOK
  <2>3. First(imports[m], s) # NoModule => First(imports[m], s) \in Exist
    BY <1>2, <2>1, FoundExists
  <2> QED BY <2>1, <2>2, <2>3
<1>5. cache' = [cache EXCEPT ![m][s] = IF @ = NoModule THEN First(imports[m], s) ELSE @]
  BY <1>2 DEF GetFuncFromEnv
<1>6. cache' \in [Nodes -> [Symbols -> Nodes \cup {NoModule}]]
  BY <1>4, <1>5 DEF CallInv
<1>7. ResolvedAnew'
  <2> SUFFICES ASSUME NEW n \in Exist', NEW t \in Symbols
               PROVE  cache'[n][t] \in {NoModule, First(imports[n], t)'}
    BY DEF ResolvedAnew
  <2>0. First(imports[n], t)' = First(imports[n], t) /\ n \in Exist
    BY <1>3
  <2>1. cache[n][t] \in {NoModule, First(imports[n], t)} /\ n \in Nodes
    BY <2>0 DEF CallInv, ResolvedAnew, Exist
  <2>2. CASE n = m /\ t = s
    BY <2>0, <2>1, <2>2, <1>5 DEF CallInv
  <2>3. CASE ~(n = m /\ t = s)
    BY <2>0, <2>1, <2>3, <1>5 DEF CallInv
  <2> QED BY <2>2, <2>3
<1>8. \A n \in Nodes \ Exist : \A t \in Symbols : cache'[n][t] = NoModule
  BY <1>2, <1>5 DEF CallInv
<1>9. functions' = functions /\ ctx' = ctx /\ file' = file /\ imports' = imports
  BY DEF GetFuncFromEnv
<1> QED BY <1>1, <1>3, <1>6, <1>7, <1>8, <1>9 DEF CallInv

LEMMA UnloadKeepsCalls ==
  ASSUME CallInv, NEW m \in Nodes, Unload(m)
  PROVE  CallInv'
<1>1. GraphInv'
  BY UnloadKeepsGraph DEF CallInv
<1>2. Exist' = Exist \ {m} /\ m \in Exist
  BY DEF CallInv, GraphInv, GraphTypeOK, Unload, Exist
<1>3. \A n \in Exist' : file'[n] = file[n] /\ file[n] # file[m] /\ imports'[n] = imports[n] /\ cache'[n] = cache[n]
  BY <1>2 DEF CallInv, GraphInv, GraphTypeOK, Unload, Exist
<1>4. ctx' \in [Files -> Nodes \cup {NoModule}] /\ \A n \in Exist' : ctx'[file'[n]] = n
  BY <1>2, <1>3 DEF CallInv, GraphInv, GraphTypeOK, Unload, Exist
<1>5. ASSUME NEW n \in Exist', NEW s \in Symbols
      PROVE  First(imports[n], s)' = First(imports[n], s)
  <2>1. n \in Exist /\ m \notin Imports(n)
    BY <1>2 DEF Unload, Shared
  <2>2. imports[n] \in Seq(Nodes) /\ \A i \in 1 .. Len(imports[n]) : imports[n][i] \in Exist'
    BY <2>1, <1>2 DEF CallInv, GraphInv, GraphTypeOK, ImportedExist, Imports, Exist
  <2> QED BY <2>2, <1>3, FirstSame
<1>6. cache' \in [Nodes -> [Symbols -> Nodes \cup {NoModule}]]
  BY DEF CallInv, Unload
<1>7. ResolvedAnew'
  BY <1>2, <1>3, <1>5 DEF CallInv, ResolvedAnew
<1>8. \A n \in Nodes \ Exist' : \A s \in Symbols : cache'[n][s] = NoModule
  BY <1>2 DEF CallInv, Unload
<1>9. functions' \subseteq Exist'
  BY <1>2 DEF CallInv, Unload, Shared
<1> QED BY <1>1, <1>4, <1>6, <1>7, <1>8, <1>9 DEF CallInv

\* Handles and functions come and go: only those of modules that exist.
LEMMA OthersKeepCalls ==
  ASSUME CallInv, UNCHANGED <<file, imports, cache, ctx>>, handles' \subseteq handles, functions' \subseteq Exist
  PROVE  CallInv'
<1>1. GraphInv'
  BY OthersKeepGraph DEF CallInv
<1>2. Exist' = Exist
  BY DEF Exist
<1>3. ASSUME NEW n \in Exist, NEW t \in Symbols
      PROVE  cache'[n][t] \in {NoModule, First(imports[n], t)'}
  <2>1. cache[n][t] \in {NoModule, First(imports[n], t)}
    BY DEF CallInv, ResolvedAnew
  <2>2. First(imports[n], t)' = First(imports[n], t)
    BY FirstSame
  <2> QED BY <2>1, <2>2
<1>4. ResolvedAnew'
  BY <1>2, <1>3 DEF ResolvedAnew
<1> QED BY <1>1, <1>2, <1>4 DEF CallInv

\* A function someone has can be called, and resolves the names its code calls to what looking them
\* up anew would give, whatever was imported, resolved and let go of (module.cc,
\* GetFuncFromEnv) - as long as no library is loaded a second time while it is.
THEOREM FunctionsTheorem ==
  ASSUME ~Twice
  PROVE  ModulesSpec => []FunctionsStayValid
<1>1. ModulesInit => CallInv
  <2> SUFFICES ASSUME ModulesInit PROVE CallInv
    OBVIOUS
  <2>1. Exist = {}
    BY DEF ModulesInit, Exist
  <2>2. GraphInv
    BY <2>1 DEF ModulesInit, GraphInv, GraphTypeOK, ImportedExist, ImportsAcyclic
  <2> QED BY <2>1, <2>2 DEF ModulesInit, CallInv, ResolvedAnew
<1>2. CallInv /\ [ModulesNext]_moduleVars => CallInv'
  <2> SUFFICES ASSUME CallInv, [ModulesNext]_moduleVars PROVE CallInv'
    OBVIOUS
  <2>1. CASE UNCHANGED moduleVars
    BY <2>1, OthersKeepCalls DEF moduleVars, CallInv
  <2>2. ASSUME NEW m \in Nodes, NEW f \in Files, LoadFromFile(f, m) PROVE CallInv'
    BY <2>2, LoadKeepsCalls
  <2>3. ASSUME NEW m \in Nodes, NEW other \in Nodes, Import(m, other) PROVE CallInv'
    BY <2>3, ImportKeepsCalls
  <2>4. ASSUME NEW m \in Nodes, NEW s \in Symbols, GetFuncFromEnv(m, s) PROVE CallInv'
    BY <2>4, ResolveKeepsCalls
  <2>5. ASSUME NEW m \in Nodes, NEW s \in Symbols, NEW query \in BOOLEAN, GetFunction(m, s, query) PROVE CallInv'
    <3>1. m \in Exist
      BY <2>5 DEF CallInv, GraphInv, ImportedExist, GetFunction
    <3>2. \A ms \in {<<m>>, <<m>> \o imports[m]} : First(ms, s) # NoModule => First(ms, s) \in Exist
      BY <3>1, FoundExists DEF CallInv
    <3>3. functions' \subseteq Exist
      BY <2>5, <3>2 DEF CallInv, GetFunction
    <3> QED BY <2>5, <3>3, OthersKeepCalls DEF GetFunction
  <2>6. ASSUME NEW m \in Nodes, PELIModFree(m) PROVE CallInv'
    BY <2>6, OthersKeepCalls DEF PELIModFree, CallInv
  <2>7. ASSUME NEW m \in Nodes, PELIFuncFree(m) PROVE CallInv'
    BY <2>7, OthersKeepCalls DEF PELIFuncFree, CallInv
  <2>8. ASSUME NEW m \in Nodes, Unload(m) PROVE CallInv'
    BY <2>8, UnloadKeepsCalls
  <2> QED BY <2>1, <2>2, <2>3, <2>4, <2>5, <2>6, <2>7, <2>8 DEF ModulesNext
<1>3. CallInv => FunctionsStayValid
  BY DEF CallInv, ResolvedAnew, FunctionsStayValid
<1> QED BY <1>1, <1>2, <1>3, PTL DEF ModulesSpec

----------------------------------------------------------------------------
(***************************************************************************)
(* The workspace pool.  Each block of the device is in one list, once, with *)
(* the size it has, and the free ones are in the order of their sizes: the  *)
(* search in Alloc relies on what Free's insertion does.                    *)
(***************************************************************************)
BlockEntry == [data : Blocks, size : Nat]

Distinct(s) == \A i, j \in 1 .. Len(s) : i # j => s[i].data # s[j].data
BySize(s) == \A i, j \in 1 .. Len(s) : i < j => s[i].size <= s[j].size
Apart(S, T) == \A e \in S : \A f \in T : e.data # f.data

WorkspaceTypeOK ==
  /\ free_list \in Seq(BlockEntry) /\ allocated \in Seq(BlockEntry)
  /\ device \in SUBSET BlockEntry

WorkspaceInv ==
  /\ WorkspaceTypeOK
  /\ device = ToSet(free_list) \cup ToSet(allocated)
  /\ Distinct(free_list) /\ Distinct(allocated) /\ Apart(ToSet(free_list), ToSet(allocated))
  /\ BySize(free_list)

----------------------------------------------------------------------------
(* Lists *)

\* The elements of a list without the one at a place, and their order.
LEMMA RemoveAtGives ==
  ASSUME NEW S, NEW s \in Seq(S), NEW i \in 1 .. Len(s)
  PROVE  /\ RemoveAt(s, i) \in Seq(S) /\ Len(RemoveAt(s, i)) = Len(s) - 1
         /\ \A j \in 1 .. Len(s) - 1 : RemoveAt(s, i)[j] = IF j < i THEN s[j] ELSE s[j + 1]
<1> DEFINE before == SubSeq(s, 1, i - 1)
           after == SubSeq(s, i + 1, Len(s))
<1>1. before \in Seq(S) /\ Len(before) = i - 1 /\ \A j \in 1 .. i - 1 : before[j] = s[j]
  OBVIOUS
<1>2. after \in Seq(S) /\ Len(after) = Len(s) - i /\ \A j \in 1 .. Len(s) - i : after[j] = s[i + j]
  OBVIOUS
<1>3. RemoveAt(s, i) = before \o after
  BY DEF RemoveAt
<1> HIDE DEF before, after
<1>4. i \in Nat /\ Len(s) \in Nat /\ 1 <= i /\ i <= Len(s)
  OBVIOUS
<1>5. RemoveAt(s, i) \in Seq(S) /\ Len(RemoveAt(s, i)) = Len(s) - 1
  <2>1. before \o after \in Seq(S) /\ Len(before \o after) = Len(before) + Len(after)
    BY <1>1, <1>2, ConcatProperties
  <2>2. Len(before) + Len(after) = Len(s) - 1
    BY <1>1, <1>2, <1>4
  <2> QED BY <2>1, <2>2, <1>3
<1>6. ASSUME NEW j \in 1 .. Len(s) - 1
      PROVE  RemoveAt(s, i)[j] = IF j < i THEN s[j] ELSE s[j + 1]
  <2>1. CASE j < i
    BY <2>1, <1>1, <1>2, <1>3, <1>4
  <2>2. CASE ~(j < i)
    <3>1. RemoveAt(s, i)[j] = after[j - (i - 1)] /\ j - (i - 1) \in 1 .. Len(s) - i
      BY <2>2, <1>1, <1>2, <1>3, <1>4
    <3>2. after[j - (i - 1)] = s[i + (j - (i - 1))] /\ i + (j - (i - 1)) = j + 1
      BY <3>1, <1>2, <1>4
    <3> QED BY <2>2, <3>1, <3>2
  <2> QED BY <2>1, <2>2
<1> QED BY <1>5, <1>6

\* The elements of a list with one more at a place.
LEMMA InsertAtGives ==
  ASSUME NEW S, NEW s \in Seq(S), NEW i \in 1 .. Len(s) + 1, NEW e \in S
  PROVE  /\ InsertAt(s, i, e) \in Seq(S) /\ Len(InsertAt(s, i, e)) = Len(s) + 1
         /\ \A j \in 1 .. Len(s) + 1 :
              InsertAt(s, i, e)[j] = IF j < i THEN s[j] ELSE IF j = i THEN e ELSE s[j - 1]
<1> DEFINE before == SubSeq(s, 1, i - 1)
           after == SubSeq(s, i, Len(s))
<1>1. before \in Seq(S) /\ Len(before) = i - 1 /\ \A j \in 1 .. i - 1 : before[j] = s[j]
  OBVIOUS
<1>2. after \in Seq(S) /\ Len(after) = Len(s) - i + 1 /\ \A j \in 1 .. Len(s) - i + 1 : after[j] = s[i + j - 1]
  OBVIOUS
<1>3. InsertAt(s, i, e) = before \o <<e>> \o after
  BY DEF InsertAt
<1> HIDE DEF before, after
<1>4. i \in Nat /\ Len(s) \in Nat /\ 1 <= i /\ i <= Len(s) + 1
  OBVIOUS
<1> DEFINE front == before \o <<e>>
<1>5. front \in Seq(S) /\ Len(front) = i /\ front[i] = e /\ \A j \in 1 .. i - 1 : front[j] = s[j]
  BY <1>1, <1>4
<1> HIDE DEF front
<1>6. InsertAt(s, i, e) = front \o after
  BY <1>3 DEF front
<1>7. InsertAt(s, i, e) \in Seq(S) /\ Len(InsertAt(s, i, e)) = Len(s) + 1
  <2>0. front \in Seq(S) /\ after \in Seq(S)
    BY <1>2, <1>5
  <2>1. front \o after \in Seq(S) /\ Len(front \o after) = Len(front) + Len(after)
    BY ONLY <2>0, ConcatProperties
  <2>2. Len(front) + Len(after) = Len(s) + 1
    BY <1>2, <1>4, <1>5
  <2> QED BY <2>1, <2>2, <1>6
<1>8. ASSUME NEW j \in 1 .. Len(s) + 1
      PROVE  InsertAt(s, i, e)[j] = IF j < i THEN s[j] ELSE IF j = i THEN e ELSE s[j - 1]
  <2>1. CASE j <= i
    <3>1. InsertAt(s, i, e)[j] = front[j]
      BY <2>1, <1>2, <1>4, <1>5, <1>6
    <3>2. CASE j = i
      BY <3>1, <3>2, <1>4, <1>5
    <3>3. CASE j # i
      <4>1. j \in 1 .. i - 1
        BY <2>1, <3>3, <1>4
      <4>2. front[j] = s[j] /\ j < i
        BY <4>1, <1>4, <1>5
      <4> QED BY <3>1, <4>2, <1>4
    <3> QED BY <3>2, <3>3
  <2>2. CASE ~(j <= i)
    <3>1. InsertAt(s, i, e)[j] = after[j - i] /\ j - i \in 1 .. Len(s) - i + 1
      BY <2>2, <1>2, <1>4, <1>5, <1>6
    <3>2. after[j - i] = s[i + (j - i) - 1] /\ i + (j - i) - 1 = j - 1
      BY <3>1, <1>2, <1>4
    <3> QED BY <2>2, <3>1, <3>2
  <2> QED BY <2>1, <2>2
<1> QED BY <1>7, <1>8

LEMMA FrontGives ==
  ASSUME NEW S, NEW s \in Seq(S), s # <<>>
  PROVE  /\ Front(s) = RemoveAt(s, Len(s))
         /\ Len(s) \in 1 .. Len(s)
<1>1. Len(s) \in Nat /\ Len(s) >= 1
  BY EmptySeq, LenProperties
<1>2. SubSeq(s, Len(s) + 1, Len(s)) = <<>>
  BY <1>1
<1>3. SubSeq(s, 1, Len(s) - 1) \in Seq(S)
  BY <1>1
<1> QED BY <1>1, <1>2, <1>3 DEF Front, RemoveAt

\* What leaves a list, what stays in it, and that it stays without doubles and in its order.
LEMMA RemovedList ==
  ASSUME NEW s \in Seq(BlockEntry), NEW i \in 1 .. Len(s), Distinct(s)
  PROVE  /\ RemoveAt(s, i) \in Seq(BlockEntry) /\ ToSet(RemoveAt(s, i)) = ToSet(s) \ {s[i]}
         /\ Distinct(RemoveAt(s, i))
         /\ BySize(s) => BySize(RemoveAt(s, i))
         /\ s[i] \in ToSet(s) /\ \A e \in ToSet(s) \ {s[i]} : e.data # s[i].data
<1> DEFINE t == RemoveAt(s, i)
<1>1. /\ t \in Seq(BlockEntry) /\ Len(t) = Len(s) - 1
      /\ \A j \in 1 .. Len(s) - 1 : t[j] = IF j < i THEN s[j] ELSE s[j + 1]
  BY RemoveAtGives
<1>2. Len(s) \in Nat /\ i \in Nat /\ 1 <= i /\ i <= Len(s) /\ DOMAIN s = 1 .. Len(s)
  OBVIOUS
<1> HIDE DEF t
<1>3. DOMAIN t = 1 .. Len(s) - 1
  BY <1>1
<1>4. \A j \in 1 .. Len(s) - 1 : \E k \in 1 .. Len(s) : k # i /\ t[j] = s[k] /\ k = (IF j < i THEN j ELSE j + 1)
  <2> SUFFICES ASSUME NEW j \in 1 .. Len(s) - 1
               PROVE  \E k \in 1 .. Len(s) : k # i /\ t[j] = s[k] /\ k = (IF j < i THEN j ELSE j + 1)
    OBVIOUS
  <2> DEFINE k == IF j < i THEN j ELSE j + 1
  <2>1. k \in 1 .. Len(s) /\ k # i /\ t[j] = s[k]
    BY <1>1, <1>2
  <2> QED BY <2>1
<1>5. \A k \in 1 .. Len(s) : k # i => \E j \in 1 .. Len(s) - 1 : t[j] = s[k]
  <2> SUFFICES ASSUME NEW k \in 1 .. Len(s), k # i PROVE \E j \in 1 .. Len(s) - 1 : t[j] = s[k]
    OBVIOUS
  <2> DEFINE j == IF k < i THEN k ELSE k - 1
  <2>1. j \in 1 .. Len(s) - 1 /\ t[j] = s[k]
    BY <1>1, <1>2
  <2> QED BY <2>1
<1>6. s[i] \in ToSet(s) /\ \A k \in 1 .. Len(s) : s[k] = s[i] => k = i
  BY <1>2 DEF Distinct, ToSet
<1>7. ToSet(t) = ToSet(s) \ {s[i]}
  <2>1. ASSUME NEW e \in ToSet(t) PROVE e \in ToSet(s) \ {s[i]}
    <3>1. PICK j \in 1 .. Len(s) - 1 : e = t[j]
      BY <2>1, <1>3 DEF ToSet
    <3>2. PICK k \in 1 .. Len(s) : k # i /\ t[j] = s[k]
      BY <1>4
    <3> QED BY <3>1, <3>2, <1>2, <1>6 DEF ToSet
  <2>2. ASSUME NEW e \in ToSet(s) \ {s[i]} PROVE e \in ToSet(t)
    <3>1. PICK k \in 1 .. Len(s) : e = s[k]
      BY <2>2, <1>2 DEF ToSet
    <3>2. PICK j \in 1 .. Len(s) - 1 : t[j] = s[k]
      BY <3>1, <2>2, <1>5
    <3> QED BY <3>1, <3>2, <1>3 DEF ToSet
  <2> QED BY <2>1, <2>2
<1>8. Distinct(t)
  <2> SUFFICES ASSUME NEW a \in 1 .. Len(t), NEW b \in 1 .. Len(t), a # b PROVE t[a].data # t[b].data
    BY DEF Distinct
  <2>1. a \in 1 .. Len(s) - 1 /\ b \in 1 .. Len(s) - 1
    BY <1>1
  <2>2. PICK k \in 1 .. Len(s) : t[a] = s[k] /\ k = (IF a < i THEN a ELSE a + 1)
    BY <2>1, <1>4
  <2>3. PICK l \in 1 .. Len(s) : t[b] = s[l] /\ l = (IF b < i THEN b ELSE b + 1)
    BY <2>1, <1>4
  <2>4. k # l
    BY <2>1, <2>2, <2>3, <1>2
  <2> QED BY <2>2, <2>3, <2>4 DEF Distinct
<1>9. BySize(s) => BySize(t)
  <2> SUFFICES ASSUME BySize(s), NEW a \in 1 .. Len(t), NEW b \in 1 .. Len(t), a < b PROVE t[a].size <= t[b].size
    BY DEF BySize
  <2>1. a \in 1 .. Len(s) - 1 /\ b \in 1 .. Len(s) - 1
    BY <1>1
  <2>2. PICK k \in 1 .. Len(s) : t[a] = s[k] /\ k = (IF a < i THEN a ELSE a + 1)
    BY <2>1, <1>4
  <2>3. PICK l \in 1 .. Len(s) : t[b] = s[l] /\ l = (IF b < i THEN b ELSE b + 1)
    BY <2>1, <1>4
  <2>4. k < l
    BY <2>1, <2>2, <2>3, <1>2
  <2> QED BY <2>2, <2>3, <2>4 DEF BySize
<1>10. \A e \in ToSet(s) \ {s[i]} : e.data # s[i].data
  BY <1>2 DEF ToSet, Distinct
<1> QED BY <1>1, <1>6, <1>7, <1>8, <1>9, <1>10 DEF t

\* What joins a list, at a place where the sizes before are not bigger and those from it on are not smaller.
LEMMA InsertedList ==
  ASSUME NEW s \in Seq(BlockEntry), NEW i \in 1 .. Len(s) + 1, NEW e \in BlockEntry, Distinct(s),
         \A f \in ToSet(s) : f.data # e.data
  PROVE  /\ InsertAt(s, i, e) \in Seq(BlockEntry) /\ ToSet(InsertAt(s, i, e)) = ToSet(s) \cup {e}
         /\ Distinct(InsertAt(s, i, e))
         /\ (/\ BySize(s) /\ \A j \in 1 .. i - 1 : s[j].size <= e.size
             /\ \A j \in i .. Len(s) : e.size <= s[j].size) => BySize(InsertAt(s, i, e))
<1> DEFINE t == InsertAt(s, i, e)
<1>1. /\ t \in Seq(BlockEntry) /\ Len(t) = Len(s) + 1
      /\ \A j \in 1 .. Len(s) + 1 : t[j] = IF j < i THEN s[j] ELSE IF j = i THEN e ELSE s[j - 1]
  BY InsertAtGives
<1>2. Len(s) \in Nat /\ i \in Nat /\ 1 <= i /\ i <= Len(s) + 1 /\ DOMAIN s = 1 .. Len(s)
  OBVIOUS
<1> HIDE DEF t
<1>3. DOMAIN t = 1 .. Len(s) + 1 /\ t[i] = e
  BY <1>1, <1>2
<1>4. \A j \in 1 .. Len(s) + 1 : j # i => \E k \in 1 .. Len(s) : t[j] = s[k] /\ k = (IF j < i THEN j ELSE j - 1)
  <2> SUFFICES ASSUME NEW j \in 1 .. Len(s) + 1, j # i
               PROVE  \E k \in 1 .. Len(s) : t[j] = s[k] /\ k = (IF j < i THEN j ELSE j - 1)
    OBVIOUS
  <2> DEFINE k == IF j < i THEN j ELSE j - 1
  <2>1. k \in 1 .. Len(s) /\ t[j] = s[k]
    BY <1>1, <1>2
  <2> QED BY <2>1
<1>5. \A k \in 1 .. Len(s) : \E j \in 1 .. Len(s) + 1 : t[j] = s[k]
  <2> SUFFICES ASSUME NEW k \in 1 .. Len(s) PROVE \E j \in 1 .. Len(s) + 1 : t[j] = s[k]
    OBVIOUS
  <2> DEFINE j == IF k < i THEN k ELSE k + 1
  <2>1. j \in 1 .. Len(s) + 1 /\ t[j] = s[k]
    BY <1>1, <1>2
  <2> QED BY <2>1
<1>6. ToSet(t) = ToSet(s) \cup {e}
  <2>1. ASSUME NEW f \in ToSet(t) PROVE f \in ToSet(s) \cup {e}
    <3>1. PICK j \in 1 .. Len(s) + 1 : f = t[j]
      BY <2>1, <1>3 DEF ToSet
    <3>2. CASE j = i
      BY <3>1, <3>2, <1>3
    <3>3. CASE j # i
      <4>1. PICK k \in 1 .. Len(s) : t[j] = s[k]
        BY <3>3, <1>4
      <4> QED BY <3>1, <4>1, <1>2 DEF ToSet
    <3> QED BY <3>2, <3>3
  <2>2. ASSUME NEW f \in ToSet(s) PROVE f \in ToSet(t)
    <3>1. PICK k \in 1 .. Len(s) : f = s[k]
      BY <2>2, <1>2 DEF ToSet
    <3>2. PICK j \in 1 .. Len(s) + 1 : t[j] = s[k]
      BY <1>5
    <3> QED BY <3>1, <3>2, <1>3 DEF ToSet
  <2>3. e \in ToSet(t)
    BY <1>2, <1>3 DEF ToSet
  <2> QED BY <2>1, <2>2, <2>3
<1>7. \A k \in 1 .. Len(s) : s[k].data # e.data
  BY <1>2 DEF ToSet
<1>8. Distinct(t)
  <2> SUFFICES ASSUME NEW a \in 1 .. Len(t), NEW b \in 1 .. Len(t), a # b PROVE t[a].data # t[b].data
    BY DEF Distinct
  <2>1. a \in 1 .. Len(s) + 1 /\ b \in 1 .. Len(s) + 1
    BY <1>1
  <2>2. CASE a = i
    BY <2>1, <2>2, <1>3, <1>4, <1>7
  <2>3. CASE b = i
    BY <2>1, <2>3, <1>3, <1>4, <1>7
  <2>4. CASE a # i /\ b # i
    <3>1. PICK k \in 1 .. Len(s) : t[a] = s[k] /\ k = (IF a < i THEN a ELSE a - 1)
      BY <2>1, <2>4, <1>4
    <3>2. PICK l \in 1 .. Len(s) : t[b] = s[l] /\ l = (IF b < i THEN b ELSE b - 1)
      BY <2>1, <2>4, <1>4
    <3>3. k # l
      BY <2>1, <2>4, <3>1, <3>2, <1>2
    <3> QED BY <3>1, <3>2, <3>3 DEF Distinct
  <2> QED BY <2>2, <2>3, <2>4
<1>9. ASSUME BySize(s), \A j \in 1 .. i - 1 : s[j].size <= e.size, \A j \in i .. Len(s) : e.size <= s[j].size
      PROVE  BySize(t)
  <2> SUFFICES ASSUME NEW a \in 1 .. Len(t), NEW b \in 1 .. Len(t), a < b PROVE t[a].size <= t[b].size
    BY DEF BySize
  <2>1. a \in 1 .. Len(s) + 1 /\ b \in 1 .. Len(s) + 1
    BY <1>1
  <2>2. CASE a = i
    <3>1. PICK l \in 1 .. Len(s) : t[b] = s[l] /\ l = (IF b < i THEN b ELSE b - 1)
      BY <2>1, <2>2, <1>4
    <3>2. l \in i .. Len(s)
      BY <2>1, <2>2, <3>1, <1>2
    <3> QED BY <2>2, <3>1, <3>2, <1>3, <1>9
  <2>3. CASE b = i
    <3>1. PICK k \in 1 .. Len(s) : t[a] = s[k] /\ k = (IF a < i THEN a ELSE a - 1)
      BY <2>1, <2>3, <1>4
    <3>2. k \in 1 .. i - 1
      BY <2>1, <2>3, <3>1, <1>2
    <3> QED BY <2>3, <3>1, <3>2, <1>3, <1>9
  <2>4. CASE a # i /\ b # i
    <3>1. PICK k \in 1 .. Len(s) : t[a] = s[k] /\ k = (IF a < i THEN a ELSE a - 1)
      BY <2>1, <2>4, <1>4
    <3>2. PICK l \in 1 .. Len(s) : t[b] = s[l] /\ l = (IF b < i THEN b ELSE b - 1)
      BY <2>1, <2>4, <1>4
    <3>3. k < l
      BY <2>1, <2>4, <3>1, <3>2, <1>2
    <3> QED BY <3>1, <3>2, <3>3, <1>9 DEF BySize
  <2> QED BY <2>2, <2>3, <2>4
<1> QED BY <1>1, <1>6, <1>8, <1>9 DEF t

\* What joins a list at its end.
LEMMA AppendedList ==
  ASSUME NEW s \in Seq(BlockEntry), NEW e \in BlockEntry, Distinct(s), \A f \in ToSet(s) : f.data # e.data
  PROVE  /\ Append(s, e) \in Seq(BlockEntry) /\ ToSet(Append(s, e)) = ToSet(s) \cup {e}
         /\ Distinct(Append(s, e))
<1>1. Append(s, e) \in Seq(BlockEntry) /\ Len(Append(s, e)) = Len(s) + 1 /\ Append(s, e)[Len(s) + 1] = e
  OBVIOUS
<1>2. \A j \in 1 .. Len(s) : Append(s, e)[j] = s[j]
  OBVIOUS
<1>3. Len(s) \in Nat /\ DOMAIN s = 1 .. Len(s) /\ DOMAIN Append(s, e) = 1 .. Len(s) + 1
  BY <1>1
<1>4. \A j : j \in 1 .. Len(s) + 1 <=> j \in 1 .. Len(s) \/ j = Len(s) + 1
  BY <1>3
<1>5. ToSet(Append(s, e)) = ToSet(s) \cup {e}
  BY <1>1, <1>2, <1>3, <1>4 DEF ToSet
<1>6. \A k \in 1 .. Len(s) : s[k].data # e.data
  BY <1>3 DEF ToSet
<1>7. Distinct(Append(s, e))
  BY <1>1, <1>2, <1>4, <1>6 DEF Distinct
<1> QED BY <1>1, <1>5, <1>7

----------------------------------------------------------------------------
(* The searches *)

\* Whole pages: a size is a number.
LEMMA RoundedIsSize ==
  ASSUME NEW nbytes \in Nat
  PROVE  Rounded(nbytes) \in Nat
<1>1. PageSize \in Nat \ {0}
  BY WorkspaceAssumption DEF WorkspaceAssumption
<1>2. (nbytes + PageSize - 1) \div PageSize \in Nat
  BY <1>1
<1>3. \A a, b \in Nat : a * b \in Nat
  OBVIOUS
<1> QED BY <1>1, <1>2, <1>3 DEF Rounded

\* When the last entry is big enough there is a smallest one that is.
LEMMA SmallestFits ==
  ASSUME free_list \in Seq(BlockEntry), BySize(free_list), free_list # <<>>,
         NEW size \in Nat, Last(free_list).size >= size
  PROVE  SmallestFit(size) \in 1 .. Len(free_list)
<1> DEFINE n == Len(free_list)
           fits == {i \in 1 .. n : free_list[i].size >= size}
<1>1. n \in Nat \ {0} /\ \A i \in 1 .. n : free_list[i].size \in Nat
  <2>1. n \in Nat /\ n # 0
    BY EmptySeq, LenProperties
  <2>2. \A i \in 1 .. n : free_list[i] \in BlockEntry
    BY ElementOfSeq
  <2> QED BY <2>1, <2>2 DEF BlockEntry
<1>2. n \in fits
  BY <1>1 DEF Last
<1>3. PICK i \in fits : \A j \in fits : i <= j
  <2>1. fits \in SUBSET Nat
    BY <1>1
  <2> HIDE DEF fits
  <2> QED BY <1>2, <2>1, LeastNatural
<1>4. i = 1 \/ free_list[i - 1].size < size
  <2> SUFFICES ASSUME i # 1 PROVE free_list[i - 1].size < size
    OBVIOUS
  <2>1. i - 1 \in 1 .. n /\ i - 1 < i
    BY <1>1
  <2>2. i - 1 \notin fits
    BY <2>1, <1>3
  <2> QED BY <2>1, <2>2, <1>1
<1>5. \A j \in i .. n : free_list[j].size >= size
  <2> SUFFICES ASSUME NEW j \in i .. n PROVE free_list[j].size >= size
    OBVIOUS
  <2>1. i \in 1 .. n /\ j \in 1 .. n /\ free_list[i].size >= size /\ (i = j \/ i < j)
    BY <1>1
  <2>2. i < j => free_list[i].size <= free_list[j].size
    BY <2>1 DEF BySize
  <2> QED BY <2>1, <2>2, <1>1
<1>6. i \in 1 .. n
  OBVIOUS
<1> HIDE DEF fits
<1> QED BY <1>4, <1>5, <1>6 DEF SmallestFit

\* There is a place behind those that are not bigger and before those that are not smaller.
LEMMA PlaceFound ==
  ASSUME free_list \in Seq(BlockEntry), BySize(free_list), NEW size \in Nat
  PROVE  /\ PlaceFor(size) \in 1 .. Len(free_list) + 1
         /\ \A j \in 1 .. PlaceFor(size) - 1 : free_list[j].size <= size
         /\ \A j \in PlaceFor(size) .. Len(free_list) : size <= free_list[j].size
<1> DEFINE n == Len(free_list)
           behind == {i \in 1 .. n + 1 : i = n + 1 \/ free_list[i].size > size}
           At(i) == /\ i = n + 1 \/ free_list[i].size > size
                    /\ \A j \in 1 .. i - 1 : free_list[j].size <= size
<1>1. n \in Nat /\ \A i \in 1 .. n : free_list[i].size \in Nat
  <2>1. n \in Nat
    BY LenProperties
  <2>2. \A i \in 1 .. n : free_list[i] \in BlockEntry
    BY ElementOfSeq
  <2> QED BY <2>1, <2>2 DEF BlockEntry
<1>2. CASE n = 1 /\ free_list[1].size = size
  BY <1>1, <1>2 DEF PlaceFor
<1>3. CASE ~(n = 1 /\ free_list[1].size = size)
  <2>1. n + 1 \in behind
    BY <1>1
  <2>2. PICK i \in behind : \A j \in behind : i <= j
    <3>1. behind \in SUBSET Nat
      BY <1>1
    <3> HIDE DEF behind
    <3> QED BY <2>1, <3>1, LeastNatural
  <2>3. i \in 1 .. n + 1 /\ (i = n + 1 \/ free_list[i].size > size)
    OBVIOUS
  <2>4. \A j \in 1 .. i - 1 : free_list[j].size <= size
    <3> SUFFICES ASSUME NEW j \in 1 .. i - 1 PROVE free_list[j].size <= size
      OBVIOUS
    <3>1. j \in 1 .. n /\ j < i /\ j \in 1 .. n + 1 /\ j # n + 1
      BY <1>1, <2>3
    <3>2. j \notin behind
      BY <3>1, <2>2, <2>3
    <3> QED BY <3>1, <3>2, <1>1
  <2>5. PlaceFor(size) = CHOOSE k \in 1 .. n + 1 : At(k)
    BY <1>3 DEF PlaceFor
  <2>6. PlaceFor(size) \in 1 .. n + 1 /\ At(PlaceFor(size))
    <3>1. i \in 1 .. n + 1 /\ At(i)
      BY <2>3, <2>4
    <3> HIDE DEF At
    <3> QED BY <2>5, <3>1
  <2>7. \A j \in PlaceFor(size) .. n : size <= free_list[j].size
    <3> SUFFICES ASSUME NEW j \in PlaceFor(size) .. n PROVE size <= free_list[j].size
      OBVIOUS
    <3> DEFINE k == PlaceFor(size)
    <3>1. k \in 1 .. n /\ j \in 1 .. n /\ free_list[k].size > size /\ (k = j \/ k < j)
      BY <2>6, <1>1
    <3>2. k < j => free_list[k].size <= free_list[j].size
      BY <3>1 DEF BySize
    <3> HIDE DEF k
    <3> QED BY <3>1, <3>2, <1>1
  <2> QED BY <2>6, <2>7
<1> QED BY <1>2, <1>3

----------------------------------------------------------------------------
(* The operations *)

\* A block the device gives out is none that it has.
LEMMA AllocNewKeeps ==
  ASSUME WorkspaceInv, NEW size \in Nat, AllocNew(size)
  PROVE  WorkspaceInv'
<1> USE DEF WorkspaceInv, WorkspaceTypeOK
<1>1. PICK b \in Vacant(device) : /\ device' = device \cup {Entry(b, size)}
                                  /\ allocated' = Append(allocated, Entry(b, size))
  BY DEF AllocNew
<1>2. free_list' = free_list /\ ToSet(free_list) = {}
  BY DEF AllocNew, ToSet
<1> DEFINE e == Entry(b, size)
<1>3. e \in BlockEntry /\ e.data = b /\ \A f \in device : f.data # b
  BY DEF Vacant, Entry, BlockEntry
<1> HIDE DEF e
<1>4. /\ Append(allocated, e) \in Seq(BlockEntry) /\ ToSet(Append(allocated, e)) = ToSet(allocated) \cup {e}
      /\ Distinct(Append(allocated, e))
  BY <1>3, AppendedList
<1>5. device' = device \cup {e} /\ allocated' = Append(allocated, e)
  BY <1>1 DEF e
<1>6. Apart(ToSet(free_list), ToSet(allocated'))
  BY <1>2 DEF Apart
<1>7. device' \in SUBSET BlockEntry
  BY <1>3, <1>5
<1> QED BY <1>2, <1>4, <1>5, <1>6, <1>7

\* An entry moves from the free ones to the allocated ones.
LEMMA AllocFitKeeps ==
  ASSUME WorkspaceInv, NEW size \in Nat, AllocFit(size)
  PROVE  WorkspaceInv'
<1> USE DEF WorkspaceInv, WorkspaceTypeOK
<1> DEFINE i == SmallestFit(size)
           e == free_list[i]
<1>1. i \in 1 .. Len(free_list)
  BY SmallestFits DEF AllocFit
<1> HIDE DEF i
<1>2. free_list' = RemoveAt(free_list, i) /\ allocated' = Append(allocated, e) /\ device' = device
  BY DEF AllocFit, i
<1>3. e \in BlockEntry
  BY <1>1, ElementOfSeq
<1>4. /\ free_list' \in Seq(BlockEntry) /\ ToSet(free_list') = ToSet(free_list) \ {e}
      /\ Distinct(free_list') /\ BySize(free_list')
      /\ e \in ToSet(free_list) /\ \A f \in ToSet(free_list) \ {e} : f.data # e.data
  BY <1>1, <1>2, RemovedList
<1>5. \A f \in ToSet(allocated) : f.data # e.data
  BY <1>4 DEF Apart
<1> HIDE DEF e
<1>6. /\ allocated' \in Seq(BlockEntry) /\ ToSet(allocated') = ToSet(allocated) \cup {e}
      /\ Distinct(allocated')
  BY <1>2, <1>3, <1>5, AppendedList
<1>7. Apart(ToSet(free_list'), ToSet(allocated'))
  BY <1>4, <1>6 DEF Apart
<1>8. device' = ToSet(free_list') \cup ToSet(allocated')
  BY <1>2, <1>4, <1>6
<1> QED BY <1>2, <1>4, <1>6, <1>7, <1>8

\* The biggest goes back to the device, and a new block comes, or none.
LEMMA AllocResizedKeeps ==
  ASSUME WorkspaceInv, NEW size \in Nat, AllocResized(size)
  PROVE  WorkspaceInv'
<1> USE DEF WorkspaceInv, WorkspaceTypeOK
<1> DEFINE last == free_list[Len(free_list)]
           others == device \ {last}
<1>1. free_list' = RemoveAt(free_list, Len(free_list)) /\ Len(free_list) \in 1 .. Len(free_list)
  BY FrontGives DEF AllocResized
<1>2. /\ free_list' \in Seq(BlockEntry) /\ ToSet(free_list') = ToSet(free_list) \ {last}
      /\ Distinct(free_list') /\ BySize(free_list')
      /\ last \in ToSet(free_list) /\ \A f \in ToSet(free_list) \ {last} : f.data # last.data
  BY <1>1, RemovedList
<1>3. \/ \E b \in Vacant(others) : /\ device' = others \cup {Entry(b, size)}
                                   /\ allocated' = Append(allocated, Entry(b, size))
      \/ device' = others /\ allocated' = allocated
  BY DEF AllocResized, Last
<1> HIDE DEF last
<1>4. others = ToSet(free_list') \cup ToSet(allocated) /\ Apart(ToSet(free_list'), ToSet(allocated))
  BY <1>2 DEF Apart
<1>5. CASE device' = others /\ allocated' = allocated
  BY <1>2, <1>4, <1>5
<1>6. CASE \E b \in Vacant(others) : /\ device' = others \cup {Entry(b, size)}
                                    /\ allocated' = Append(allocated, Entry(b, size))
  <2>1. PICK b \in Vacant(others) : /\ device' = others \cup {Entry(b, size)}
                                    /\ allocated' = Append(allocated, Entry(b, size))
    BY <1>6
  <2> DEFINE e == Entry(b, size)
  <2>2. e \in BlockEntry /\ e.data = b /\ \A f \in others : f.data # b
    BY DEF Vacant, Entry, BlockEntry
  <2>3. device' = others \cup {e} /\ allocated' = Append(allocated, e)
    BY <2>1
  <2> HIDE DEF e, others
  <2>4. \A f \in others : f.data # e.data
    BY <2>2
  <2>5. /\ allocated' \in Seq(BlockEntry) /\ ToSet(allocated') = ToSet(allocated) \cup {e}
        /\ Distinct(allocated')
    BY <1>4, <2>2, <2>3, <2>4, AppendedList
  <2>6. Apart(ToSet(free_list'), ToSet(allocated'))
    BY <1>4, <2>4, <2>5 DEF Apart
  <2>7. device' = ToSet(free_list') \cup ToSet(allocated')
    BY <1>4, <2>3, <2>5
  <2>8. device' \in SUBSET BlockEntry
    BY <2>2, <2>3 DEF others
  <2> QED BY <1>2, <2>5, <2>6, <2>7, <2>8
<1> QED BY <1>3, <1>5, <1>6

\* An entry moves back to the free ones, to the place of its size.
LEMMA FreeKeeps ==
  ASSUME WorkspaceInv, Free
  PROVE  WorkspaceInv'
<1> USE DEF WorkspaceInv, WorkspaceTypeOK
<1>1. PICK i \in 1 .. Len(allocated) :
        /\ allocated' = RemoveAt(allocated, i)
        /\ free_list' = InsertAt(free_list, PlaceFor(allocated[i].size), allocated[i])
        /\ device' = device
  BY DEF Free
<1> DEFINE e == allocated[i]
           place == PlaceFor(e.size)
<1>2. e \in BlockEntry
  BY ElementOfSeq
<1>3. /\ allocated' \in Seq(BlockEntry) /\ ToSet(allocated') = ToSet(allocated) \ {e}
      /\ Distinct(allocated')
      /\ e \in ToSet(allocated) /\ \A f \in ToSet(allocated) \ {e} : f.data # e.data
  BY <1>1, RemovedList
<1>4. free_list' = InsertAt(free_list, place, e)
  BY <1>1
<1>5. \A f \in ToSet(free_list) : f.data # e.data
  BY <1>3 DEF Apart
<1> HIDE DEF e
<1>6. /\ place \in 1 .. Len(free_list) + 1
      /\ \A j \in 1 .. place - 1 : free_list[j].size <= e.size
      /\ \A j \in place .. Len(free_list) : e.size <= free_list[j].size
  BY <1>2, PlaceFound DEF BlockEntry
<1> HIDE DEF place
<1>7. /\ free_list' \in Seq(BlockEntry) /\ ToSet(free_list') = ToSet(free_list) \cup {e}
      /\ Distinct(free_list') /\ BySize(free_list')
  BY <1>2, <1>4, <1>5, <1>6, InsertedList
<1>8. Apart(ToSet(free_list'), ToSet(allocated'))
  BY <1>3, <1>7 DEF Apart
<1>9. device' = ToSet(free_list') \cup ToSet(allocated')
  BY <1>1, <1>3, <1>7
<1> QED BY <1>1, <1>3, <1>7, <1>8, <1>9

\* Everything is free, and goes.
LEMMA ReleaseKeeps ==
  ASSUME WorkspaceInv, Release
  PROVE  WorkspaceInv'
<1> USE DEF WorkspaceInv, WorkspaceTypeOK
<1>1. allocated = <<>> /\ allocated' = <<>> /\ free_list' = <<>> /\ ToSet(<<>>) = {}
  BY DEF Release, ToSet
<1>2. device' = {}
  BY <1>1 DEF Release
<1>3. Distinct(<<>>) /\ BySize(<<>>) /\ Apart({}, {}) /\ <<>> \in Seq(BlockEntry)
  BY DEF Distinct, BySize, Apart
<1> QED BY <1>1, <1>2, <1>3

\* The lists one behind the other have each block once.
LEMMA ListedOnce ==
  ASSUME WorkspaceInv
  PROVE  BlocksListedOnce
<1> USE DEF WorkspaceInv, WorkspaceTypeOK
<1> DEFINE all == free_list \o allocated
           n == Len(free_list)
           m == Len(allocated)
<1>1. n \in Nat /\ m \in Nat /\ DOMAIN free_list = 1 .. n /\ DOMAIN allocated = 1 .. m
  OBVIOUS
<1>2. all \in Seq(BlockEntry) /\ Len(all) = n + m /\ DOMAIN all = 1 .. n + m
  OBVIOUS
<1>3. \A i \in 1 .. n : all[i] = free_list[i]
  OBVIOUS
<1>4. \A i \in 1 .. m : all[n + i] = allocated[i]
  OBVIOUS
<1> HIDE DEF all, n, m
<1>5. \A i \in 1 .. n + m : i \in 1 .. n \/ (i - n \in 1 .. m /\ all[i] = allocated[i - n])
  <2> SUFFICES ASSUME NEW i \in 1 .. n + m, i \notin 1 .. n PROVE i - n \in 1 .. m /\ all[i] = allocated[i - n]
    OBVIOUS
  <2>1. i - n \in 1 .. m /\ n + (i - n) = i
    BY <1>1
  <2> QED BY <2>1, <1>4
<1>6. ToSet(all) = ToSet(free_list) \cup ToSet(allocated)
  <2>1. ASSUME NEW e \in ToSet(all) PROVE e \in ToSet(free_list) \cup ToSet(allocated)
    BY <1>1, <1>2, <1>3, <1>5 DEF ToSet
  <2>2. ASSUME NEW e \in ToSet(free_list) PROVE e \in ToSet(all)
    <3>1. PICK i \in 1 .. n : e = free_list[i]
      BY <1>1 DEF ToSet
    <3>2. i \in 1 .. n + m
      BY <1>1
    <3> QED BY <3>1, <3>2, <1>2, <1>3 DEF ToSet
  <2>3. ASSUME NEW e \in ToSet(allocated) PROVE e \in ToSet(all)
    <3>1. PICK i \in 1 .. m : e = allocated[i]
      BY <1>1 DEF ToSet
    <3>2. n + i \in 1 .. n + m
      BY <1>1
    <3> QED BY <3>1, <3>2, <1>2, <1>4 DEF ToSet
  <2> QED BY <2>1, <2>2, <2>3
<1>7. \A i \in 1 .. n : \A j \in 1 .. m : free_list[i].data # allocated[j].data
  BY <1>1 DEF Apart, ToSet
<1>8. ASSUME NEW i \in 1 .. n + m, NEW j \in 1 .. n + m, i # j
      PROVE  all[i].data # all[j].data
  <2>1. CASE i \in 1 .. n /\ j \in 1 .. n
    BY <2>1, <1>3, <1>8 DEF Distinct, n
  <2>2. CASE i \in 1 .. n /\ j \notin 1 .. n
    BY <2>2, <1>3, <1>5, <1>7
  <2>3. CASE i \notin 1 .. n /\ j \in 1 .. n
    BY <2>3, <1>3, <1>5, <1>7
  <2>4. CASE i \notin 1 .. n /\ j \notin 1 .. n
    <3>1. i - n \in 1 .. m /\ j - n \in 1 .. m /\ i - n # j - n
      BY <2>4, <1>1, <1>5, <1>8
    <3> QED BY <2>4, <3>1, <1>5 DEF Distinct, m
  <2> QED BY <2>1, <2>2, <2>3, <2>4
<1>9. \A i, j \in DOMAIN free_list : i < j => free_list[i].size <= free_list[j].size
  BY <1>1 DEF BySize, n
<1> QED BY <1>2, <1>6, <1>8, <1>9 DEF BlocksListedOnce, all

\* Every block of the device is in one list, once, and the free ones are ordered by size, whatever
\* is asked for and given back, also when the device runs out of memory (WorkspacePool::Pool).
THEOREM ListedTheorem == WorkspaceSpec => []BlocksListedOnce
<1>1. WorkspaceInit => WorkspaceInv
  <2> SUFFICES ASSUME WorkspaceInit PROVE WorkspaceInv
    OBVIOUS
  <2>1. ToSet(<<>>) = {} /\ <<>> \in Seq(BlockEntry)
    BY DEF ToSet
  <2> QED BY <2>1 DEF WorkspaceInit, WorkspaceInv, WorkspaceTypeOK, Distinct, BySize, Apart
<1>2. WorkspaceInv /\ [WorkspaceNext]_workspaceVars => WorkspaceInv'
  <2> SUFFICES ASSUME WorkspaceInv, [WorkspaceNext]_workspaceVars PROVE WorkspaceInv'
    OBVIOUS
  <2>1. CASE Alloc
    <3>1. PICK nbytes \in Requests : \/ AllocNew(Rounded(nbytes)) \/ AllocFit(Rounded(nbytes))
                                     \/ AllocResized(Rounded(nbytes))
      BY <2>1 DEF Alloc
    <3>2. Rounded(nbytes) \in Nat
      BY RoundedIsSize, WorkspaceAssumption DEF WorkspaceAssumption
    <3> QED BY <3>1, <3>2, AllocNewKeeps, AllocFitKeeps, AllocResizedKeeps
  <2>2. CASE Free
    BY <2>2, FreeKeeps
  <2>3. CASE Release
    BY <2>3, ReleaseKeeps
  <2>4. CASE UNCHANGED workspaceVars
    BY <2>4 DEF workspaceVars, WorkspaceInv, WorkspaceTypeOK, Distinct, BySize, Apart, ToSet
  <2> QED BY <2>1, <2>2, <2>3, <2>4 DEF WorkspaceNext
<1> QED BY <1>1, <1>2, ListedOnce, PTL DEF WorkspaceSpec

----------------------------------------------------------------------------
HIDE DEF RegistryAssumption, ModulesAssumption

(***************************************************************************)
(* The thread group.                                                       *)
(***************************************************************************)

\* What the constructor sorts and counts, and where the workers are bound.
GroupTypeOK ==
  /\ machine \in Machines
  /\ sorted_order \in [1 .. machine.cores -> Cores(machine)] /\ Sorted(machine, sorted_order)
  /\ env \in ThreadsAsked /\ big_count \in Int /\ little_count \in Int
  /\ num_workers \in Nat \ {0} /\ num_workers_used \in Int

InPlace == core_of = [w \in GroupWorkers |-> Place(w, end_bound # "fast")]

BoundInOrder ==
  end_bound # "none" => num_workers <= machine.cores /\ num_workers_used <= num_workers /\ InPlace

GroupInv == GroupTypeOK /\ BoundInOrder

LEMMA MachineType ==
  ASSUME NEW m \in Machines
  PROVE  m.cores \in Nat \ {0} /\ \A c \in Cores(m) : m.freqs[c] \in Int
BY MachinesAssumption DEF MachinesAssumption, Cores

LEMMA LikeType ==
  ASSUME NEW m \in Machines, NEW c
  PROVE  Like(m, c) \in Int
<1>1. IsFiniteSet(0 .. m.cores - 1)
  <2>1. 0 \in Int /\ m.cores - 1 \in Int
    BY MachineType
  <2> QED BY <2>1, FS_Interval, Zenon
<1>2. IsFiniteSet({d \in Cores(m) : m.freqs[d] = m.freqs[c]})
  BY <1>1, FS_Subset DEF Cores
<1> QED BY <1>2, FS_CardinalityType DEF Like

LEMMA ConcurrencyType ==
  ASSUME NEW m \in Machines, NEW e \in ThreadsAsked
  PROVE  MaxConcurrency(m, e) \in Nat \ {0}
<1>1. e # Default => e \in Int
  BY MachinesAssumption DEF MachinesAssumption
<1>2. m.cores \in Nat /\ m.cores \div 2 \in Int
  BY MachineType
<1> QED BY <1>1, <1>2 DEF MaxConcurrency

LEMMA UsedType ==
  ASSUME GroupTypeOK, NEW mode \in Modes, NEW n \in Int
  PROVE  UsedBy(mode, n) \in Int /\ UsedBy(mode, n) <= num_workers
<1>1. MaxConcurrency(machine, env) \in Int
  BY ConcurrencyType DEF GroupTypeOK
<1> QED BY <1>1 DEF GroupTypeOK, UsedBy, Least, Modes

LEMMA GroupInitially == GroupInit => GroupInv
<1> SUFFICES ASSUME GroupInit PROVE GroupInv
  OBVIOUS
<1>1. machine \in Machines /\ env \in ThreadsAsked /\ num_workers \in Nat \ {0}
  BY ConcurrencyType DEF GroupInit
<1>2. big_count \in Int /\ little_count \in Int
  BY <1>1, LikeType DEF GroupInit, InitSortedOrder
<1>3. sorted_order \in [1 .. machine.cores -> Cores(machine)] /\ Sorted(machine, sorted_order)
  BY DEF GroupInit, InitSortedOrder
<1>4. MaxConcurrency(machine, env) \in Int
  BY <1>1, ConcurrencyType
<1>5. num_workers_used \in Int /\ num_workers_used <= num_workers
  BY <1>1, <1>2, <1>4 DEF GroupInit, UsedBy, Least
<1>6. CASE end_bound = "none"
  BY <1>1, <1>2, <1>3, <1>5, <1>6 DEF GroupInv, GroupTypeOK, BoundInOrder
<1>7. CASE end_bound # "none"
  <2>1. /\ machine.cores >= num_workers /\ end_bound = "fast"
        /\ core_of = [w \in GroupWorkers |-> Place(w, FALSE)]
    BY <1>7 DEF GroupInit
  <2>2. machine.cores \in Nat
    BY <1>1, MachineType
  <2> QED BY <1>1, <1>2, <1>3, <1>5, <2>1, <2>2 DEF GroupInv, GroupTypeOK, BoundInOrder, InPlace
<1> QED BY <1>6, <1>7

LEMMA ConfigureKeeps ==
  ASSUME GroupInv, NEW mode \in Modes, NEW n \in Wanted, Configure(mode, n)
  PROVE  GroupInv'
<1>0. n \in Int
  BY MachinesAssumption DEF MachinesAssumption
<1>1. UNCHANGED <<machine, env, num_workers, sorted_order, big_count, little_count>>
  BY DEF Configure
<1>2. num_workers_used' \in Int /\ num_workers_used' <= num_workers
  BY <1>0, UsedType DEF Configure, GroupInv
<1>3. GroupTypeOK'
  BY <1>1, <1>2 DEF GroupInv, GroupTypeOK, Sorted, Before, Cores
<1>4. CASE UNCHANGED <<core_of, end_bound>>
  <2>1. UNCHANGED <<machine, num_workers, sorted_order, core_of, end_bound>>
    BY <1>1, <1>4
  <2>2. InPlace => InPlace'
    BY <2>1 DEF InPlace, GroupWorkers, Place
  <2>3. BoundInOrder'
    BY <1>2, <2>1, <2>2 DEF GroupInv, BoundInOrder
  <2> QED BY <2>3, <1>3 DEF GroupInv
<1>5. CASE machine.cores >= num_workers /\ SetAffinity(mode = "little")
  <2>1. core_of' = [w \in GroupWorkers |-> Place(w, mode = "little")]
    BY <1>5 DEF SetAffinity
  <2>2. (mode = "little") = (end_bound' # "fast")
    BY <1>5 DEF SetAffinity
  <2>3. \A w : Place(w, mode = "little") = Place(w, end_bound' # "fast")
    BY <2>2 DEF Place
  <2>4. core_of' = [w \in GroupWorkers |-> Place(w, end_bound' # "fast")]
    BY <2>1, <2>3, Zenon
  <2>5. machine.cores \in Nat
    BY MachineType DEF GroupInv, GroupTypeOK
  <2>6. InPlace'
    BY <1>1, <2>4 DEF InPlace, GroupWorkers, Place
  <2> QED BY <1>1, <1>2, <1>3, <1>5, <2>6, <2>5 DEF GroupInv, GroupTypeOK, BoundInOrder
<1> QED BY <1>3, <1>4, <1>5 DEF Configure, GroupInv

\* A place earlier in the order is another core, and not a slower one.
LEMMA EarlierIsFaster ==
  ASSUME GroupTypeOK, NEW i \in 1 .. machine.cores, NEW j \in 1 .. machine.cores, i < j
  PROVE  /\ sorted_order[i] # sorted_order[j]
         /\ machine.freqs[sorted_order[i]] >= machine.freqs[sorted_order[j]]
<1>1. Before(machine, sorted_order[i], sorted_order[j])
  BY DEF GroupTypeOK, Sorted
<1>2. sorted_order[i] \in Cores(machine) /\ sorted_order[j] \in Cores(machine)
  BY DEF GroupTypeOK
<1>3. machine.freqs[sorted_order[i]] \in Int /\ machine.freqs[sorted_order[j]] \in Int
  BY <1>2, MachineType DEF GroupTypeOK
<1>4. sorted_order[i] \in Int /\ sorted_order[j] \in Int
  BY <1>2, MachineType DEF GroupTypeOK, Cores
<1> QED BY <1>1, <1>3, <1>4 DEF Before

LEMMA OnTheirCores == GroupInv => WorkersOnTheirCores
<1> SUFFICES ASSUME GroupInv, end_bound # "none" PROVE
      /\ \A v, w \in GroupWorkers : core_of[v] = core_of[w] => v = w
      /\ \A w \in Used, c \in Cores(machine) \ {core_of[v] : v \in Used} :
           IF end_bound = "fast" THEN machine.freqs[c] <= machine.freqs[core_of[w]]
           ELSE machine.freqs[c] >= machine.freqs[core_of[w]]
  BY DEF WorkersOnTheirCores
<1> DEFINE n == machine.cores
           at(w) == IF end_bound # "fast" THEN n - w ELSE w + 1
<1>1. n \in Nat \ {0} /\ num_workers \in Nat /\ num_workers <= n /\ num_workers_used \in Int /\ num_workers_used <= num_workers
  BY MachineType DEF GroupInv, GroupTypeOK, BoundInOrder
<1>2. \A w \in GroupWorkers : core_of[w] = sorted_order[at(w)] /\ at(w) \in 1 .. n /\ w \in Int
  BY <1>1 DEF GroupInv, BoundInOrder, InPlace, Place, GroupWorkers
<1>3. \A v, w \in GroupWorkers : core_of[v] = core_of[w] => v = w
  <2> SUFFICES ASSUME NEW v \in GroupWorkers, NEW w \in GroupWorkers, v # w PROVE core_of[v] # core_of[w]
    OBVIOUS
  <2>1. at(v) < at(w) \/ at(w) < at(v)
    BY <1>1, <1>2
  <2> HIDE DEF at
  <2> QED BY <1>2, <2>1, EarlierIsFaster DEF GroupInv
<1>4. ASSUME NEW w \in Used, NEW c \in Cores(machine) \ {core_of[v] : v \in Used}
      PROVE  IF end_bound = "fast" THEN machine.freqs[c] <= machine.freqs[core_of[w]]
             ELSE machine.freqs[c] >= machine.freqs[core_of[w]]
  <2>1. PICK i \in 1 .. n : sorted_order[i] = c
    <3>1. DOMAIN sorted_order = 1 .. n
      BY DEF GroupInv, GroupTypeOK
    <3> QED BY <3>1 DEF GroupInv, GroupTypeOK, Sorted
  <2>2. w \in GroupWorkers /\ w < num_workers_used /\ w \in Int /\ 0 <= w
    BY <1>1 DEF Used, GroupWorkers
  <2>3. machine.freqs[c] \in Int /\ machine.freqs[core_of[w]] \in Int
    <3>1. core_of[w] \in Cores(machine)
      BY <1>2, <2>2 DEF GroupInv, GroupTypeOK
    <3> QED BY <3>1, MachineType DEF GroupInv, GroupTypeOK
  <2>4. CASE end_bound = "fast"
    <3>1. ~(i <= num_workers_used)
      <4> SUFFICES ASSUME i <= num_workers_used PROVE FALSE
        OBVIOUS
      <4>1. i - 1 \in Used /\ at(i - 1) = i
        BY <1>1, <2>4 DEF Used, GroupWorkers
      <4>2. core_of[i - 1] = c
        BY <1>2, <2>1, <4>1 DEF Used
      <4> QED BY <4>1, <4>2
    <3>2. at(w) < i /\ at(w) \in 1 .. n
      BY <1>1, <1>2, <2>2, <2>4, <3>1
    <3> HIDE DEF at
    <3>3. machine.freqs[sorted_order[at(w)]] >= machine.freqs[sorted_order[i]]
      BY <3>2, EarlierIsFaster DEF GroupInv
    <3> QED BY <1>2, <2>1, <2>2, <2>3, <2>4, <3>3
  <2>5. CASE end_bound # "fast"
    <3>1. ~(n - i < num_workers_used)
      <4> SUFFICES ASSUME n - i < num_workers_used PROVE FALSE
        OBVIOUS
      <4>1. n - i \in Used /\ at(n - i) = i
        BY <1>1, <2>5 DEF Used, GroupWorkers
      <4>2. core_of[n - i] = c
        BY <1>2, <2>1, <4>1 DEF Used
      <4> QED BY <4>1, <4>2
    <3>2. i < at(w) /\ at(w) \in 1 .. n
      BY <1>1, <1>2, <2>2, <2>5, <3>1
    <3> HIDE DEF at
    <3>3. machine.freqs[sorted_order[i]] >= machine.freqs[sorted_order[at(w)]]
      BY <3>2, EarlierIsFaster DEF GroupInv
    <3> QED BY <1>2, <2>1, <2>2, <2>3, <2>5, <3>3
  <2> QED BY <2>4, <2>5
<1> QED BY <1>3, <1>4

\* A pool's workers sit on cores of their own, and those in use on the fastest or the slowest ones.
THEOREM CoresTheorem == GroupSpec => []WorkersOnTheirCores
<1>1. GroupInv /\ [GroupNext]_groupVars => GroupInv'
  <2> SUFFICES ASSUME GroupInv, [GroupNext]_groupVars PROVE GroupInv'
    OBVIOUS
  <2>1. CASE GroupNext
    BY <2>1, ConfigureKeeps DEF GroupNext, ConfigurePool
  <2>2. CASE UNCHANGED groupVars
    <3>1. UNCHANGED <<machine, env, num_workers, sorted_order, big_count, little_count, core_of, end_bound, num_workers_used>>
      BY <2>2 DEF groupVars
    <3> QED BY <3>1 DEF GroupInv, GroupTypeOK, BoundInOrder, InPlace, Sorted, Before, Cores, GroupWorkers, Place
  <2> QED BY <2>1, <2>2
<1> QED BY <1>1, GroupInitially, OnTheirCores, PTL DEF GroupSpec

----------------------------------------------------------------------------
(***************************************************************************)
(* Kernels. The invariant: module_ names for each device a handle that is  *)
(* loaded on it, and each that is loaded; a cache has nothing else; and a  *)
(* call is on the device of its thread, of a function that exists.         *)
(***************************************************************************)
CallsType ==
  /\ gpu \in [Callers -> Devices]
  /\ doing_ \in [Callers -> [at : {"none", "look up", "found", "launch"}, f : Wrappers \cup {NoHandle},
                             device_id : Devices \cup {NoDevice}, found : Handles \cup {NoHandle}]]
ModuleType ==
  /\ loaded_on \in [Handles -> Devices \cup {NoDevice}]
  /\ module_ \in [Devices -> Handles \cup {NoHandle}]
  /\ wrappers \subseteq Wrappers
  /\ fcache_ \in [Wrappers -> [Devices -> Handles \cup {NoHandle}]]

HandlesMatch ==
  /\ \A d \in Devices : module_[d] # NoHandle => loaded_on[module_[d]] = d
  /\ \A h \in Handles : loaded_on[h] # NoDevice => Alive /\ module_[loaded_on[h]] = h
CachesMatch == \A k \in wrappers, d \in Devices : fcache_[k][d] # NoHandle => fcache_[k][d] = module_[d]
CallMatches(t) ==
  /\ doing_[t].at # "none" => doing_[t].f \in wrappers /\ doing_[t].device_id = gpu[t]
  /\ doing_[t].at = "found" => doing_[t].found # NoHandle /\ doing_[t].found = module_[gpu[t]]
  /\ doing_[t].at = "launch" => fcache_[doing_[t].f][gpu[t]] # NoHandle
KernelsInv ==
  CallsType /\ ModuleType /\ HandlesMatch /\ CachesMatch /\ \A t \in Callers : CallMatches(t)

LEMMA KernelsInitially == KernelsInit => KernelsInv
<1> SUFFICES ASSUME KernelsInit PROVE KernelsInv
  OBVIOUS
<1> USE DEF KernelsInit
<1>1. CallsType /\ ModuleType
  BY KernelsAssumption DEF CallsType, ModuleType, NoCall, NoHandles
<1>2. HandlesMatch /\ CachesMatch
  BY DEF HandlesMatch, CachesMatch, NoHandles
<1>3. \A t \in Callers : CallMatches(t)
  BY DEF CallMatches, NoCall
<1> QED BY <1>1, <1>2, <1>3 DEF KernelsInv

\* A call is undisturbed by what leaves its thread, its function, the cache and the module alone.
LEMMA CallStays ==
  ASSUME NEW t \in Callers, CallMatches(t), doing_'[t] = doing_[t], gpu'[t] = gpu[t],
         doing_[t].at # "none" => doing_[t].f \in wrappers' /\ fcache_'[doing_[t].f] = fcache_[doing_[t].f],
         doing_[t].at = "found" => module_'[gpu[t]] = module_[gpu[t]]
  PROVE  CallMatches(t)'
  BY DEF CallMatches

LEMMA CreateKeeps ==
  ASSUME KernelsInv, NEW t \in Callers, CUDAModuleCreate(t)
  PROVE  KernelsInv'
<1> USE DEF CUDAModuleCreate, KernelsInv, Alive
<1>1. CallsType' /\ ModuleType'
  BY DEF CallsType, ModuleType, NoHandles
<1>2. HandlesMatch' /\ CachesMatch'
  BY DEF HandlesMatch, CachesMatch, NoHandles
<1>3. \A u \in Callers : CallMatches(u)'
  BY DEF CallMatches
<1> QED BY <1>1, <1>2, <1>3

\* A function made of nothing, or as a copy, has in its cache what is in module_.
LEMMA NewWrapperKeeps ==
  ASSUME KernelsInv, NEW k \in Wrappers, k \notin wrappers, Alive, NEW cached \in [Devices -> Handles \cup {NoHandle}],
         \A d \in Devices : cached[d] # NoHandle => cached[d] = module_[d],
         wrappers' = wrappers \cup {k}, fcache_' = [fcache_ EXCEPT ![k] = cached],
         UNCHANGED <<gpu, loaded_on, owned, module_, doing_>>
  PROVE  KernelsInv'
<1> USE DEF KernelsInv
<1>1. CallsType' /\ ModuleType'
  BY DEF CallsType, ModuleType
<1>2. HandlesMatch'
  BY DEF HandlesMatch, Alive
<1>3. CachesMatch'
  BY DEF CachesMatch, ModuleType
<1>4. \A u \in Callers : CallMatches(u)'
  <2> TAKE u \in Callers
  <2>1. doing_[u].at # "none" => doing_[u].f \in wrappers' /\ fcache_'[doing_[u].f] = fcache_[doing_[u].f]
    BY DEF CallMatches, ModuleType
  <2> QED BY <2>1, CallStays
<1> QED BY <1>1, <1>2, <1>3, <1>4

LEMMA GetKernelKeeps ==
  ASSUME KernelsInv, NEW t \in Callers, NEW k \in Wrappers, GetKernel(t, k)
  PROVE  KernelsInv'
<1>1. NoHandles \in [Devices -> Handles \cup {NoHandle}] /\ \A d \in Devices : NoHandles[d] = NoHandle
  BY DEF NoHandles
<1> QED BY <1>1, NewWrapperKeeps DEF GetKernel, Alive

LEMMA CopyKernelKeeps ==
  ASSUME KernelsInv, NEW t \in Callers, NEW k \in Wrappers, NEW copy \in Wrappers, CopyKernel(t, k, copy)
  PROVE  KernelsInv'
<1>1. fcache_[k] \in [Devices -> Handles \cup {NoHandle}] /\ \A d \in Devices : fcache_[k][d] # NoHandle => fcache_[k][d] = module_[d]
  BY DEF KernelsInv, ModuleType, CachesMatch, CopyKernel
<1> QED BY <1>1, NewWrapperKeeps DEF CopyKernel, Alive

\* When no one shares the module any more, each handle is unloaded and no call is in progress.
LEMMA UnloadAllKeeps ==
  ASSUME KernelsInv, NEW t \in Callers, UnloadAll(t), wrappers' = {},
         UNCHANGED <<fcache_, doing_>>, \A u \in Callers : doing_[u].at = "none"
  PROVE  KernelsInv'
<1> USE DEF KernelsInv
<1>1. CallsType' /\ ModuleType'
  BY DEF CallsType, ModuleType, UnloadAll, LoadedDevices, NoHandles
<1>2. \A h \in Handles : loaded_on'[h] = NoDevice
  <2> TAKE h \in Handles
  <2>1. CASE loaded_on[h] = NoDevice
    BY <2>1 DEF UnloadAll
  <2>2. CASE loaded_on[h] # NoDevice
    <3>1. loaded_on[h] \in Devices /\ module_[loaded_on[h]] = h /\ h # NoHandle
      BY <2>2, KernelsAssumption DEF HandlesMatch, ModuleType
    <3> QED BY <3>1 DEF UnloadAll, LoadedDevices
  <2> QED BY <2>1, <2>2
<1>3. HandlesMatch' /\ CachesMatch'
  BY <1>2 DEF HandlesMatch, CachesMatch, UnloadAll, NoHandles
<1>4. \A u \in Callers : CallMatches(u)'
  BY DEF CallMatches
<1> QED BY <1>1, <1>3, <1>4

LEMMA LetGoKeeps ==
  ASSUME KernelsInv, NEW t \in Callers, LetGo(t)
  PROVE  KernelsInv'
<1> USE DEF LetGo
<1>1. CASE wrappers = {}
  <2>1. \A u \in Callers : doing_[u].at = "none"
    BY <1>1 DEF KernelsInv, CallMatches
  <2> QED BY <1>1, <2>1, UnloadAllKeeps
<1>2. CASE wrappers # {}
  <2> USE <1>2 DEF KernelsInv
  <2>1. CallsType' /\ ModuleType' /\ CachesMatch'
    BY DEF CallsType, ModuleType, CachesMatch
  <2>2. HandlesMatch'
    BY DEF HandlesMatch, Alive
  <2>3. \A u \in Callers : CallMatches(u)'
    BY DEF CallMatches
  <2> QED BY <2>1, <2>2, <2>3
<1> QED BY <1>1, <1>2

LEMMA FreeKernelKeeps ==
  ASSUME KernelsInv, NEW t \in Callers, NEW k \in Wrappers, FreeKernel(t, k)
  PROVE  KernelsInv'
<1> USE DEF FreeKernel
<1>1. \A u \in Callers : doing_[u].f # k
  OBVIOUS
<1>2. CASE wrappers = {k} /\ ~owned
  <2>1. \A u \in Callers : doing_[u].at = "none"
    BY <1>1, <1>2 DEF KernelsInv, CallMatches
  <2> QED BY <1>2, <2>1, UnloadAllKeeps
<1>3. CASE ~(wrappers = {k} /\ ~owned)
  <2> USE <1>3 DEF KernelsInv
  <2>1. CallsType' /\ ModuleType' /\ CachesMatch'
    BY DEF CallsType, ModuleType, CachesMatch
  <2>2. HandlesMatch'
    BY DEF HandlesMatch, Alive
  <2>3. \A u \in Callers : CallMatches(u)'
    BY <1>1 DEF CallMatches
  <2> QED BY <2>1, <2>2, <2>3
<1> QED BY <1>2, <1>3

LEMMA CallKeeps ==
  ASSUME KernelsInv, NEW t \in Callers, NEW k \in Wrappers, Call(t, k)
  PROVE  KernelsInv'
<1> USE DEF Call, KernelsInv
<1>1. CallsType'
  BY DEF CallsType
<1>2. ModuleType' /\ HandlesMatch' /\ CachesMatch'
  BY DEF ModuleType, HandlesMatch, CachesMatch, Alive
<1>3. CallMatches(t)'
  BY DEF CallMatches, CallsType
<1>4. \A u \in Callers \ {t} : CallMatches(u)'
  BY DEF CallMatches, CallsType
<1> QED BY <1>1, <1>2, <1>3, <1>4

\* A call that raises, or has launched its kernel, is over.
LEMMA RaisedType ==
  ASSUME CallsType, NEW t \in Callers, Raised(t), UNCHANGED gpu
  PROVE  CallsType' /\ CallMatches(t)' /\ \A u \in Callers \ {t} : doing_'[u] = doing_[u]
  BY DEF CallsType, CallMatches, Raised, NoCall

LEMMA FoundType ==
  ASSUME CallsType, NEW t \in Callers, NEW h \in Handles, Found(t, h), UNCHANGED gpu
  PROVE  /\ CallsType' /\ \A u \in Callers \ {t} : doing_'[u] = doing_[u]
         /\ doing_'[t].at = "found" /\ doing_'[t].found = h
         /\ doing_'[t].f = doing_[t].f /\ doing_'[t].device_id = doing_[t].device_id
  BY DEF CallsType, Found

LEMMA NoSuchDevice == NoDevice \notin Devices
  BY KernelsAssumption DEF NoDevice, kMaxNumGPUs

LEMMA GetFuncKeeps ==
  ASSUME KernelsInv, NEW t \in Callers, GetFunc(t)
  PROVE  KernelsInv'
<1> DEFINE d == doing_[t].device_id
<1>1. doing_[t].at = "look up" /\ d = gpu[t] /\ d \in Devices /\ doing_[t].f \in wrappers
  BY DEF GetFunc, KernelsInv, CallMatches, CallsType
<1>2. UNCHANGED <<gpu, owned, wrappers, fcache_>>
  BY DEF GetFunc
<1>3. ASSUME NEW h \in Handles, UNCHANGED <<loaded_on, module_>>, h = module_[d], Found(t, h)
      PROVE  KernelsInv'
  <2>1. ModuleType' /\ HandlesMatch' /\ CachesMatch'
    BY <1>2, <1>3 DEF KernelsInv, ModuleType, HandlesMatch, CachesMatch, Alive
  <2>2. CallsType' /\ \A u \in Callers \ {t} : doing_'[u] = doing_[u]
    BY <1>2, <1>3, FoundType DEF KernelsInv
  <2>3. CallMatches(t)'
    BY <1>1, <1>2, <1>3, FoundType, KernelsAssumption DEF KernelsInv, CallMatches
  <2>4. \A u \in Callers \ {t} : CallMatches(u)'
    BY <1>2, <1>3, <2>2, CallStays DEF KernelsInv, CallMatches
  <2> QED BY <2>1, <2>2, <2>3, <2>4 DEF KernelsInv
<1>4. ASSUME UNCHANGED <<loaded_on, module_>>, Raised(t)
      PROVE  KernelsInv'
  <2>1. ModuleType' /\ HandlesMatch' /\ CachesMatch'
    BY <1>2, <1>4 DEF KernelsInv, ModuleType, HandlesMatch, CachesMatch, Alive
  <2>2. CallsType' /\ CallMatches(t)' /\ \A u \in Callers \ {t} : doing_'[u] = doing_[u]
    BY <1>2, <1>4, RaisedType DEF KernelsInv
  <2>3. \A u \in Callers \ {t} : CallMatches(u)'
    BY <1>2, <1>4, <2>2, CallStays DEF KernelsInv, CallMatches
  <2> QED BY <2>1, <2>2, <2>3 DEF KernelsInv
<1>5. ASSUME NEW h \in Handles, module_[d] = NoHandle, LoadData(t, d, h), Found(t, h) \/ Raised(t)
      PROVE  KernelsInv'
  <2>1. /\ h # NoHandle /\ loaded_on[h] = NoDevice
        /\ loaded_on' = [loaded_on EXCEPT ![h] = d] /\ module_' = [module_ EXCEPT ![d] = h]
    <3>1. h # NoHandle
      BY KernelsAssumption
    <3> QED BY <1>1, <1>5, <3>1 DEF LoadData
  <2>2. ModuleType'
    BY <1>1, <1>2, <2>1 DEF KernelsInv, ModuleType
  <2>3. \A e \in Devices : module_'[e] = IF e = d THEN h ELSE module_[e]
    BY <2>1 DEF KernelsInv, ModuleType
  <2>4. \A g \in Handles : loaded_on'[g] = IF g = h THEN d ELSE loaded_on[g]
    BY <2>1 DEF KernelsInv, ModuleType
  <2>5. \A e \in Devices : module_'[e] # NoHandle => loaded_on'[module_'[e]] = e
    <3> SUFFICES ASSUME NEW e \in Devices, module_'[e] # NoHandle PROVE loaded_on'[module_'[e]] = e
      OBVIOUS
    <3>1. CASE e = d
      BY <3>1, <2>3, <2>4
    <3>2. CASE e # d
      <4>1. module_'[e] = module_[e] /\ module_[e] \in Handles /\ loaded_on[module_[e]] = e
        BY <3>2, <2>3 DEF KernelsInv, ModuleType, HandlesMatch
      <4>2. module_[e] # h
        BY <4>1, <2>1, NoSuchDevice
      <4> QED BY <4>1, <4>2, <2>4
    <3> QED BY <3>1, <3>2
  <2>6. \A g \in Handles : loaded_on'[g] # NoDevice => Alive' /\ module_'[loaded_on'[g]] = g
    <3> SUFFICES ASSUME NEW g \in Handles, loaded_on'[g] # NoDevice PROVE Alive' /\ module_'[loaded_on'[g]] = g
      OBVIOUS
    <3>1. Alive'
      BY <1>1, <1>2 DEF Alive
    <3>2. CASE g = h
      BY <3>1, <3>2, <1>1, <2>3, <2>4
    <3>3. CASE g # h
      <4>1. module_[loaded_on[g]] = g /\ loaded_on[g] \in Devices
        BY <3>3, <2>4 DEF KernelsInv, HandlesMatch, ModuleType
      <4>2. loaded_on[g] # d
        BY <4>1, <1>5, KernelsAssumption
      <4> QED BY <3>1, <3>3, <4>1, <4>2, <2>3, <2>4
    <3> QED BY <3>2, <3>3
  <2>7. CachesMatch'
    BY <1>2, <1>5, <2>3 DEF KernelsInv, CachesMatch
  <2>8. \A u \in Callers \ {t} : doing_'[u] = doing_[u]
    BY <1>2, <1>5, FoundType, RaisedType DEF KernelsInv
  <2>9. CallsType' /\ CallMatches(t)'
    <3>1. CASE Raised(t)
      BY <3>1, <1>2, RaisedType DEF KernelsInv
    <3>2. CASE Found(t, h)
      BY <3>2, <1>1, <1>2, <2>1, <2>3, FoundType DEF KernelsInv, CallMatches
    <3> QED BY <3>1, <3>2, <1>5
  <2>10. \A u \in Callers \ {t} : CallMatches(u)'
    <3> TAKE u \in Callers \ {t}
    <3>1. doing_[u].at = "found" => gpu[u] # d
      BY <1>5 DEF KernelsInv, CallMatches
    <3>2. doing_[u].at = "found" => module_'[gpu[u]] = module_[gpu[u]]
      BY <3>1, <2>3 DEF KernelsInv, CallsType
    <3> QED BY <3>2, <1>2, <2>8, CallStays DEF KernelsInv, CallMatches
  <2> QED BY <2>2, <2>5, <2>6, <2>7, <2>9, <2>10 DEF KernelsInv, HandlesMatch
<1>6. CASE module_[d] # NoHandle
  <2>1. module_[d] \in Handles
    BY <1>1, <1>6 DEF KernelsInv, ModuleType
  <2> QED BY <1>3, <1>4, <1>6, <2>1 DEF GetFunc
<1>7. CASE module_[d] = NoHandle
  BY <1>4, <1>5, <1>7 DEF GetFunc
<1> QED BY <1>6, <1>7

LEMMA CacheFuncKeeps ==
  ASSUME KernelsInv, NEW t \in Callers, CacheFunc(t)
  PROVE  KernelsInv'
<1> DEFINE k == doing_[t].f
           d == doing_[t].device_id
           h == doing_[t].found
<1>1. k \in wrappers /\ k \in Wrappers /\ d = gpu[t] /\ d \in Devices /\ h \in Handles /\ h # NoHandle /\ h = module_[d]
  <2>1. doing_[t].at = "found" /\ CallMatches(t)
    BY DEF CacheFunc, KernelsInv
  <2>2. k \in wrappers /\ d = gpu[t] /\ h # NoHandle /\ h = module_[d]
    BY <2>1 DEF CallMatches
  <2>3. gpu[t] \in Devices /\ h \in Handles \cup {NoHandle} /\ wrappers \subseteq Wrappers
    BY DEF KernelsInv, CallsType, ModuleType
  <2> QED BY <2>2, <2>3
<1>2. /\ fcache_' = [fcache_ EXCEPT ![k][d] = h]
      /\ doing_' = [doing_ EXCEPT ![t].at = "launch", ![t].found = NoHandle]
      /\ UNCHANGED <<gpu, loaded_on, owned, module_, wrappers>>
  BY DEF CacheFunc
<1>3. /\ doing_'[t].at = "launch" /\ doing_'[t].f = k /\ doing_'[t].device_id = d
      /\ \A u \in Callers \ {t} : doing_'[u] = doing_[u]
      /\ CallsType'
  <2>1. /\ doing_ \in [Callers -> [at : {"none", "look up", "found", "launch"}, f : Wrappers \cup {NoHandle},
                                    device_id : Devices \cup {NoDevice}, found : Handles \cup {NoHandle}]]
        /\ gpu' \in [Callers -> Devices]
    BY <1>2 DEF KernelsInv, CallsType
  <2>2. /\ doing_'[t] = [doing_[t] EXCEPT !.at = "launch", !.found = NoHandle]
        /\ \A u \in Callers \ {t} : doing_'[u] = doing_[u]
    BY <1>2, <2>1
  <2> DEFINE K == [at : {"none", "look up", "found", "launch"}, f : Wrappers \cup {NoHandle},
                   device_id : Devices \cup {NoDevice}, found : Handles \cup {NoHandle}]
             c == doing_[t]
             e == [c EXCEPT !.at = "launch", !.found = NoHandle]
  <2>3. c \in K /\ k = c.f /\ d = c.device_id /\ doing_' = [doing_ EXCEPT ![t] = e] /\ doing_'[t] = e
    BY <1>2, <2>1, <2>2
  <2>4. e \in K /\ e.at = "launch" /\ e.f = c.f /\ e.device_id = c.device_id
    <3> HIDE DEF c
    <3> QED BY <2>3
  <2> HIDE DEF c, e
  <2>5. doing_' \in [Callers -> K]
    <3> HIDE DEF K
    <3>1. doing_ \in [Callers -> K]
      BY <2>1 DEF K
    <3> QED BY <2>3, <2>4, <3>1
  <2>6. CallsType'
    BY <2>1, <2>5 DEF CallsType
  <2> QED BY <2>2, <2>3, <2>4, <2>6
<1> HIDE DEF k, d, h
<1>4. \A j \in Wrappers, e \in Devices : fcache_'[j][e] = IF j = k /\ e = d THEN h ELSE fcache_[j][e]
  BY <1>2, <1>1 DEF KernelsInv, ModuleType
<1>5. ModuleType'
  BY <1>1, <1>2 DEF KernelsInv, ModuleType
<1>6. HandlesMatch'
  BY <1>2 DEF KernelsInv, HandlesMatch, Alive
<1>7. CachesMatch'
  BY <1>1, <1>2, <1>4 DEF KernelsInv, CachesMatch, ModuleType
<1>8. CallMatches(t)'
  BY <1>1, <1>2, <1>3, <1>4 DEF CallMatches
<1>9. \A u \in Callers \ {t} : CallMatches(u)'
  <2> TAKE u \in Callers \ {t}
  <2>1. CallMatches(u) /\ doing_'[u] = doing_[u] /\ gpu[u] \in Devices
    BY <1>3 DEF KernelsInv, CallsType
  <2>2. doing_[u].at = "launch" => fcache_'[doing_[u].f][gpu[u]] # NoHandle
    BY <1>1, <1>4, <2>1 DEF CallMatches, KernelsInv, ModuleType
  <2> QED BY <1>2, <2>1, <2>2 DEF CallMatches
<1> QED BY <1>3, <1>5, <1>6, <1>7, <1>8, <1>9 DEF KernelsInv

LEMMA LaunchKeeps ==
  ASSUME KernelsInv, NEW t \in Callers, Launch(t)
  PROVE  KernelsInv'
<1> USE DEF Launch
<1>1. ModuleType' /\ HandlesMatch' /\ CachesMatch'
  BY DEF KernelsInv, ModuleType, HandlesMatch, CachesMatch, Alive
<1>2. CallsType' /\ CallMatches(t)' /\ \A u \in Callers \ {t} : doing_'[u] = doing_[u]
  BY RaisedType DEF KernelsInv
<1>3. \A u \in Callers \ {t} : CallMatches(u)'
  BY <1>2 DEF KernelsInv, CallMatches
<1> QED BY <1>1, <1>2, <1>3 DEF KernelsInv

LEMMA OnDeviceKeeps ==
  ASSUME KernelsInv, NEW t \in Callers, NEW d \in Devices, OnDevice(t, d)
  PROVE  KernelsInv'
<1> USE DEF OnDevice, Outside, KernelsInv
<1>1. CallsType' /\ ModuleType' /\ HandlesMatch' /\ CachesMatch'
  BY DEF CallsType, ModuleType, HandlesMatch, CachesMatch, Alive
<1>2. \A u \in Callers : CallMatches(u)'
  BY DEF CallMatches, CallsType
<1> QED BY <1>1, <1>2

LEMMA KernelsAreRight == KernelsInv => KernelsOfTheirDevice
<1> SUFFICES ASSUME KernelsInv PROVE KernelsOfTheirDevice
  OBVIOUS
<1>1. ASSUME NEW t \in Callers, doing_[t].at = "launch"
      PROVE  LET h == fcache_[doing_[t].f][gpu[t]] IN h \in Handles /\ loaded_on[h] = gpu[t]
  <2>1. doing_[t].f \in wrappers /\ gpu[t] \in Devices /\ fcache_[doing_[t].f][gpu[t]] # NoHandle
    BY <1>1 DEF KernelsInv, CallMatches, CallsType
  <2>2. fcache_[doing_[t].f][gpu[t]] = module_[gpu[t]]
    BY <2>1 DEF KernelsInv, CachesMatch
  <2> QED BY <2>1, <2>2 DEF KernelsInv, HandlesMatch, ModuleType
<1> QED BY <1>1 DEF KernelsOfTheirDevice, KernelsInv, HandlesMatch

\* KernelsOfTheirDevice for any number of threads, devices, handles and functions: the unlocked caches only
\* ever hold what module_ has, as module_ changes once for each device, under the lock, while anyone shares it.
THEOREM KernelsTheorem == KernelsSpec => []KernelsOfTheirDevice
<1>1. KernelsInit => KernelsInv
  BY KernelsInitially
<1>2. KernelsInv /\ [KernelsNext]_kernelVars => KernelsInv'
  <2> SUFFICES ASSUME KernelsInv, [KernelsNext]_kernelVars PROVE KernelsInv'
    OBVIOUS
  <2>1. CASE UNCHANGED kernelVars
    <3>1. CallsType' /\ ModuleType' /\ HandlesMatch' /\ CachesMatch'
      BY <2>1 DEF kernelVars, KernelsInv, CallsType, ModuleType, HandlesMatch, CachesMatch, Alive
    <3>2. \A u \in Callers : CallMatches(u)'
      BY <2>1 DEF kernelVars, KernelsInv, CallMatches
    <3> QED BY <3>1, <3>2 DEF KernelsInv
  <2>2. ASSUME NEW t \in Callers, NEW d \in Devices, SetDevice(t, d) \/ DataSpace(t, d) \/ StreamCall(t, d) \/ DecoderStream(t, d)
        PROVE  KernelsInv'
    <3>1. gpu[t] \in Devices
      BY DEF KernelsInv, CallsType
    <3> QED BY <2>2, <3>1, OnDeviceKeeps DEF SetDevice, DataSpace, StreamCall, DecoderStream
  <2>3. ASSUME NEW t \in Callers, NEW from, NEW to, CopyDataFromTo(t, from, to)
        PROVE  KernelsInv'
    BY <2>3, OnDeviceKeeps DEF CopyDataFromTo
  <2>4. ASSUME NEW t \in Callers, NEW k \in Wrappers, GetKernel(t, k) \/ FreeKernel(t, k) \/ Call(t, k)
        PROVE  KernelsInv'
    BY <2>4, GetKernelKeeps, FreeKernelKeeps, CallKeeps
  <2>5. ASSUME NEW t \in Callers, NEW k \in Wrappers, NEW copy \in Wrappers, CopyKernel(t, k, copy)
        PROVE  KernelsInv'
    BY <2>5, CopyKernelKeeps
  <2>6. ASSUME NEW t \in Callers, CUDAModuleCreate(t) \/ LetGo(t) \/ GetFunc(t) \/ CacheFunc(t) \/ Launch(t)
        PROVE  KernelsInv'
    BY <2>6, CreateKeeps, LetGoKeeps, GetFuncKeeps, CacheFuncKeeps, LaunchKeeps
  <2> QED BY <2>1, <2>2, <2>3, <2>4, <2>5, <2>6 DEF KernelsNext
<1>3. KernelsInv => KernelsOfTheirDevice
  BY KernelsAreRight
<1> QED BY <1>1, <1>2, <1>3, PTL DEF KernelsSpec
=============================================================================
