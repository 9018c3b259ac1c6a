------------------------------- MODULE Modules -------------------------------
(* Modules of compiled functions: their import graph, the cache that resolves
   the names their code calls, and how long their libraries stay loaded
   (src/src/runtime/module.cc, dso_module.cc, module_util.cc,
   src/include/peli/runtime/module.h). Handles and functions are used by one
   thread at a time. *)
EXTENDS Naturals, Sequences

CONSTANTS Nodes,     \* ModuleNodes that exist at a time
          Files,     \* libraries
          Symbols,   \* names of functions
          Exports,   \* the symbols of each library
          MaxImports,\* bound: imports of a module
          Twice      \* may a library be loaded while it is?
CONSTANT NoModule

ASSUME ModulesAssumption ==
  Exports \in [Files -> SUBSET Symbols] /\ MaxImports \in Nat /\ Twice \in BOOLEAN
  /\ NoModule \notin Files

VARIABLES file,      \* the library of each node, NoModule if it does not exist
          imports,   \* imports_
          cache,     \* import_cache_: the module whose function a name was resolved to
          handles,   \* nodes with a Module object in Python
          functions, \* nodes with a function that keeps them: sptr_to_self
          ctx        \* what each library takes for its module: *__peli_module_ctx

moduleVars == <<file, imports, cache, handles, functions, ctx>>

ModulesInit ==
  /\ file = [m \in Nodes |-> NoModule]
  /\ imports = [m \in Nodes |-> <<>>]
  /\ cache = [m \in Nodes |-> [s \in Symbols |-> NoModule]]
  /\ handles = {} /\ functions = {}
  /\ ctx = [f \in Files |-> NoModule]

Exist == {m \in Nodes : file[m] # NoModule}
Loaded(f) == \E m \in Exist : file[m] = f
Imports(m) == {imports[m][i] : i \in 1 .. Len(imports[m])}
Shared(m) == m \in handles \cup functions \/ \E n \in Exist : m \in Imports(n)

\* module.loadfile_so: dlopen, and the library is told its module.
LoadFromFile(f, m) ==
  /\ m \notin Exist /\ (Twice \/ ~Loaded(f))
  /\ file' = [file EXCEPT ![m] = f]
  /\ ctx' = [ctx EXCEPT ![f] = m]
  /\ handles' = handles \cup {m}
  /\ UNCHANGED <<imports, cache, functions>>

\* The modules within reach of other: every set that has it and is closed has them.
Reaches(other, m) ==
  \A S \in SUBSET Exist : (other \in S /\ \A n \in S : Imports(n) \subseteq S) => m \in S

\* The slip of a detection that looks at the direct imports only.
ImportShallow(m, other) ==
  /\ m \in handles /\ other \in handles /\ Len(imports[m]) < MaxImports
  /\ m # other /\ m \notin Imports(other)
  /\ imports' = [imports EXCEPT ![m] = Append(@, other)]
  /\ UNCHANGED <<file, cache, handles, functions, ctx>>

Import(m, other) ==
  /\ m \in handles /\ other \in handles /\ Len(imports[m]) < MaxImports
  /\ ~Reaches(other, m)
  /\ imports' = [imports EXCEPT ![m] = Append(@, other)]
  /\ UNCHANGED <<file, cache, handles, functions, ctx>>

\* The first of some modules that has the symbol: the one asked, then what it imports.
First(ms, s) ==
  LET has == {i \in 1 .. Len(ms) : s \in Exports[file[ms[i]]]}
  IN  IF has = {} THEN NoModule ELSE ms[CHOOSE i \in has : \A j \in has : i <= j]

GetFunction(m, s, query) ==
  /\ m \in handles
  /\ LET found == First(IF query THEN <<m>> \o imports[m] ELSE <<m>>, s)
     IN  functions' = functions \cup ({found} \ {NoModule})
  /\ UNCHANGED <<file, imports, cache, handles, ctx>>

\* The slip that looks at the importing module first.
GetFuncFromEnvSelf(m, s) ==
  /\ m \in functions /\ ctx[file[m]] \in Exist
  /\ cache' = [cache EXCEPT ![ctx[file[m]]][s] = First(<<m>> \o imports[m], s)]
  /\ UNCHANGED <<file, imports, handles, functions, ctx>>

\* Code of a library calls a name: through its module, which looks at the cache, then at its
\* imports, then at the global functions, whose answer it does not cache.
GetFuncFromEnv(m, s) ==
  /\ m \in functions /\ ctx[file[m]] \in Exist
  /\ cache' = [cache EXCEPT ![ctx[file[m]]][s] = IF @ = NoModule THEN First(imports[ctx[file[m]]], s) ELSE @]
  /\ UNCHANGED <<file, imports, handles, functions, ctx>>

PELIModFree(m) ==
  /\ m \in handles /\ handles' = handles \ {m}
  /\ UNCHANGED <<file, imports, cache, functions, ctx>>
PELIFuncFree(m) ==
  /\ m \in functions /\ functions' = functions \ {m}
  /\ UNCHANGED <<file, imports, cache, handles, ctx>>

\* Nobody has it: ~DSOModuleNode closes the library, which goes with its last module.
Unload(m) ==
  /\ m \in Exist /\ ~Shared(m)
  /\ file' = [file EXCEPT ![m] = NoModule]
  /\ imports' = [imports EXCEPT ![m] = <<>>]
  /\ cache' = [cache EXCEPT ![m] = [s \in Symbols |-> NoModule]]
  /\ ctx' = IF \E n \in Exist \ {m} : file[n] = file[m] THEN ctx ELSE [ctx EXCEPT ![file[m]] = NoModule]
  /\ UNCHANGED <<handles, functions>>

ModulesNext ==
  \E m \in Nodes :
    \/ \E f \in Files : LoadFromFile(f, m)
    \/ \E other \in Nodes : Import(m, other)
    \/ \E s \in Symbols : GetFuncFromEnv(m, s) \/ \E query \in BOOLEAN : GetFunction(m, s, query)
    \/ PELIModFree(m) \/ PELIFuncFree(m) \/ Unload(m)

ModulesSpec == ModulesInit /\ [][ModulesNext]_moduleVars

(***************************************************************************)
(* Properties.                                                             *)
(***************************************************************************)
\* No module imports itself, over any number of others: none keeps itself loaded.
ImportsAcyclic == \A m \in Exist : \A n \in Imports(m) : ~Reaches(n, m)

\* A function someone has can be called, however its module was found, imported and let go of:
\* its library is loaded, what the library takes for its module exists, and each name its code
\* resolved is what looking it up anew would give, whatever was imported since.
FunctionsStayValid ==
  \A m \in functions :
    /\ m \in Exist /\ ctx[file[m]] \in Exist
    /\ \A s \in Symbols :
         cache[ctx[file[m]]][s] \in {NoModule, First(imports[ctx[file[m]]], s)}
=============================================================================
