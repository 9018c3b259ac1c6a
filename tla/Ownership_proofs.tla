--------------------------- MODULE Ownership_proofs ---------------------------
(***************************************************************************)
(* What is shared is freed once and not under an owner: the arrays          *)
(* (NDArrays), and the objects that cross the boundary of a packed call     *)
(* (PackedCalls).                                                           *)
(***************************************************************************)
EXTENDS NDArrays, PackedCalls, FiniteSetTheorems, TLAPS

(***************************************************************************)
(* NDArrays. No array is freed under an owner, and none outlives its last   *)
(* one, for any number of arrays, tensors, owners and views of views, as    *)
(* long as the pool outlives what it lends and callbacks get arrays as      *)
(* views.  The counter of an array is the number of its owners; the memory  *)
(* of a view stays because views end at an array that is none.              *)
(***************************************************************************)
USE ArraysAssumption DEF ArraysAssumption, Roots

\* What an array, or an imported tensor, keeps a reference to.
Keeps(v) == IF manager[v] \in Tensors THEN tensors[manager[v]] ELSE manager[v]
Shares(v) == v \in live /\ manager[v] \notin Roots

TensorsOf(c) == {t \in Tensors : tensors[t] = c}
ViewsOf(c) == {v \in live : manager[v] = c}
Same(d, x) == IF d = x THEN 1 ELSE 0
InPool(c) == IF c \in pool THEN 1 ELSE 0
Count(c) == cpp[c] + py[c] + Cardinality(TensorsOf(c)) + Cardinality(ViewsOf(c)) + InPool(c)

ArrayTypeOK ==
  /\ live \subseteq Arrays /\ dying \subseteq live /\ blocks \subseteq Arrays
  /\ refs \in [Arrays -> Int] /\ cpp \in [Arrays -> Nat] /\ py \in [Arrays -> Nat]
  /\ manager \in [Arrays -> Arrays \cup Tensors \cup Roots]
  /\ data \in [Arrays -> Arrays]
  /\ tensors \in [Tensors -> Arrays \cup {Nothing}]
  /\ pool \subseteq Arrays /\ poolAlive \in BOOLEAN

\* The counter counts the owners, and an array without any is on its way out, or was deleted.
Counted ==
  /\ \A c \in Arrays : refs[c] = Count(c)
  /\ \A c \in live : refs[c] = 0 <=> c \in dying
  /\ \A c \in Arrays \ live : refs[c] = 0 /\ manager[c] = Nothing

\* A view has what it is a view of, and no two arrays the same tensor.
Parents ==
  /\ \A v \in live : Shares(v) => Keeps(v) \in Arrays /\ data[v] = data[Keeps(v)]
  /\ \A v \in live : ~Shares(v) => data[v] = v
  /\ \A v, w \in live : manager[v] \in Tensors /\ manager[v] = manager[w] => v = w

\* Views of views end at an array that is none: no set of views keeps itself.
Grounded ==
  \A S \in SUBSET live : S # {} /\ (\A v \in S : Shares(v)) => \E v \in S : Keeps(v) \notin S

\* The pool has the only reference to its arrays, and goes when none is lent.
Pooled ==
  /\ \A c \in pool : c \in live /\ manager[c] = Pool /\ refs[c] = 1
  /\ ~poolAlive => \A c \in live : manager[c] # Pool

Backed == blocks = {data[c] : c \in live}

ArrayInv == ArrayTypeOK /\ Counted /\ Parents /\ Grounded /\ Pooled /\ Backed

----------------------------------------------------------------------------
(* Owners *)

\* The sets counted are finite, and empty when they count nothing.
LEMMA CountFacts ==
  ASSUME ArrayTypeOK, NEW c \in Arrays
  PROVE  /\ IsFiniteSet(TensorsOf(c)) /\ IsFiniteSet(ViewsOf(c))
         /\ Cardinality(TensorsOf(c)) \in Nat /\ Cardinality(ViewsOf(c)) \in Nat
         /\ Cardinality(TensorsOf(c)) = 0 <=> TensorsOf(c) = {}
         /\ Cardinality(ViewsOf(c)) = 0 <=> ViewsOf(c) = {}
         /\ cpp[c] \in Nat /\ py[c] \in Nat /\ InPool(c) \in 0 .. 1
         /\ InPool(c) = 0 <=> c \notin pool
<1>1. TensorsOf(c) \subseteq Tensors /\ ViewsOf(c) \subseteq Arrays
  BY DEF TensorsOf, ViewsOf, ArrayTypeOK
<1>2. IsFiniteSet(TensorsOf(c)) /\ IsFiniteSet(ViewsOf(c))
  BY <1>1, FS_Subset
<1>3. /\ Cardinality(TensorsOf(c)) \in Nat /\ Cardinality(ViewsOf(c)) \in Nat
      /\ Cardinality(TensorsOf(c)) = 0 <=> TensorsOf(c) = {}
      /\ Cardinality(ViewsOf(c)) = 0 <=> ViewsOf(c) = {}
  BY <1>2, FS_CardinalityType, FS_EmptySet
<1>4. cpp[c] \in Nat /\ py[c] \in Nat /\ InPool(c) \in 0 .. 1 /\ (InPool(c) = 0 <=> c \notin pool)
  BY DEF ArrayTypeOK, Same, InPool
<1> QED BY <1>2, <1>3, <1>4

\* And so they are afterwards.
LEMMA CountFactsNext ==
  ASSUME ArrayTypeOK', NEW c \in Arrays
  PROVE  Cardinality(TensorsOf(c)') \in Nat /\ Cardinality(ViewsOf(c)') \in Nat
<1>1. TensorsOf(c)' \subseteq Tensors /\ ViewsOf(c)' \subseteq Arrays
  BY DEF TensorsOf, ViewsOf, ArrayTypeOK
<1> QED BY <1>1, FS_Subset, FS_CardinalityType

\* An array with an owner is alive.
LEMMA OwnedAlive ==
  ASSUME ArrayInv, NEW c \in Arrays,
         cpp[c] > 0 \/ py[c] > 0 \/ TensorsOf(c) # {} \/ ViewsOf(c) # {} \/ c \in pool
  PROVE  c \in live /\ c \notin dying /\ refs[c] > 0
<1>1. refs[c] = Count(c) /\ refs[c] \in Int
  BY DEF ArrayInv, Counted, ArrayTypeOK
<1>2. Count(c) > 0
  BY CountFacts DEF ArrayInv, Count
<1> QED BY <1>1, <1>2 DEF ArrayInv, Counted

\* One that is dying, or does not exist, has none.
LEMMA NoOwners ==
  ASSUME ArrayInv, NEW c \in Arrays, c \in dying \/ c \notin live
  PROVE  cpp[c] = 0 /\ py[c] = 0 /\ TensorsOf(c) = {} /\ ViewsOf(c) = {} /\ c \notin pool /\ refs[c] = 0
<1>1. cpp[c] \in Nat /\ py[c] \in Nat
  BY DEF ArrayInv, ArrayTypeOK
<1>2. ~(cpp[c] > 0 \/ py[c] > 0 \/ TensorsOf(c) # {} \/ ViewsOf(c) # {} \/ c \in pool)
  BY OwnedAlive
<1>3. refs[c] = 0
  BY DEF ArrayInv, Counted, ArrayTypeOK
<1> QED BY <1>1, <1>2, <1>3

\* A counter is not negative.
LEMMA RefsNat == ASSUME ArrayInv, NEW c \in Arrays PROVE refs[c] \in Nat
BY CountFacts DEF ArrayInv, Counted, Count

\* What a view shares is alive.
LEMMA KeepsAlive ==
  ASSUME ArrayInv, NEW v \in live, Shares(v)
  PROVE  Keeps(v) \in Arrays /\ Keeps(v) \in live /\ Keeps(v) \notin dying /\ data[v] = data[Keeps(v)]
<1>1. Keeps(v) \in Arrays /\ data[v] = data[Keeps(v)]
  BY DEF ArrayInv, Parents
<1>2. CASE manager[v] \in Tensors
  <2>1. manager[v] \in TensorsOf(Keeps(v))
    BY <1>2 DEF Keeps, TensorsOf
  <2> QED BY <2>1, <1>1, OwnedAlive
<1>3. CASE manager[v] \notin Tensors
  <2>1. v \in ViewsOf(Keeps(v))
    BY <1>3 DEF Keeps, ViewsOf
  <2> QED BY <2>1, <1>1, OwnedAlive
<1> QED BY <1>2, <1>3

\* The memory of an array that goes is no other's.
LEMMA LastOfBlock ==
  ASSUME ArrayInv, NEW c \in dying, ~Shares(c), NEW v \in live, data[v] = c
  PROVE  v = c
<1> DEFINE S == {w \in live : data[w] = c /\ Shares(w)}
<1>1. S = {}
  <2> SUFFICES ASSUME S # {} PROVE FALSE
    OBVIOUS
  <2>1. PICK w \in S : Keeps(w) \notin S
    BY DEF ArrayInv, Grounded
  <2>2. Keeps(w) \in live /\ Keeps(w) \notin dying /\ data[Keeps(w)] = c
    BY <2>1, KeepsAlive
  <2>3. ~Shares(Keeps(w))
    BY <2>1, <2>2
  <2>4. data[Keeps(w)] = Keeps(w)
    BY <2>2, <2>3 DEF ArrayInv, Parents
  <2> QED BY <2>2, <2>4
<1>2. ~Shares(v)
  BY <1>1
<1> QED BY <1>2 DEF ArrayInv, Parents

----------------------------------------------------------------------------
(* How the counted sets change *)

\* One tensor shows another array, or none.
LEMMA TensorChanges ==
  ASSUME ArrayTypeOK, NEW t \in Tensors, NEW x, tensors' = [tensors EXCEPT ![t] = x], x # tensors[t],
         NEW d \in Arrays
  PROVE  Cardinality(TensorsOf(d)') = Cardinality(TensorsOf(d)) + Same(d, x) - Same(d, tensors[t])
<1>1. IsFiniteSet(TensorsOf(d)) /\ Cardinality(TensorsOf(d)) \in Nat
  BY CountFacts
<1>2. CASE d = x
  <2>1. TensorsOf(d)' = TensorsOf(d) \cup {t} /\ t \notin TensorsOf(d)
    BY <1>2 DEF TensorsOf, ArrayTypeOK
  <2>2. Same(d, x) = 1 /\ Same(d, tensors[t]) = 0
    BY <1>2 DEF Same, InPool
  <2>3. Cardinality(TensorsOf(d) \cup {t}) = Cardinality(TensorsOf(d)) + 1
    BY <2>1, <1>1, FS_AddElement
  <2> QED BY <2>1, <2>2, <2>3, <1>1
<1>3. CASE d = tensors[t]
  <2>1. TensorsOf(d)' = TensorsOf(d) \ {t} /\ t \in TensorsOf(d)
    BY <1>3 DEF TensorsOf, ArrayTypeOK
  <2>2. Same(d, x) = 0 /\ Same(d, tensors[t]) = 1
    BY <1>3 DEF Same, InPool
  <2>3. Cardinality(TensorsOf(d) \ {t}) = Cardinality(TensorsOf(d)) - 1
    BY <2>1, <1>1, FS_RemoveElement
  <2> QED BY <2>1, <2>2, <2>3, <1>1
<1>4. CASE d # x /\ d # tensors[t]
  <2>1. TensorsOf(d)' = TensorsOf(d)
    BY <1>4 DEF TensorsOf, ArrayTypeOK
  <2> QED BY <2>1, <1>1, <1>4 DEF Same, InPool
<1> QED BY <1>2, <1>3, <1>4

\* An array is made.
LEMMA ViewAdded ==
  ASSUME ArrayTypeOK, NEW v \in Arrays \ live, NEW x, live' = live \cup {v},
         manager' = [manager EXCEPT ![v] = x], NEW d \in Arrays
  PROVE  Cardinality(ViewsOf(d)') = Cardinality(ViewsOf(d)) + Same(d, x)
<1>1. IsFiniteSet(ViewsOf(d)) /\ Cardinality(ViewsOf(d)) \in Nat
  BY CountFacts
<1>2. CASE d = x
  <2>1. ViewsOf(d)' = ViewsOf(d) \cup {v} /\ v \notin ViewsOf(d)
    BY <1>2 DEF ViewsOf, ArrayTypeOK
  <2> QED BY <2>1, <1>1, <1>2, FS_AddElement DEF Same, InPool
<1>3. CASE d # x
  <2>1. ViewsOf(d)' = ViewsOf(d)
    BY <1>3 DEF ViewsOf, ArrayTypeOK
  <2> QED BY <2>1, <1>1, <1>3 DEF Same, InPool
<1> QED BY <1>2, <1>3

\* An array is deleted.
LEMMA ViewRemoved ==
  ASSUME ArrayTypeOK, NEW v \in live, live' = live \ {v},
         manager' = [manager EXCEPT ![v] = Nothing], NEW d \in Arrays
  PROVE  Cardinality(ViewsOf(d)') = Cardinality(ViewsOf(d)) - Same(d, manager[v])
<1>1. IsFiniteSet(ViewsOf(d)) /\ Cardinality(ViewsOf(d)) \in Nat
  BY CountFacts
<1>2. CASE d = manager[v]
  <2>1. ViewsOf(d)' = ViewsOf(d) \ {v} /\ v \in ViewsOf(d)
    BY <1>2 DEF ViewsOf, ArrayTypeOK
  <2>2. Cardinality(ViewsOf(d) \ {v}) = Cardinality(ViewsOf(d)) - 1
    BY <2>1, <1>1, FS_RemoveElement
  <2> QED BY <2>1, <2>2, <1>2 DEF Same, InPool
<1>3. CASE d # manager[v]
  <2>1. ViewsOf(d)' = ViewsOf(d)
    BY <1>3 DEF ViewsOf, ArrayTypeOK
  <2> QED BY <2>1, <1>1, <1>3 DEF Same, InPool
<1> QED BY <1>2, <1>3

\* Neither.
LEMMA Unmoved ==
  ASSUME UNCHANGED <<live, manager, tensors>>, NEW v
  PROVE  /\ Keeps(v)' = Keeps(v) /\ Shares(v)' = Shares(v)
         /\ TensorsOf(v)' = TensorsOf(v) /\ ViewsOf(v)' = ViewsOf(v)
BY DEF Keeps, Shares, TensorsOf, ViewsOf

----------------------------------------------------------------------------
(* The steps, by what they do to the arrays *)

\* Owners come and go, or move across the boundary.
LEMMA OwnersKeep ==
  ASSUME ArrayInv, UNCHANGED <<live, manager, data, blocks, tensors, pool, poolAlive>>,
         cpp' \in [Arrays -> Nat], py' \in [Arrays -> Nat], refs' \in [Arrays -> Int], dying' \subseteq live,
         \A d \in Arrays : refs'[d] = refs[d] + (cpp'[d] - cpp[d]) + (py'[d] - py[d]),
         \A d \in live : refs'[d] = 0 <=> d \in dying',
         \A d \in Arrays : d \notin live \/ d \in pool => refs'[d] = refs[d]
  PROVE  ArrayInv'
<1> USE DEF ArrayInv
<1>1. ArrayTypeOK'
  BY DEF ArrayTypeOK
<1>2. Counted'
  <2>1. ASSUME NEW d \in Arrays PROVE refs'[d] = Count(d)'
    <3>1. refs[d] = Count(d)
      BY DEF Counted
    <3>2. Count(d)' = cpp'[d] + py'[d] + Cardinality(TensorsOf(d)) + Cardinality(ViewsOf(d)) + InPool(d)
      BY Unmoved DEF Count, InPool
    <3>3. cpp'[d] \in Nat /\ py'[d] \in Nat
      OBVIOUS
    <3> QED BY <3>1, <3>2, <3>3, CountFacts DEF Count
  <2>2. \A d \in Arrays \ live : refs'[d] = 0 /\ manager[d] = Nothing
    BY DEF Counted
  <2> QED BY <2>1, <2>2 DEF Counted
<1>3. Parents'
  BY Unmoved DEF Parents
<1>4. Grounded'
  BY Unmoved DEF Grounded
<1>5. Pooled' /\ Backed'
  BY DEF Pooled, Backed, ArrayTypeOK
<1> QED BY <1>1, <1>2, <1>3, <1>4, <1>5

\* A tensor that no array has been made of is made, or goes.
LEMMA TensorsKeep ==
  ASSUME ArrayInv, UNCHANGED <<live, manager, data, blocks, cpp, py, pool, poolAlive>>,
         NEW t \in Tensors, NEW x \in Arrays \cup {Nothing}, x # tensors[t],
         \A v \in live : manager[v] # t, tensors' = [tensors EXCEPT ![t] = x],
         refs' \in [Arrays -> Int], dying' \subseteq live,
         \A d \in Arrays : refs'[d] = refs[d] + Same(d, x) - Same(d, tensors[t]),
         \A d \in live : refs'[d] = 0 <=> d \in dying',
         x \in Arrays => x \in live /\ x \notin pool
  PROVE  ArrayInv'
<1> USE DEF ArrayInv
<1>1. ArrayTypeOK'
  BY DEF ArrayTypeOK
<1>2. \A v : Shares(v)' = Shares(v) /\ ViewsOf(v)' = ViewsOf(v)
  BY DEF Shares, ViewsOf
<1>3. \A v \in live : Keeps(v)' = Keeps(v)
  BY DEF Keeps, ArrayTypeOK
<1>4. Counted'
  <2>1. ASSUME NEW d \in Arrays PROVE refs'[d] = Count(d)'
    <3>1. refs[d] = Count(d)
      BY DEF Counted
    <3>2. Cardinality(TensorsOf(d)') = Cardinality(TensorsOf(d)) + Same(d, x) - Same(d, tensors[t])
      BY TensorChanges
    <3>3. Count(d)' = cpp[d] + py[d] + Cardinality(TensorsOf(d)') + Cardinality(ViewsOf(d)) + InPool(d)
      BY <1>2 DEF Count, InPool
    <3>4. Same(d, x) \in 0 .. 1 /\ Same(d, tensors[t]) \in 0 .. 1
      BY DEF Same, InPool
    <3> QED BY <3>1, <3>2, <3>3, <3>4, CountFacts DEF Count
  <2>2. \A d \in Arrays \ live : refs'[d] = 0 /\ manager[d] = Nothing
    <3> TAKE d \in Arrays \ live
    <3>1. refs[d] = 0 /\ manager[d] = Nothing /\ TensorsOf(d) = {}
      BY NoOwners DEF Counted
    <3>2. d # tensors[t]
      BY <3>1 DEF TensorsOf
    <3> QED BY <3>1, <3>2 DEF Same, InPool
  <2> QED BY <2>1, <2>2 DEF Counted
<1>5. Parents'
  BY <1>2, <1>3 DEF Parents
<1>6. Grounded'
  BY <1>2, <1>3 DEF Grounded
<1>7. \A d \in pool : d # tensors[t]
  <2> SUFFICES ASSUME tensors[t] \in pool PROVE FALSE
    OBVIOUS
  <2> DEFINE d == tensors[t]
  <2>1. d \in Arrays /\ refs[d] = 1 /\ refs[d] = Count(d) /\ t \in TensorsOf(d) /\ InPool(d) = 1
    BY DEF Pooled, Counted, ArrayTypeOK, TensorsOf, Same, InPool
  <2> HIDE DEF d
  <2> QED BY <2>1, CountFacts DEF Count
<1>8. Pooled' /\ Backed'
  BY <1>7 DEF Pooled, Backed, ArrayTypeOK, Same, InPool
<1> QED BY <1>1, <1>4, <1>5, <1>6, <1>8

\* An array is made, with an owner: for memory of its own, or for another's.
Made(c, x, e) ==
  /\ UNCHANGED <<tensors, dying, pool, poolAlive>>
  /\ live' = live \cup {c} /\ manager' = [manager EXCEPT ![c] = x] /\ data' = [data EXCEPT ![c] = e]
  /\ cpp' \in [Arrays -> Nat] /\ py' \in [Arrays -> Nat] /\ refs' \in [Arrays -> Int]
  /\ \A d \in Arrays : cpp'[d] + py'[d] = cpp[d] + py[d] + Same(d, c)
  /\ \A d \in Arrays : refs'[d] = refs[d] + Same(d, c) + Same(d, x)
  /\ \/ x \in Roots /\ e = c /\ blocks' = blocks \cup {c} /\ (x = Pool => poolAlive)
     \/ x \in Arrays /\ x \in live \ dying /\ x \notin pool /\ e = data[x] /\ UNCHANGED blocks
     \/ /\ x \in Tensors /\ tensors[x] \in live /\ e = data[tensors[x]] /\ UNCHANGED blocks
        /\ \A v \in live : manager[v] # x

LEMMA MadeKeeps ==
  ASSUME ArrayInv, NEW c \in Arrays \ live, NEW x \in Arrays \cup Tensors \cup Roots, NEW e \in Arrays,
         Made(c, x, e)
  PROVE  ArrayInv'
<1> USE DEF ArrayInv
<1> UNCHANGED <<tensors, dying, pool, poolAlive>>
  BY DEF Made
<1> live' = live \cup {c} /\ manager' = [manager EXCEPT ![c] = x] /\ data' = [data EXCEPT ![c] = e]
  BY DEF Made
<1> cpp' \in [Arrays -> Nat] /\ py' \in [Arrays -> Nat] /\ refs' \in [Arrays -> Int]
  BY DEF Made
<1> \A d \in Arrays : cpp'[d] + py'[d] = cpp[d] + py[d] + Same(d, c)
  BY DEF Made
<1> \A d \in Arrays : refs'[d] = refs[d] + Same(d, c) + Same(d, x)
  BY DEF Made
<1> \/ x \in Roots /\ e = c /\ blocks' = blocks \cup {c} /\ (x = Pool => poolAlive)
    \/ x \in Arrays /\ x \in live \ dying /\ x \notin pool /\ e = data[x] /\ UNCHANGED blocks
    \/ /\ x \in Tensors /\ tensors[x] \in live /\ e = data[tensors[x]] /\ UNCHANGED blocks
       /\ \A v \in live : manager[v] # x
  BY DEF Made
<1>0. c # x
  OBVIOUS
<1>1. ArrayTypeOK'
  <2>1. blocks' \subseteq Arrays
    BY DEF ArrayTypeOK
  <2> QED BY <2>1 DEF ArrayTypeOK
<1>2. \A v \in live : v \in Arrays /\ v # c /\ manager'[v] = manager[v] /\ data'[v] = data[v]
  BY DEF ArrayTypeOK
<1>3. \A v \in live : Shares(v)' = Shares(v) /\ Keeps(v)' = Keeps(v)
  BY <1>2 DEF Shares, Keeps
<1>4. manager'[c] = x /\ data'[c] = e /\ (Shares(c)' <=> x \notin Roots)
      /\ Keeps(c)' = IF x \in Tensors THEN tensors[x] ELSE x
  BY DEF ArrayTypeOK, Shares, Keeps
<1>5. Counted'
  <2>1. ASSUME NEW d \in Arrays PROVE refs'[d] = Count(d)'
    <3>1. refs[d] = Count(d)
      BY DEF Counted
    <3>2. Cardinality(ViewsOf(d)') = Cardinality(ViewsOf(d)) + Same(d, x)
      BY ViewAdded
    <3>3. Count(d)' = cpp'[d] + py'[d] + Cardinality(TensorsOf(d)) + Cardinality(ViewsOf(d)') + InPool(d)
      BY DEF Count, TensorsOf, InPool
    <3>4. Same(d, x) \in 0 .. 1 /\ Same(d, c) \in 0 .. 1 /\ cpp'[d] \in Nat /\ py'[d] \in Nat
      BY DEF Same, InPool
    <3>5. refs'[d] = refs[d] + Same(d, c) + Same(d, x) /\ cpp'[d] + py'[d] = cpp[d] + py[d] + Same(d, c)
      OBVIOUS
    <3>6. refs[d] = cpp[d] + py[d] + Cardinality(TensorsOf(d)) + Cardinality(ViewsOf(d)) + InPool(d)
      BY <3>1 DEF Count
    <3>7. /\ cpp[d] \in Nat /\ py[d] \in Nat /\ InPool(d) \in Nat
          /\ Cardinality(TensorsOf(d)) \in Nat /\ Cardinality(ViewsOf(d)) \in Nat
      BY CountFacts
    <3> QED BY <3>2, <3>3, <3>4, <3>5, <3>6, <3>7
  <2>2. \A d \in live' : refs'[d] = 0 <=> d \in dying
    <3> TAKE d \in live'
    <3>1. CASE d = c
      BY <3>1, <1>0, NoOwners DEF Same, InPool, ArrayTypeOK
    <3>2. CASE d # c /\ d = x
      BY <3>2, <1>2, RefsNat DEF Same, Counted, ArrayTypeOK
    <3>3. CASE d # c /\ d # x
      BY <3>3, <1>2 DEF Same, InPool, Counted, ArrayTypeOK
    <3> QED BY <3>1, <3>2, <3>3
  <2>3. \A d \in Arrays \ live' : refs'[d] = 0 /\ manager'[d] = Nothing
    BY DEF Counted, Same, InPool, ArrayTypeOK
  <2> QED BY <2>1, <2>2, <2>3 DEF Counted
<1>6. Parents'
  <2>1. ASSUME NEW v \in live', Shares(v)' PROVE Keeps(v)' \in Arrays /\ data'[v] = data'[Keeps(v)']
    <3>1. CASE v \in live
      BY <3>1, <2>1, <1>2, <1>3, KeepsAlive
    <3>2. CASE v = c
      BY <3>2, <2>1, <1>2, <1>4 DEF ArrayTypeOK
    <3> QED BY <3>1, <3>2
  <2>2. \A v \in live' : ~Shares(v)' => data'[v] = v
    BY <1>2, <1>3, <1>4 DEF Parents
  <2>3. \A v, w \in live' : manager'[v] \in Tensors /\ manager'[v] = manager'[w] => v = w
    BY <1>2, <1>4 DEF Parents
  <2> QED BY <2>1, <2>2, <2>3 DEF Parents
<1>7. Grounded'
  <2> SUFFICES ASSUME NEW S \in SUBSET live', S # {}, \A v \in S : Shares(v)'
      PROVE \E v \in S : Keeps(v)' \notin S
    BY DEF Grounded
  <2>1. CASE S \ {c} = {}
    <3>1. S = {c} /\ x \notin Roots
      BY <2>1, <1>4
    <3>2. Keeps(c)' # c
      BY <3>1, <1>4, <1>2
    <3> QED BY <3>1, <3>2
  <2>2. CASE S \ {c} # {}
    <3>1. PICK v \in S \ {c} : Keeps(v) \notin S \ {c}
      BY <2>2, <1>3 DEF Grounded
    <3>2. v \in live /\ Shares(v) /\ Keeps(v)' = Keeps(v)
      BY <1>3
    <3>3. Keeps(v) # c
      BY <3>2, KeepsAlive
    <3> QED BY <3>1, <3>2, <3>3
  <2> QED BY <2>1, <2>2
<1>8. Pooled'
  <2>1. \A d \in pool : d \in live /\ d # c /\ d # x
    BY <1>2 DEF Pooled
  <2>2. \A d \in pool : d \in live' /\ manager'[d] = Pool /\ refs'[d] = 1
    BY <1>2, <2>1 DEF Pooled, Same, InPool, ArrayTypeOK
  <2>3. ~poolAlive => \A d \in live' : manager'[d] # Pool
    BY <1>2, <1>4 DEF Pooled
  <2> QED BY <2>2, <2>3 DEF Pooled
<1>9. Backed'
  <2>1. \A b : b \in {data'[v] : v \in live'} <=> b = e \/ b \in blocks
    BY <1>2, <1>4 DEF Backed
  <2>2. \A b : b \in blocks' <=> b = e \/ b \in blocks
    <3>1. CASE x \in Roots
      BY <3>1
    <3>2. CASE x \notin Roots
      BY <3>2, <1>2 DEF Backed
    <3> QED BY <3>1, <3>2
  <2> QED BY <2>1, <2>2 DEF Backed
<1> QED BY <1>1, <1>5, <1>6, <1>7, <1>8, <1>9

\* An array whose deleter runs: what it shared loses an owner, or its memory goes.
LEMMA DeletedKeeps ==
  ASSUME ArrayInv, UNCHANGED <<cpp, py, pool, poolAlive>>,
         NEW c \in dying, Delete(c), refs' \in [Arrays -> Int],
         NEW p \in Arrays \cup {Nothing}, p = IF Shares(c) THEN Keeps(c) ELSE Nothing,
         \A d \in Arrays : refs'[d] = refs[d] - Same(d, p),
         dying' = (dying \ {c}) \cup {d \in {p} : p # Nothing /\ refs[d] = 1},
         tensors' = IF manager[c] \in Tensors THEN [tensors EXCEPT ![manager[c]] = Nothing] ELSE tensors,
         blocks' = IF Shares(c) THEN blocks ELSE blocks \ {c}
  PROVE  ArrayInv'
<1> USE DEF ArrayInv
<1>1. /\ c \in live /\ c \in Arrays /\ live' = live \ {c}
      /\ manager' = [manager EXCEPT ![c] = Nothing] /\ data' = [data EXCEPT ![c] = c]
  BY DEF Delete, ArrayTypeOK
<1>2. TensorsOf(c) = {} /\ ViewsOf(c) = {} /\ c \notin pool /\ refs[c] = 0
  BY <1>1, NoOwners
<1>3. p # Nothing => Shares(c) /\ p \in live /\ p \notin dying /\ p # c /\ data[c] = data[p] /\ p = Keeps(c)
  BY <1>1, KeepsAlive
<1>4. Shares(c) => p # Nothing
  BY <1>1 DEF Parents
<1>5. \A v \in live : v # c => v \in Arrays /\ manager'[v] = manager[v] /\ data'[v] = data[v]
  BY <1>1 DEF ArrayTypeOK
<1>6. \A v \in live : v # c => (Shares(v)' <=> Shares(v)) /\ Keeps(v)' = Keeps(v)
  <2> TAKE v \in live
  <2> HAVE v # c
  <2>1. Shares(v)' <=> Shares(v)
    BY <1>1, <1>5 DEF Shares
  <2>2. manager[v] \in Tensors => manager[v] # manager[c]
    BY <1>1 DEF Parents
  <2>3. manager[v] \in Tensors => tensors'[manager[v]] = tensors[manager[v]]
    BY <2>2 DEF ArrayTypeOK
  <2> QED BY <2>1, <2>3, <1>5 DEF Keeps
<1>7. \A v \in live : v # c => Keeps(v) # c
  <2> TAKE v \in live
  <2> HAVE v # c
  <2>1. CASE manager[v] \in Tensors
    BY <2>1, <1>2 DEF Keeps, TensorsOf
  <2>2. CASE manager[v] \notin Tensors
    BY <2>2, <1>2 DEF Keeps, ViewsOf
  <2> QED BY <2>1, <2>2
<1>8. ArrayTypeOK'
  <2>1. tensors' \in [Tensors -> Arrays \cup {Nothing}]
    BY DEF ArrayTypeOK
  <2>2. dying' \subseteq live'
    BY <1>1, <1>3 DEF ArrayTypeOK
  <2>3. live' \subseteq Arrays /\ blocks' \subseteq Arrays /\ data' \in [Arrays -> Arrays]
        /\ manager' \in [Arrays -> Arrays \cup Tensors \cup Roots]
    BY <1>1 DEF ArrayTypeOK
  <2> QED BY <2>1, <2>2, <2>3 DEF ArrayTypeOK
<1>9. ASSUME NEW d \in Arrays
      PROVE Cardinality(TensorsOf(d)') + Cardinality(ViewsOf(d)')
              = Cardinality(TensorsOf(d)) + Cardinality(ViewsOf(d)) - Same(d, p)
  <2>1. Cardinality(ViewsOf(d)') = Cardinality(ViewsOf(d)) - Same(d, manager[c])
    BY <1>1, ViewRemoved
  <2>2. Cardinality(TensorsOf(d)) \in Nat /\ Cardinality(ViewsOf(d)) \in Nat
    BY CountFacts
  <2>3. CASE manager[c] \in Tensors
    <3> DEFINE t == manager[c]
    <3>1. t \in Tensors /\ Shares(c) /\ p = tensors[t] /\ p # Nothing
      BY <2>3, <1>1, <1>4 DEF Shares, Keeps
    <3>2. Cardinality(TensorsOf(d)') = Cardinality(TensorsOf(d)) + Same(d, Nothing) - Same(d, tensors[t])
      <4>1. tensors' = [tensors EXCEPT ![t] = Nothing]
        BY <2>3
      <4> HIDE DEF t
      <4> QED BY <4>1, <3>1, TensorChanges
    <3>3. Same(d, Nothing) = 0 /\ Same(d, manager[c]) = 0
      BY <2>3 DEF Same
    <3>4. Same(d, tensors[t]) = Same(d, p) /\ Same(d, p) \in 0 .. 1
      BY <3>1 DEF Same
    <3> QED BY <2>1, <2>2, <3>2, <3>3, <3>4
  <2>4. CASE manager[c] \notin Tensors
    <3>1. TensorsOf(d)' = TensorsOf(d)
      BY <2>4 DEF TensorsOf
    <3>2. Same(d, manager[c]) = Same(d, p) /\ Same(d, p) \in 0 .. 1
      BY <2>4, <1>1 DEF Same, Shares, Keeps
    <3> QED BY <2>1, <2>2, <3>1, <3>2
  <2> QED BY <2>3, <2>4
<1>10. Counted'
  <2>1. ASSUME NEW d \in Arrays PROVE refs'[d] = Count(d)'
    <3>1. refs[d] = cpp[d] + py[d] + Cardinality(TensorsOf(d)) + Cardinality(ViewsOf(d)) + InPool(d)
      BY DEF Counted, Count
    <3>2. Count(d)' = cpp[d] + py[d] + Cardinality(TensorsOf(d)') + Cardinality(ViewsOf(d)') + InPool(d)
      BY DEF Count, InPool
    <3>3. /\ cpp[d] \in Nat /\ py[d] \in Nat /\ InPool(d) \in Nat
          /\ Cardinality(TensorsOf(d)) \in Nat /\ Cardinality(ViewsOf(d)) \in Nat
      BY CountFacts
    <3>4. Same(d, p) \in 0 .. 1
      BY DEF Same
    <3>5. Cardinality(TensorsOf(d)') \in Nat /\ Cardinality(ViewsOf(d)') \in Nat
      BY <1>8, CountFactsNext
    <3> QED BY <3>1, <3>2, <3>3, <3>4, <3>5, <1>9
  <2>2. \A d \in live' : refs'[d] = 0 <=> d \in dying'
    <3> TAKE d \in live'
    <3>1. d \in Arrays /\ d # c /\ refs[d] \in Nat /\ (refs[d] = 0 <=> d \in dying)
      BY <1>1, RefsNat DEF Counted, ArrayTypeOK
    <3>2. CASE d = p
      BY <3>1, <3>2, <1>3 DEF Same, ArrayTypeOK
    <3>3. CASE d # p
      BY <3>1, <3>3 DEF Same
    <3> QED BY <3>2, <3>3
  <2>3. \A d \in Arrays \ live' : refs'[d] = 0 /\ manager'[d] = Nothing
    <3> TAKE d \in Arrays \ live'
    <3>1. d # p
      BY <1>1, <1>3 DEF ArrayTypeOK
    <3>2. refs[d] = 0 /\ refs'[d] = 0
      BY <3>1, <1>1, <1>2 DEF Counted, Same
    <3> QED BY <3>2, <1>1 DEF Counted, ArrayTypeOK
  <2> QED BY <2>1, <2>2, <2>3 DEF Counted
<1>11. Parents'
  <2>1. ASSUME NEW v \in live', Shares(v)' PROVE Keeps(v)' \in Arrays /\ data'[v] = data'[Keeps(v)']
    <3>1. v \in live /\ v # c /\ Shares(v) /\ Keeps(v)' = Keeps(v) /\ Keeps(v) # c
      BY <2>1, <1>1, <1>6, <1>7
    <3> QED BY <3>1, <1>5, KeepsAlive
  <2>2. \A v \in live' : ~Shares(v)' => data'[v] = v
    BY <1>1, <1>5, <1>6 DEF Parents
  <2>3. \A v, w \in live' : manager'[v] \in Tensors /\ manager'[v] = manager'[w] => v = w
    BY <1>1, <1>5 DEF Parents
  <2> QED BY <2>1, <2>2, <2>3 DEF Parents
<1>12. Grounded'
  <2> SUFFICES ASSUME NEW S \in SUBSET live', S # {}, \A v \in S : Shares(v)'
      PROVE \E v \in S : Keeps(v)' \notin S
    BY DEF Grounded
  <2>1. S \in SUBSET live /\ \A v \in S : v # c /\ Shares(v) /\ Keeps(v)' = Keeps(v)
    BY <1>1, <1>6
  <2> QED BY <2>1 DEF Grounded
<1>13. Pooled'
  <2>1. \A d \in pool : d # c /\ d # p
    <3>1. p \notin pool
      <4> SUFFICES ASSUME p \in pool PROVE FALSE
        OBVIOUS
      <4>1. p \in Arrays /\ Shares(c) /\ p = Keeps(c) /\ refs[p] = 1
            /\ refs[p] = cpp[p] + py[p] + Cardinality(TensorsOf(p)) + Cardinality(ViewsOf(p)) + 1
        BY <1>3 DEF Pooled, Counted, Count, InPool, ArrayTypeOK
      <4>2. TensorsOf(p) # {} \/ ViewsOf(p) # {}
        BY <4>1, <1>1 DEF Keeps, TensorsOf, ViewsOf
      <4>3. /\ cpp[p] \in Nat /\ py[p] \in Nat
            /\ Cardinality(TensorsOf(p)) \in Nat /\ Cardinality(ViewsOf(p)) \in Nat
            /\ Cardinality(TensorsOf(p)) = 0 <=> TensorsOf(p) = {}
            /\ Cardinality(ViewsOf(p)) = 0 <=> ViewsOf(p) = {}
        BY <4>1, CountFacts
      <4> QED BY <4>1, <4>2, <4>3
    <3> QED BY <3>1, <1>2
  <2>2. \A d \in pool : d \in live' /\ manager'[d] = Pool /\ refs'[d] = 1
    BY <2>1, <1>1, <1>5 DEF Pooled, Same, ArrayTypeOK
  <2>3. ~poolAlive => \A d \in live' : manager'[d] # Pool
    BY <1>1, <1>5 DEF Pooled
  <2> QED BY <2>2, <2>3 DEF Pooled
<1>14. Backed'
  <2>1. CASE Shares(c)
    <3>1. \A b : b \in {data'[v] : v \in live'} <=> b \in {data[v] : v \in live}
      BY <2>1, <1>1, <1>3, <1>4, <1>5
    <3> QED BY <2>1, <3>1 DEF Backed
  <2>2. CASE ~Shares(c)
    <3>1. data[c] = c /\ \A v \in live : data[v] = c => v = c
      BY <2>2, <1>1, LastOfBlock DEF Parents
    <3>2. \A b : b \in {data'[v] : v \in live'} <=> b \in {data[v] : v \in live} /\ b # c
      BY <3>1, <1>1, <1>5
    <3> QED BY <2>2, <3>2 DEF Backed
  <2> QED BY <2>1, <2>2
<1> QED BY <1>8, <1>10, <1>11, <1>12, <1>13, <1>14

\* An array of the pool comes back to it.
LEMMA RecycleKeeps ==
  ASSUME ArrayInv, NEW c \in dying, manager[c] = Pool, poolAlive,
         dying' = dying \ {c}, pool' = pool \cup {c}, IncRef(c),
         UNCHANGED <<live, manager, data, blocks, cpp, py, tensors, poolAlive>>
  PROVE  ArrayInv'
<1> USE DEF ArrayInv
<1>1. c \in live /\ c \in Arrays /\ c \notin pool /\ refs[c] = 0 /\ refs' = [refs EXCEPT ![c] = @ + 1]
  BY NoOwners DEF ArrayTypeOK, IncRef
<1>2. ArrayTypeOK'
  BY <1>1 DEF ArrayTypeOK
<1>3. Counted'
  <2>1. ASSUME NEW d \in Arrays PROVE refs'[d] = Count(d)'
    <3>1. Count(d)' = cpp[d] + py[d] + Cardinality(TensorsOf(d)) + Cardinality(ViewsOf(d)) + InPool(d)'
      BY Unmoved DEF Count
    <3>2. InPool(d)' = InPool(d) + Same(d, c) /\ refs'[d] = refs[d] + Same(d, c) /\ Same(d, c) \in 0 .. 1
      BY <1>1 DEF InPool, Same, ArrayTypeOK
    <3>3. refs[d] = cpp[d] + py[d] + Cardinality(TensorsOf(d)) + Cardinality(ViewsOf(d)) + InPool(d)
      BY DEF Counted, Count
    <3>4. /\ cpp[d] \in Nat /\ py[d] \in Nat /\ InPool(d) \in Nat
          /\ Cardinality(TensorsOf(d)) \in Nat /\ Cardinality(ViewsOf(d)) \in Nat
      BY CountFacts
    <3> QED BY <3>1, <3>2, <3>3, <3>4
  <2>2. (\A d \in live : refs'[d] = 0 <=> d \in dying') /\ \A d \in Arrays \ live : refs'[d] = 0 /\ manager[d] = Nothing
    BY <1>1 DEF Counted, ArrayTypeOK
  <2> QED BY <2>1, <2>2 DEF Counted
<1>4. Parents' /\ Grounded'
  BY Unmoved DEF Parents, Grounded
<1>5. Pooled' /\ Backed'
  BY <1>1 DEF Pooled, Backed, ArrayTypeOK
<1> QED BY <1>2, <1>3, <1>4, <1>5

\* The pool lends one.
LEMMA LendKeeps ==
  ASSUME ArrayInv, NEW c \in pool, pool' = pool \ {c}, More(cpp, c),
         UNCHANGED <<live, refs, manager, data, blocks, py, tensors, dying, poolAlive>>
  PROVE  ArrayInv'
<1> USE DEF ArrayInv
<1>1. c \in Arrays /\ cpp' = [cpp EXCEPT ![c] = @ + 1] /\ cpp' \in [Arrays -> Nat]
  BY DEF ArrayTypeOK, More
<1>2. ArrayTypeOK'
  BY <1>1 DEF ArrayTypeOK
<1>3. Counted'
  <2>1. ASSUME NEW d \in Arrays PROVE refs'[d] = Count(d)'
    <3>1. Count(d)' = cpp'[d] + py[d] + Cardinality(TensorsOf(d)) + Cardinality(ViewsOf(d)) + InPool(d)'
      BY Unmoved DEF Count
    <3>2. InPool(d) = InPool(d)' + Same(d, c) /\ cpp'[d] = cpp[d] + Same(d, c) /\ Same(d, c) \in 0 .. 1 /\ InPool(d)' \in 0 .. 1
      BY <1>1 DEF InPool, Same, ArrayTypeOK
    <3>3. refs[d] = cpp[d] + py[d] + Cardinality(TensorsOf(d)) + Cardinality(ViewsOf(d)) + InPool(d)
      BY DEF Counted, Count
    <3>4. /\ cpp[d] \in Nat /\ py[d] \in Nat /\ InPool(d) \in Nat
          /\ Cardinality(TensorsOf(d)) \in Nat /\ Cardinality(ViewsOf(d)) \in Nat
      BY CountFacts
    <3> QED BY <3>1, <3>2, <3>3, <3>4
  <2> QED BY <2>1 DEF Counted
<1>4. Parents' /\ Grounded'
  BY Unmoved DEF Parents, Grounded
<1>5. Pooled' /\ Backed'
  BY DEF Pooled, Backed
<1> QED BY <1>2, <1>3, <1>4, <1>5

\* The pool goes, with what it has, when nothing is lent.
LEMMA FreePoolKeeps ==
  ASSUME ArrayInv, ~ReaderFirst, FreePool
  PROVE  ArrayInv'
<1> USE DEF ArrayInv
<1>1. /\ poolAlive' = FALSE /\ pool' = {} /\ dying' = dying \cup pool
      /\ UNCHANGED <<live, data, blocks, cpp, py, tensors>>
      /\ \A d \in live : manager[d] = Pool => d \in pool
  BY DEF FreePool, Lent
<1>2. /\ manager' \in [Arrays -> Arrays \cup Tensors \cup Roots] /\ refs' \in [Arrays -> Int]
      /\ \A d \in Arrays : manager'[d] = IF d \in pool THEN Nothing ELSE manager[d]
      /\ \A d \in Arrays : refs'[d] = refs[d] - InPool(d)
  BY DEF FreePool, ArrayTypeOK, InPool
<1>3. \A d \in pool : d \in live /\ manager[d] = Pool /\ refs[d] = 1
  BY DEF Pooled
<1>4. \A v \in live : (Shares(v)' <=> Shares(v)) /\ (Shares(v) => Keeps(v)' = Keeps(v))
  BY <1>1, <1>2, <1>3 DEF Shares, Keeps, ArrayTypeOK
<1>5. ArrayTypeOK'
  BY <1>1, <1>2, <1>3 DEF ArrayTypeOK
<1>6. Counted'
  <2>1. ASSUME NEW d \in Arrays PROVE refs'[d] = Count(d)'
    <3>1. TensorsOf(d)' = TensorsOf(d) /\ ViewsOf(d)' = ViewsOf(d)
      BY <1>1, <1>2, <1>3 DEF TensorsOf, ViewsOf, ArrayTypeOK
    <3>2. InPool(d)' = 0
      BY <1>1 DEF InPool
    <3>3. Count(d)' = cpp[d] + py[d] + Cardinality(TensorsOf(d)) + Cardinality(ViewsOf(d)) + 0
      BY <1>1, <3>1, <3>2 DEF Count
    <3>4. refs[d] = cpp[d] + py[d] + Cardinality(TensorsOf(d)) + Cardinality(ViewsOf(d)) + InPool(d)
      BY DEF Counted, Count
    <3>5. /\ cpp[d] \in Nat /\ py[d] \in Nat /\ InPool(d) \in Nat
          /\ Cardinality(TensorsOf(d)) \in Nat /\ Cardinality(ViewsOf(d)) \in Nat
      BY CountFacts
    <3> QED BY <3>3, <3>4, <3>5, <1>2
  <2>2. \A d \in live : refs'[d] = 0 <=> d \in dying'
    BY <1>1, <1>2, <1>3 DEF Counted, InPool, ArrayTypeOK
  <2>3. \A d \in Arrays \ live : refs'[d] = 0 /\ manager'[d] = Nothing
    BY <1>2, <1>3 DEF Counted, InPool
  <2> QED BY <2>1, <2>2, <2>3, <1>1 DEF Counted
<1>7. Parents'
  <2>1. \A v \in live : Shares(v) => Keeps(v) \in Arrays /\ data[v] = data[Keeps(v)]
    BY DEF Parents
  <2>2. \A v \in live : ~Shares(v) => data[v] = v
    BY DEF Parents
  <2>3. \A v, w \in live : manager'[v] \in Tensors /\ manager'[v] = manager'[w] => v = w
    BY <1>2 DEF Parents, ArrayTypeOK
  <2> QED BY <2>1, <2>2, <2>3, <1>1, <1>4 DEF Parents
<1>8. Grounded'
  <2> SUFFICES ASSUME NEW S \in SUBSET live, S # {}, \A v \in S : Shares(v)'
      PROVE \E v \in S : Keeps(v)' \notin S
    BY <1>1 DEF Grounded
  <2>1. \A v \in S : Shares(v) /\ Keeps(v)' = Keeps(v)
    BY <1>4
  <2> QED BY <2>1 DEF Grounded
<1>9. Pooled' /\ Backed'
  BY <1>1, <1>2 DEF Pooled, Backed, ArrayTypeOK
<1> QED BY <1>5, <1>6, <1>7, <1>8, <1>9

----------------------------------------------------------------------------
(* The steps, one by one *)

\* A variable or an object has an array that is alive and not in the pool.
LEMMA UsedAlive ==
  ASSUME ArrayInv, NEW c \in Arrays, cpp[c] > 0 \/ py[c] > 0
  PROVE  c \in live /\ c \notin dying /\ c \notin pool /\ refs[c] > 0
<1>1. c \in live /\ c \notin dying /\ refs[c] > 0
  BY OwnedAlive
<1>2. c \notin pool
  <2> SUFFICES ASSUME c \in pool PROVE FALSE
    OBVIOUS
  <2>1. refs[c] = 1 /\ refs[c] = cpp[c] + py[c] + Cardinality(TensorsOf(c)) + Cardinality(ViewsOf(c)) + 1
    BY DEF ArrayInv, Pooled, Counted, Count, InPool
  <2>2. cpp[c] \in Nat /\ py[c] \in Nat /\ Cardinality(TensorsOf(c)) \in Nat /\ Cardinality(ViewsOf(c)) \in Nat
    BY CountFacts DEF ArrayInv
  <2> QED BY <2>1, <2>2
<1> QED BY <1>1, <1>2

\* A reference more.
LEMMA TakenKeeps ==
  ASSUME ArrayInv, NEW c \in Arrays, Copy(c) \/ TakeArgument(c)
  PROVE  ArrayInv'
<1>1. c \in live /\ c \notin dying /\ c \notin pool /\ refs[c] > 0
  BY UsedAlive DEF Copy, TakeArgument
<1>2. /\ UNCHANGED <<live, manager, data, blocks, py, tensors, dying, pool, poolAlive>>
      /\ cpp' = [cpp EXCEPT ![c] = @ + 1] /\ refs' = [refs EXCEPT ![c] = @ + 1]
  BY DEF Copy, TakeArgument, More, IncRef
<1>3. /\ cpp' \in [Arrays -> Nat] /\ py' \in [Arrays -> Nat] /\ refs' \in [Arrays -> Int] /\ dying' \subseteq live
      /\ \A d \in Arrays : refs'[d] = refs[d] + (cpp'[d] - cpp[d]) + (py'[d] - py[d])
      /\ \A d \in Arrays : d \notin live \/ d \in pool => refs'[d] = refs[d]
  BY <1>1, <1>2 DEF ArrayInv, ArrayTypeOK
<1>4. \A d \in live : refs'[d] = 0 <=> d \in dying'
  BY <1>1, <1>2 DEF ArrayInv, ArrayTypeOK, Counted
<1> QED BY <1>2, <1>3, <1>4, OwnersKeep

\* A reference less.
LEMMA GivenKeeps ==
  ASSUME ArrayInv, NEW c \in Arrays, Reset(c) \/ PELIArrayFree(c)
  PROVE  ArrayInv'
<1>1. c \in live /\ c \notin dying /\ c \notin pool /\ refs[c] > 0
  BY UsedAlive DEF Reset, PELIArrayFree, Fewer
<1>2. /\ UNCHANGED <<live, manager, data, blocks, tensors, pool, poolAlive>>
      /\ \/ cpp[c] > 0 /\ cpp' = [cpp EXCEPT ![c] = @ - 1] /\ UNCHANGED py
         \/ py[c] > 0 /\ py' = [py EXCEPT ![c] = @ - 1] /\ UNCHANGED cpp
      /\ refs' = [refs EXCEPT ![c] = @ - 1]
      /\ dying' = IF refs[c] = 1 THEN dying \cup {c} ELSE dying
  BY DEF Reset, PELIArrayFree, Fewer, DecRef
<1>3. /\ cpp' \in [Arrays -> Nat] /\ py' \in [Arrays -> Nat] /\ refs' \in [Arrays -> Int] /\ dying' \subseteq live
      /\ \A d \in Arrays : refs'[d] = refs[d] + (cpp'[d] - cpp[d]) + (py'[d] - py[d])
      /\ \A d \in Arrays : d \notin live \/ d \in pool => refs'[d] = refs[d]
  BY <1>1, <1>2 DEF ArrayInv, ArrayTypeOK
<1>4. \A d \in live : refs'[d] = 0 <=> d \in dying'
  BY <1>1, <1>2 DEF ArrayInv, ArrayTypeOK, Counted
<1> QED BY <1>2, <1>3, <1>4, OwnersKeep

\* A reference from C++ to Python.
LEMMA ReturnedKeeps ==
  ASSUME ArrayInv, NEW c \in Arrays, ReturnArray(c)
  PROVE  ArrayInv'
<1>1. /\ UNCHANGED <<live, refs, manager, data, blocks, tensors, dying, pool, poolAlive>>
      /\ cpp[c] > 0 /\ cpp' = [cpp EXCEPT ![c] = @ - 1] /\ py' = [py EXCEPT ![c] = @ + 1]
  BY DEF ReturnArray, Fewer, More
<1>2. /\ cpp' \in [Arrays -> Nat] /\ py' \in [Arrays -> Nat] /\ refs' \in [Arrays -> Int] /\ dying' \subseteq live
      /\ \A d \in Arrays : refs'[d] = refs[d] + (cpp'[d] - cpp[d]) + (py'[d] - py[d])
  BY <1>1 DEF ArrayInv, ArrayTypeOK
<1>3. \A d \in live : refs'[d] = 0 <=> d \in dying'
  BY <1>1 DEF ArrayInv, ArrayTypeOK, Counted
<1> QED BY <1>1, <1>2, <1>3, OwnersKeep

\* Nothing changes.
LEMMA StutterKeeps == ASSUME ArrayInv, UNCHANGED arrayVars PROVE ArrayInv'
BY Unmoved DEF arrayVars, ArrayInv, ArrayTypeOK, Counted, Count, InPool, Parents, Grounded, Pooled, Backed

\* A view in a callback is nothing to the counter.
LEMMA CallbackKeeps ==
  ASSUME ArrayInv, "NDARRAY_CONTAINER" \notin CallbackCodes, NEW c \in Arrays, CallbackArgument(c)
  PROVE  ArrayInv'
<1>1. UNCHANGED arrayVars
  BY DEF CallbackArgument, arrayVars
<1> QED BY <1>1, StutterKeeps

\* DLPack tensors that no array was made of.
LEMMA TensorStepsKeep ==
  ASSUME ArrayInv, NEW t \in Tensors, NDArrayDLPackDeleter(t) \/ \E c \in Arrays : ToDLPack(c, t)
  PROVE  ArrayInv'
<1>1. CASE NDArrayDLPackDeleter(t)
  <2> DEFINE a == tensors[t]
  <2>1. a \in Arrays /\ t \in TensorsOf(a)
    BY <1>1 DEF ArrayInv, ArrayTypeOK, NDArrayDLPackDeleter, TensorsOf
  <2>2. a \in live /\ a \notin dying /\ refs[a] > 0
    BY <2>1, OwnedAlive
  <2>3. /\ UNCHANGED <<live, manager, data, blocks, cpp, py, pool, poolAlive>>
        /\ tensors' = [tensors EXCEPT ![t] = Nothing] /\ Nothing # tensors[t] /\ \A v \in live : manager[v] # t
        /\ refs' = [refs EXCEPT ![a] = @ - 1] /\ dying' = IF refs[a] = 1 THEN dying \cup {a} ELSE dying
    BY <1>1 DEF NDArrayDLPackDeleter, Consumed, DecRef
  <2> HIDE DEF a
  <2>4. refs' \in [Arrays -> Int] /\ dying' \subseteq live
    BY <2>1, <2>2, <2>3 DEF ArrayInv, ArrayTypeOK
  <2>5. \A d \in live : refs'[d] = 0 <=> d \in dying'
    BY <2>1, <2>2, <2>3 DEF ArrayInv, ArrayTypeOK, Counted
  <2>6. \A d \in Arrays : refs'[d] = refs[d] + Same(d, Nothing) - Same(d, tensors[t])
    BY <2>1, <2>3 DEF ArrayInv, ArrayTypeOK, Same, a
  <2>7. Nothing \in Arrays \cup {Nothing} /\ Nothing \notin Arrays
    OBVIOUS
  <2> QED BY <2>3, <2>4, <2>5, <2>6, <2>7, TensorsKeep
<1>2. ASSUME NEW c \in Arrays, ToDLPack(c, t) PROVE ArrayInv'
  <2>1. c \in live /\ c \notin dying /\ c \notin pool /\ refs[c] > 0
    BY <1>2, UsedAlive DEF ToDLPack
  <2>2. /\ UNCHANGED <<live, manager, data, blocks, cpp, py, pool, poolAlive>>
        /\ tensors[t] = Nothing /\ tensors' = [tensors EXCEPT ![t] = c] /\ c # tensors[t]
        /\ refs' = [refs EXCEPT ![c] = @ + 1] /\ UNCHANGED dying
    BY <1>2 DEF ToDLPack, IncRef
  <2>3. \A v \in live : manager[v] # t
    <3> SUFFICES ASSUME NEW v \in live, manager[v] = t PROVE FALSE
      OBVIOUS
    <3>1. Shares(v) /\ Keeps(v) = Nothing
      BY <2>2 DEF Shares, Keeps
    <3> QED BY <3>1, KeepsAlive
  <2>4. refs' \in [Arrays -> Int] /\ dying' \subseteq live
    BY <2>2 DEF ArrayInv, ArrayTypeOK
  <2>5. \A d \in live : refs'[d] = 0 <=> d \in dying'
    BY <2>1, <2>2 DEF ArrayInv, ArrayTypeOK, Counted
  <2>6. \A d \in Arrays : refs'[d] = refs[d] + Same(d, c) - Same(d, tensors[t])
    BY <2>2 DEF ArrayInv, ArrayTypeOK, Same
  <2> QED BY <2>1, <2>2, <2>3, <2>4, <2>5, <2>6, TensorsKeep
<1> QED BY <1>1, <1>2

\* Arrays that are made for memory of their own.
LEMMA CreatedKeeps ==
  ASSUME ArrayInv, NEW c \in Unused, NEW x \in Roots, x = Pool => poolAlive, Create(c, x),
         (More(cpp, c) /\ UNCHANGED py) \/ (More(py, c) /\ UNCHANGED cpp)
  PROVE  ArrayInv'
<1>1. c \in Arrays \ live
  BY DEF Unused
<1>2. refs[c] = 0
  BY <1>1, NoOwners
<1>3. /\ UNCHANGED <<tensors, dying, pool, poolAlive>>
      /\ live' = live \cup {c} /\ manager' = [manager EXCEPT ![c] = x] /\ data' = [data EXCEPT ![c] = c]
      /\ refs' = [refs EXCEPT ![c] = 1] /\ blocks' = blocks \cup {c}
  BY DEF Create
<1>4. /\ cpp' \in [Arrays -> Nat] /\ py' \in [Arrays -> Nat]
      /\ \A d \in Arrays : cpp'[d] + py'[d] = cpp[d] + py[d] + Same(d, c)
  BY <1>1 DEF More, ArrayInv, ArrayTypeOK, Same
<1>5. refs' \in [Arrays -> Int] /\ \A d \in Arrays : refs'[d] = refs[d] + Same(d, c) + Same(d, x)
  BY <1>1, <1>2, <1>3 DEF ArrayInv, ArrayTypeOK, Same
<1>6. Made(c, x, c)
  BY <1>3, <1>4, <1>5 DEF Made
<1> QED BY <1>1, <1>6, MadeKeeps

\* Arrays that share another's.
LEMMA SharedKeeps ==
  ASSUME ArrayInv, NEW v \in Unused,
         (\E c \in Arrays : CreateView(c, v)) \/ (\E t \in Tensors : FromDLPack(t, v))
  PROVE  ArrayInv'
<1>1. v \in Arrays \ live
  BY DEF Unused
<1>2. refs[v] = 0 /\ cpp[v] = 0 /\ TensorsOf(v) = {}
  BY <1>1, NoOwners
<1>3. ASSUME NEW c \in Arrays, CreateView(c, v) PROVE ArrayInv'
  <2>1. c \in live /\ c \notin dying /\ c \notin pool /\ refs[c] > 0
    BY <1>3, UsedAlive DEF CreateView
  <2>2. /\ UNCHANGED <<tensors, dying, pool, poolAlive, blocks>>
        /\ live' = live \cup {v} /\ manager' = [manager EXCEPT ![v] = c] /\ data' = [data EXCEPT ![v] = data[c]]
        /\ refs' = [refs EXCEPT ![v] = 1, ![c] = @ + 1]
        /\ cpp' = [cpp EXCEPT ![v] = @ + 1] /\ UNCHANGED py
    BY <1>3 DEF CreateView, Share, More
  <2>3. /\ cpp' \in [Arrays -> Nat] /\ py' \in [Arrays -> Nat]
        /\ \A d \in Arrays : cpp'[d] + py'[d] = cpp[d] + py[d] + Same(d, v)
    BY <1>1, <2>2 DEF ArrayInv, ArrayTypeOK, Same
  <2>4. refs' \in [Arrays -> Int] /\ \A d \in Arrays : refs'[d] = refs[d] + Same(d, v) + Same(d, c)
    BY <1>1, <1>2, <2>1, <2>2 DEF ArrayInv, ArrayTypeOK, Same
  <2>5. data[c] \in Arrays
    BY DEF ArrayInv, ArrayTypeOK
  <2>6. Made(v, c, data[c])
    BY <2>1, <2>2, <2>3, <2>4 DEF Made
  <2> QED BY <1>1, <2>5, <2>6, MadeKeeps
<1>4. ASSUME NEW t \in Tensors, FromDLPack(t, v) PROVE ArrayInv'
  <2>1. tensors[t] \in Arrays /\ t \in TensorsOf(tensors[t])
    BY <1>4 DEF ArrayInv, ArrayTypeOK, FromDLPack, TensorsOf
  <2>2. tensors[t] \in live
    BY <2>1, OwnedAlive
  <2>3. /\ UNCHANGED <<tensors, dying, pool, poolAlive, blocks>> /\ \A w \in live : manager[w] # t
        /\ live' = live \cup {v} /\ manager' = [manager EXCEPT ![v] = t]
        /\ data' = [data EXCEPT ![v] = data[tensors[t]]]
        /\ refs' = [refs EXCEPT ![v] = 1] /\ py' = [py EXCEPT ![v] = @ + 1] /\ UNCHANGED cpp
    BY <1>4 DEF FromDLPack, Share, More, Consumed
  <2>4. /\ cpp' \in [Arrays -> Nat] /\ py' \in [Arrays -> Nat]
        /\ \A d \in Arrays : cpp'[d] + py'[d] = cpp[d] + py[d] + Same(d, v)
    BY <1>1, <2>3 DEF ArrayInv, ArrayTypeOK, Same
  <2>5. refs' \in [Arrays -> Int] /\ \A d \in Arrays : refs'[d] = refs[d] + Same(d, v) + Same(d, t)
    BY <1>1, <1>2, <2>3 DEF ArrayInv, ArrayTypeOK, Same
  <2>6. data[tensors[t]] \in Arrays
    BY <2>1 DEF ArrayInv, ArrayTypeOK
  <2>7. Made(v, t, data[tensors[t]])
    BY <2>2, <2>3, <2>4, <2>5 DEF Made
  <2> QED BY <1>1, <2>6, <2>7, MadeKeeps
<1> QED BY <1>3, <1>4

\* Deleters.
LEMMA DeletersKeep ==
  ASSUME ArrayInv, NEW c \in Arrays,
         FreeBlock(c) \/ DefaultDeleter(c) \/ DLPackDeleter(c) \/ PoolDeleter(c)
  PROVE  ArrayInv'
<1>0. refs \in [Arrays -> Int] /\ \A d \in Arrays : Same(d, Nothing) = 0
  BY DEF ArrayInv, ArrayTypeOK, Same
<1>1. ASSUME c \in dying, manager[c] \in Roots, Delete(c), blocks' = blocks \ {data[c]}, dying' = dying \ {c},
             UNCHANGED <<refs, cpp, py, tensors, pool, poolAlive>>
      PROVE  ArrayInv'
  <2>1. ~Shares(c) /\ data[c] = c /\ manager[c] \notin Tensors
    BY <1>1 DEF Shares, ArrayInv, Parents, ArrayTypeOK
  <2>2. dying' = (dying \ {c}) \cup {d \in {Nothing} : Nothing # Nothing /\ refs[d] = 1}
    BY <1>1
  <2>3. refs' \in [Arrays -> Int] /\ \A d \in Arrays : refs'[d] = refs[d] - Same(d, Nothing)
    BY <1>0, <1>1
  <2>4. tensors' = (IF manager[c] \in Tensors THEN [tensors EXCEPT ![manager[c]] = Nothing] ELSE tensors)
        /\ blocks' = IF Shares(c) THEN blocks ELSE blocks \ {c}
    BY <1>1, <2>1
  <2>5. Nothing \in Arrays \cup {Nothing} /\ Nothing = IF Shares(c) THEN Keeps(c) ELSE Nothing
    BY <2>1
  <2> QED BY <1>1, <2>2, <2>3, <2>4, <2>5, DeletedKeeps
<1>2. CASE FreeBlock(c)
  BY <1>1, <1>2 DEF FreeBlock
<1>3. ASSUME c \in dying, Shares(c), Delete(c), Drop(c, Keeps(c)), UNCHANGED <<blocks, cpp, py, pool, poolAlive>>,
             tensors' = IF manager[c] \in Tensors THEN [tensors EXCEPT ![manager[c]] = Nothing] ELSE tensors
      PROVE  ArrayInv'
  <2> DEFINE p == Keeps(c)
  <2>1. p \in Arrays /\ p # Nothing
    BY <1>3, KeepsAlive DEF ArrayInv, ArrayTypeOK
  <2>2. refs' \in [Arrays -> Int] /\ \A d \in Arrays : refs'[d] = refs[d] - Same(d, p)
    BY <1>0, <1>3, <2>1 DEF Drop, Same
  <2>3. dying' = (dying \ {c}) \cup {d \in {p} : p # Nothing /\ refs[d] = 1}
    BY <1>3, <2>1 DEF Drop
  <2>4. blocks' = (IF Shares(c) THEN blocks ELSE blocks \ {c}) /\ p = IF Shares(c) THEN Keeps(c) ELSE Nothing
    BY <1>3
  <2> HIDE DEF p
  <2> QED BY <1>3, <2>1, <2>2, <2>3, <2>4, DeletedKeeps
<1>4. CASE DefaultDeleter(c)
  <2>1. c \in dying /\ manager[c] \in Arrays /\ manager[c] \notin Tensors /\ Shares(c) /\ Keeps(c) = manager[c]
    BY <1>4 DEF DefaultDeleter, Shares, Keeps, ArrayInv, ArrayTypeOK
  <2> QED BY <1>3, <1>4, <2>1 DEF DefaultDeleter
<1>5. CASE DLPackDeleter(c)
  <2>1. c \in dying /\ manager[c] \in Tensors /\ Shares(c) /\ Keeps(c) = tensors[manager[c]]
    BY <1>5 DEF DLPackDeleter, Shares, Keeps, ArrayInv, ArrayTypeOK
  <2> QED BY <1>3, <1>5, <2>1 DEF DLPackDeleter
<1>6. CASE PoolDeleter(c)
  <2>1. c \in dying /\ manager[c] = Pool /\ poolAlive /\ manager[c] \in Roots
    BY <1>6 DEF PoolDeleter, ArrayInv, ArrayTypeOK, Pooled
  <2>2. CASE Delete(c) /\ blocks' = blocks \ {data[c]} /\ UNCHANGED <<refs, pool>>
    BY <1>1, <1>6, <2>1, <2>2 DEF PoolDeleter
  <2>3. CASE pool' = pool \cup {c} /\ IncRef(c) /\ UNCHANGED <<live, manager, data, blocks>>
    BY <1>6, <2>1, <2>3, RecycleKeeps DEF PoolDeleter
  <2> QED BY <1>6, <2>2, <2>3 DEF PoolDeleter
<1> QED BY <1>2, <1>4, <1>5, <1>6

\* What the pool lends.
LEMMA AcquireKeeps == ASSUME ArrayInv, Acquire PROVE ArrayInv'
<1>1. ASSUME NEW c \in pool, pool' = pool \ {c}, More(cpp, c),
             UNCHANGED <<live, refs, manager, data, blocks, py, tensors, dying, poolAlive>>
      PROVE  ArrayInv'
  BY <1>1, LendKeeps
<1>2. ASSUME NEW c \in Unused, Create(c, Pool), More(cpp, c), UNCHANGED py PROVE ArrayInv'
  BY <1>2, CreatedKeeps DEF Acquire
<1> QED BY <1>1, <1>2 DEF Acquire

----------------------------------------------------------------------------
(* The theorem *)

\* The invariant holds at first and is kept.
LEMMA ArrayInvariance ==
  ASSUME ~ReaderFirst, "NDARRAY_CONTAINER" \notin CallbackCodes
  PROVE  ArraySpec => []ArrayInv
<1>1. ArrayInit => ArrayInv
  <2> SUFFICES ASSUME ArrayInit PROVE ArrayInv
    OBVIOUS
  <2>1. ArrayTypeOK
    BY DEF ArrayInit, ArrayTypeOK
  <2>2. Counted
    <3>1. \A c \in Arrays : TensorsOf(c) = {} /\ ViewsOf(c) = {} /\ InPool(c) = 0
      BY DEF ArrayInit, TensorsOf, ViewsOf, InPool
    <3> QED BY <3>1, FS_EmptySet DEF ArrayInit, Counted, Count
  <2>3. Parents /\ Grounded /\ Pooled /\ Backed
    BY DEF ArrayInit, Parents, Grounded, Pooled, Backed
  <2> QED BY <2>1, <2>2, <2>3 DEF ArrayInv
<1>2. ArrayInv /\ [ArrayNext]_arrayVars => ArrayInv'
  <2> SUFFICES ASSUME ArrayInv, [ArrayNext]_arrayVars PROVE ArrayInv'
    OBVIOUS
  <2>1. CASE Empty \/ PELIArrayAlloc \/ AsNDArray
    BY <2>1, CreatedKeeps DEF Empty, PELIArrayAlloc, AsNDArray
  <2>2. CASE Acquire \/ FreePool
    BY <2>2, AcquireKeeps, FreePoolKeeps
  <2>3. ASSUME NEW c \in Arrays, Copy(c) \/ TakeArgument(c) \/ Reset(c) \/ PELIArrayFree(c) \/ ReturnArray(c) \/ CallbackArgument(c)
        PROVE  ArrayInv'
    BY <2>3, TakenKeeps, GivenKeeps, ReturnedKeeps, CallbackKeeps
  <2>4. ASSUME NEW c \in Arrays, FreeBlock(c) \/ DefaultDeleter(c) \/ DLPackDeleter(c) \/ PoolDeleter(c)
        PROVE  ArrayInv'
    BY <2>4, DeletersKeep
  <2>5. ASSUME NEW c \in Arrays, NEW v \in Unused, CreateView(c, v) PROVE ArrayInv'
    BY <2>5, SharedKeeps
  <2>6. ASSUME NEW c \in Unused, NEW t \in Tensors, FromDLPack(t, c) PROVE ArrayInv'
    BY <2>6, SharedKeeps
  <2>7. ASSUME NEW t \in Tensors, NDArrayDLPackDeleter(t) \/ \E c \in Arrays : ToDLPack(c, t) PROVE ArrayInv'
    BY <2>7, TensorStepsKeep
  <2>8. CASE UNCHANGED arrayVars
    BY <2>8, StutterKeeps
  <2> QED BY <2>1, <2>2, <2>3, <2>4, <2>5, <2>6, <2>7, <2>8 DEF ArrayNext
<1> QED BY <1>1, <1>2, PTL DEF ArraySpec

\* Whoever has an array can use it, and its memory goes with the last of them: for every way
\* owners, views and tensors may come and go, if the pool outlives its arrays and callbacks
\* get views.
THEOREM LiveTheorem ==
  ASSUME ~ReaderFirst, "NDARRAY_CONTAINER" \notin CallbackCodes
  PROVE  ArraySpec => []LiveWhileOwned
<1>1. ArrayInv => LiveWhileOwned
  <2> SUFFICES ASSUME ArrayInv PROVE LiveWhileOwned
    OBVIOUS
  <2>1. \A c \in Arrays : Owned(c) => c \in live \ dying /\ data[c] \in blocks
    <3> TAKE c \in Arrays
    <3> HAVE Owned(c)
    <3>1. cpp[c] > 0 \/ py[c] > 0 \/ TensorsOf(c) # {} \/ ViewsOf(c) # {} \/ c \in pool
      BY DEF Owned, TensorsOf, ViewsOf, ArrayInv, ArrayTypeOK
    <3> QED BY <3>1, OwnedAlive DEF ArrayInv, Backed
  <2>2. \A c \in live : Owned(c) \/ c \in dying
    <3> SUFFICES ASSUME NEW c \in live, ~Owned(c) PROVE c \in dying
      OBVIOUS
    <3>1. c \in Arrays /\ TensorsOf(c) = {} /\ ViewsOf(c) = {} /\ c \notin pool /\ cpp[c] = 0 /\ py[c] = 0
      BY DEF Owned, TensorsOf, ViewsOf, ArrayInv, ArrayTypeOK
    <3>2. refs[c] = 0
      BY <3>1, CountFacts DEF ArrayInv, Counted, Count
    <3> QED BY <3>2 DEF ArrayInv, Counted
  <2>3. \A t \in Tensors : Consumed(t) => tensors[t] # Nothing
    <3> SUFFICES ASSUME NEW t \in Tensors, NEW c \in live, manager[c] = t PROVE tensors[t] # Nothing
      BY DEF Consumed
    <3>1. Shares(c) /\ Keeps(c) = tensors[t]
      BY DEF Shares, Keeps
    <3> QED BY <3>1, KeepsAlive
  <2> QED BY <2>1, <2>2, <2>3 DEF LiveWhileOwned, ArrayInv, Backed
<1> QED BY <1>1, ArrayInvariance, PTL

(***************************************************************************)
(* PackedCalls. An object that crosses the boundary has one owner, for      *)
(* calls nested to any depth and any number of objects, as long as no       *)
(* function returns bytes.  What is inductive: what the calls in progress   *)
(* and Python have is disjoint, and together it is all that is allocated.   *)
(***************************************************************************)
USE CallsAssumption DEF CallsAssumption

Values == [code : Kinds \cup PODCodes, obj : Objects \cup {NoObject}]
Records == [caller : {"py", "cpp"}, rv : Values, temps : SUBSET Objects]

StackTypeOK ==
  /\ heap \in [Objects -> Kinds \cup {NoObject}]
  /\ calls \in Seq(Records)
  /\ held \subseteq Objects

\* A value of a class has an object of that class, any other has none; bytes do not occur;
\* only Python makes temporary functions.
Fits(v, h) ==
  /\ v.code \in Kinds => v.obj \in Objects /\ h[v.obj] = v.code /\ v.code # "kBytes"
  /\ v.code \notin Kinds => v.obj = NoObject
ValuesFit ==
  \A i \in 1 .. Len(calls) : Fits(calls[i].rv, heap) /\ (calls[i].caller = "cpp" => calls[i].temps = {})

\* What a call in progress will delete.
Has(c) == (IF c.rv.obj = NoObject THEN {} ELSE {c.rv.obj}) \cup c.temps

\* Nothing is had twice.
Apart ==
  /\ \A i, j \in 1 .. Len(calls) : i # j => Has(calls[i]) \cap Has(calls[j]) = {}
  /\ \A i \in 1 .. Len(calls) : calls[i].rv.obj \notin calls[i].temps /\ Has(calls[i]) \cap held = {}

\* What is had is what is allocated.
AllHad ==
  \A o \in Objects : heap[o] # NoObject <=> (o \in held \/ \E i \in 1 .. Len(calls) : o \in Has(calls[i]))

HeapInv == StackTypeOK /\ ValuesFit /\ Apart /\ AllHad

----------------------------------------------------------------------------
(* Values *)

\* Clear() deletes what a value that fits has.
LEMMA ClearGives ==
  ASSUME NEW v \in Values, NEW h, Fits(v, h)
  PROVE  Clear(v) = IF v.obj = NoObject THEN {} ELSE {v.obj}
BY DEF Fits, Clear, Values

\* The heap after an object was deleted or made.
LEMMA HeapFacts ==
  ASSUME NEW h \in [Objects -> Kinds \cup {NoObject}], NEW os, NEW o \in Objects, NEW kind \in Kinds
  PROVE  /\ Freed(h, os) \in [Objects -> Kinds \cup {NoObject}]
         /\ \A p \in Objects : Freed(h, os)[p] = IF p \in os THEN NoObject ELSE h[p]
         /\ Allocated(h, o, kind) \in [Objects -> Kinds \cup {NoObject}]
         /\ \A p \in Objects : Allocated(h, o, kind)[p] = IF p = o THEN kind ELSE h[p]
BY DEF Freed, Allocated

\* The calls of a stack.
LEMMA StackFacts ==
  ASSUME NEW cs \in Seq(Records)
  PROVE  Len(cs) \in Nat /\ \A i \in 1 .. Len(cs) : cs[i] \in Records /\ cs[i].rv \in Values /\ cs[i].temps \subseteq Objects
<1>1. Len(cs) \in Nat /\ \A i \in 1 .. Len(cs) : cs[i] \in Records
  OBVIOUS
<1> QED BY <1>1 DEF Records

\* A record with another value.
LEMMA RecordFacts ==
  ASSUME NEW c \in Records, NEW v \in Values
  PROVE  LET d == [c EXCEPT !.rv = v] IN d \in Records /\ d.rv = v /\ d.temps = c.temps /\ d.caller = c.caller
BY DEF Records

\* A sequence with another element at one place.
LEMMA ReplaceFacts ==
  ASSUME NEW S, NEW s \in Seq(S), NEW m \in 1 .. Len(s), NEW d \in S
  PROVE  LET t == [s EXCEPT ![m] = d]
         IN  t \in Seq(S) /\ Len(t) = Len(s) /\ t[m] = d /\ \A i \in 1 .. Len(s) : i # m => t[i] = s[i]
OBVIOUS

\* The stack after the innermost value was set.
LEMMA SetReturnFacts ==
  ASSUME calls \in Seq(Records), Len(calls) > 0, NEW v \in Values, SetReturn(v)
  PROVE  /\ calls' \in Seq(Records) /\ Len(calls') = Len(calls)
         /\ \A i \in 1 .. Len(calls) - 1 : calls'[i] = calls[i]
         /\ calls'[Len(calls)].rv = v /\ calls'[Len(calls)].temps = calls[Len(calls)].temps
         /\ calls'[Len(calls)].caller = calls[Len(calls)].caller
<1> DEFINE n == Len(calls)
           d == [calls[n] EXCEPT !.rv = v]
<1>1. n \in 1 .. n /\ n \in Nat /\ calls[n] \in Records
  BY StackFacts
<1>2. d \in Records /\ d.rv = v /\ d.temps = calls[n].temps /\ d.caller = calls[n].caller
  BY <1>1, RecordFacts
<1>3. calls' = [calls EXCEPT ![n] = d]
  BY DEF SetReturn, Top
<1> HIDE DEF d, Records, Values
<1>4. calls' \in Seq(Records) /\ Len(calls') = n /\ calls'[n] = d /\ \A i \in 1 .. n - 1 : calls'[i] = calls[i]
  BY <1>1, <1>2, <1>3
<1> QED BY <1>2, <1>4 DEF d

----------------------------------------------------------------------------
(* Assignments *)

\* The old value goes, and the new one is of no class, or a new object.
LEMMA AssignKeeps ==
  ASSUME HeapInv, Len(calls) > 0, UNCHANGED held, NEW v \in Values, SetReturn(v),
         \/ v.obj = NoObject /\ v.code \notin Kinds /\ heap' = Freed(heap, Clear(rv))
         \/ /\ v.code \in Kinds \ {"kBytes"} /\ v.obj \in Unallocated
            /\ heap' = Allocated(Freed(heap, Clear(rv)), v.obj, v.code)
  PROVE  HeapInv'
<1> DEFINE n == Len(calls)
<1> USE DEF HeapInv
<1>0. n \in Nat \ {0} /\ n \in 1 .. n /\ calls[n].temps \subseteq Objects /\ calls[n].rv \in Values
  BY StackFacts DEF StackTypeOK
<1>1. n \in 1 .. n /\ rv \in Values /\ rv = calls[n].rv /\ Fits(rv, heap)
  BY <1>0 DEF ValuesFit, Top, rv
<1>2. /\ calls' \in Seq(Records) /\ Len(calls') = n
      /\ \A i \in 1 .. n - 1 : calls'[i] = calls[i]
      /\ calls'[n].rv = v /\ calls'[n].temps = calls[n].temps /\ calls'[n].caller = calls[n].caller
  BY SetReturnFacts DEF StackTypeOK
<1>3. Clear(rv) = IF rv.obj = NoObject THEN {} ELSE {rv.obj}
  BY <1>1, ClearGives
<1>4. /\ heap' \in [Objects -> Kinds \cup {NoObject}]
      /\ \A p \in Objects : heap'[p] = IF p = v.obj THEN v.code ELSE IF p = rv.obj THEN NoObject ELSE heap[p]
  <2>1. CASE v.obj = NoObject /\ heap' = Freed(heap, Clear(rv))
    BY <1>3, <2>1 DEF StackTypeOK, Freed
  <2>2. CASE /\ v.code \in Kinds /\ v.obj \in Unallocated
             /\ heap' = Allocated(Freed(heap, Clear(rv)), v.obj, v.code)
    BY <1>3, <2>2 DEF StackTypeOK, Freed, Allocated, Unallocated
  <2> QED BY <2>1, <2>2
<1>5. \A i \in 1 .. n - 1 : rv.obj = NoObject \/ rv.obj \notin Has(calls[i])
  BY <1>1 DEF Apart, Has
<1>6. v.obj = NoObject \/ (v.obj \in Objects /\ v.obj \notin held /\ \A i \in 1 .. n : v.obj \notin Has(calls[i]))
  BY DEF AllHad, Unallocated
<1>7. StackTypeOK'
  BY <1>2, <1>4 DEF StackTypeOK
<1>8. ValuesFit'
  <2>1. Fits(v, heap')
    BY <1>4 DEF Fits, Unallocated
  <2>2. ASSUME NEW i \in 1 .. n - 1
        PROVE  Fits(calls[i].rv, heap') /\ (calls[i].caller = "cpp" => calls[i].temps = {})
    <3>1. calls[i].rv.obj \in Has(calls[i]) \/ calls[i].rv.obj = NoObject
      BY DEF Has
    <3>2. Fits(calls[i].rv, heap) /\ (calls[i].caller = "cpp" => calls[i].temps = {})
      BY DEF ValuesFit
    <3> QED BY <3>1, <3>2, <1>4, <1>5, <1>6 DEF Fits
  <2>3. calls[n].caller = "cpp" => calls[n].temps = {}
    BY <1>0 DEF ValuesFit
  <2> QED BY <2>1, <2>2, <2>3, <1>2 DEF ValuesFit
<1>9. Has(calls'[n]) = (IF v.obj = NoObject THEN {} ELSE {v.obj}) \cup calls[n].temps
  BY <1>2 DEF Has
<1>10. \A i \in 1 .. n - 1 : Has(calls'[i]) = Has(calls[i])
  BY <1>2
<1>11. calls[n].temps \subseteq Has(calls[n])
  BY DEF Has
<1>12. Apart'
  <2>1. \A i \in 1 .. n - 1 : Has(calls'[i]) \cap Has(calls'[n]) = {}
    <3> TAKE i \in 1 .. n - 1
    <3>1. i \in 1 .. n /\ i # n
      BY <1>0
    <3>2. Has(calls[i]) \cap Has(calls[n]) = {}
      BY <3>1, <1>1 DEF Apart
    <3> QED BY <3>1, <3>2, <1>6, <1>9, <1>10, <1>11
  <2>2. \A i, j \in 1 .. n - 1 : i # j => Has(calls'[i]) \cap Has(calls'[j]) = {}
    <3> TAKE i, j \in 1 .. n - 1
    <3>1. i \in 1 .. n /\ j \in 1 .. n
      BY <1>0
    <3> QED BY <3>1, <1>10 DEF Apart
  <2>3. Has(calls'[n]) \cap held' = {} /\ calls'[n].rv.obj \notin calls'[n].temps
    <3>1. Has(calls[n]) \cap held = {}
      BY <1>1 DEF Apart
    <3>2. v.obj \notin calls[n].temps
      BY <1>0, <1>6, <1>11
    <3> QED BY <3>1, <3>2, <1>2, <1>6, <1>9, <1>11
  <2>4. \A i \in 1 .. n - 1 : Has(calls'[i]) \cap held' = {} /\ calls'[i].rv.obj \notin calls'[i].temps
    BY <1>2, <1>10 DEF Apart
  <2>5. \A i \in 1 .. n : i = n \/ i \in 1 .. n - 1
    BY <1>0
  <2>6. \A i, j \in 1 .. n : i # j => Has(calls'[i]) \cap Has(calls'[j]) = {}
    BY <2>1, <2>2, <2>5
  <2>7. \A i \in 1 .. n : calls'[i].rv.obj \notin calls'[i].temps /\ Has(calls'[i]) \cap held' = {}
    BY <2>3, <2>4, <2>5
  <2> QED BY <2>6, <2>7, <1>2 DEF Apart
<1>13. AllHad'
  <2> SUFFICES ASSUME NEW o \in Objects
      PROVE heap'[o] # NoObject <=> (o \in held \/ \E i \in 1 .. n : o \in Has(calls'[i]))
    BY <1>2 DEF AllHad
  <2>1. heap[o] # NoObject <=> (o \in held \/ \E i \in 1 .. n : o \in Has(calls[i]))
    BY DEF AllHad
  <2>2. CASE o = v.obj
    BY <2>2, <1>1, <1>4, <1>9 DEF Unallocated
  <2>3. CASE o # v.obj /\ o = rv.obj
    <3>1. o \in Has(calls[n]) /\ o \notin calls[n].temps /\ o \notin held
      BY <2>3, <1>1 DEF Has, Apart
    <3>2. \A i \in 1 .. n - 1 : o \notin Has(calls[i])
      BY <2>3, <1>5
    <3> QED BY <3>1, <3>2, <2>3, <1>4, <1>9, <1>10
  <2>4. CASE o # v.obj /\ o # rv.obj
    <3>1. o \in Has(calls[n]) <=> o \in Has(calls'[n])
      BY <2>4, <1>1, <1>9 DEF Has
    <3> QED BY <3>1, <2>1, <2>4, <1>4, <1>10
  <2> QED BY <2>2, <2>3, <2>4
<1> QED BY <1>7, <1>8, <1>12, <1>13

\* The three assignments are of this kind, or change nothing.
LEMMA AssignmentsKeep ==
  ASSUME HeapInv, "kBytes" \notin ReturnCodes, SwitchToPOD \/ SwitchToClass \/ AssignObject
  PROVE  HeapInv'
<1>1. CASE SwitchToPOD
  <2>1. PICK code \in PODCodes :
          Len(calls) > 0 /\ SetReturn(Value(code, NoObject)) /\ heap' = Freed(heap, Clear(rv)) /\ UNCHANGED held
    BY <1>1 DEF SwitchToPOD, Top
  <2>2. Value(code, NoObject) \in Values /\ code \notin Kinds
    BY DEF Value, Values, PODCodes, Kinds
  <2> QED BY <2>1, <2>2, AssignKeeps DEF Value
<1>2. CASE UNCHANGED callVars
  BY <1>2 DEF callVars, HeapInv, StackTypeOK, ValuesFit, Apart, AllHad
<1>3. ASSUME NEW code \in ReturnCodes, NEW o \in Unallocated, Len(calls) > 0,
             heap' = Allocated(Freed(heap, Clear(rv)), o, code), SetReturn(Value(code, o)), UNCHANGED held
      PROVE  HeapInv'
  <2>1. Value(code, o) \in Values /\ code \in Kinds \ {"kBytes"}
    BY DEF Value, Values, Unallocated
  <2> QED BY <2>1, <1>3, AssignKeeps DEF Value
<1> QED BY <1>1, <1>2, <1>3 DEF SwitchToClass, AssignObject, ClassCodes, Top

----------------------------------------------------------------------------
(* Calls and returns *)

\* The heap after several were made.
AllMade(h, os) == [o \in Objects |-> IF o \in os THEN "kFuncHandle" ELSE h[o]]

\* A call begins with nothing but new temporary functions.
LEMMA BeginKeeps ==
  ASSUME HeapInv, UNCHANGED held, NEW c \in Records, c.rv = Null, c.temps \subseteq Unallocated,
         c.caller = "cpp" => c.temps = {},
         calls' = Append(calls, c), heap' = AllMade(heap, c.temps)
  PROVE  HeapInv'
<1> DEFINE n == Len(calls)
<1> USE DEF HeapInv
<1>1. n \in Nat /\ calls \in Seq(Records)
  BY StackFacts DEF StackTypeOK
<1>2. /\ calls' \in Seq(Records) /\ Len(calls') = n + 1 /\ calls'[n + 1] = c
      /\ \A i \in 1 .. n : calls'[i] = calls[i]
  <2> HIDE DEF Records, Values
  <2> QED BY <1>1
<1>3. /\ heap' \in [Objects -> Kinds \cup {NoObject}]
      /\ \A o \in Objects : heap'[o] = IF o \in c.temps THEN "kFuncHandle" ELSE heap[o]
  BY DEF StackTypeOK, AllMade, Kinds
<1>4. Has(c) = c.temps /\ c.rv.obj = NoObject /\ c.rv.code \notin Kinds
  BY DEF Has, Null, Kinds
<1>5. c.temps \subseteq Objects /\ \A o \in c.temps : o \notin held /\ \A i \in 1 .. n : o \notin Has(calls[i])
  BY DEF AllHad, Unallocated
<1>6. \A i \in 1 .. n + 1 : i = n + 1 \/ i \in 1 .. n
  BY <1>1
<1>7. StackTypeOK'
  BY <1>2, <1>3 DEF StackTypeOK
<1>8. ValuesFit'
  <2>1. Fits(c.rv, heap') /\ (c.caller = "cpp" => c.temps = {})
    BY <1>4 DEF Fits
  <2>2. ASSUME NEW i \in 1 .. n
        PROVE  Fits(calls[i].rv, heap') /\ (calls[i].caller = "cpp" => calls[i].temps = {})
    <3>1. calls[i].rv.obj \in Has(calls[i]) \/ calls[i].rv.obj = NoObject
      BY DEF Has
    <3>2. Fits(calls[i].rv, heap) /\ (calls[i].caller = "cpp" => calls[i].temps = {})
      BY DEF ValuesFit
    <3> QED BY <3>1, <3>2, <1>3, <1>5 DEF Fits
  <2> QED BY <2>1, <2>2, <1>2, <1>6 DEF ValuesFit
<1>9. Apart'
  <2>1. \A i, j \in 1 .. n + 1 : i # j => Has(calls'[i]) \cap Has(calls'[j]) = {}
    <3> TAKE i, j \in 1 .. n + 1
    <3>1. CASE i \in 1 .. n /\ j \in 1 .. n
      BY <3>1, <1>2 DEF Apart
    <3>2. CASE i = n + 1 \/ j = n + 1
      BY <3>2, <1>2, <1>4, <1>5, <1>6
    <3> QED BY <3>1, <3>2, <1>6
  <2>2. \A i \in 1 .. n + 1 : calls'[i].rv.obj \notin calls'[i].temps /\ Has(calls'[i]) \cap held' = {}
    <3> TAKE i \in 1 .. n + 1
    <3>1. CASE i \in 1 .. n
      BY <3>1, <1>2 DEF Apart
    <3>2. CASE i = n + 1
      BY <3>2, <1>2, <1>4, <1>5
    <3> QED BY <3>1, <3>2, <1>6
  <2> QED BY <2>1, <2>2, <1>2 DEF Apart
<1>10. AllHad'
  <2> SUFFICES ASSUME NEW o \in Objects
      PROVE heap'[o] # NoObject <=> (o \in held \/ \E i \in 1 .. n + 1 : o \in Has(calls'[i]))
    BY <1>2 DEF AllHad
  <2>1. heap[o] # NoObject <=> (o \in held \/ \E i \in 1 .. n : o \in Has(calls[i]))
    BY DEF AllHad
  <2>2. (\E i \in 1 .. n + 1 : o \in Has(calls'[i])) <=> (o \in c.temps \/ \E i \in 1 .. n : o \in Has(calls[i]))
    <3>1. n + 1 \in 1 .. n + 1 /\ \A i \in 1 .. n : i \in 1 .. n + 1
      BY <1>1
    <3> QED BY <3>1, <1>2, <1>4, <1>6
  <2> QED BY <2>1, <2>2, <1>3 DEF Kinds
<1> QED BY <1>7, <1>8, <1>9, <1>10

\* The innermost calls end: some of what they had is deleted, and the rest goes to Python.
LEMMA EndKeeps ==
  ASSUME HeapInv, NEW k \in 0 .. Len(calls), NEW gone, NEW moved, gone \cap moved = {},
         \A o : o \in gone \cup moved <=> \E i \in k + 1 .. Len(calls) : o \in Has(calls[i]),
         calls' = SubSeq(calls, 1, k), heap' = Freed(heap, gone), held' = held \cup moved
  PROVE  HeapInv'
<1> DEFINE n == Len(calls)
<1> USE DEF HeapInv
<1>1. n \in Nat /\ k \in Nat /\ k <= n /\ calls \in Seq(Records)
      /\ \A i \in 1 .. n : calls[i] \in Records /\ calls[i].rv \in Values /\ calls[i].temps \subseteq Objects
  BY StackFacts DEF StackTypeOK
<1>2. calls' \in Seq(Records) /\ Len(calls') = k /\ \A i \in 1 .. k : calls'[i] = calls[i]
  <2> HIDE DEF Records, Values
  <2> QED BY <1>1
<1>3. /\ heap' \in [Objects -> Kinds \cup {NoObject}]
      /\ \A o \in Objects : heap'[o] = IF o \in gone THEN NoObject ELSE heap[o]
  BY DEF StackTypeOK, Freed
<1>4. \A i \in 1 .. k : i \in 1 .. n
  BY <1>1
<1>5. \A i \in 1 .. k, j \in k + 1 .. n : Has(calls[i]) \cap Has(calls[j]) = {}
  <2> TAKE i \in 1 .. k, j \in k + 1 .. n
  <2>1. i \in 1 .. n /\ j \in 1 .. n /\ i # j
    BY <1>1
  <2> QED BY <2>1 DEF Apart
<1>6. \A i \in 1 .. k : Has(calls[i]) \cap (gone \cup moved) = {}
  BY <1>5
<1>7. \A i \in 1 .. n : Has(calls[i]) \subseteq Objects
  BY <1>1 DEF Has, Values
<1>8. \A j \in k + 1 .. n : j \in 1 .. n
  BY <1>1
<1>9. (gone \cup moved) \cap held = {} /\ gone \cup moved \subseteq Objects
  BY <1>7, <1>8 DEF Apart
<1>10. StackTypeOK'
  BY <1>2, <1>3, <1>9 DEF StackTypeOK
<1>11. ValuesFit'
  <2> SUFFICES ASSUME NEW i \in 1 .. k
      PROVE Fits(calls[i].rv, heap') /\ (calls[i].caller = "cpp" => calls[i].temps = {})
    BY <1>2 DEF ValuesFit
  <2>1. calls[i].rv.obj \in Has(calls[i]) \/ calls[i].rv.obj = NoObject
    BY DEF Has
  <2>2. Fits(calls[i].rv, heap) /\ (calls[i].caller = "cpp" => calls[i].temps = {})
    BY <1>4 DEF ValuesFit
  <2> QED BY <2>1, <2>2, <1>3, <1>6 DEF Fits
<1>12. Apart'
  <2>1. \A i, j \in 1 .. k : i # j => Has(calls[i]) \cap Has(calls[j]) = {}
    BY <1>4 DEF Apart
  <2>2. \A i \in 1 .. k : calls[i].rv.obj \notin calls[i].temps /\ Has(calls[i]) \cap held = {}
    BY <1>4 DEF Apart
  <2>3. \A i \in 1 .. k : Has(calls[i]) \cap held' = {}
    BY <2>2, <1>6
  <2>4. Len(calls') = k /\ \A i \in 1 .. k : calls'[i] = calls[i]
    BY <1>2
  <2>5. \A i, j \in 1 .. k : i # j => Has(calls'[i]) \cap Has(calls'[j]) = {}
    BY <2>1, <2>4
  <2>6. \A i \in 1 .. k : calls'[i].rv.obj \notin calls'[i].temps /\ Has(calls'[i]) \cap held' = {}
    BY <2>2, <2>3, <2>4
  <2> HIDE DEF Has
  <2> QED BY <2>4, <2>5, <2>6 DEF Apart
<1>13. AllHad'
  <2> SUFFICES ASSUME NEW o \in Objects
      PROVE heap'[o] # NoObject <=> (o \in held' \/ \E i \in 1 .. k : o \in Has(calls[i]))
    BY <1>2 DEF AllHad
  <2>1. heap[o] # NoObject <=> (o \in held \/ \E i \in 1 .. n : o \in Has(calls[i]))
    BY DEF AllHad
  <2>2. \A i \in 1 .. n : i \in 1 .. k \/ i \in k + 1 .. n
    BY <1>1
  <2>3. (\E i \in 1 .. n : o \in Has(calls[i])) <=> (o \in gone \cup moved \/ \E i \in 1 .. k : o \in Has(calls[i]))
    BY <1>4, <1>8, <2>2
  <2> QED BY <2>1, <2>3, <1>3, <1>6, <1>9
<1> QED BY <1>10, <1>11, <1>12, <1>13

\* Calls begin.
LEMMA CallsKeep ==
  ASSUME HeapInv, FunctionCall \/ PackedFuncCall
  PROVE  HeapInv'
<1>1. CASE FunctionCall
  <2>1. PICK temps \in TempArgs :
          /\ heap' = [o \in Objects |-> IF o \in temps THEN "kFuncHandle" ELSE heap[o]]
          /\ calls' = Append(calls, [caller |-> "py", rv |-> Null, temps |-> temps])
          /\ UNCHANGED held
    BY <1>1 DEF FunctionCall
  <2> DEFINE c == [caller |-> "py", rv |-> Null, temps |-> temps]
  <2>2. c \in Records /\ c.rv = Null /\ c.temps = temps /\ temps \subseteq Unallocated /\ c.caller = "py"
    BY DEF TempArgs, Unallocated, Records, Values, Null, PODCodes
  <2> HIDE DEF c
  <2> QED BY <2>1, <2>2, BeginKeeps DEF AllMade, c
<1>2. CASE PackedFuncCall
  <2> DEFINE c == [caller |-> "cpp", rv |-> Null, temps |-> {}]
  <2>1. c \in Records /\ c.rv = Null /\ c.temps = {}
    BY DEF Records, Values, Null, PODCodes
  <2>2. heap' = AllMade(heap, {})
    BY <1>2 DEF PackedFuncCall, AllMade, HeapInv, StackTypeOK
  <2>3. calls' = Append(calls, c) /\ UNCHANGED held
    BY <1>2 DEF PackedFuncCall
  <2> HIDE DEF c
  <2> QED BY <2>1, <2>2, <2>3, BeginKeeps
<1> QED BY <1>1, <1>2

\* What Clear() and the end of its temporaries delete of a call in progress.
LEMMA ClearOfCall ==
  ASSUME HeapInv, NEW i \in 1 .. Len(calls)
  PROVE  /\ Clear(calls[i].rv) \cup calls[i].temps = Has(calls[i])
         /\ Clear(calls[i].rv) = IF calls[i].rv.obj = NoObject THEN {} ELSE {calls[i].rv.obj}
         /\ calls[i].caller = "cpp" => calls[i].temps = {}
<1>1. calls[i].rv \in Values /\ Fits(calls[i].rv, heap) /\ (calls[i].caller = "cpp" => calls[i].temps = {})
  <2>1. calls \in Seq(Records) /\ ValuesFit
    BY DEF HeapInv, StackTypeOK
  <2>2. calls[i] \in Records
    <3> HIDE DEF Records
    <3> QED BY <2>1
  <2> DEFINE c == calls[i]
  <2>3. c.rv \in Values
    <3> HIDE DEF Values, c
    <3>1. c \in Records
      BY <2>2 DEF c
    <3> QED BY <3>1 DEF Records
  <2> QED BY <2>1, <2>3 DEF ValuesFit
<1> QED BY <1>1, ClearGives DEF Has

\* A call returns to Python, or to nobody.
LEMMA LastEnds ==
  ASSUME HeapInv, Len(calls) > 0, NEW moved, moved \subseteq Clear(rv),
         heap' = Freed(heap, (Clear(rv) \ moved) \cup calls[Top].temps),
         calls' = Pop(calls), held' = held \cup moved
  PROVE  HeapInv'
<1> DEFINE n == Len(calls)
           gone == (Clear(rv) \ moved) \cup calls[n].temps
<1>1. n \in Nat \ {0} /\ n \in 1 .. n /\ n - 1 \in 0 .. n /\ (n - 1) + 1 = n
  BY StackFacts DEF HeapInv, StackTypeOK
<1>2. Clear(rv) \cup calls[n].temps = Has(calls[n]) /\ Clear(rv) \cap calls[n].temps = {}
  <2>1. Clear(calls[n].rv) = IF calls[n].rv.obj = NoObject THEN {} ELSE {calls[n].rv.obj}
    BY <1>1, ClearOfCall
  <2>2. calls[n].rv.obj \notin calls[n].temps
    BY <1>1 DEF HeapInv, Apart
  <2>3. rv = calls[n].rv
    BY DEF rv, Top
  <2>4. Clear(calls[n].rv) \cup calls[n].temps = Has(calls[n])
    BY <1>1, ClearOfCall
  <2>5. Clear(calls[n].rv) \cap calls[n].temps = {}
    BY <2>1, <2>2
  <2> QED BY <2>3, <2>4, <2>5
<1>3. gone \cap moved = {}
  BY <1>2
<1>4. \A o : o \in gone \cup moved <=> \E i \in n .. n : o \in Has(calls[i])
  <2>1. gone \cup moved = Has(calls[n])
    BY <1>2
  <2>2. n .. n = {n}
    BY <1>1
  <2> QED BY <2>1, <2>2
<1>5. calls' = SubSeq(calls, 1, n - 1) /\ heap' = Freed(heap, gone)
  BY DEF Pop, Top
<1> HIDE DEF gone
<1> QED BY <1>1, <1>3, <1>4, <1>5, EndKeeps

\* A value goes up to the call below, whose own is deleted.
LEMMA PassedUp ==
  ASSUME HeapInv, Top > 1, calls[Top].caller = "cpp", UNCHANGED held,
         heap' = Freed(heap, Clear(calls[Top - 1].rv)),
         calls' = [Pop(calls) EXCEPT ![Top - 1].rv = rv]
  PROVE  HeapInv'
<1> DEFINE m == Len(calls) - 1
           d == [calls[m] EXCEPT !.rv = rv]
<1> USE DEF HeapInv
<1>1. m \in Nat \ {0} /\ m \in 1 .. m /\ Len(calls) = m + 1 /\ Top - 1 = m /\ m \in 1 .. m + 1 /\ m + 1 \in 1 .. m + 1
      /\ calls \in Seq(Records) /\ calls[m] \in Records /\ calls[m].temps \subseteq Objects
      /\ rv = calls[m + 1].rv /\ rv \in Values
  BY StackFacts DEF StackTypeOK, Top, rv
<1> HIDE DEF m
<1>2. d \in Records /\ d.rv = rv /\ d.temps = calls[m].temps /\ d.caller = calls[m].caller
  BY <1>1, RecordFacts
<1>3. calls' = [SubSeq(calls, 1, m) EXCEPT ![m] = d]
  <2>1. SubSeq(calls, 1, m)[m] = calls[m]
    <3> HIDE DEF Records, Values
    <3> QED BY <1>1
  <2> QED BY <2>1, <1>1 DEF Pop, Top
<1> HIDE DEF d
<1>4. calls' \in Seq(Records) /\ Len(calls') = m /\ calls'[m] = d /\ \A i \in 1 .. m - 1 : calls'[i] = calls[i]
  <2> HIDE DEF Records, Values
  <2> DEFINE t == SubSeq(calls, 1, m)
  <2>1. t \in Seq(Records) /\ Len(t) = m /\ \A i \in 1 .. m : t[i] = calls[i]
    BY <1>1
  <2>2. \A i \in 1 .. m - 1 : i \in 1 .. m /\ i # m
    BY <1>1
  <2>3. calls' = [t EXCEPT ![m] = d]
    BY <1>3
  <2> HIDE DEF t
  <2>4. m \in 1 .. Len(t)
    BY <1>1, <2>1
  <2>5. /\ [t EXCEPT ![m] = d] \in Seq(Records) /\ Len([t EXCEPT ![m] = d]) = Len(t) /\ [t EXCEPT ![m] = d][m] = d
        /\ \A i \in 1 .. Len(t) : i # m => [t EXCEPT ![m] = d][i] = t[i]
    BY <1>2, <2>1, <2>4, ReplaceFacts
  <2> QED BY <2>1, <2>2, <2>3, <2>5
<1>5. \A i \in 1 .. m : i \in 1 .. m + 1 /\ i # m + 1 /\ (i = m \/ i \in 1 .. m - 1)
  BY <1>1
<1>6. \A i \in 1 .. m - 1 : i \in 1 .. m /\ i # m
  BY <1>1
<1>7. calls[m + 1].temps = {} /\ Has(calls[m + 1]) = Clear(rv)
      /\ Clear(rv) = (IF rv.obj = NoObject THEN {} ELSE {rv.obj})
      /\ Clear(calls[m].rv) = (IF calls[m].rv.obj = NoObject THEN {} ELSE {calls[m].rv.obj})
      /\ Has(calls[m]) = Clear(calls[m].rv) \cup calls[m].temps
  BY <1>1, ClearOfCall DEF Top
<1>8. Has(d) = Clear(rv) \cup calls[m].temps
  BY <1>2, <1>7 DEF Has
<1>9. /\ heap' \in [Objects -> Kinds \cup {NoObject}]
      /\ \A o \in Objects : heap'[o] = IF o \in Clear(calls[m].rv) THEN NoObject ELSE heap[o]
  BY <1>1 DEF StackTypeOK, Freed, Top
<1>10. Has(calls[m]) \cap Has(calls[m + 1]) = {} /\ calls[m].temps \cap Clear(calls[m].rv) = {}
  <2>1. m # m + 1
    BY <1>1
  <2>2. Has(calls[m]) \cap Has(calls[m + 1]) = {}
    BY <2>1, <1>1 DEF Apart
  <2>3. calls[m].rv.obj \notin calls[m].temps
    BY <1>1 DEF Apart
  <2> QED BY <2>2, <2>3, <1>7
<1>11. \A i \in 1 .. m - 1 : Has(calls[i]) \cap (Has(calls[m]) \cup Has(calls[m + 1])) = {}
  BY <1>1, <1>5, <1>6 DEF Apart
<1>12. StackTypeOK'
  BY <1>4, <1>9 DEF StackTypeOK
<1>13. ValuesFit'
  <2>1. Fits(d.rv, heap') /\ (d.caller = "cpp" => d.temps = {})
    <3>1. Fits(rv, heap) /\ (calls[m].caller = "cpp" => calls[m].temps = {})
      BY <1>1 DEF ValuesFit
    <3> QED BY <3>1, <1>2, <1>7, <1>9, <1>10 DEF Fits
  <2>2. ASSUME NEW i \in 1 .. m - 1
        PROVE  Fits(calls[i].rv, heap') /\ (calls[i].caller = "cpp" => calls[i].temps = {})
    <3>1. calls[i].rv.obj \in Has(calls[i]) \/ calls[i].rv.obj = NoObject
      BY DEF Has
    <3>2. Fits(calls[i].rv, heap) /\ (calls[i].caller = "cpp" => calls[i].temps = {})
      BY <1>1, <1>5, <1>6 DEF ValuesFit
    <3> QED BY <3>1, <3>2, <1>7, <1>9, <1>11 DEF Fits
  <2> QED BY <2>1, <2>2, <1>4, <1>5 DEF ValuesFit
<1>14. Apart'
  <2>1. \A i, j \in 1 .. m : i # j => Has(calls'[i]) \cap Has(calls'[j]) = {}
    <3> TAKE i, j \in 1 .. m
    <3>0. \A k \in 1 .. m - 1 : Has(calls[k]) \cap Has(d) = {}
      <4>1. Has(d) \subseteq Has(calls[m]) \cup Has(calls[m + 1])
        BY <1>7, <1>8
      <4> QED BY <4>1, <1>11
    <3>1. CASE i \in 1 .. m - 1 /\ j \in 1 .. m - 1
      BY <3>1, <1>1, <1>4, <1>5 DEF Apart
    <3>2. CASE i = m /\ j \in 1 .. m - 1
      BY <3>2, <1>4, <3>0
    <3>3. CASE j = m /\ i \in 1 .. m - 1
      BY <3>3, <1>4, <3>0
    <3> QED BY <3>1, <3>2, <3>3, <1>5
  <2>2. \A i \in 1 .. m : calls'[i].rv.obj \notin calls'[i].temps /\ Has(calls'[i]) \cap held' = {}
    <3> TAKE i \in 1 .. m
    <3>1. CASE i \in 1 .. m - 1
      BY <3>1, <1>1, <1>4, <1>5 DEF Apart
    <3>2. CASE i = m
      <4>1. Has(calls[m]) \cap held = {} /\ Has(calls[m + 1]) \cap held = {}
        BY <1>1 DEF Apart
      <4>2. rv.obj \notin calls[m].temps
        BY <1>1, <1>7, <1>10
      <4>3. Has(d) \cap held = {} /\ d.rv.obj \notin d.temps
        BY <4>1, <4>2, <1>2, <1>7, <1>8
      <4> QED BY <3>2, <4>3, <1>4
    <3> QED BY <3>1, <3>2, <1>5
  <2> QED BY <2>1, <2>2, <1>4 DEF Apart
<1>15. AllHad'
  <2> SUFFICES ASSUME NEW o \in Objects
      PROVE heap'[o] # NoObject <=> (o \in held \/ \E i \in 1 .. m : o \in Has(calls'[i]))
    BY <1>4 DEF AllHad
  <2>1. heap[o] # NoObject <=> (o \in held \/ \E i \in 1 .. m + 1 : o \in Has(calls[i]))
    BY <1>1 DEF AllHad
  <2>2. \A i \in 1 .. m + 1 : i = m + 1 \/ i = m \/ i \in 1 .. m - 1
    BY <1>1
  <2>3. (\E i \in 1 .. m + 1 : o \in Has(calls[i]))
          <=> (o \in Has(calls[m + 1]) \/ o \in Has(calls[m]) \/ \E i \in 1 .. m - 1 : o \in Has(calls[i]))
    BY <2>2, <1>1, <1>5, <1>6
  <2>4. (\E i \in 1 .. m : o \in Has(calls'[i])) <=> (o \in Has(d) \/ \E i \in 1 .. m - 1 : o \in Has(calls[i]))
    BY <1>1, <1>4, <1>5, <1>6
  <2>5. o \in Clear(calls[m].rv) => o \notin held /\ o \notin Has(d) /\ \A i \in 1 .. m - 1 : o \notin Has(calls[i])
    <3>1. Has(calls[m]) \cap held = {}
      BY <1>1 DEF Apart
    <3> QED BY <3>1, <1>7, <1>8, <1>10, <1>11
  <2> QED BY <2>1, <2>3, <2>4, <2>5, <1>7, <1>8, <1>9
<1> QED BY <1>12, <1>13, <1>14, <1>15

\* Calls end in one of these ways.
LEMMA ReturnsKeep ==
  ASSUME HeapInv, ReturnToCpp \/ ReturnString \/ MoveToCHost \/ Throws
  PROVE  HeapInv'
<1>1. CASE ReturnToCpp
  <2>1. CASE /\ heap' = Freed(heap, Clear(calls[Top - 1].rv))
             /\ calls' = [Pop(calls) EXCEPT ![Top - 1].rv = rv]
    BY <1>1, <2>1, PassedUp DEF ReturnToCpp
  <2>2. CASE heap' = Freed(heap, Clear(rv)) /\ calls' = Pop(calls)
    <3>1. Top \in 1 .. Len(calls) /\ Len(calls) > 0 /\ UNCHANGED held /\ calls[Top].caller = "cpp"
      BY <1>1, StackFacts DEF ReturnToCpp, Top, HeapInv, StackTypeOK
    <3>2. calls[Top].temps = {}
      BY <3>1, ClearOfCall
    <3>3. heap' = Freed(heap, (Clear(rv) \ {}) \cup calls[Top].temps) /\ held' = held \cup {}
      <4>1. (Clear(rv) \ {}) \cup calls[Top].temps = Clear(rv)
        BY <3>2
      <4> QED BY <4>1, <2>2, <3>1
    <3> QED BY <3>1, <3>3, <2>2, LastEnds
  <2> QED BY <1>1, <2>1, <2>2 DEF ReturnToCpp
<1>2. CASE ReturnString
  <2> DEFINE moved == {}
  <2>1. Len(calls) > 0 /\ calls' = Pop(calls) /\ held' = held \cup moved
    BY <1>2 DEF ReturnString, Top
  <2>2. heap' = Freed(heap, (Clear(rv) \ moved) \cup calls[Top].temps)
    <3>1. (Clear(rv) \ moved) \cup calls[Top].temps = Clear(rv) \cup calls[Top].temps
      OBVIOUS
    <3> QED BY <3>1, <1>2 DEF ReturnString
  <2>3. moved \subseteq Clear(rv)
    OBVIOUS
  <2> HIDE DEF moved
  <2> QED BY <2>1, <2>2, <2>3, LastEnds
<1>3. CASE MoveToCHost
  <2>1. Len(calls) > 0 /\ calls' = Pop(calls) /\ Top \in 1 .. Len(calls)
    BY <1>3, StackFacts DEF MoveToCHost, Top, HeapInv, StackTypeOK
  <2>2. Clear(rv) = IF rv.obj = NoObject THEN {} ELSE {rv.obj}
    BY <2>1, ClearOfCall DEF rv
  <2>3. held' = held \cup Clear(rv)
    BY <1>3, <2>2 DEF MoveToCHost
  <2>4. heap' = Freed(heap, (Clear(rv) \ Clear(rv)) \cup calls[Top].temps)
    <3>1. (Clear(rv) \ Clear(rv)) \cup calls[Top].temps = calls[Top].temps
      OBVIOUS
    <3> QED BY <3>1, <1>3 DEF MoveToCHost
  <2> QED BY <2>1, <2>3, <2>4, LastEnds
<1>4. CASE Throws
  <2>1. PICK i \in 1 .. Top :
          /\ heap' = Freed(heap, UNION {Clear(calls[j].rv) \cup calls[j].temps : j \in i .. Top})
          /\ calls' = SubSeq(calls, 1, i - 1) /\ UNCHANGED held
    BY <1>4 DEF Throws
  <2> DEFINE gone == UNION {Clear(calls[j].rv) \cup calls[j].temps : j \in i .. Top}
  <2>2. Top = Len(calls) /\ i - 1 \in 0 .. Len(calls) /\ (i - 1) + 1 = i /\ \A j \in i .. Top : j \in 1 .. Len(calls)
    BY StackFacts DEF Top, HeapInv, StackTypeOK
  <2>3. \A o : o \in gone \cup {} <=> \E j \in i .. Len(calls) : o \in Has(calls[j])
    BY <2>2, ClearOfCall
  <2>4. held' = held \cup {} /\ gone \cap {} = {}
    BY <2>1
  <2> HIDE DEF gone
  <2>5. heap' = Freed(heap, gone) /\ calls' = SubSeq(calls, 1, i - 1)
    BY <2>1 DEF gone
  <2> QED BY <2>2, <2>3, <2>4, <2>5, EndKeeps
<1> QED BY <1>1, <1>2, <1>3, <1>4

\* Handles are made for Python, and freed by it.
LEMMA HandlesKeep ==
  ASSUME HeapInv, NewHandle \/ FreeHandle
  PROVE  HeapInv'
<1> USE DEF HeapInv
<1>1. CASE NewHandle
  <2>1. PICK o \in Unallocated, kind \in {"kFuncHandle", "kModuleHandle"} :
          heap' = Allocated(heap, o, kind) /\ held' = held \cup {o} /\ UNCHANGED calls
    BY <1>1 DEF NewHandle
  <2>2. o \in Objects /\ heap[o] = NoObject /\ kind \in Kinds
    BY DEF Unallocated, Kinds
  <2>3. /\ heap' \in [Objects -> Kinds \cup {NoObject}]
        /\ \A p \in Objects : heap'[p] = IF p = o THEN kind ELSE heap[p]
    BY <2>1, <2>2 DEF StackTypeOK, Allocated
  <2>4. \A i \in 1 .. Len(calls) : o \notin Has(calls[i])
    BY <2>2 DEF AllHad
  <2>5. \A i \in 1 .. Len(calls) : calls[i].rv.obj \in Has(calls[i]) \/ calls[i].rv.obj = NoObject
    BY DEF Has
  <2>6. StackTypeOK'
    BY <2>1, <2>2, <2>3 DEF StackTypeOK
  <2>7. ValuesFit'
    BY <2>1, <2>2, <2>3, <2>4, <2>5 DEF ValuesFit, Fits
  <2>8. Apart'
    BY <2>1, <2>4 DEF Apart
  <2>9. AllHad'
    BY <2>1, <2>2, <2>3 DEF AllHad
  <2> QED BY <2>6, <2>7, <2>8, <2>9
<1>2. CASE FreeHandle
  <2>1. PICK o \in held : heap' = Freed(heap, {o}) /\ held' = held \ {o} /\ UNCHANGED calls
    BY <1>2 DEF FreeHandle
  <2>2. /\ heap' \in [Objects -> Kinds \cup {NoObject}]
        /\ \A p \in Objects : heap'[p] = IF p = o THEN NoObject ELSE heap[p]
    BY <2>1 DEF StackTypeOK, Freed
  <2>3. \A i \in 1 .. Len(calls) : o \notin Has(calls[i])
    BY DEF Apart
  <2>4. \A i \in 1 .. Len(calls) : calls[i].rv.obj \in Has(calls[i]) \/ calls[i].rv.obj = NoObject
    BY DEF Has
  <2>5. StackTypeOK'
    BY <2>1, <2>2 DEF StackTypeOK
  <2>6. ValuesFit'
    <3> SUFFICES ASSUME NEW i \in 1 .. Len(calls)
                 PROVE  Fits(calls[i].rv, heap') /\ (calls[i].caller = "cpp" => calls[i].temps = {})
      BY <2>1 DEF ValuesFit
    <3>1. Fits(calls[i].rv, heap) /\ (calls[i].caller = "cpp" => calls[i].temps = {})
      BY DEF ValuesFit
    <3>2. calls[i].rv.obj # o
      BY <2>1, <2>3, <2>4, o \in Objects DEF StackTypeOK
    <3> QED BY <2>2, <3>1, <3>2 DEF Fits
  <2>7. Apart'
    BY <2>1 DEF Apart
  <2>8. AllHad'
    BY <2>1, <2>2, <2>3 DEF AllHad
  <2> QED BY <2>5, <2>6, <2>7, <2>8
<1> QED BY <1>1, <1>2

----------------------------------------------------------------------------
(* The theorem *)

\* The invariant holds at first and is kept.
LEMMA HeapInvariance == ASSUME "kBytes" \notin ReturnCodes PROVE CallSpec => []HeapInv
<1>1. CallInit => HeapInv
  <2> SUFFICES ASSUME CallInit PROVE HeapInv
    OBVIOUS
  <2>1. calls \in Seq(Records) /\ Len(calls) = 0
    BY DEF CallInit
  <2> HIDE DEF Records
  <2> QED BY <2>1 DEF CallInit, HeapInv, StackTypeOK, ValuesFit, Apart, AllHad
<1>2. HeapInv /\ [CallNext]_callVars => HeapInv'
  <2> SUFFICES ASSUME HeapInv, [CallNext]_callVars PROVE HeapInv'
    OBVIOUS
  <2>1. CASE SwitchToPOD \/ SwitchToClass \/ AssignObject
    BY <2>1, AssignmentsKeep
  <2>2. CASE FunctionCall \/ PackedFuncCall
    BY <2>2, CallsKeep
  <2>3. CASE ReturnToCpp \/ ReturnString \/ MoveToCHost \/ Throws
    BY <2>3, ReturnsKeep
  <2>4. CASE NewHandle \/ FreeHandle
    BY <2>4, HandlesKeep
  <2>5. CASE UNCHANGED callVars
    BY <2>5 DEF callVars, HeapInv, StackTypeOK, ValuesFit, Apart, AllHad
  <2> QED BY <2>1, <2>2, <2>3, <2>4, <2>5 DEF CallNext
<1> QED BY <1>1, <1>2, PTL DEF CallSpec

\* The owner of an object is the call that has it, as value or as temporary, or Python.
LEMMA OneOwner ==
  ASSUME HeapInv, NEW o \in Objects
  PROVE  Cardinality(Owners(o)) = IF heap[o] = NoObject THEN 0 ELSE 1
<1> USE DEF HeapInv, Top
<1> DEFINE n == Len(calls)
           IsValue(i) == calls[i].rv = Value(heap[o], o)
<1>1. \A i \in 1 .. n : IsValue(i) <=> heap[o] # NoObject /\ calls[i].rv.obj = o
  <2> TAKE i \in 1 .. n
  <2>1. calls[i].rv \in Values /\ Fits(calls[i].rv, heap)
    BY StackFacts DEF StackTypeOK, ValuesFit
  <2>2. calls[i].rv.obj = o => heap[o] # NoObject /\ calls[i].rv = [code |-> heap[o], obj |-> o]
    <3>1. ASSUME calls[i].rv.obj = o PROVE heap[o] = calls[i].rv.code /\ heap[o] # NoObject
      BY <2>1, <3>1 DEF Fits
    <3> QED BY <2>1, <3>1 DEF Values
  <2>3. IsValue(i) => calls[i].rv.obj = o
    BY DEF Value
  <2> QED BY <2>2, <2>3 DEF Value
<1>2. \A i \in 1 .. n : o \in Has(calls[i]) <=> (calls[i].rv.obj = o \/ o \in calls[i].temps)
  BY DEF Has
<1>3. Owners(o) = {<<"rv", i>> : i \in {j \in 1 .. n : IsValue(j)}}
                    \cup {<<"temp", i>> : i \in {j \in 1 .. n : o \in calls[j].temps}}
                    \cup (IF o \in held THEN {<<"python">>} ELSE {})
  BY DEF Owners
<1> HIDE DEF IsValue
<1>4. CASE heap[o] = NoObject
  <2>1. o \notin held /\ \A i \in 1 .. n : ~IsValue(i) /\ o \notin calls[i].temps
    BY <1>1, <1>2, <1>4 DEF AllHad
  <2>2. Owners(o) = {}
    BY <2>1, <1>3
  <2> QED BY <2>2, <1>4, FS_EmptySet
<1>5. CASE heap[o] # NoObject
  <2> SUFFICES ASSUME TRUE PROVE \E w : Owners(o) = {w}
    BY <1>5, FS_Singleton
  <2>1. CASE o \in held
    <3>1. \A i \in 1 .. n : ~IsValue(i) /\ o \notin calls[i].temps
      BY <2>1, <1>1, <1>2 DEF Apart
    <3>2. {j \in 1 .. n : IsValue(j)} = {} /\ {j \in 1 .. n : o \in calls[j].temps} = {}
      BY <3>1
    <3>3. {<<"rv", k>> : k \in {}} = {} /\ {<<"temp", k>> : k \in {}} = {}
      OBVIOUS
    <3>4. Owners(o) = {<<"python">>}
      BY <2>1, <3>2, <3>3, <1>3
    <3> QED BY <3>4
  <2>2. CASE o \notin held
    <3>1. PICK i \in 1 .. n : o \in Has(calls[i])
      BY <1>5, <2>2 DEF AllHad
    <3>2. \A j \in 1 .. n : j # i => o \notin Has(calls[j])
      BY <3>1 DEF Apart
    <3>3. CASE calls[i].rv.obj = o
      <4>1. {j \in 1 .. n : IsValue(j)} = {i}
        BY <3>2, <3>3, <1>1, <1>2, <1>5
      <4>2. {j \in 1 .. n : o \in calls[j].temps} = {}
        BY <3>2, <3>3, <1>2 DEF Apart
      <4>3. {<<"rv", k>> : k \in {i}} = {<<"rv", i>>} /\ {<<"temp", k>> : k \in {}} = {}
        OBVIOUS
      <4>4. Owners(o) = {<<"rv", i>>}
        BY <4>1, <4>2, <4>3, <2>2, <1>3
      <4> QED BY <4>4
    <3>4. CASE calls[i].rv.obj # o
      <4>1. {j \in 1 .. n : IsValue(j)} = {}
        BY <3>2, <3>4, <1>1, <1>2
      <4>2. {j \in 1 .. n : o \in calls[j].temps} = {i}
        BY <3>1, <3>2, <3>4, <1>2
      <4>3. {<<"temp", k>> : k \in {i}} = {<<"temp", i>>} /\ {<<"rv", k>> : k \in {}} = {}
        OBVIOUS
      <4>4. Owners(o) = {<<"temp", i>>}
        BY <4>1, <4>2, <4>3, <2>2, <1>3
      <4> QED BY <4>4
    <3> QED BY <3>3, <3>4
  <2> QED BY <2>1, <2>2
<1> QED BY <1>4, <1>5

\* An object has one owner, which knows what it is, for any depth of calls and any number of
\* objects, if no function returns bytes: what Clear(), the moves to Python and the ends of
\* calls do fits together.
THEOREM OwnedTheorem == ASSUME "kBytes" \notin ReturnCodes PROVE CallSpec => []OwnedOnce
<1>1. HeapInv => OwnedOnce
  <2> SUFFICES ASSUME HeapInv PROVE OwnedOnce
    OBVIOUS
  <2>1. \A i \in 1 .. Top : calls[i].rv.code \in Kinds => heap[calls[i].rv.obj] = calls[i].rv.code
    BY DEF HeapInv, ValuesFit, Fits, Top
  <2> QED BY <2>1, OneOwner DEF OwnedOnce
<1> QED BY <1>1, HeapInvariance, PTL
=============================================================================
