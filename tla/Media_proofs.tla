---------------------------- MODULE Media_proofs ----------------------------
(***************************************************************************)
(* Proofs about what is read from media and handed on: the index of a      *)
(* video's frames, the audio that goes with them, the clips that are cut   *)
(* from them, and the batches of frames a loader gives in an epoch.        *)
(*                                                                         *)
(* VideoIndex: the table of frames is that of the stream shown, for any     *)
(* file: however its packets are ordered, whatever their times, also where  *)
(* some are equal.  What is inductive: the table pairs off with the packets *)
(* read, and so it can be counted; the indices of key frames count packets. *)
(*                                                                         *)
(* AudioReader: a frame comes with the audio it is shown with, for streams  *)
(* and clips of any length, rates and rounding.  What is inductive: what is *)
(* decoded, what the array holds, that what is given was cut from it in     *)
(* time, and that prev is the last frame given and where it ended.          *)
(*                                                                         *)
(* ClipDataset: a list of images is cut into whole clips, for any numbers   *)
(* of segments and frames.  What is inductive: the list holds the frames    *)
(* of one segment after another, and each transform keeps them together.    *)
(*                                                                         *)
(* VideoLoader: an epoch gives every batch once, for any videos, batches    *)
(* and shuffles.  What is inductive: what is given or lost are the batches  *)
(* of the places of the visit order passed so far, each once.               *)
(***************************************************************************)
EXTENDS VideoIndex, AudioReader, ClipDataset, VideoLoader,
        FiniteSetTheorems, SequenceTheorems, WellFoundedInduction, TLAPS

----------------------------------------------------------------------------
(* What several of them rest on *)

\* Every nonempty set of natural numbers has a least one.
LEMMA LeastNatural ==
  ASSUME NEW T \in SUBSET Nat, T # {}
  PROVE  \E x \in T : \A y \in T : x <= y
<1> DEFINE R == OpToRel(<, Nat)
<1>1. IsWellFoundedOn(R, Nat)
  BY NatLessThanWellFounded
<1>2. \A x, y \in Nat : y < x => <<y, x>> \in R
  BY DEF OpToRel
<1> HIDE DEF R
<1>3. PICK x \in T : \A y \in T : ~(<<y, x>> \in R)
  BY <1>1, WFMin
<1>4. \A y \in T : ~(y < x)
  BY <1>2, <1>3, Zenon
<1>5. T \subseteq Nat
  OBVIOUS
<1> HIDE <1>2, <1>3
<1> QED BY <1>4, <1>5

\* A set that has the first of the numbers up to n, and with each the next, has them all.
LEMMA Induction ==
  ASSUME NEW n \in Nat, NEW T, n > 0 => 1 \in T, \A i \in 1 .. n - 1 : i \in T => i + 1 \in T
  PROVE  1 .. n \subseteq T
<1> DEFINE U == {i \in 1 .. n : i \notin T}
<1>1. SUFFICES ASSUME U # {} PROVE FALSE
  OBVIOUS
<1>2. PICK x \in U : \A y \in U : x <= y
  <2>1. U \in SUBSET Nat
    OBVIOUS
  <2> HIDE DEF U
  <2> QED BY <1>1, <2>1, LeastNatural
<1>3. x \in 1 .. n /\ x \notin T
  OBVIOUS
<1>4. x # 1 /\ x - 1 \in 1 .. n - 1 /\ (x - 1) + 1 = x
  BY <1>3
<1>5. x - 1 \notin U
  BY <1>2, <1>4
<1>6. x - 1 \in T
  BY <1>4, <1>5
<1> QED BY <1>3, <1>4, <1>6

\* The places of two sequences joined.
LEMMA Joined == ASSUME NEW S, NEW s \in Seq(S), NEW t \in Seq(S)
  PROVE  /\ s \o t \in Seq(S) /\ Len(s \o t) = Len(s) + Len(t) /\ Len(s) \in Nat /\ Len(t) \in Nat
         /\ \A i \in 1 .. Len(s) : (s \o t)[i] = s[i]
         /\ \A i \in 1 .. Len(t) : (s \o t)[Len(s) + i] = t[i]
<1>1. /\ s \o t \in Seq(S) /\ Len(s \o t) = Len(s) + Len(t) /\ Len(s) \in Nat /\ Len(t) \in Nat
      /\ \A i \in 1 .. Len(s) + Len(t) : (s \o t)[i] = IF i <= Len(s) THEN s[i] ELSE t[i - Len(s)]
  BY ConcatProperties
<1>2. \A i \in 1 .. Len(s) : i \in 1 .. Len(s) + Len(t) /\ i <= Len(s)
  BY <1>1
<1>3. \A i \in 1 .. Len(t) :
        Len(s) + i \in 1 .. Len(s) + Len(t) /\ ~(Len(s) + i <= Len(s)) /\ (Len(s) + i) - Len(s) = i
  BY <1>1
<1>4. \A i \in 1 .. Len(s) : (s \o t)[i] = s[i]
  BY <1>1, <1>2, Zenon
<1>5. \A i \in 1 .. Len(t) : (s \o t)[Len(s) + i] = t[(Len(s) + i) - Len(s)]
  BY <1>1, <1>3, Zenon
<1> QED BY <1>1, <1>3, <1>4, <1>5

\* What FlattenSeq computes: the parts joined one after another.
Joins(s, n, f) == f = [i \in 1 .. n |-> IF i = 1 THEN s[i] ELSE f[i - 1] \o s[i]]

\* There is such a function, for any number of parts.
LEMMA JoinsExist == ASSUME NEW s, NEW n \in Nat
  PROVE  \E f : Joins(s, n, f)
<1> DEFINE T == {m \in 1 .. n : \E f : Joins(s, m, f)}
<1>0. CASE n = 0
  <2>1. Joins(s, n, [i \in {} |-> 0])
    BY <1>0 DEF Joins
  <2> QED BY <2>1
<1>1. CASE n > 0
  <2>1. 1 \in T
    <3>1. Joins(s, 1, [i \in 1 .. 1 |-> s[1]])
      BY DEF Joins
    <3> QED BY <3>1, <1>1
  <2>2. ASSUME NEW m \in 1 .. n - 1, m \in T PROVE m + 1 \in T
    <3>1. PICK f : Joins(s, m, f)
      BY <2>2
    <3> DEFINE g == [i \in 1 .. m + 1 |-> IF i = m + 1 THEN f[m] \o s[m + 1] ELSE f[i]]
    <3>2. \A i \in 1 .. m : f[i] = IF i = 1 THEN s[i] ELSE f[i - 1] \o s[i]
      BY <3>1 DEF Joins
    <3>3. \A i \in 1 .. m + 1 : g[i] = IF i = 1 THEN s[i] ELSE g[i - 1] \o s[i]
      <4> SUFFICES ASSUME NEW i \in 1 .. m + 1 PROVE g[i] = IF i = 1 THEN s[i] ELSE g[i - 1] \o s[i]
        OBVIOUS
      <4>1. CASE i = m + 1
        <5>1. i # 1 /\ i - 1 = m /\ m \in 1 .. m + 1 /\ m # m + 1
          BY <4>1
        <5>2. g[m] = f[m]
          BY <5>1
        <5> QED BY <4>1, <5>1, <5>2
      <4>2. CASE i # m + 1
        <5>1. i \in 1 .. m
          BY <4>2
        <5>2. g[i] = f[i]
          BY <4>2
        <5>3. i # 1 => g[i - 1] = f[i - 1]
          BY <5>1
        <5> QED BY <3>2, <5>1, <5>2, <5>3
      <4> QED BY <4>1, <4>2
    <3>4. DOMAIN g = 1 .. m + 1 /\ g = [i \in 1 .. m + 1 |-> g[i]]
      OBVIOUS
    <3> HIDE DEF g
    <3>5. Joins(s, m + 1, g)
      BY <3>3, <3>4 DEF Joins
    <3> QED BY <3>5, <2>2
  <2> HIDE DEF T
  <2>3. 1 .. n \subseteq T
    BY <2>1, <2>2, Induction
  <2>4. n \in T
    BY <1>1, <2>3
  <2> QED BY <2>4 DEF T
<1> QED BY <1>0, <1>1

\* The whole is the last of the joins, each of which has one part more.
LEMMA Flattened == ASSUME NEW S, NEW s \in Seq(Seq(S)), s # <<>>
  PROVE  \E f : /\ f \in [1 .. Len(s) -> Seq(S)] /\ FlattenSeq(s) = f[Len(s)]
                /\ f[1] = s[1] /\ \A i \in 1 .. Len(s) - 1 : f[i + 1] = f[i] \o s[i + 1]
<1> DEFINE n == Len(s)
           f == CHOOSE f : Joins(s, n, f)
<1>1. n \in Nat /\ n > 0 /\ Len(s) # 0
  BY EmptySeq
<1>2. Joins(s, n, f)
  BY <1>1, JoinsExist
<1>3. FlattenSeq(s) = f[n]
  <2>1. FlattenSeq(s) = (CHOOSE h : h = [i \in 1 .. Len(s) |-> IF i = 1 THEN s[i] ELSE h[i - 1] \o s[i]])[Len(s)]
    BY <1>1 DEF FlattenSeq
  <2> QED BY <2>1 DEF Joins
<1> HIDE DEF f
<1>4. \A i \in 1 .. n : f[i] = IF i = 1 THEN s[i] ELSE f[i - 1] \o s[i]
  BY <1>2 DEF Joins
<1>5. f[1] = s[1]
  BY <1>1, <1>4
<1>6. \A i \in 1 .. n - 1 : f[i + 1] = f[i] \o s[i + 1]
  <2> SUFFICES ASSUME NEW i \in 1 .. n - 1 PROVE f[i + 1] = f[i] \o s[i + 1]
    OBVIOUS
  <2>1. i + 1 \in 1 .. n /\ i + 1 # 1 /\ (i + 1) - 1 = i
    BY <1>1
  <2> HIDE DEF n
  <2>2. f[i + 1] = f[(i + 1) - 1] \o s[i + 1]
    BY <2>1, <1>4, Zenon
  <2> QED BY <2>1, <2>2
<1>7. 1 .. n \subseteq {i \in 1 .. n : f[i] \in Seq(S)}
  <2> DEFINE T == {i \in 1 .. n : f[i] \in Seq(S)}
  <2>1. 1 \in T
    BY <1>1, <1>5
  <2>2. ASSUME NEW i \in 1 .. n - 1, i \in T PROVE i + 1 \in T
    <3>1. i + 1 \in 1 .. n
      BY <1>1
    <3>2. s[i + 1] \in Seq(S)
      BY <3>1
    <3>3. f[i] \o s[i + 1] \in Seq(S)
      BY <2>2, <3>2
    <3> QED BY <1>6, <3>1, <3>3
  <2> HIDE DEF T, n
  <2>3. 1 .. n \subseteq T
    BY <1>1, <2>1, <2>2, Induction
  <2> QED BY <2>3 DEF T
<1>8. DOMAIN f = 1 .. n /\ f = [i \in 1 .. n |-> f[i]]
  BY <1>2 DEF Joins
<1>9. f \in [1 .. n -> Seq(S)]
  BY <1>7, <1>8
<1> QED BY <1>3, <1>5, <1>6, <1>9

\* Parts of equal length: each place of the whole is a place of one part.
LEMMA Blocks ==
  ASSUME NEW S, NEW s \in Seq(Seq(S)), NEW l \in Nat, \A i \in 1 .. Len(s) : Len(s[i]) = l
  PROVE  /\ FlattenSeq(s) \in Seq(S) /\ Len(FlattenSeq(s)) = Len(s) * l
         /\ \A i \in 1 .. Len(s), j \in 1 .. l : FlattenSeq(s)[(i - 1) * l + j] = s[i][j]
<1>1. CASE s = <<>>
  <2>1. FlattenSeq(s) = <<>> /\ Len(s) = 0
    BY <1>1 DEF FlattenSeq
  <2>2. <<>> \in Seq(S) /\ Len(<<>>) = 0 /\ 0 * l = 0
    OBVIOUS
  <2> QED BY <2>1, <2>2
<1>2. CASE s # <<>>
  <2>1. PICK f : /\ f \in [1 .. Len(s) -> Seq(S)] /\ FlattenSeq(s) = f[Len(s)]
                 /\ f[1] = s[1] /\ \A i \in 1 .. Len(s) - 1 : f[i + 1] = f[i] \o s[i + 1]
    BY <1>2, Flattened
  <2> DEFINE n == Len(s)
             P(i) == Len(f[i]) = i * l /\ \A k \in 1 .. i, j \in 1 .. l : f[i][(k - 1) * l + j] = s[k][j]
             T == {i \in 1 .. n : P(i)}
  <2>2. n \in Nat /\ n > 0
    BY <1>2, EmptySeq
  <2>3. P(1)
    <3>1. Len(f[1]) = l /\ 1 * l = l
      BY <2>1, <2>2
    <3>2. \A j \in 1 .. l : f[1][(1 - 1) * l + j] = s[1][j]
      <4>1. \A j \in 1 .. l : (1 - 1) * l + j = j
        OBVIOUS
      <4> QED BY <2>1, <4>1
    <3> QED BY <3>1, <3>2
  <2>4. ASSUME NEW i \in 1 .. n - 1, P(i) PROVE P(i + 1)
    <3>1. i + 1 \in 1 .. n /\ i \in 1 .. n /\ i \in Nat
      BY <2>2
    <3>2. f[i] \in Seq(S) /\ s[i + 1] \in Seq(S) /\ Len(s[i + 1]) = l
      <4>1. f[i] \in Seq(S)
        BY <2>1, <3>1
      <4>2. s[i + 1] \in Seq(S)
        BY <3>1, ElementOfSeq
      <4>3. Len(s[i + 1]) = l
        BY <3>1
      <4> QED BY <4>1, <4>2, <4>3
    <3> DEFINE a == f[i]
               b == s[i + 1]
    <3>3. a \in Seq(S) /\ b \in Seq(S) /\ f[i + 1] = a \o b
      BY <2>1, <3>2
    <3> HIDE DEF a, b
    <3>4. /\ Len(a \o b) = Len(a) + Len(b)
          /\ \A j \in 1 .. Len(a) : (a \o b)[j] = a[j]
          /\ \A j \in 1 .. Len(b) : (a \o b)[Len(a) + j] = b[j]
      BY <3>3, Joined
    <3>5. Len(a) = i * l /\ Len(b) = l /\ i * l \in Nat /\ (i + 1) * l = i * l + l /\ ((i + 1) - 1) * l = i * l
      BY <2>4, <3>1, <3>2 DEF a, b
    <3>6. Len(f[i + 1]) = (i + 1) * l
      BY <3>3, <3>4, <3>5
    <3>7. ASSUME NEW k \in 1 .. i + 1, NEW j \in 1 .. l PROVE f[i + 1][(k - 1) * l + j] = s[k][j]
      <4>1. CASE k = i + 1
        <5>1. (k - 1) * l + j = Len(a) + j /\ j \in 1 .. Len(b)
          BY <3>5, <4>1
        <5> QED BY <3>3, <3>4, <4>1, <5>1 DEF b
      <4>2. CASE k # i + 1
        <5>1. k \in 1 .. i /\ k - 1 \in Nat
          BY <3>1, <4>2
        <5>2. (k - 1) * l + l <= i * l /\ (k - 1) * l \in Nat
          <6>1. (k - 1) * l + l = k * l /\ k * l <= i * l
            BY <5>1
          <6> QED BY <5>1, <6>1
        <5>3. (k - 1) * l + j \in 1 .. Len(a)
          <6> DEFINE x == (k - 1) * l
                     y == i * l
          <6>1. x + l <= y /\ x \in Nat /\ y \in Nat /\ Len(a) = y
            BY <3>5, <5>2
          <6> HIDE DEF x, y
          <6>2. x + j \in 1 .. Len(a)
            BY <6>1
          <6> QED BY <6>2 DEF x
        <5>4. a[(k - 1) * l + j] = s[k][j]
          BY <2>4, <5>1 DEF a
        <5> QED BY <3>3, <3>4, <5>3, <5>4
      <4> QED BY <4>1, <4>2
    <3> QED BY <3>6, <3>7
  <2>5. 1 .. n \subseteq T
    <3>1. 1 \in T
      BY <2>2, <2>3
    <3>2. \A i \in 1 .. n - 1 : i \in T => i + 1 \in T
      <4> SUFFICES ASSUME NEW i \in 1 .. n - 1, i \in T PROVE i + 1 \in T
        OBVIOUS
      <4>1. P(i) /\ i + 1 \in 1 .. n
        <5>1. i + 1 \in 1 .. n
          BY <2>2
        <5> HIDE DEF P
        <5> QED BY <5>1
      <4>2. P(i + 1)
        <5> HIDE DEF P
        <5> QED BY <4>1, <2>4
      <4> QED BY <4>1, <4>2
    <3> HIDE DEF T, n
    <3> QED BY <2>2, <3>1, <3>2, Induction
  <2>6. P(n)
    <3>1. n \in 1 .. n
      BY <2>2
    <3> HIDE DEF P
    <3> QED BY <2>5, <3>1
  <2>7. f[n] \in Seq(S)
    <3>1. n \in 1 .. n
      BY <2>2
    <3>2. f \in [1 .. n -> Seq(S)]
      BY <2>1
    <3> HIDE DEF n
    <3> QED BY <3>1, <3>2
  <2> QED BY <2>1, <2>6, <2>7
<1> QED BY <1>1, <1>2

\* Dividing by a number that is positive.
LEMMA Divided == ASSUME NEW n \in Int, NEW w \in Int, w > 0
  PROVE  n \div w \in Int /\ w * (n \div w) <= n /\ n < w * (n \div w) + w
OBVIOUS

\* A place of blocks of equal length is one of a block.
LEMMA Located == ASSUME NEW a \in Nat, NEW l \in Nat, NEW n \in 1 .. a * l
  PROVE  \E k \in 1 .. a, j \in 1 .. l : n = (k - 1) * l + j
<1>1. l > 0 /\ a * l \in Nat
  <2>1. l = 0 => a * l = 0
    OBVIOUS
  <2>2. a * l \in Nat
    OBVIOUS
  <2> QED BY <2>1, <2>2
<1> DEFINE m == n - 1
           q == m \div l
           r == l * q
           j == n - r
<1>2. m \in Int /\ q \in Int /\ r <= m /\ m < r + l
  <2>1. m \in Int
    OBVIOUS
  <2> HIDE DEF m
  <2> QED BY <1>1, <2>1, Divided
<1>3. r \in Int /\ j \in 1 .. l /\ n = r + j
  <2>1. r \in Int
    <3> HIDE DEF q
    <3> QED BY <1>2
  <2> HIDE DEF r
  <2> QED BY <1>2, <2>1
<1>4. q >= 0
  <2>1. q <= -1 => r <= -l
    <3>1. q <= -1 => l * q <= l * (-1)
      <4> HIDE DEF q
      <4> QED BY <1>1, <1>2
    <3> QED BY <3>1
  <2> HIDE DEF q, r
  <2> QED BY <1>1, <1>2, <2>1, <1>3
<1>5. q <= a - 1
  <2>1. q >= a => r >= a * l
    <3>1. q >= a => l * q >= l * a
      <4> HIDE DEF q
      <4> QED BY <1>1, <1>2
    <3> QED BY <3>1
  <2> DEFINE al == a * l
  <2>2. n <= al /\ al \in Nat
    BY <1>1
  <2> HIDE DEF q, r, al
  <2> QED BY <1>2, <2>1, <2>2, <1>3 DEF al
<1>6. q + 1 \in 1 .. a /\ ((q + 1) - 1) * l = r
  <2> HIDE DEF q
  <2> QED BY <1>2, <1>4, <1>5
<1> HIDE DEF q, j, r
<1>7. n = ((q + 1) - 1) * l + j
  BY <1>3, <1>6
<1> QED BY <1>3, <1>6, <1>7

\* A rest below the divisor is the remainder.
LEMMA Remainder == ASSUME NEW q \in Int, NEW w \in Int, w > 0, NEW b \in 0 .. w - 1
  PROVE  (w * q + b) % w = b
OBVIOUS

\* The quotient is the one whose multiple is not more than a divisor below.
LEMMA Quotient == ASSUME NEW q \in Int, NEW w \in Int, w > 0, NEW n \in Int, w * q <= n, n < w * q + w
  PROVE  n \div w = q
<1> DEFINE d == n \div w
<1>1. d \in Int /\ w * d <= n /\ n < w * d + w
  BY Divided
<1> HIDE DEF d
<1>2. w * d \in Int /\ w * q \in Int
  BY <1>1
<1>3. w * (d + 1) = w * d + w /\ w * (q + 1) = w * q + w
  BY <1>1
<1>4. ~(d >= q + 1)
  <2>1. d >= q + 1 => w * d >= w * (q + 1)
    BY <1>1
  <2> QED BY <2>1, <1>1, <1>2, <1>3
<1>5. ~(q >= d + 1)
  <2>1. q >= d + 1 => w * q >= w * (d + 1)
    BY <1>1
  <2> QED BY <2>1, <1>1, <1>2, <1>3
<1> QED BY <1>1, <1>4, <1>5 DEF d

\* A function on the first numbers is a sequence, and the other way round.
LEMMA AsSequence == ASSUME NEW S, NEW n \in Nat, NEW f \in [1 .. n -> S]
  PROVE  f \in Seq(S) /\ Len(f) = n
OBVIOUS
LEMMA AsFunction == ASSUME NEW S, NEW n \in Nat, NEW f \in Seq(S), Len(f) = n
  PROVE  \A k \in 1 .. n : f[k] \in S
OBVIOUS

\* The first n numbers pair off with a set.
Paired(b, n, S) ==
  /\ b \in [1 .. n -> S]
  /\ \A i, j \in 1 .. n : b[i] = b[j] => i = j
  /\ \A s \in S : \E i \in 1 .. n : b[i] = s
PlacesIn(b, n, T) == {i \in 1 .. n : b[i] \in T}

LEMMA PairedCount ==
  ASSUME NEW n \in Nat, NEW S, NEW b, Paired(b, n, S)
  PROVE  IsFiniteSet(S) /\ Cardinality(S) = n
<1>1. b \in Bijection(1 .. n, S)
  BY DEF Paired, Bijection, Injection, Surjection, IsInjective
<1>2. ExistsBijection(1 .. n, S)
  BY <1>1 DEF ExistsBijection
<1> QED  BY <1>2, FS_CountingElements, FS_NatBijection

\* As many places of the table hold a frame with some property as there are packets with it.
LEMMA PairedPart ==
  ASSUME NEW n \in Nat, NEW S, NEW b, Paired(b, n, S), NEW T, T \subseteq S
  PROVE  IsFiniteSet(PlacesIn(b, n, T)) /\ Cardinality(PlacesIn(b, n, T)) = Cardinality(T)
<1> DEFINE I == PlacesIn(b, n, T)
           c == [i \in I |-> b[i]]
<1> USE DEF PlacesIn
<1>1. c \in Bijection(I, T)
  BY DEF Paired, Bijection, Injection, Surjection, IsInjective
<1>2. IsFiniteSet(I)
  <2>1. IsFiniteSet(1 .. n)
    BY FS_Interval
  <2> QED  BY <2>1, FS_Subset
<1>3. ExistsBijection(I, T)
  BY <1>1 DEF ExistsBijection
<1> QED  BY <1>2, <1>3, FS_Bijection

LEMMA PairedMore ==
  ASSUME NEW n \in Nat, NEW S, NEW b, Paired(b, n, S), NEW x, x \notin S
  PROVE  Paired([i \in 1 .. n + 1 |-> IF i = n + 1 THEN x ELSE b[i]], n + 1, S \cup {x})
<1> DEFINE c == [i \in 1 .. n + 1 |-> IF i = n + 1 THEN x ELSE b[i]]
<1>1. \A i \in 1 .. n : b[i] \in S /\ c[i] = b[i]
  BY DEF Paired
<1>2. c[n + 1] = x
  OBVIOUS
<1>3. \A i \in 1 .. n + 1 : i \in 1 .. n \/ i = n + 1
  OBVIOUS
<1>4. c \in [1 .. n + 1 -> S \cup {x}]
  BY <1>1, <1>3
<1>5. \A i, j \in 1 .. n + 1 : c[i] = c[j] => i = j
  <2> HIDE DEF c
  <2> QED  BY <1>1, <1>2, <1>3 DEF Paired
<1>6. \A s \in S \cup {x} : \E i \in 1 .. n + 1 : c[i] = s
  <2> HIDE DEF c
  <2>1. ASSUME NEW s \in S PROVE \E i \in 1 .. n + 1 : c[i] = s
    <3>1. PICK i \in 1 .. n : b[i] = s
      BY DEF Paired
    <3> QED  BY <3>1, <1>1
  <2>2. n + 1 \in 1 .. n + 1
    OBVIOUS
  <2> QED  BY <2>1, <2>2, <1>2
<1> QED  BY <1>4, <1>5, <1>6 DEF Paired

OneToOne(p, n) == p \in [1 .. n -> 1 .. n] /\ \A i, j \in 1 .. n : p[i] = p[j] => i = j

LEMMA PairedSorted ==
  ASSUME NEW n \in Nat, NEW S, NEW b, Paired(b, n, S), NEW p, OneToOne(p, n)
  PROVE  \E c : Paired(c, n, S) /\ \A i \in 1 .. n : c[i] = b[p[i]]
<1>0. IsFiniteSet(1 .. n)
  BY FS_Interval
<1>1. p \in Injection(1 .. n, 1 .. n)
  BY DEF Injection, IsInjective, OneToOne
<1>2. p \in Surjection(1 .. n, 1 .. n)
  BY <1>0, <1>1, FS_Injection
<1>3. \A s \in S : \E i \in 1 .. n : b[p[i]] = s
  BY <1>2 DEF Paired, Surjection
<1> DEFINE c == [i \in 1 .. n |-> b[p[i]]]
<1>4. Paired(c, n, S) /\ \A i \in 1 .. n : c[i] = b[p[i]]
  BY <1>3 DEF Paired, OneToOne
<1> HIDE DEF c
<1> QED  BY <1>4

----------------------------------------------------------------------------
(* VideoIndex *)

FrameTimes == [pts : Int, begin : Int, end : Int]
Upto(i) == {j \in Shown : j <= i}


IndexTypeOK ==
  /\ container \in Containers /\ at \in 0 .. Len(container.packets)
  /\ frame_ts \in Seq(FrameTimes) /\ key_indices \in Seq(Nat)

\* The packet of each frame of the table.
PacketOf(b) ==
  /\ Paired(b, Len(frame_ts), Upto(at))
  /\ \A n \in 1 .. Len(frame_ts) : frame_ts[n] = FrameTime(container.packets[b[n]])
Listed == \E b : PacketOf(b)

KeysUpto(i) == {Cardinality(Upto(k)) - 1 : k \in {k \in KeyPackets : k <= i}}
KeysListed == GetKeyIndices = KeysUpto(at)
Ordered == \A i, j \in 1 .. Len(frame_ts) : i < j => frame_ts[i].pts <= frame_ts[j].pts
FirstOf(t) == Min({i \in DOMAIN frame_ts : frame_ts[i].pts = t}) - 1

IndexInv ==
  /\ IndexTypeOK
  /\ opening = "stream" => at = 0 /\ frame_ts = <<>> /\ key_indices = <<>>
  /\ opening \in {"index", "sort", "done"} => Listed /\ KeysListed
  /\ opening \in {"sort", "done"} => at = Len(container.packets) /\ Ordered
  /\ opening = "done" => pts_frame_map = [t \in {frame_ts[i].pts : i \in DOMAIN frame_ts} |-> FirstOf(t)]

(***************************************************************************)
(* Counting.                                                               *)
(***************************************************************************)
LEMMA PacketTypes ==
  ASSUME container \in Containers
  PROVE  /\ container.packets \in Seq([stream : Nat, pts : Int, duration : Nat, key : BOOLEAN])
         /\ DOMAIN container.packets = 1 .. Len(container.packets) /\ Len(container.packets) \in Nat
         /\ container.start \in Int
         /\ \A i \in 1 .. Len(container.packets) :
              container.packets[i].pts \in Int /\ FrameTime(container.packets[i]) \in FrameTimes
<1> DEFINE P == [stream : Nat, pts : Int, duration : Nat, key : BOOLEAN]
<1>1. container.packets \in Seq(P) /\ container.start \in Int
  BY ContainersAssumption DEF ContainersAssumption
<1>2. DOMAIN container.packets = 1 .. Len(container.packets) /\ Len(container.packets) \in Nat
  BY <1>1
<1>3. ASSUME NEW i \in 1 .. Len(container.packets)
      PROVE  container.packets[i].pts \in Int /\ FrameTime(container.packets[i]) \in FrameTimes
  <2>1. container.packets[i] \in P
    <3> HIDE DEF P
    <3> QED  BY <1>1
  <2>2. container.packets[i].pts \in Int /\ container.packets[i].duration \in Int
    BY <2>1
  <2>3. ASSUME NEW x \in Int, NEW y \in Int, NEW z \in Int PROVE [pts |-> x, begin |-> y, end |-> z] \in FrameTimes
    BY DEF FrameTimes
  <2>4. container.start \in Int
    BY <1>1
  <2> QED  BY <2>2, <2>3, <2>4 DEF FrameTime
<1> QED  BY <1>1, <1>2, <1>3

LEMMA TimesOf ==
  ASSUME NEW p
  PROVE  /\ FrameTime(p).pts = p.pts /\ FrameTime(p).begin = p.pts - container.start
         /\ FrameTime(p).end = p.pts + p.duration - container.start
BY DEF FrameTime

LEMMA ShownFinite ==
  ASSUME container \in Containers
  PROVE  /\ Shown \in SUBSET (1 .. Len(container.packets)) /\ IsFiniteSet(Shown)
         /\ \A T \in SUBSET Shown : IsFiniteSet(T) /\ Cardinality(T) \in Nat
<1>1. Shown \in SUBSET (1 .. Len(container.packets)) /\ Len(container.packets) \in Nat
  BY PacketTypes DEF Shown
<1>2. IsFiniteSet(1 .. Len(container.packets))
  BY <1>1, FS_Interval
<1>3. IsFiniteSet(Shown)
  BY <1>1, <1>2, FS_Subset
<1> QED  BY <1>1, <1>3, FS_Subset, FS_CardinalityType

(***************************************************************************)
(* The steps.                                                              *)
(***************************************************************************)
LEMMA IndexInitially == IndexInit => IndexInv
<1> SUFFICES ASSUME IndexInit PROVE IndexInv
  OBVIOUS
<1>1. Len(container.packets) \in Nat
  BY PacketTypes DEF IndexInit
<1>2. IndexTypeOK
  BY <1>1 DEF IndexInit, IndexTypeOK
<1> QED  BY <1>2 DEF IndexInit, IndexInv

\* What is paired off with which packets depends on the stream and the packets read only.
LEMMA SameShown ==
  ASSUME container' = container, actv_stm_idx' = actv_stm_idx, NEW i, at' = i
  PROVE  /\ Shown' = Shown /\ KeyPackets' = KeyPackets
         /\ Upto(at)' = Upto(i) /\ KeysUpto(at)' = KeysUpto(i)
<1>1. Shown' = Shown
  BY DEF Shown
<1>2. KeyPackets' = KeyPackets
  BY <1>1 DEF KeyPackets
<1>3. Upto(at)' = Upto(i)
  BY <1>1 DEF Upto
<1>4. ASSUME NEW k PROVE Upto(k)' = Upto(k)
  BY <1>1 DEF Upto
<1>5. KeysUpto(at)' = KeysUpto(i)
  BY <1>2, <1>4 DEF KeysUpto
<1> QED  BY <1>1, <1>2, <1>3, <1>5

LEMMA StreamKeeps ==
  ASSUME IndexInv, SetVideoStream
  PROVE  IndexInv'
<1>1. /\ opening = "stream" /\ opening' = "index" /\ container' = container /\ at' = at
      /\ key_indices' = key_indices /\ frame_ts' = frame_ts /\ at = 0 /\ frame_ts = <<>> /\ key_indices = <<>>
  BY DEF SetVideoStream, IndexInv, indexTables
<1>2. IndexTypeOK'
  BY <1>1 DEF IndexInv, IndexTypeOK
<1>3. Shown' \in SUBSET (1 .. Len(container.packets)')
  BY <1>2, PacketTypes, <1>1 DEF Shown, IndexTypeOK
<1>4. Upto(at)' = {} /\ KeysUpto(at)' = {}
  <2>1. Len(container.packets)' \in Nat
    BY <1>2, PacketTypes, <1>1 DEF IndexTypeOK
  <2>2. \A i \in Shown' : i \in Nat /\ i > 0 /\ ~(i <= 0)
    BY <1>3, <2>1
  <2>3. at' = 0
    BY <1>1
  <2>4. Upto(at)' = {}
    BY <2>2, <2>3 DEF Upto
  <2>5. {k \in KeyPackets : k <= at}' = {}
    BY <2>2, <2>3 DEF KeyPackets
  <2> QED  BY <2>4, <2>5 DEF KeysUpto
<1>5. PacketOf(<<>>)'
  BY <1>1, <1>4 DEF PacketOf, Paired
<1>6. KeysListed'
  BY <1>1, <1>4 DEF KeysListed, GetKeyIndices, ToSet
<1> QED  BY <1>1, <1>2, <1>5, <1>6 DEF IndexInv, Listed

LEMMA PacketKeeps ==
  ASSUME IndexInv, IndexPacket
  PROVE  IndexInv'
<1>1. /\ opening = "index" /\ opening' = "index" /\ container' = container /\ actv_stm_idx' = actv_stm_idx
      /\ at' = at + 1 /\ container \in Containers /\ at \in 0 .. Len(container.packets)
      /\ Len(container.packets) \in Nat /\ at + 1 \in 1 .. Len(container.packets)
      /\ frame_ts \in Seq(FrameTimes) /\ key_indices \in Seq(Nat)
  BY PacketTypes DEF IndexPacket, MorePackets, IndexInv, IndexTypeOK
<1>2. /\ Shown' = Shown /\ KeyPackets' = KeyPackets
      /\ Upto(at)' = Upto(at + 1) /\ KeysUpto(at)' = KeysUpto(at + 1)
  BY <1>1, SameShown
<1>3. at \in Nat /\ \A i \in Shown : i \in Nat
  BY <1>1, ShownFinite
<1>4. PICK b : PacketOf(b)
  BY <1>1 DEF IndexInv, Listed
<1>5. KeysListed
  BY <1>1 DEF IndexInv
<1> DEFINE p == container.packets[at + 1]
           n == Len(frame_ts)
<1>6. CASE p.stream = actv_stm_idx
  <2>1. /\ frame_ts' = Append(frame_ts, FrameTime(p))
        /\ key_indices' = IF p.key THEN Append(key_indices, n) ELSE key_indices
    BY <1>6 DEF IndexPacket
  <2>2. FrameTime(p) \in FrameTimes
    BY <1>1, PacketTypes
  <2>3. /\ frame_ts' \in Seq(FrameTimes) /\ Len(frame_ts') = n + 1 /\ n \in Nat
        /\ frame_ts'[n + 1] = FrameTime(p) /\ \A i \in 1 .. n : frame_ts'[i] = frame_ts[i]
    <3> HIDE DEF p
    <3> QED  BY <2>1, <2>2, <1>1
  <2>4. IndexTypeOK'
    <3>1. key_indices' \in Seq(Nat)
      BY <2>1, <2>3, <1>1
    <3> QED  BY <3>1, <2>3, <1>1 DEF IndexTypeOK
  <2>5. at + 1 \in Shown /\ at + 1 \notin Upto(at) /\ Upto(at + 1) = Upto(at) \cup {at + 1}
    <3>1. at + 1 \in Shown
      BY <1>1, <1>6, PacketTypes DEF Shown
    <3>2. \A j \in Shown : j <= at + 1 <=> j <= at \/ j = at + 1
      BY <1>3
    <3>3. ~(at + 1 <= at)
      BY <1>3
    <3> QED  BY <3>1, <3>2, <3>3 DEF Upto
  <2>6. PICK c : Paired(c, n + 1, Upto(at + 1)) /\ c[n + 1] = at + 1 /\ \A i \in 1 .. n : c[i] = b[i]
    <3> DEFINE d == [i \in 1 .. n + 1 |-> IF i = n + 1 THEN at + 1 ELSE b[i]]
    <3>1. Paired(b, n, Upto(at))
      BY <1>4 DEF PacketOf
    <3>2. Paired(d, n + 1, Upto(at + 1))
      BY <3>1, <2>3, <2>5, PairedMore
    <3>3. d[n + 1] = at + 1 /\ \A i \in 1 .. n : d[i] = b[i]
      BY <2>3
    <3> HIDE DEF d
    <3> QED  BY <3>2, <3>3
  <2>7. PacketOf(c)'
    <3>1. ASSUME NEW i \in 1 .. n + 1 PROVE frame_ts'[i] = FrameTime(container.packets[c[i]])
      <4>1. CASE i = n + 1
        BY <4>1, <2>3, <2>6
      <4>2. CASE i \in 1 .. n
        <5>1. c[i] = b[i]
          BY <4>2, <2>6
        <5>2. frame_ts[i] = FrameTime(container.packets[b[i]])
          BY <4>2, <1>4 DEF PacketOf
        <5> QED  BY <5>1, <5>2, <2>3, <4>2
      <4> QED  BY <4>1, <4>2, <2>3
    <3> HIDE DEF p
    <3>2. \A i \in 1 .. Len(frame_ts') : frame_ts'[i] = FrameTime(container.packets[c[i]])'
      <4>1. ASSUME NEW x PROVE FrameTime(container.packets[x])' = FrameTime(container.packets[x])
        BY <1>1 DEF FrameTime
      <4> QED  BY <3>1, <2>3, <4>1
    <3> QED  BY <3>2, <2>3, <2>6, <1>2 DEF PacketOf
  <2>8. KeysListed'
    <3>1. Cardinality(Upto(at + 1)) - 1 = n
      BY <2>3, <2>6, PairedCount
    <3>2. KeysUpto(at + 1) = KeysUpto(at) \cup (IF p.key THEN {Cardinality(Upto(at + 1)) - 1} ELSE {})
      <4>1. {k \in KeyPackets : k <= at + 1} = {k \in KeyPackets : k <= at} \cup (IF p.key THEN {at + 1} ELSE {})
        <5>1. \A k \in KeyPackets : k \in Shown /\ (k <= at + 1 <=> k <= at \/ k = at + 1)
          BY <1>3 DEF KeyPackets
        <5>2. at + 1 <= at + 1 /\ (at + 1 \in KeyPackets <=> p.key)
          BY <2>5, <1>3 DEF KeyPackets
        <5> HIDE DEF p
        <5> QED  BY <5>1, <5>2
      <4> HIDE DEF p
      <4> QED  BY <4>1 DEF KeysUpto
    <3>3. GetKeyIndices' = GetKeyIndices \cup (IF p.key THEN {n} ELSE {})
      <4>1. CASE p.key
        <5>1. ToSet(Append(key_indices, n)) = ToSet(key_indices) \cup {n}
          <6> DEFINE s == Append(key_indices, n)
          <6>1. DOMAIN s = DOMAIN key_indices \cup {Len(key_indices) + 1} /\ s[Len(key_indices) + 1] = n
            BY <1>1, <2>3
          <6>2. \A i \in DOMAIN key_indices : s[i] = key_indices[i]
            BY <1>1, <2>3
          <6> HIDE DEF s
          <6> QED  BY <6>1, <6>2 DEF ToSet
        <5> QED  BY <5>1, <4>1, <2>1 DEF GetKeyIndices
      <4>2. CASE ~p.key
        BY <4>2, <2>1 DEF GetKeyIndices
      <4> QED  BY <4>1, <4>2
    <3> HIDE DEF p
    <3> QED  BY <3>1, <3>2, <3>3, <1>2, <1>5 DEF KeysListed
  <2> QED  BY <2>4, <2>7, <2>8, <1>1 DEF IndexInv, Listed
<1>7. CASE p.stream # actv_stm_idx
  <2>1. frame_ts' = frame_ts /\ key_indices' = key_indices
    BY <1>7 DEF IndexPacket
  <2>2. at + 1 \notin Shown
    BY <1>7 DEF Shown
  <2>3. Upto(at + 1) = Upto(at)
    <3>1. \A j \in Shown : j # at + 1 /\ (j <= at + 1 <=> j <= at)
      BY <2>2, <1>3
    <3> QED  BY <3>1 DEF Upto
  <2>4. KeysUpto(at + 1) = KeysUpto(at)
    <3>1. {k \in KeyPackets : k <= at + 1} = {k \in KeyPackets : k <= at}
      <4>1. \A j \in Shown : j # at + 1 /\ (j <= at + 1 <=> j <= at)
        BY <2>2, <1>3
      <4> QED  BY <4>1 DEF KeyPackets
    <3> QED  BY <3>1 DEF KeysUpto
  <2>5. PacketOf(b)'
    BY <2>1, <2>3, <1>1, <1>2, <1>4 DEF PacketOf, FrameTime
  <2>6. KeysListed'
    BY <2>1, <2>4, <1>2, <1>5 DEF KeysListed, GetKeyIndices
  <2>7. IndexTypeOK'
    BY <2>1, <1>1 DEF IndexTypeOK
  <2> QED  BY <2>5, <2>6, <2>7, <1>1 DEF IndexInv, Listed
<1> QED  BY <1>6, <1>7

LEMMA SortKeeps ==
  ASSUME IndexInv, SortFrames
  PROVE  IndexInv'
<1>1. /\ opening = "index" /\ opening' = "sort" /\ container' = container /\ actv_stm_idx' = actv_stm_idx
      /\ at' = at /\ at = Len(container.packets) /\ container \in Containers
      /\ key_indices' = key_indices /\ key_indices \in Seq(Nat) /\ frame_ts \in Seq(FrameTimes)
      /\ at \in 0 .. Len(container.packets)
  BY DEF SortFrames, IndexInv, IndexTypeOK
<1>2. /\ Upto(at)' = Upto(at) /\ KeysUpto(at)' = KeysUpto(at)
  BY <1>1, SameShown
<1> DEFINE n == Len(frame_ts)
<1>3. n \in Nat /\ DOMAIN frame_ts = 1 .. n /\ \A i \in 1 .. n : frame_ts[i] \in FrameTimes
  BY <1>1
<1>4. PICK b : PacketOf(b)
  BY <1>1 DEF IndexInv, Listed
<1>5. PICK p \in [1 .. n -> 1 .. n] :
        /\ \A i, j \in 1 .. n : p[i] = p[j] => i = j
        /\ frame_ts' = [i \in 1 .. n |-> frame_ts[p[i]]]
        /\ \A i, j \in 1 .. n : i < j => frame_ts[p[i]].pts <= frame_ts[p[j]].pts
  BY <1>3 DEF SortFrames
<1>6. PICK c : Paired(c, n, Upto(at)) /\ \A i \in 1 .. n : c[i] = b[p[i]]
  <2>1. Paired(b, n, Upto(at))
    BY <1>4 DEF PacketOf
  <2>2. n \in Nat /\ OneToOne(p, n)
    BY <1>3, <1>5 DEF OneToOne
  <2>3. ASSUME NEW m \in Nat, NEW S, Paired(b, m, S), OneToOne(p, m)
        PROVE  \E c : Paired(c, m, S) /\ \A i \in 1 .. m : c[i] = b[p[i]]
    BY <2>3, PairedSorted
  <2> QED  BY <2>1, <2>2, <2>3
<1>7. frame_ts' \in Seq(FrameTimes) /\ Len(frame_ts') = n /\ \A i \in 1 .. n : frame_ts'[i] = frame_ts[p[i]]
  <2>1. \A i \in 1 .. n : frame_ts[p[i]] \in FrameTimes
    BY <1>3, <1>5
  <2>2. frame_ts' \in [1 .. n -> FrameTimes]
    BY <2>1, <1>5
  <2>3. n \in Nat /\ \A i \in 1 .. n : frame_ts'[i] = frame_ts[p[i]]
    BY <1>3, <1>5
  <2>4. frame_ts' \in Seq(FrameTimes) /\ Len(frame_ts') = n
    BY <2>2, <2>3, AsSequence
  <2> QED  BY <2>3, <2>4
<1>8. IndexTypeOK'
  BY <1>1, <1>7 DEF IndexTypeOK
<1>9. PacketOf(c)'
  <2>1. \A i \in 1 .. n : frame_ts[p[i]] = FrameTime(container.packets[b[p[i]]])
    BY <1>4, <1>5 DEF PacketOf
  <2>2. ASSUME NEW x PROVE FrameTime(container.packets[x])' = FrameTime(container.packets[x])
    BY <1>1 DEF FrameTime
  <2> QED  BY <2>1, <2>2, <1>2, <1>6, <1>7 DEF PacketOf
<1>10. KeysListed'
  <2>1. KeysListed
    BY <1>1 DEF IndexInv
  <2> QED  BY <2>1, <1>1, <1>2 DEF KeysListed, GetKeyIndices
<1>11. Ordered'
  BY <1>5, <1>7 DEF Ordered
<1> QED  BY <1>1, <1>8, <1>9, <1>10, <1>11 DEF IndexInv, Listed

\* The other steps change the map, or nothing but how far the reader is.
LEMMA OthersKeep ==
  ASSUME IndexInv, SetVideoStreamFails \/ IndexFails \/ MapFrames \/ UNCHANGED indexVars
  PROVE  IndexInv'
<1>1. /\ container' = container /\ actv_stm_idx' = actv_stm_idx /\ at' = at
      /\ key_indices' = key_indices /\ frame_ts' = frame_ts
  BY DEF SetVideoStreamFails, IndexFails, MapFrames, indexVars, indexTables
<1>2. /\ Upto(at)' = Upto(at) /\ KeysUpto(at)' = KeysUpto(at)
  BY <1>1, SameShown
<1>3. IndexTypeOK' /\ (Ordered => Ordered')
  BY <1>1 DEF IndexInv, IndexTypeOK, Ordered
<1>4. Listed => Listed'
  <2> SUFFICES ASSUME NEW b, PacketOf(b) PROVE PacketOf(b)'
    BY DEF Listed
  <2>1. ASSUME NEW x PROVE FrameTime(container.packets[x])' = FrameTime(container.packets[x])
    BY <1>1 DEF FrameTime
  <2> QED  BY <2>1, <1>1, <1>2 DEF PacketOf
<1>5. KeysListed => KeysListed'
  BY <1>1, <1>2 DEF KeysListed, GetKeyIndices
<1>6. ASSUME NEW t PROVE FirstOf(t)' = FirstOf(t)
  BY <1>1 DEF FirstOf
<1> DEFINE M == [t \in {frame_ts[i].pts : i \in DOMAIN frame_ts} |-> FirstOf(t)]
<1>7. M' = M
  BY <1>1, <1>6
<1>8. opening' = "done" => pts_frame_map' = M'
  <2>1. CASE MapFrames
    BY <2>1, <1>7 DEF MapFrames, FirstOf
  <2>2. CASE SetVideoStreamFails \/ IndexFails
    BY <2>2 DEF SetVideoStreamFails, IndexFails
  <2>3. CASE UNCHANGED indexVars
    <3>1. opening' = opening /\ pts_frame_map' = pts_frame_map
      BY <2>3 DEF indexVars, indexTables
    <3>2. opening = "done" => pts_frame_map = M
      BY DEF IndexInv
    <3> HIDE DEF M
    <3> QED  BY <3>1, <3>2, <1>7
  <2> QED  BY <2>1, <2>2, <2>3
<1> HIDE DEF M
<1>9. \/ opening' = "failed"
      \/ opening = "sort" /\ opening' = "done"
      \/ opening' = opening
  BY DEF SetVideoStreamFails, IndexFails, MapFrames, indexVars, indexTables
<1>10. /\ opening' = "stream" => at' = 0 /\ frame_ts' = <<>> /\ key_indices' = <<>>
       /\ opening' \in {"index", "sort", "done"} => Listed' /\ KeysListed'
       /\ opening' \in {"sort", "done"} => (at = Len(container.packets))' /\ Ordered'
  BY <1>1, <1>3, <1>4, <1>5, <1>9 DEF IndexInv
<1>11. (opening = "done" => pts_frame_map = [t \in {frame_ts[i].pts : i \in DOMAIN frame_ts} |-> FirstOf(t)])'
  BY <1>8 DEF M
<1> QED  BY <1>3, <1>10, <1>11 DEF IndexInv

LEMMA IndexInvariance == IndexSpec => []IndexInv
<1>1. IndexInv /\ [IndexNext]_indexVars => IndexInv'
  BY StreamKeeps, PacketKeeps, SortKeeps, OthersKeep DEF IndexNext
<1> QED  BY IndexInitially, <1>1, PTL DEF IndexSpec

(***************************************************************************)
(* The finished table.                                                     *)
(***************************************************************************)
\* What holds of the places up to some one only, holds of as many as there are.
LEMMA FirstPlaces ==
  ASSUME NEW n \in Nat, NEW D \in SUBSET (1 .. n), \A i \in D, j \in 1 .. n : j < i => j \in D
  PROVE  IsFiniteSet(D) /\ Cardinality(D) \in Nat /\ \A i \in 1 .. n : i \in D <=> i <= Cardinality(D)
<1>1. IsFiniteSet(1 .. n)
  BY FS_Interval
<1>2. IsFiniteSet(D) /\ Cardinality(D) \in Nat
  BY <1>1, FS_Subset, FS_CardinalityType
<1>3. ASSUME NEW i \in D PROVE i <= Cardinality(D)
  <2>1. 1 .. i \in SUBSET D /\ i \in 1 .. n
    OBVIOUS
  <2>2. Cardinality(1 .. i) = i
    BY <2>1, FS_Interval
  <2> QED  BY <2>1, <2>2, <1>2, FS_Subset
<1>4. ASSUME NEW i \in (1 .. n) \ D PROVE ~(i <= Cardinality(D))
  <2>1. D \in SUBSET (1 .. i - 1)
    OBVIOUS
  <2>2. Cardinality(1 .. i - 1) = i - 1 /\ IsFiniteSet(1 .. i - 1)
    BY FS_Interval
  <2>3. Cardinality(D) <= i - 1
    BY <2>1, <2>2, FS_Subset
  <2> QED  BY <2>3, <1>2
<1> QED  BY <1>2, <1>3, <1>4

\* The place of a frame in the table is found by counting packets.
LEMMA PlacesCounted ==
  ASSUME container \in Containers, frame_ts \in Seq(FrameTimes), at = Len(container.packets), Ordered,
         NEW b, PacketOf(b), NEW t \in Int
  PROVE  /\ NumberOf(t) \in Nat /\ Cardinality({i \in Shown : Pts(i) <= t}) \in Nat
         /\ \A i \in 1 .. Len(frame_ts) : frame_ts[i].pts < t <=> i <= NumberOf(t)
         /\ \A i \in 1 .. Len(frame_ts) : frame_ts[i].pts <= t <=> i <= Cardinality({j \in Shown : Pts(j) <= t})
<1> DEFINE n == Len(frame_ts)
           Below == {i \in 1 .. n : frame_ts[i].pts < t}
           Within == {i \in 1 .. n : frame_ts[i].pts <= t}
           B == {i \in Shown : Pts(i) < t}
           W == {i \in Shown : Pts(i) <= t}
<1>1. n \in Nat /\ \A i \in 1 .. n : frame_ts[i].pts \in Int
  <2>1. \A i \in 1 .. n : frame_ts[i] \in FrameTimes
    OBVIOUS
  <2> QED  BY <2>1 DEF FrameTimes
<1>2. Upto(at) = Shown
  <2>1. \A i \in Shown : i <= Len(container.packets)
    BY PacketTypes DEF Shown
  <2> QED  BY <2>1 DEF Upto
<1>3. Paired(b, n, Shown)
  BY <1>2 DEF PacketOf
<1>4. \A i \in 1 .. n : b[i] \in Shown /\ frame_ts[i].pts = Pts(b[i])
  <2>1. \A i \in 1 .. n : frame_ts[i] = FrameTime(container.packets[b[i]])
    BY DEF PacketOf
  <2>2. \A i \in 1 .. n : frame_ts[i].pts = container.packets[b[i]].pts
    BY <2>1, TimesOf
  <2> QED  BY <2>2, <1>3 DEF Paired, Pts
<1>5. IsFiniteSet(Below) /\ Cardinality(Below) = Cardinality(B)
  <2>1. Below = PlacesIn(b, n, B)
    BY <1>4 DEF PlacesIn
  <2>2. n \in Nat /\ Paired(b, n, Shown) /\ B \subseteq Shown
    BY <1>1, <1>3
  <2> HIDE DEF Below, B, n
  <2> QED  BY <2>1, <2>2, PairedPart
<1>6. IsFiniteSet(Within) /\ Cardinality(Within) = Cardinality(W)
  <2>1. Within = PlacesIn(b, n, W)
    BY <1>4 DEF PlacesIn
  <2>2. n \in Nat /\ Paired(b, n, Shown) /\ W \subseteq Shown
    BY <1>1, <1>3
  <2> HIDE DEF Within, W, n
  <2> QED  BY <2>1, <2>2, PairedPart
<1>7. Cardinality(Below) \in Nat /\ \A i \in 1 .. n : i \in Below <=> i <= Cardinality(Below)
  <2>1. \A i \in Below, j \in 1 .. n : j < i => j \in Below
    BY <1>1 DEF Ordered
  <2>2. Below \in SUBSET (1 .. n)
    OBVIOUS
  <2> HIDE DEF Below, n
  <2> QED  BY <2>1, <2>2, <1>1, FirstPlaces
<1>8. Cardinality(Within) \in Nat /\ \A i \in 1 .. n : i \in Within <=> i <= Cardinality(Within)
  <2>1. \A i \in Within, j \in 1 .. n : j < i => j \in Within
    BY <1>1 DEF Ordered
  <2>2. Within \in SUBSET (1 .. n)
    OBVIOUS
  <2> HIDE DEF Within, n
  <2> QED  BY <2>1, <2>2, <1>1, FirstPlaces
<1>9. NumberOf(t) = Cardinality(Below) /\ Cardinality({i \in Shown : Pts(i) <= t}) = Cardinality(Within)
  BY <1>5, <1>6 DEF NumberOf
<1> QED  BY <1>7, <1>8, <1>9

\* A key frame's index counts the frames shown before it but those stored behind it.
LEMMA KeyIndex ==
  ASSUME container \in Containers, KeysInOrder, NEW k \in KeyPackets
  PROVE  Cardinality(Upto(k)) - 1 = NumberOf(Pts(k)) - Cardinality(Leading(k))
<1> DEFINE Earlier == Upto(k) \ {k}
           Sooner == {i \in Shown : Pts(i) < Pts(k)}
<1>1. k \in Shown /\ \A i \in Shown : i \in Nat /\ Pts(i) \in Int
  <2>1. Shown \in SUBSET (1 .. Len(container.packets))
    BY ShownFinite
  <2>2. \A i \in 1 .. Len(container.packets) : i \in Nat /\ container.packets[i].pts \in Int
    BY PacketTypes
  <2>3. \A i \in Shown : i \in 1 .. Len(container.packets) /\ Pts(i) = container.packets[i].pts
    BY <2>1 DEF Pts
  <2>4. k \in Shown
    BY DEF KeyPackets
  <2> HIDE DEF Shown, KeyPackets, Pts
  <2> QED  BY <2>2, <2>3, <2>4
<1>2. Sooner = Earlier \cup Leading(k)
  <2>1. \A i \in Shown : i \in Earlier <=> i < k
    BY <1>1 DEF Upto
  <2>2. \A i \in Shown : i < k => Pts(i) < Pts(k)
    BY DEF KeysInOrder
  <2>3. \A i \in Shown : i \in Leading(k) <=> i > k /\ Pts(i) < Pts(k)
    BY DEF Leading
  <2>4. \A i \in Shown : Pts(i) < Pts(k) <=> i \in Earlier \/ i \in Leading(k)
    <3>1. ~(Pts(k) < Pts(k))
      BY <1>1
    <3> QED  BY <3>1, <2>1, <2>2, <2>3, <1>1
  <2>5. Earlier \subseteq Shown /\ Leading(k) \subseteq Shown
    BY DEF Upto, Leading
  <2> HIDE DEF Earlier
  <2> QED  BY <2>4, <2>5
<1>3. Earlier \cap Leading(k) = {}
  BY <1>1 DEF Upto, Leading
<1>4. /\ IsFiniteSet(Upto(k)) /\ Cardinality(Upto(k)) \in Nat
      /\ IsFiniteSet(Leading(k)) /\ Cardinality(Leading(k)) \in Nat
      /\ IsFiniteSet(Earlier) /\ Cardinality(Earlier) \in Nat
  <2>1. Upto(k) \in SUBSET Shown /\ Leading(k) \in SUBSET Shown /\ Earlier \in SUBSET Shown
    BY DEF Upto, Leading
  <2> HIDE DEF Earlier
  <2> QED  BY <2>1, ShownFinite
<1>5. Cardinality(Earlier) = Cardinality(Upto(k)) - 1
  <2>1. k \in Upto(k)
    BY <1>1 DEF Upto
  <2> QED  BY <2>1, <1>4, FS_RemoveElement
<1>6. Cardinality(Earlier \cup Leading(k)) = Cardinality(Earlier) + Cardinality(Leading(k))
  <2> HIDE DEF Earlier
  <2>1. Cardinality(Earlier \cap Leading(k)) = 0
    BY <1>3, FS_EmptySet
  <2>2. IsFiniteSet(Earlier) /\ IsFiniteSet(Leading(k))
    BY <1>4
  <2>3. Cardinality(Earlier \cup Leading(k)) =
          Cardinality(Earlier) + Cardinality(Leading(k)) - Cardinality(Earlier \cap Leading(k))
    BY <2>2, FS_Union
  <2> QED  BY <2>1, <2>3, <1>4
<1>7. NumberOf(Pts(k)) = Cardinality(Sooner)
  BY DEF NumberOf
<1> HIDE DEF Earlier, Sooner
<1> QED  BY <1>2, <1>4, <1>5, <1>6, <1>7

\* The finished table is that of the stream.
LEMMA FinishedTable == IndexInv => IndexMatchesStream
<1> SUFFICES ASSUME IndexInv, opening = "done" PROVE IndexMatchesStream
  BY DEF IndexMatchesStream
<1> DEFINE n == Len(frame_ts)
<1>1. /\ container \in Containers /\ at = Len(container.packets) /\ Ordered /\ KeysListed
      /\ frame_ts \in Seq(FrameTimes)
      /\ pts_frame_map = [t \in {frame_ts[i].pts : i \in DOMAIN frame_ts} |-> FirstOf(t)]
  BY DEF IndexInv, IndexTypeOK
<1>2. PICK b : PacketOf(b)
  BY DEF IndexInv, Listed
<1>3. n \in Nat /\ DOMAIN frame_ts = 1 .. n /\ \A i \in 1 .. n : frame_ts[i].pts \in Int
  <2>1. n \in Nat /\ DOMAIN frame_ts = 1 .. n /\ \A i \in 1 .. n : frame_ts[i] \in FrameTimes
    BY <1>1
  <2> QED  BY <2>1 DEF FrameTimes
<1>4. Upto(at) = Shown
  <2>1. \A i \in Shown : i <= Len(container.packets)
    BY <1>1, PacketTypes DEF Shown
  <2> QED  BY <2>1, <1>1 DEF Upto
<1>5. Paired(b, n, Shown)
  BY <1>2, <1>4 DEF PacketOf
<1>6. /\ \A i \in 1 .. n : b[i] \in Shown /\ frame_ts[i] = FrameTime(container.packets[b[i]])
      /\ \A s \in Shown : \E i \in 1 .. n : b[i] = s
  BY <1>2, <1>5 DEF Paired, PacketOf
<1>7. n = Cardinality(Shown)
  BY <1>3, <1>5, PairedCount
<1>8. ASSUME NEW t \in Int
      PROVE  /\ NumberOf(t) \in Nat /\ Cardinality({i \in Shown : Pts(i) <= t}) \in Nat
             /\ \A i \in 1 .. n : frame_ts[i].pts < t <=> i <= NumberOf(t)
             /\ \A i \in 1 .. n : frame_ts[i].pts <= t <=> i <= Cardinality({j \in Shown : Pts(j) <= t})
  BY <1>1, <1>2, PlacesCounted
<1>9. ASSUME NEW pos \in 0 .. n - 1
      PROVE  NumberOf(FrameToPTS(pos)) <= pos /\ pos < Cardinality({i \in Shown : Pts(i) <= FrameToPTS(pos)})
  <2> DEFINE t == FrameToPTS(pos)
  <2>1. pos + 1 \in 1 .. n /\ t = frame_ts[pos + 1].pts /\ t \in Int
    BY <1>3 DEF FrameToPTS
  <2> HIDE DEF t
  <2>2. ~(frame_ts[pos + 1].pts < t) /\ frame_ts[pos + 1].pts <= t
    BY <2>1
  <2>3. ~(pos + 1 <= NumberOf(t)) /\ NumberOf(t) \in Nat
    BY <2>1, <2>2, <1>8
  <2>4. pos + 1 <= Cardinality({i \in Shown : Pts(i) <= t}) /\ Cardinality({i \in Shown : Pts(i) <= t}) \in Nat
    BY <2>1, <2>2, <1>8
  <2>5. NumberOf(t) <= pos /\ pos < Cardinality({i \in Shown : Pts(i) <= t})
    BY <2>3, <2>4
  <2> QED  BY <2>5 DEF t
<1>10. GetFramePTS =
         {<<Pts(i) - container.start, Pts(i) + container.packets[i].duration - container.start>> : i \in Shown}
  <2>1. \A i \in 1 .. n : /\ frame_ts[i].begin = Pts(b[i]) - container.start
                         /\ frame_ts[i].end = Pts(b[i]) + container.packets[b[i]].duration - container.start
    BY <1>6, TimesOf DEF Pts
  <2> QED  BY <2>1, <1>3, <1>6 DEF GetFramePTS
<1>11. \A i \in 1 .. n : frame_ts[i].pts = Pts(b[i])
  BY <1>6, TimesOf DEF Pts
<1>12. {frame_ts[i].pts : i \in DOMAIN frame_ts} = {Pts(i) : i \in Shown}
  BY <1>3, <1>6, <1>11
<1>13. ASSUME NEW i \in 1 .. n PROVE FirstOf(frame_ts[i].pts) = NumberOf(frame_ts[i].pts)
  <2> DEFINE t == frame_ts[i].pts
             I == {j \in DOMAIN frame_ts : frame_ts[j].pts = t}
             m == NumberOf(t) + 1
  <2>1. t \in Int /\ NumberOf(t) \in Nat /\ \A j \in 1 .. n : frame_ts[j].pts < t <=> j <= NumberOf(t)
    BY <1>3, <1>8
  <2>2. ~(i <= NumberOf(t))
    BY <2>1
  <2>3. m \in 1 .. n /\ m <= i /\ ~(m <= NumberOf(t))
    BY <2>1, <2>2, <1>3
  <2>4. frame_ts[m].pts = t
    <3>1. ~(frame_ts[m].pts < t) /\ frame_ts[m].pts \in Int
      BY <2>1, <2>3, <1>3
    <3>2. frame_ts[m].pts <= t
      BY <2>1, <2>3, <1>1, <1>3 DEF Ordered
    <3> QED  BY <3>1, <3>2, <2>1
  <2>5. \A j \in I : j \in Nat /\ m <= j
    <3>1. \A j \in I : j \in 1 .. n /\ ~(frame_ts[j].pts < t)
      BY <2>1, <1>3
    <3> QED  BY <3>1, <2>1, <1>3
  <2>6. m \in I /\ m \in Nat
    BY <2>3, <2>4, <1>3
  <2> HIDE DEF I, m
  <2>7. Min(I) = m
    <3>1. \A x \in I : (\A y \in I : x =< y) => x = m
      BY <2>5, <2>6
    <3> QED  BY <2>5, <2>6, <3>1 DEF Min
  <2> QED  BY <2>7, <2>1 DEF FirstOf, I, m
<1>14. pts_frame_map = [t \in {Pts(i) : i \in Shown} |-> NumberOf(t)]
  <2>1. \A t \in {frame_ts[i].pts : i \in DOMAIN frame_ts} : FirstOf(t) = NumberOf(t)
    BY <1>13, <1>3
  <2> QED  BY <2>1, <1>1, <1>12
<1>15. KeysInOrder => GetKeyIndices = {NumberOf(Pts(k)) - Cardinality(Leading(k)) : k \in KeyPackets}
  <2>1. {k \in KeyPackets : k <= at} = KeyPackets
    <3>1. \A k \in KeyPackets : k \in Upto(at)
      BY <1>4 DEF KeyPackets
    <3> QED  BY <3>1 DEF Upto
  <2>2. KeysInOrder => \A k \in KeyPackets : Cardinality(Upto(k)) - 1 = NumberOf(Pts(k)) - Cardinality(Leading(k))
    BY <1>1, KeyIndex
  <2> QED  BY <2>1, <2>2, <1>1 DEF KeysListed, KeysUpto
<1> QED  BY <1>7, <1>9, <1>10, <1>14, <1>15 DEF IndexMatchesStream

\* The table of frames that everything by frame number goes through is that of the stream shown.
THEOREM IndexTheorem == IndexSpec => []IndexMatchesStream
BY IndexInvariance, FinishedTable, PTL

----------------------------------------------------------------------------
(* AudioReader *)

Opened == stream \in Streams /\ video \in Clips /\ mono \in Monos /\ sample_rate \in Rates

\* What is decoded so far, in order.
Heard(c, n) == [i \in 1 .. n |-> <<c, i - 1>>]
Saved ==
  IF outputVector = <<>> THEN padding = -1
  ELSE /\ \E n \in Nat : outputVector = [c \in 1 .. numChannels |-> Heard(c - 1, n)]
       /\ padding = stream.start /\ numChannels = IF mono THEN 1 ELSE stream.channels
Decoding ==
  /\ step \in {"decode", "drain", "failed", "array", "pad", "read"}
  /\ packets \in Seq(Nat) /\ decoder \in Seq(Nat)
  /\ step \in {"array", "pad", "read"} => outputVector # <<>>

\* The array: as long as what was decoded, then longer by the padding. With one channel it is that.
Padded(p, n) == [i \in 1 .. p + n |-> IF i <= p THEN Silence ELSE <<0, i - p - 1>>]
Filled ==
  /\ step = "pad" =>
       /\ array[1] = [i \in 1 .. NumSamplesPerChannel |-> array[1][i]]
       /\ numChannels = 1 => array[1] = Heard(0, NumSamplesPerChannel)
  /\ step = "read" =>
       /\ Padding \in Nat /\ StartsOnTime
       /\ numChannels = 1 => array[1] = Padded(Padding, NumSamplesPerChannel)

\* The audio given, unless the rate was left open.
Indices == 0 .. Len(video) - 1
Slices == {GetSlice(from, to) : from \in Nat, to \in Nat}
Heards == [idx : Indices, from : Nat, to : Nat, samples : Slices]
Given ==
  /\ wanted \in Seq(Indices)
  /\ audio \in Seq(Heards)
  /\ step # "read" => audio = <<>>
  /\ audio = <<>> => prev = NoPrev
  /\ audio # <<>> => prev = [idx |-> audio[Len(audio)].idx, end |-> audio[Len(audio)].to]
  /\ \A k \in DOMAIN audio : Timely(k) /\ audio[k].samples = GetSlice(audio[k].from, audio[k].to)

AudioInv == Opened /\ Saved /\ Decoding /\ Filled /\ (sample_rate # -1 => Given)

\* What an audio stream and a clip are made of.
LEMMA Types == ASSUME Opened
  PROVE  /\ stream.packets \in Seq(Nat) /\ stream.rate \in Nat \ {0} /\ stream.channels \in Nat \ {0}
         /\ stream.start \in Nat /\ stream.bad \in Nat
         /\ video \in Seq([from : Nat, to : Nat]) /\ Width \in Nat \ {0} /\ mono \in BOOLEAN
         /\ sample_rate \in {-1} \cup (Nat \ {0}) /\ Second \in Nat \ {0} /\ Significand \in Nat \ {0}
         /\ targetSampleRate \in Nat \ {0} /\ (sample_rate # -1 => targetSampleRate = sample_rate)
BY AudioAssumption DEF Opened, AudioAssumption, targetSampleRate

\* What Append does to a sequence.
LEMMA AppendFacts == ASSUME NEW S, NEW s \in Seq(S), NEW e \in S
  PROVE  /\ Append(s, e) \in Seq(S) /\ Len(Append(s, e)) = Len(s) + 1 /\ Append(s, e) # <<>>
         /\ Append(s, e)[Len(s) + 1] = e
         /\ \A i \in 1 .. Len(s) : Append(s, e)[i] = s[i]
OBVIOUS

\* A quotient rounded up.
LEMMA RoundedUp == ASSUME NEW x \in Nat, NEW n \in Nat, n > 0
  PROVE  Ceil(x, n) \in Nat /\ (Ceil(x, n) - 1) * n < x /\ x <= Ceil(x, n) * n /\ Ceil(x, n) <= x
<1> DEFINE q == (-x) \div n
           c == -q
<1>1. -x \in Int /\ q \in Int /\ n * q <= -x /\ -x < n * q + n
  BY Divided
<1> HIDE DEF q
<1>2. c \in Int /\ n * q \in Int /\ c * n = -(n * q) /\ (c - 1) * n = -(n * q) - n
  BY <1>1
<1>3. (c - 1) * n < x /\ x <= c * n
  BY <1>1, <1>2
<1> HIDE DEF c
<1>4. c >= 0
  <2>1. c <= -1 => c * n <= (-1) * n
    BY <1>2
  <2> QED BY <1>2, <1>3, <2>1
<1>5. c <= x
  <2>1. CASE c = 0
    BY <2>1
  <2>2. CASE c > 0
    <3>1. (c - 1) * n >= (c - 1) * 1
      BY <1>2, <2>2
    <3> QED BY <1>2, <1>3, <3>1
  <2> QED BY <1>2, <1>4, <2>1, <2>2
<1> QED BY <1>2, <1>3, <1>4, <1>5 DEF Ceil, c, q

\* The quotient of numbers from zero is one.
LEMMA RoundedDown == ASSUME NEW x \in Nat, NEW n \in Nat, n > 0
  PROVE  x \div n \in Nat /\ n * (x \div n) <= x /\ x < n * (x \div n) + n
<1> DEFINE q == x \div n
<1>1. q \in Int /\ n * q <= x /\ x < n * q + n
  BY Divided
<1> HIDE DEF q
<1>2. q >= 0
  <2>1. q <= -1 => n * q <= n * (-1)
    BY <1>1
  <2>2. n * q \in Int
    BY <1>1
  <2> QED BY <1>1, <2>1, <2>2
<1> QED BY <1>1, <1>2 DEF q

\* The samples of a frame are resampled to some number of them.
LEMMA ResampledFacts == ASSUME Opened, NEW n \in Nat PROVE Resampled(n) \subseteq Nat
<1>1. targetSampleRate \in Nat /\ stream.rate \in Nat /\ stream.rate > 0
  BY Types
<1> DEFINE x == n * targetSampleRate
<1>2. x \in Nat
  BY <1>1
<1> HIDE DEF x
<1>3. x \div stream.rate \in Nat /\ Ceil(x, stream.rate) \in Nat
  BY <1>1, <1>2, RoundedDown, RoundedUp
<1> QED BY <1>3 DEF Resampled, x

\* The padding lasts until the stream starts, up to a sample.
LEMMA PaddingFacts == ASSUME Opened, padding = stream.start, NEW n \in GetNumPaddingSamples
  PROVE  /\ n \in Nat
         /\ (n - 1) * Second <= stream.start * targetSampleRate /\ stream.start * targetSampleRate <= n * Second
<1>1. Second \in Nat /\ Second > 0 /\ stream.start \in Nat /\ targetSampleRate \in Nat
  BY Types
<1> DEFINE x == stream.start * targetSampleRate
<1>2. x \in Nat
  BY <1>1
<1>3. n = Ceil(x, Second) \/ n = x \div Second + 1
  BY DEF GetNumPaddingSamples
<1> HIDE DEF x
<1>4. CASE n = Ceil(x, Second)
  <2>1. n \in Nat /\ (n - 1) * Second < x /\ x <= n * Second
    BY <1>1, <1>2, <1>4, RoundedUp
  <2>2. (n - 1) * Second \in Int
    BY <1>1, <2>1
  <2>3. (n - 1) * Second <= x
    BY <1>2, <2>1, <2>2
  <2> QED BY <2>1, <2>3 DEF x
<1>5. CASE n = x \div Second + 1
  <2> DEFINE q == x \div Second
  <2>1. q \in Nat /\ Second * q <= x /\ x < Second * q + Second
    BY <1>1, <1>2, RoundedDown
  <2>2. n = q + 1
    BY <1>5
  <2> HIDE DEF q
  <2>3. n \in Nat /\ (n - 1) * Second = Second * q /\ n * Second = Second * q + Second /\ Second * q \in Nat
    BY <1>1, <2>1, <2>2
  <2>4. (n - 1) * Second <= x /\ x <= n * Second
    BY <1>1, <1>2, <2>1, <2>3
  <2> QED BY <2>3, <2>4 DEF x
<1> QED BY <1>3, <1>4, <1>5

\* A time is converted to the first sample since.
LEMMA TimeFacts == ASSUME Opened, sample_rate # -1, NEW t \in Nat, NEW i \in TimeToSample(t)
  PROVE  i \in Nat /\ FirstSince(t, i)
<1>1. /\ Second \in Nat /\ Second > 0 /\ Significand \in Nat /\ Significand > 0
      /\ sample_rate \in Nat /\ targetSampleRate = sample_rate
  <2>1. sample_rate \in {-1} \cup (Nat \ {0}) /\ targetSampleRate = sample_rate
    BY Types
  <2>2. Second \in Nat /\ Second > 0 /\ Significand \in Nat /\ Significand > 0
    BY Types
  <2> QED BY <2>1, <2>2
<1> DEFINE x == t * sample_rate
<1>2. x \in Nat
  BY <1>1
<1>3. PICK r \in Nearly(x) : i = Ceil(r, Second)
  BY DEF TimeToSample
<1> HIDE DEF x
<1>4. r \in Nat
  <2>1. Ceil(x, Significand) \in Nat /\ Ceil(x, Significand) <= x
    BY <1>1, <1>2, RoundedUp
  <2> QED BY <1>2, <2>1 DEF Nearly
<1>5. i \in Nat /\ (i - 1) * Second < r /\ r <= i * Second
  BY <1>1, <1>3, <1>4, RoundedUp
<1>6. r \in Nearly(t * targetSampleRate)
  BY <1>1 DEF x
<1> QED BY <1>5, <1>6 DEF FirstSince

\* The bytes of a sample are its own.
LEMMA Bytes == ASSUME NEW s \in Nat, NEW b \in 0 .. Width - 1
  PROVE  (s * Width + b) \div Width = s /\ (s * Width + b) % Width = b /\ s * Width + b \in Nat
<1>1. Width \in Nat /\ Width > 0
  BY AudioAssumption DEF AudioAssumption
<1>2. s * Width \in Nat /\ s * Width = Width * s
  BY <1>1
<1>3. (Width * s + b) % Width = b
  BY <1>1, Remainder
<1>4. (Width * s + b) \div Width = s
  <2>1. Width * s <= Width * s + b /\ Width * s + b < Width * s + Width /\ Width * s + b \in Int
    BY <1>1, <1>2
  <2> DEFINE n == Width * s + b
  <2>2. Width * s <= n /\ n < Width * s + Width /\ n \in Int
    BY <2>1
  <2> HIDE DEF n
  <2>3. n \div Width = s
    BY <1>1, <2>2, Quotient
  <2> QED BY <2>3 DEF n
<1>5. s * Width + b \in Nat
  BY <1>1, <1>2
<1> QED BY <1>2, <1>3, <1>4, <1>5

\* With one channel the array is what was decoded.
LEMMA OneView ==
  ASSUME numChannels = 1, NEW n \in Nat, outputVector[1] = Heard(0, n), NEW s \in 0 .. n - 1
  PROVE  SampleAt(0, s, n) = <<0, s>>
<1>1. Width \in Nat /\ Width > 0 /\ n \in Nat /\ s \in Nat /\ s < n
  BY AudioAssumption DEF AudioAssumption
<1>2. \A b \in 0 .. Width - 1 : ByteAt(s * Width + b, n) = <<<<0, s>>, b>>
  <2> SUFFICES ASSUME NEW b \in 0 .. Width - 1 PROVE ByteAt(s * Width + b, n) = <<<<0, s>>, b>>
    OBVIOUS
  <2> DEFINE i == s * Width + b
  <2>1. i \div Width = s /\ i % Width = b /\ i \in Nat
    BY <1>1, Bytes
  <2>2. i < Width * n
    <3>1. Width * (s + 1) <= Width * n
      BY <1>1
    <3>2. Width * (s + 1) = s * Width + Width /\ s * Width \in Nat /\ Width * n \in Nat
      BY <1>1
    <3> QED BY <3>1, <3>2, <1>1
  <2> HIDE DEF i
  <2> DEFINE over == {c \in 0 .. numChannels - 1 : ViewOffset(c, n) <= i /\ i < ViewOffset(c, n) + Width * n}
  <2>3. over = {0}
    <3>1. 0 .. numChannels - 1 = {0}
      OBVIOUS
    <3>2. ViewOffset(0, n) = 0 /\ Width * n \in Nat
      BY <1>1 DEF ViewOffset
    <3>3. 0 <= i /\ i < 0 + Width * n
      BY <2>1, <2>2, <3>2
    <3> QED BY <3>1, <3>2, <3>3
  <2>4. Max(over) = 0
    BY <2>3 DEF Max
  <2>5. ViewOffset(0, n) = 0 /\ i - 0 = i
    BY <1>1, <2>1 DEF ViewOffset
  <2>6. ByteAt(i, n) = <<outputVector[0 + 1][(i - ViewOffset(0, n)) \div Width + 1], (i - ViewOffset(0, n)) % Width>>
    <3> HIDE DEF over
    <3>1. over # {}
      BY <2>3
    <3> QED BY <2>4, <3>1 DEF ByteAt, over
  <2>7. outputVector[0 + 1] = Heard(0, n)
    OBVIOUS
  <2>8. Heard(0, n)[s + 1] = <<0, s>>
    BY <1>1 DEF Heard
  <2>9. ByteAt(i, n) = <<Heard(0, n)[s + 1], b>>
    BY <2>1, <2>5, <2>6, <2>7
  <2> QED BY <2>8, <2>9 DEF i
<1> DEFINE first == (0 * n + s) * Width
<1>3. first = s * Width
  BY <1>1
<1> HIDE DEF first
<1>4. first + 0 = s * Width + 0 /\ s * Width + 0 = s * Width /\ 0 \in 0 .. Width - 1
  BY <1>1, <1>3
<1>5. ByteAt(first, n) = <<<<0, s>>, 0>>
  BY <1>2, <1>3, <1>4
<1>6. ByteAt(first, n)[1] = <<0, s>>
  BY <1>5
<1>7. \A b \in 0 .. Width - 1 : ByteAt(first + b, n) = <<<<0, s>>, b>>
  BY <1>2, <1>3
<1> QED BY <1>6, <1>7 DEF SampleAt, first

\* Nothing is decoded when the reader is opened.

\* Nothing is decoded when the reader is opened.
LEMMA AudioInitially == AudioInit => AudioInv
<1> SUFFICES ASSUME AudioInit PROVE AudioInv
  OBVIOUS
<1>1. Opened
  BY DEF AudioInit, Opened
<1>2. Decoding
  BY <1>1, Types DEF AudioInit, Decoding
<1>3. Saved /\ Filled
  BY DEF AudioInit, Saved, Filled
<1>4. Given
  BY DEF AudioInit, Given
<1> QED BY <1>1, <1>2, <1>3, <1>4 DEF AudioInv

\* Decoding, until the array is made, gives no audio.
LEMMA NothingGiven ==
  ASSUME sample_rate # -1 => Given, UNCHANGED <<opened, wanted, audio, prev>>, step # "read"
  PROVE  sample_rate' # -1 => Given'
<1> SUFFICES ASSUME Given PROVE Given'
  BY DEF opened
<1>1. audio = <<>> /\ audio' = <<>> /\ prev' = prev /\ wanted' = wanted /\ Indices' = Indices
  BY DEF Given, Indices, opened
<1>2. DOMAIN audio' = {} /\ audio' \in Seq(Heards')
  BY <1>1
<1> QED BY <1>1, <1>2 DEF Given

\* A packet goes to the decoder, or is the last.
LEMMA DecodeKeeps == ASSUME AudioInv, DecodePacket PROVE AudioInv'
<1> USE DEF DecodePacket
<1>1. Opened'
  BY DEF AudioInv, Opened, opened
<1>2. Saved' /\ Filled'
  BY DEF AudioInv, Saved, Filled, opened, python
<1>3. Decoding'
  <2>1. packets \in Seq(Nat) /\ decoder \in Seq(Nat)
    BY DEF AudioInv, Decoding
  <2>2. packets # <<>> => Tail(packets) \in Seq(Nat) /\ Append(decoder, Head(packets)) \in Seq(Nat)
    BY <2>1, HeadTailProperties
  <2>3. packets' \in Seq(Nat) /\ decoder' \in Seq(Nat)
    BY <2>1, <2>2
  <2> QED BY <2>3 DEF AudioInv, Decoding
<1>4. sample_rate' # -1 => Given'
  BY NothingGiven DEF AudioInv, python
<1> QED BY <1>1, <1>2, <1>3, <1>4 DEF AudioInv

\* More samples of the channel are heard.
LEMMA HeardMore == ASSUME NEW c \in Nat, NEW n \in Nat, NEW m \in Nat
  PROVE  Heard(c, n) \o [i \in 1 .. m |-> <<c, Len(Heard(c, n)) + i - 1>>] = Heard(c, n + m)
<1> DEFINE S == {c} \X Nat
           h == Heard(c, n)
           more == [i \in 1 .. m |-> <<c, n + i - 1>>]
           all == Heard(c, n + m)
<1>1. Len(h) = n /\ h \in Seq(S) /\ \A i \in 1 .. n : h[i] = <<c, i - 1>>
  BY DEF Heard
<1>2. more \in Seq(S) /\ Len(more) = m /\ \A i \in 1 .. m : more[i] = <<c, n + i - 1>>
  OBVIOUS
<1>3. all \in Seq(S) /\ Len(all) = n + m /\ \A i \in 1 .. n + m : all[i] = <<c, i - 1>>
  BY DEF Heard
<1>4. [i \in 1 .. m |-> <<c, Len(h) + i - 1>>] = more
  BY <1>1
<1> HIDE DEF S, more, h, all
<1>5. /\ h \o more \in Seq(S) /\ Len(h \o more) = n + m
      /\ \A i \in 1 .. n + m : (h \o more)[i] = IF i <= n THEN h[i] ELSE more[i - n]
  BY <1>1, <1>2, ConcatProperties
<1>6. \A i \in 1 .. n + m : (h \o more)[i] = all[i]
  <2> SUFFICES ASSUME NEW i \in 1 .. n + m PROVE (h \o more)[i] = <<c, i - 1>>
    BY <1>3
  <2>1. CASE i <= n
    BY <1>1, <1>5, <2>1
  <2>2. CASE ~(i <= n)
    <3>1. i - n \in 1 .. m /\ n + (i - n) - 1 = i - 1
      BY <2>2
    <3> QED BY <1>2, <1>5, <2>2, <3>1
  <2> QED BY <2>1, <2>2
<1>7. h \o more = all
  BY <1>3, <1>5, <1>6, SeqEqual
<1> QED BY <1>4, <1>7 DEF h, all

\* The samples of a frame go behind those decoded before.
LEMMA HandleKeeps == ASSUME AudioInv, HandleFrame PROVE AudioInv'
<1> USE DEF HandleFrame
<1>1. Opened' /\ stream' = stream /\ mono' = mono
  BY DEF AudioInv, Opened, opened
<1> DEFINE channels == IF mono THEN 1 ELSE stream.channels
<1>2. numChannels' = channels /\ channels \in Nat \ {0} /\ Head(decoder) \in Nat /\ stream.start \in Nat
  <2>1. stream.start \in Nat /\ channels \in Nat \ {0} /\ decoder \in Seq(Nat)
    BY Types DEF AudioInv, Decoding
  <2>2. Head(decoder) \in Nat
    BY <2>1, HeadTailProperties
  <2>3. numChannels' = channels
    BY <1>1
  <2> QED BY <2>1, <2>2, <2>3
<1>3. Saved' /\ outputVector' # <<>>
  <2>1. PICK m \in Nat : SaveToVector(channels, m)
    BY <1>2, ResampledFacts DEF AudioInv
  <2> DEFINE e(c) == IF outputVector = <<>> THEN <<>> ELSE outputVector[c]
             g(c) == e(c) \o [i \in 1 .. m |-> <<c - 1, Len(e(c)) + i - 1>>]
  <2>2. outputVector' = [c \in 1 .. channels |-> g(c)]
    BY <2>1 DEF SaveToVector
  <2>3. PICK n \in Nat : \A c \in 1 .. channels : e(c) = Heard(c - 1, n)
    <3>1. CASE outputVector = <<>>
      <4>1. \A c \in 1 .. channels : e(c) = Heard(c - 1, 0)
        BY <3>1 DEF Heard
      <4> HIDE DEF e, channels
      <4> QED BY <4>1
    <3>2. CASE outputVector # <<>>
      BY <3>2 DEF AudioInv, Saved
    <3> QED BY <3>1, <3>2
  <2>4. \A c \in 1 .. channels : g(c) = Heard(c - 1, n + m)
    <3> SUFFICES ASSUME NEW c \in 1 .. channels PROVE g(c) = Heard(c - 1, n + m)
      OBVIOUS
    <3>1. c - 1 \in Nat /\ e(c) = Heard(c - 1, n)
      BY <2>3
    <3> DEFINE h == Heard(c - 1, n)
    <3>2. h \o [i \in 1 .. m |-> <<c - 1, Len(h) + i - 1>>] = Heard(c - 1, n + m)
      BY <3>1, HeardMore
    <3> HIDE DEF e, h
    <3>3. e(c) = h
      BY <3>1 DEF h
    <3> QED BY <3>2, <3>3, Zenon
  <2> HIDE DEF g, e, channels
  <2>5. outputVector' = [c \in 1 .. channels |-> Heard(c - 1, n + m)]
    BY <2>2, <2>4
  <2>6. outputVector' # <<>>
    <3>1. 1 \in DOMAIN outputVector'
      BY <1>2, <2>5
    <3> QED BY <3>1
  <2>7. padding' = stream.start
    BY <1>2 DEF AudioInv, Saved
  <2>8. n + m \in Nat
    OBVIOUS
  <2>9. \E k \in Nat : outputVector' = [c \in 1 .. numChannels' |-> Heard(c - 1, k)]
    BY <1>2, <2>5, <2>8
  <2> QED BY <1>1, <1>2, <2>6, <2>7, <2>9 DEF Saved, Heard, channels
<1>4. Decoding'
  BY <1>3, HeadTailProperties DEF AudioInv, Decoding
<1>5. Filled'
  BY DEF Filled
<1>6. sample_rate' # -1 => Given'
  BY NothingGiven DEF AudioInv, python
<1> QED BY <1>1, <1>3, <1>4, <1>5, <1>6 DEF AudioInv

\* The decoder gives what it still holds.
LEMMA DrainKeeps == ASSUME AudioInv, DrainDecoder PROVE AudioInv'
<1> USE DEF DrainDecoder
<1>1. Opened' /\ Saved' /\ Decoding' /\ Filled'
  BY DEF AudioInv, Opened, Saved, Decoding, Filled, opened, python
<1>2. sample_rate' # -1 => Given'
  BY NothingGiven DEF AudioInv, python
<1> QED BY <1>1, <1>2 DEF AudioInv

\* The first channel that was decoded.
LEMMA FirstChannel == ASSUME AudioInv, step \in {"array", "pad", "read"}
  PROVE  /\ NumSamplesPerChannel \in Nat /\ numChannels \in Nat \ {0} /\ padding = stream.start
         /\ outputVector[1] = Heard(0, NumSamplesPerChannel)
<1>1. PICK n \in Nat : outputVector = [c \in 1 .. numChannels |-> Heard(c - 1, n)]
  BY DEF AudioInv, Decoding, Saved
<1>2. numChannels \in Nat \ {0} /\ padding = stream.start
  BY Types DEF AudioInv, Decoding, Saved
<1>3. outputVector[1] = Heard(0, n)
  <2> DEFINE g(c) == Heard(c - 1, n)
  <2>1. outputVector = [c \in 1 .. numChannels |-> g(c)]
    BY <1>1
  <2>2. g(1) = Heard(0, n)
    OBVIOUS
  <2> HIDE DEF g
  <2>3. 1 \in 1 .. numChannels
    BY <1>2
  <2> QED BY <2>1, <2>2, <2>3
<1>4. Len(Heard(0, n)) = n
  BY DEF Heard
<1> QED BY <1>2, <1>3, <1>4 DEF NumSamplesPerChannel

\* The array of one channel is what was decoded.
LEMMA ArrayKeeps == ASSUME AudioInv, ToNDArray PROVE AudioInv'
<1> USE DEF ToNDArray
<1>1. Opened' /\ Saved' /\ Decoding'
  BY DEF AudioInv, Opened, Saved, Decoding, opened
<1> DEFINE n == NumSamplesPerChannel
           line == [s \in 1 .. n |-> SampleAt(0, s - 1, n)]
<1>2. n \in Nat /\ numChannels \in Nat \ {0} /\ outputVector[1] = Heard(0, n)
  BY FirstChannel
<1>3. array'[1] = line /\ n' = n /\ numChannels' = numChannels
  <2> DEFINE g(c) == [s \in 1 .. n |-> SampleAt(c - 1, s - 1, n)]
  <2>1. array' = [c \in 1 .. numChannels |-> g(c)]
    BY DEF NumSamplesPerChannel
  <2>2. g(1) = line
    OBVIOUS
  <2> HIDE DEF g, line
  <2>3. 1 \in 1 .. numChannels
    BY <1>2
  <2>4. array'[1] = line
    BY <2>1, <2>2, <2>3
  <2> QED BY <2>4 DEF NumSamplesPerChannel
<1>4. array'[1] = [i \in 1 .. n' |-> array'[1][i]]
  <2> HIDE DEF n
  <2> QED BY <1>3
<1>5. ASSUME numChannels = 1 PROVE line = Heard(0, n)
  <2>1. \A s \in 1 .. n : SampleAt(0, s - 1, n) = <<0, s - 1>>
    <3> SUFFICES ASSUME NEW s \in 1 .. n PROVE SampleAt(0, s - 1, n) = <<0, s - 1>>
      OBVIOUS
    <3>1. s - 1 \in 0 .. n - 1
      BY <1>2
    <3> HIDE DEF n
    <3> QED BY <1>2, <1>5, <3>1, OneView
  <2> HIDE DEF n
  <2> QED BY <2>1 DEF Heard
<1>6. numChannels' = 1 => array'[1] = Heard(0, n)
  <2> HIDE DEF line
  <2> QED BY <1>3, <1>5
<1>7. numChannels' = 1 => array'[1] = Heard(0, n')
  <2> HIDE DEF n
  <2> QED BY <1>3, <1>6
<1>8. Filled'
  BY <1>4, <1>7 DEF Filled
<1>9. sample_rate' # -1 => Given'
  BY NothingGiven DEF AudioInv
<1> QED BY <1>1, <1>8, <1>9 DEF AudioInv

\* Silence before a channel makes it so much longer.
LEMMA Quiet == ASSUME NEW p \in Nat, NEW n \in Nat, NEW line, line = [i \in 1 .. n |-> line[i]]
  PROVE  /\ Len([i \in 1 .. p |-> Silence] \o line) = p + n
         /\ line = Heard(0, n) => [i \in 1 .. p |-> Silence] \o line = Padded(p, n)
<1> DEFINE S == {Silence} \cup {line[i] : i \in 1 .. n} \cup {<<0, k>> : k \in Nat}
           quiet == [i \in 1 .. p |-> Silence]
           all == quiet \o line
<1>1. quiet \in Seq(S) /\ Len(quiet) = p /\ \A i \in 1 .. p : quiet[i] = Silence
  <2>1. Silence \in S
    OBVIOUS
  <2> HIDE DEF S
  <2> QED BY <2>1
<1>2. line \in Seq(S) /\ Len(line) = n
  <2>1. \A i \in 1 .. n : line[i] \in S
    OBVIOUS
  <2> HIDE DEF S
  <2>2. line \in [1 .. n -> S]
    BY <2>1
  <2> QED BY <2>2, AsSequence
<1>3. /\ all \in Seq(S) /\ Len(all) = p + n
      /\ \A i \in 1 .. p + n : all[i] = IF i <= p THEN quiet[i] ELSE line[i - p]
  <2> HIDE DEF S, quiet
  <2> QED BY <1>1, <1>2, ConcatProperties
<1>4. ASSUME line = Heard(0, n) PROVE all = Padded(p, n)
  <2> DEFINE padded == Padded(p, n)
  <2>1. \A i \in 1 .. p + n : padded[i] = IF i <= p THEN Silence ELSE <<0, i - p - 1>>
    BY DEF Padded
  <2>2. padded \in Seq(S) /\ Len(padded) = p + n
    <3>1. padded = [i \in 1 .. p + n |-> padded[i]]
      BY DEF Padded
    <3>2. \A i \in 1 .. p + n : padded[i] \in S
      <4> SUFFICES ASSUME NEW i \in 1 .. p + n PROVE padded[i] \in S
        OBVIOUS
      <4>1. CASE i <= p
        BY <2>1, <4>1
      <4>2. CASE ~(i <= p)
        <5>1. i - p - 1 \in Nat
          BY <4>2
        <5> HIDE DEF padded
        <5> QED BY <2>1, <4>2, <5>1
      <4> QED BY <4>1, <4>2
    <3> HIDE DEF S, padded
    <3>3. padded \in [1 .. p + n -> S]
      BY <3>1, <3>2
    <3> QED BY <3>3, AsSequence
  <2>3. \A i \in 1 .. p + n : all[i] = padded[i]
    <3> SUFFICES ASSUME NEW i \in 1 .. p + n PROVE all[i] = padded[i]
      OBVIOUS
    <3> HIDE DEF all, quiet, padded
    <3>1. CASE i <= p
      <4>1. i \in 1 .. p
        BY <3>1
      <4> QED BY <1>1, <1>3, <2>1, <3>1, <4>1
    <3>2. CASE ~(i <= p)
      <4>1. i - p \in 1 .. n
        BY <3>2
      <4>2. line[i - p] = <<0, i - p - 1>>
        BY <1>4, <4>1 DEF Heard
      <4> QED BY <1>3, <2>1, <3>2, <4>2
    <3> QED BY <3>1, <3>2
  <2> HIDE DEF all, padded, S
  <2>4. all = padded
    BY <1>3, <2>2, <2>3, SeqEqual
  <2> QED BY <2>4 DEF padded
<1> HIDE DEF all
<1>5. Len(all) = p + n /\ (line = Heard(0, n) => all = Padded(p, n))
  BY <1>3, <1>4
<1> QED BY <1>5 DEF all

\* Silence comes before it, up to the start of the stream.
LEMMA PaddingKeeps == ASSUME AudioInv, AddPadding PROVE AudioInv'
<1> USE DEF AddPadding
<1>1. Opened' /\ Saved' /\ Decoding'
  BY DEF AudioInv, Opened, Saved, Decoding, opened
<1> DEFINE n == NumSamplesPerChannel
<1>2. n \in Nat /\ numChannels \in Nat \ {0} /\ padding = stream.start
  BY FirstChannel
<1>3. PICK p \in GetNumPaddingSamples : array' = [c \in 1 .. numChannels |-> [i \in 1 .. p |-> Silence] \o array[c]]
  OBVIOUS
<1>4. /\ p \in Nat
      /\ (p - 1) * Second <= stream.start * targetSampleRate /\ stream.start * targetSampleRate <= p * Second
  BY <1>2, PaddingFacts DEF AudioInv
<1> DEFINE line == array[1]
<1>5. line = [i \in 1 .. n |-> line[i]] /\ (numChannels = 1 => line = Heard(0, n))
  BY DEF AudioInv, Filled
<1>6. array'[1] = [i \in 1 .. p |-> Silence] \o line
  <2>1. 1 \in 1 .. numChannels
    BY <1>2
  <2> QED BY <1>3, <2>1
<1> HIDE DEF n, line
<1>7. Len(array'[1]) = p + n /\ (numChannels = 1 => array'[1] = Padded(p, n))
  BY <1>2, <1>4, <1>5, <1>6, Quiet
<1>8. n' = n /\ Padding' = p /\ numChannels' = numChannels
  <2>1. NumSamplesPerChannel' = NumSamplesPerChannel
    BY DEF NumSamplesPerChannel
  <2> DEFINE l == Len(array'[1])
  <2>2. l = p + n
    BY <1>7
  <2> HIDE DEF l
  <2>3. l - n = p
    BY <1>2, <1>4, <2>2
  <2>4. Padding' = l - n
    BY <2>1 DEF Padding, l, n
  <2> QED BY <2>1, <2>3, <2>4 DEF n
<1>9. StartsOnTime'
  <2>1. stream' = stream /\ targetSampleRate' = targetSampleRate
    BY DEF opened, targetSampleRate
  <2> QED BY <1>4, <1>8, <2>1 DEF StartsOnTime
<1>10. Filled'
  <2>1. numChannels' = 1 => array'[1] = Padded(Padding', NumSamplesPerChannel')
    BY <1>7, <1>8 DEF n
  <2>2. Padding' \in Nat
    BY <1>4, <1>8
  <2> QED BY <1>9, <2>1, <2>2 DEF Filled, Padded
<1>11. sample_rate' # -1 => Given'
  BY NothingGiven DEF AudioInv
<1> QED BY <1>1, <1>10, <1>11 DEF AudioInv

\* What reading leaves as it is.
Fixed == <<opened, step, packets, decoder, outputVector, numChannels, padding, array>>
LEMMA Reading == ASSUME AudioInv, UNCHANGED Fixed
  PROVE  /\ Opened' /\ Saved' /\ Decoding' /\ Filled'
         /\ Indices' = Indices /\ Slices' = Slices /\ Heards' = Heards /\ sample_rate' = sample_rate
         /\ \A from, to : GetSlice(from, to)' = GetSlice(from, to)
         /\ \A t, i : FirstSince(t, i)' <=> FirstSince(t, i)
<1> USE DEF Fixed, opened
<1>1. Opened' /\ Saved' /\ Decoding'
  BY DEF AudioInv, Opened, Saved, Decoding
<1>2. NumSamplesPerChannel' = NumSamplesPerChannel /\ targetSampleRate' = targetSampleRate
  BY DEF NumSamplesPerChannel, targetSampleRate
<1>3. Filled'
  <2>1. Padding' = Padding /\ (StartsOnTime' <=> StartsOnTime)
    BY <1>2 DEF Padding, StartsOnTime
  <2> QED BY <1>2, <2>1 DEF AudioInv, Filled
<1>4. \A from, to : GetSlice(from, to)' = GetSlice(from, to)
  BY <1>2 DEF GetSlice, SliceIndex
<1>5. Indices' = Indices /\ Slices' = Slices
  BY <1>4 DEF Indices, Slices
<1>6. Heards' = Heards
  BY <1>5 DEF Heards
<1>7. \A t, i : FirstSince(t, i)' <=> FirstSince(t, i)
  BY <1>2 DEF FirstSince, Nearly
<1> QED BY <1>1, <1>3, <1>4, <1>5, <1>6, <1>7

\* A batch is asked for.
LEMMA BatchKeeps == ASSUME AudioInv, GetBatch PROVE AudioInv'
<1> USE DEF GetBatch
<1>1. Opened' /\ Saved' /\ Decoding' /\ Filled' /\ Indices' = Indices /\ audio' = <<>> /\ prev' = NoPrev /\ step' = "read"
  BY Reading DEF Fixed
<1>2. wanted' \in Seq(Indices)
  <2>1. PICK n \in 1 .. 3 : wanted' \in [1 .. n -> 0 .. Len(video) - 1]
    OBVIOUS
  <2> QED BY <2>1 DEF Indices
<1>3. DOMAIN audio' = {} /\ audio' \in Seq(Heards')
  BY <1>1
<1>4. Given'
  BY <1>1, <1>2, <1>3 DEF Given
<1> QED BY <1>1, <1>4 DEF AudioInv

\* The lesser of two numbers.
LEMMA Lesser == ASSUME NEW a \in Nat, NEW b \in Nat
  PROVE  Min({a, b}) = IF a <= b THEN a ELSE b
<1> DEFINE m == IF a <= b THEN a ELSE b
<1>1. m \in {a, b} /\ \A y \in {a, b} : m <= y
  OBVIOUS
<1>2. \A x \in {a, b} : (\A y \in {a, b} : x <= y) => x = m
  OBVIOUS
<1> HIDE DEF m
<1>3. Min({a, b}) = m
  BY <1>1, <1>2 DEF Min
<1> QED BY <1>3 DEF m

\* A slice between numbers from zero is cut at the last sample that is known.
LEMMA SliceIsCut == ASSUME NEW from \in Nat, NEW to \in Nat
  PROVE  GetSlice(from, to) = [c \in 1 .. numChannels |-> SubSeq(array[c], Cut(from) + 1, Cut(to))]
<1>1. SliceIndex(from) = Cut(from) /\ SliceIndex(to) = Cut(to)
  BY DEF SliceIndex, Cut
<1> QED BY <1>1 DEF GetSlice

\* A slice of the one channel is what sounds in its time.
LEMMA Slice ==
  ASSUME NEW n \in Nat, NumSamplesPerChannel = n, Padding \in Nat, array[1] = Padded(Padding, n),
         NEW from \in Nat, NEW to \in Nat
  PROVE  SubSeq(array[1], Cut(from) + 1, Cut(to)) = [i \in 1 .. Cut(to) - Cut(from) |-> Sound(0, Cut(from) + i - 1)]
<1> DEFINE S == {-1, 0} \X Nat
           p == Padding
           low == Cut(from)
           high == Cut(to)
           line == Padded(p, n)
           s == SubSeq(line, low + 1, high)
           sound == [i \in 1 .. high - low |-> Sound(0, low + i - 1)]
<1>1. low \in Nat /\ high \in Nat /\ low <= n /\ high <= n /\ p \in Nat
  BY Lesser DEF Cut
<1>2. \A i \in 1 .. p + n : line[i] = IF i <= p THEN Silence ELSE <<0, i - p - 1>>
  BY DEF Padded
<1>3. \A i \in 1 .. p + n : line[i] \in S
  <2> SUFFICES ASSUME NEW i \in 1 .. p + n PROVE line[i] \in S
    OBVIOUS
  <2> HIDE DEF line, p
  <2>1. CASE i <= p
    <3>1. Silence \in S
      BY DEF Silence
    <3> HIDE DEF S
    <3> QED BY <1>2, <2>1, <3>1
  <2>2. CASE ~(i <= p)
    <3>1. i - p - 1 \in Nat
      BY <1>1, <2>2
    <3>2. <<0, i - p - 1>> \in S
      BY <3>1
    <3> HIDE DEF S
    <3> QED BY <1>2, <2>2, <3>2
  <2> QED BY <2>1, <2>2
<1> HIDE DEF S, low, high, line, p
<1>4. \A i \in low + 1 .. high : line[i] \in S
  <2>1. \A i \in low + 1 .. high : i \in 1 .. p + n
    BY <1>1
  <2> QED BY <1>3, <2>1
<1>5. /\ s \in Seq(S)
      /\ Len(s) = IF low + 1 <= high THEN high - (low + 1) + 1 ELSE 0
      /\ \A i \in 1 .. high - (low + 1) + 1 : s[i] = line[low + 1 + i - 1]
  BY <1>1, <1>4, SubSeqProperties
<1> HIDE DEF s
<1>6. s = sound
  <2>1. CASE low >= high
    <3>1. Len(s) = 0 /\ 1 .. high - low = {}
      BY <1>1, <1>5, <2>1
    <3>2. s = <<>>
      BY <1>5, <3>1, EmptySeq
    <3>3. sound = <<>>
      BY <3>1
    <3> QED BY <3>2, <3>3
  <2>2. CASE low < high
    <3>1. Len(s) = high - low /\ high - (low + 1) + 1 = high - low
      BY <1>1, <1>5, <2>2
    <3>2. \A i \in 1 .. high - low : s[i] = Sound(0, low + i - 1)
      <4> SUFFICES ASSUME NEW i \in 1 .. high - low PROVE s[i] = Sound(0, low + i - 1)
        OBVIOUS
      <4>1. low + 1 + i - 1 = low + i /\ low + i \in 1 .. p + n
        BY <1>1
      <4>2. s[i] = line[low + i]
        BY <1>5, <3>1, <4>1
      <4> DEFINE j == low + i
                 h == low + i - 1
      <4>3. line[j] = IF j <= p THEN Silence ELSE <<0, j - p - 1>>
        <5>1. j \in 1 .. p + n
          BY <4>1
        <5> HIDE DEF j
        <5> QED BY <1>2, <5>1
      <4>4. Sound(0, h) = IF h < p THEN Silence ELSE <<0, h - p>>
        <5> HIDE DEF h
        <5> QED BY Zenon DEF Sound, p
      <4>5. (j <= p <=> h < p) /\ j - p - 1 = h - p
        BY <1>1
      <4>6. s[i] = line[j]
        BY <4>2
      <4> HIDE DEF j, h
      <4>7. s[i] = Sound(0, h)
        BY <4>3, <4>4, <4>5, <4>6
      <4> QED BY <4>7 DEF h
    <3>3. DOMAIN s = 1 .. high - low /\ s = [i \in DOMAIN s |-> s[i]]
      BY <1>5, <3>1, LenProperties
    <3> QED BY <3>2, <3>3
  <2> QED BY <1>1, <2>1, <2>2
<1>7. SubSeq(array[1], low + 1, high) = s
  BY DEF s, line, p
<1> QED BY <1>6, <1>7 DEF sound, low, high

\* A frame is given with its audio, from where the frame before it ended if that was its predecessor.
LEMMA FrameKeeps == ASSUME AudioInv, BatchFrame PROVE AudioInv'
<1>1. UNCHANGED Fixed /\ step = "read" /\ wanted # <<>>
  BY DEF BatchFrame, Fixed
<1>2. /\ Opened' /\ Saved' /\ Decoding' /\ Filled'
      /\ Indices' = Indices /\ Heards' = Heards /\ sample_rate' = sample_rate
      /\ \A f, t : GetSlice(f, t)' = GetSlice(f, t)
      /\ \A t, i : FirstSince(t, i)' <=> FirstSince(t, i)
  BY <1>1, Reading
<1>3. SUFFICES ASSUME sample_rate # -1, Given PROVE Given'
  BY <1>2 DEF AudioInv
<1> DEFINE idx == Head(wanted)
           m == Len(audio)
           old == audio[m]
           goes_on == prev.idx > 0 /\ idx = prev.idx + 1
<1>4. PICK from \in IF goes_on THEN {prev.end} ELSE TimeToSample(video[idx + 1].from),
           to \in TimeToSample(video[idx + 1].to) :
        /\ audio' = Append(audio, [idx |-> idx, from |-> from, to |-> to, samples |-> GetSlice(from, to)])
        /\ prev' = [idx |-> idx, end |-> to]
  BY DEF BatchFrame
<1>5. wanted' = Tail(wanted) /\ video' = video /\ step' = "read"
  BY <1>1 DEF BatchFrame, Fixed, opened
<1> DEFINE new == [idx |-> idx, from |-> from, to |-> to, samples |-> GetSlice(from, to)]
<1>6. /\ wanted \in Seq(Indices) /\ audio \in Seq(Heards) /\ m \in Nat
      /\ \A i \in Indices : i \in Nat /\ video[i + 1].from \in Nat /\ video[i + 1].to \in Nat
  <2>0. Opened
    BY DEF AudioInv
  <2>1. video \in Seq([from : Nat, to : Nat]) /\ wanted \in Seq(Indices) /\ audio \in Seq(Heards)
    <3>1. video \in Seq([from : Nat, to : Nat])
      BY <2>0, Types
    <3>2. wanted \in Seq(Indices) /\ audio \in Seq(Heards)
      BY <1>3 DEF Given
    <3> QED BY <3>1, <3>2
  <2>2. Len(video) \in Nat /\ m \in Nat
    BY <2>1, LenProperties
  <2>3. \A i \in Indices : i \in Nat /\ i + 1 \in 1 .. Len(video)
    BY <2>2 DEF Indices
  <2>4. \A i \in Indices : video[i + 1] \in [from : Nat, to : Nat]
    BY <2>1, <2>3, ElementOfSeq
  <2> QED BY <2>1, <2>2, <2>3, <2>4
<1>7. idx \in Indices /\ Tail(wanted) \in Seq(Indices) /\ idx \in Nat
  <2>1. Head(wanted) \in Indices /\ Tail(wanted) \in Seq(Indices)
    BY <1>1, <1>6, HeadTailProperties
  <2> QED BY <1>6, <2>1
<1>8. (audio # <<>> <=> m > 0) /\ (m > 0 => m \in 1 .. m)
  BY <1>6, EmptySeq
<1>9. m > 0 => old \in Heards /\ prev.idx = old.idx /\ prev.end = old.to
  <2>1. ASSUME m > 0 PROVE old \in Heards
    <3> HIDE DEF m
    <3>1. m \in 1 .. m
      BY <1>8, <2>1
    <3> QED BY <1>6, <3>1, ElementOfSeq DEF m
  <2>2. audio # <<>> => prev = [idx |-> old.idx, end |-> old.to]
    BY <1>3 DEF Given
  <2> HIDE DEF old, m
  <2> QED BY <1>8, <2>1, <2>2
<1>10. m = 0 => prev.idx = -1
  <2>1. audio = <<>> => prev = NoPrev
    BY <1>3 DEF Given
  <2>2. NoPrev.idx = -1
    BY DEF NoPrev
  <2> HIDE DEF m
  <2> QED BY <1>6, <1>8, <2>1, <2>2
<1>11. goes_on <=> m > 0 /\ idx = old.idx + 1 /\ old.idx > 0
  <2> HIDE DEF idx, old, m
  <2>1. m \in Nat
    BY <1>6
  <2> QED BY <1>9, <1>10, <2>1
<1>12. to \in Nat /\ FirstSince(video[idx + 1].to, to)
  <2> HIDE DEF idx
  <2> QED BY <1>3, <1>4, <1>6, <1>7, TimeFacts DEF AudioInv
<1>14. from \in Nat /\ IF goes_on THEN from = old.to ELSE FirstSince(video[idx + 1].from, from)
  <2>1. CASE goes_on
    <3> HIDE DEF goes_on, old, m, idx
    <3>1. from = prev.end
      BY <1>4, <2>1
    <3>2. old \in Heards /\ prev.end = old.to
      BY <1>9, <1>11, <2>1
    <3>3. old.to \in Nat
      BY <3>2 DEF Heards
    <3> QED BY <2>1, <3>1, <3>2, <3>3
  <2>2. CASE ~goes_on
    <3>1. from \in TimeToSample(video[idx + 1].from)
      BY <1>4, <2>2
    <3> HIDE DEF idx, goes_on
    <3> QED BY <1>3, <1>6, <1>7, <2>2, <3>1, TimeFacts DEF AudioInv
  <2> QED BY <2>1, <2>2
<1>15. new \in Heards /\ new.idx = idx /\ new.from = from /\ new.to = to /\ new.samples = GetSlice(from, to)
  <2>1. GetSlice(from, to) \in Slices
    BY <1>12, <1>14 DEF Slices
  <2> HIDE DEF idx
  <2> QED BY <1>7, <1>12, <1>14, <2>1 DEF Heards
<1>16. audio' = Append(audio, new)
  BY <1>4
<1> HIDE DEF new
<1>17. /\ audio' \in Seq(Heards) /\ Len(audio') = m + 1 /\ audio' # <<>> /\ DOMAIN audio' = 1 .. m + 1
       /\ audio'[m + 1] = new /\ \A k \in 1 .. m : audio'[k] = audio[k]
  <2>1. /\ audio' \in Seq(Heards) /\ Len(audio') = m + 1 /\ audio' # <<>>
        /\ audio'[m + 1] = new /\ \A k \in 1 .. m : audio'[k] = audio[k]
    BY <1>6, <1>15, <1>16, AppendFacts
  <2> QED BY <2>1
<1>18. \A k \in DOMAIN audio' : Timely(k)' /\ audio'[k].samples = GetSlice(audio'[k].from, audio'[k].to)
  <2> SUFFICES ASSUME NEW k \in 1 .. m + 1
               PROVE  Timely(k)' /\ audio'[k].samples = GetSlice(audio'[k].from, audio'[k].to)
    BY <1>17
  <2>1. k \in Nat /\ m \in Nat
    BY <1>6
  <2>2. CASE k = m + 1
    <3>1. audio'[k] = new
      BY <1>17, <2>2
    <3>2. k > 1 <=> m > 0
      <4> HIDE DEF m
      <4> QED BY <2>1, <2>2
    <3>3. m > 0 => audio'[k - 1] = old
      <4>1. k - 1 = m
        BY <2>1, <2>2
      <4> QED BY <1>8, <1>17, <4>1
    <3>4. Follows(k)' <=> m > 0 /\ idx = old.idx + 1
      <4>1. Follows(k)' <=> k > 1 /\ audio'[k].idx = audio'[k - 1].idx + 1
        BY DEF Follows
      <4> HIDE DEF idx, old, m
      <4> QED BY <1>15, <3>1, <3>2, <3>3, <4>1
    <3>5. Follows(k)' /\ audio'[k - 1].idx > 0 <=> goes_on
      <4> HIDE DEF idx, old, m, goes_on
      <4> QED BY <1>11, <3>3, <3>4
    <3>6. IF goes_on THEN audio'[k].from = audio'[k - 1].to ELSE FirstSince(video[audio'[k].idx + 1].from, audio'[k].from)
      <4> HIDE DEF idx, old, m, goes_on
      <4> QED BY <1>11, <1>14, <1>15, <3>1, <3>3
    <3>7. FirstSince(video[audio'[k].idx + 1].to, audio'[k].to)
      <4> HIDE DEF idx
      <4> QED BY <1>12, <1>15, <3>1
    <3>8. Timely(k)'
      <4> HIDE DEF idx, old, m, goes_on
      <4> QED BY <1>2, <1>5, <3>5, <3>6, <3>7 DEF Timely
    <3> QED BY <1>15, <3>1, <3>8
  <2>3. CASE k # m + 1
    <3>1. k \in 1 .. m /\ k \in DOMAIN audio /\ (k > 1 => k - 1 \in 1 .. m)
      <4>1. DOMAIN audio = 1 .. m
        BY <1>6
      <4> HIDE DEF m
      <4> QED BY <2>1, <2>3, <4>1
    <3>2. audio'[k] = audio[k] /\ (k > 1 => audio'[k - 1] = audio[k - 1])
      BY <1>17, <3>1
    <3>3. Timely(k) /\ audio[k].samples = GetSlice(audio[k].from, audio[k].to)
      BY <1>3, <3>1 DEF Given
    <3>4. (Follows(k)' <=> Follows(k)) /\ (Follows(k) => audio'[k - 1] = audio[k - 1])
      BY <3>2 DEF Follows
    <3>5. Timely(k)'
      BY <1>2, <1>5, <3>2, <3>3, <3>4 DEF Timely
    <3> QED BY <3>2, <3>3, <3>5
  <2> QED BY <2>2, <2>3
<1>19. \A k \in DOMAIN audio' : (Timely(k) /\ audio[k].samples = GetSlice(audio[k].from, audio[k].to))'
  <2>1. \A k : (GetSlice(audio[k].from, audio[k].to))' = GetSlice(audio'[k].from, audio'[k].to)
    <3>1. NumSamplesPerChannel' = NumSamplesPerChannel /\ array' = array /\ numChannels' = numChannels
      BY <1>1 DEF Fixed, NumSamplesPerChannel
    <3> QED BY <3>1 DEF GetSlice, SliceIndex
  <2> QED BY <1>18, <2>1
<1>20. prev' = [idx |-> audio'[Len(audio')].idx, end |-> audio'[Len(audio')].to]
  BY <1>4, <1>15, <1>17
<1>21. wanted' \in Seq(Indices') /\ audio' \in Seq(Heards')
  BY <1>2, <1>5, <1>7, <1>17
<1> QED BY <1>5, <1>17, <1>19, <1>20, <1>21 DEF Given

\* A step that changes nothing.
LEMMA SameAudio == ASSUME AudioInv, UNCHANGED audioVars PROVE AudioInv'
<1>1. UNCHANGED Fixed /\ UNCHANGED <<wanted, audio, prev, step, video>>
  BY DEF audioVars, Fixed, opened
<1>2. /\ Opened' /\ Saved' /\ Decoding' /\ Filled'
      /\ Indices' = Indices /\ Heards' = Heards /\ sample_rate' = sample_rate
      /\ \A f, t : GetSlice(f, t)' = GetSlice(f, t)
      /\ \A t, i : FirstSince(t, i)' <=> FirstSince(t, i)
  BY <1>1, Reading
<1>3. \A k : Timely(k)' <=> Timely(k)
  BY <1>1, <1>2 DEF Timely, Follows
<1>4. Given => Given'
  BY <1>1, <1>2, <1>3 DEF Given
<1> QED BY <1>2, <1>4 DEF AudioInv

LEMMA AudioInvariance == AudioSpec => []AudioInv
<1>1. AudioInv /\ [AudioNext]_audioVars => AudioInv'
  <2> SUFFICES ASSUME AudioInv, [AudioNext]_audioVars PROVE AudioInv'
    OBVIOUS
  <2>1. CASE AudioNext
    BY <2>1, DecodeKeeps, HandleKeeps, DrainKeeps, ArrayKeeps, PaddingKeeps, BatchKeeps, FrameKeeps DEF AudioNext
  <2> QED BY <2>1, SameAudio
<1> QED BY <1>1, AudioInitially, PTL DEF AudioSpec

\* Audio is given once the array is read.
LEMMA OnceRead == ASSUME AudioInv, sample_rate # -1, audio # <<>>
  PROVE  /\ step = "read" /\ Given /\ StartsOnTime
         /\ \A k \in DOMAIN audio : audio[k].from \in Nat /\ audio[k].to \in Nat
<1>1. Given /\ step = "read"
  BY DEF AudioInv, Given
<1>2. \A k \in DOMAIN audio : audio[k] \in Heards
  <2>1. audio \in Seq(Heards)
    BY <1>1 DEF Given
  <2> QED BY <2>1, ElementOfSeq
<1> QED BY <1>1, <1>2 DEF AudioInv, Filled, Heards

\* What is given is cut in time.
LEMMA IsCutInTime == ASSUME AudioInv, sample_rate # -1 PROVE CutInTime
<1> SUFFICES ASSUME audio # <<>>, NEW k \in DOMAIN audio
             PROVE  /\ StartsOnTime /\ Timely(k)
                    /\ audio[k].samples = [c \in 1 .. numChannels |-> SubSeq(array[c], Cut(audio[k].from) + 1, Cut(audio[k].to))]
  <2>1. audio # <<>> => StartsOnTime
    BY OnceRead
  <2> QED BY <2>1 DEF CutInTime
<1>1. Given /\ StartsOnTime /\ audio[k].from \in Nat /\ audio[k].to \in Nat
  BY OnceRead
<1>2. Timely(k) /\ audio[k].samples = GetSlice(audio[k].from, audio[k].to)
  BY <1>1 DEF Given
<1> QED BY <1>1, <1>2, SliceIsCut

\* With one channel that is what sounds.
LEMMA OneMatches == ASSUME AudioInv, sample_rate # -1, numChannels = 1 PROVE AudioMatchesFrames
<1> SUFFICES ASSUME audio # <<>>, NEW k \in DOMAIN audio
             PROVE  audio[k].samples[1] =
                      [i \in 1 .. Cut(audio[k].to) - Cut(audio[k].from) |-> Sound(0, Cut(audio[k].from) + i - 1)]
  <2>1. CutInTime
    BY IsCutInTime
  <2>2. \A c \in 1 .. numChannels : c = 1 /\ c - 1 = 0
    OBVIOUS
  <2>3. audio # <<>> => StartsOnTime /\ \A k \in DOMAIN audio : Timely(k)
    BY <2>1 DEF CutInTime
  <2> QED BY <2>2, <2>3 DEF AudioMatchesFrames
<1>1. step = "read" /\ audio[k].from \in Nat /\ audio[k].to \in Nat
  BY OnceRead
<1> DEFINE n == NumSamplesPerChannel
           from == audio[k].from
           to == audio[k].to
           g(c) == SubSeq(array[c], Cut(from) + 1, Cut(to))
<1>2. n \in Nat /\ Padding \in Nat /\ array[1] = Padded(Padding, n)
  BY <1>1, FirstChannel DEF AudioInv, Filled
<1>3. audio[k].samples[1] = g(1)
  <2>1. audio[k].samples = [c \in 1 .. numChannels |-> g(c)]
    BY IsCutInTime DEF CutInTime
  <2> HIDE DEF g
  <2>2. 1 \in 1 .. numChannels
    OBVIOUS
  <2> QED BY <2>1, <2>2
<1> HIDE DEF n, from, to
<1>4. g(1) = [i \in 1 .. Cut(to) - Cut(from) |-> Sound(0, Cut(from) + i - 1)]
  BY <1>1, <1>2, Slice DEF from, to, n
<1> QED BY <1>3, <1>4 DEF from, to

\* In every state the audio given with a frame is cut from the array of samples between the places that
\* the frame's beginning, or the end of the frame before it, and its end are converted to, for however
\* many channels, whatever the resampler and rounding do (AVReader.get_batch, AudioReader.add_padding,
\* AudioReader._time_to_sample). A rate must be asked for, as Python converts with the one it was given.
THEOREM CutTheorem == AudioSpec => [](sample_rate # -1 => CutInTime)
<1>1. AudioInv => (sample_rate # -1 => CutInTime)
  BY IsCutInTime
<1> QED BY <1>1, AudioInvariance, PTL

\* With one channel, kept or mixed, it is what sounds meanwhile: silence until the stream starts, and its
\* samples in their order. Of more the array itself is wrong, as they overwrite each other (ToNDArray).
THEOREM AudioTheorem == AudioSpec => [](sample_rate # -1 /\ numChannels = 1 => AudioMatchesFrames)
<1>1. AudioInv => (sample_rate # -1 /\ numChannels = 1 => AudioMatchesFrames)
  BY OneMatches
<1> QED BY <1>1, AudioInvariance, PTL

----------------------------------------------------------------------------
(* ClipDataset *)

\* The frames a sample is made of.
ClipTypes ==
  /\ dataset \in Datasets /\ duration \in Durations /\ frame \in Frames
ClipLength ==
  IF dataset.slowfast THEN dataset.length \div dataset.fast + dataset.length \div dataset.slow ELSE dataset.length
Ids == 0 .. duration - 1
Sampled ==
  /\ offsets \in [Segments -> 1 .. duration]
  /\ skip_offsets \in [1 .. dataset.length -> Nat]

\* What a dataset and its frames are.
LEMMA ClipParts == ASSUME ClipTypes
  PROVE  /\ dataset.mode \in {"train", "val", "test"} /\ dataset.jitter \in BOOLEAN /\ dataset.slowfast \in BOOLEAN
         /\ dataset.segments \in Nat /\ dataset.segments > 0 /\ dataset.length \in Nat /\ dataset.length > 0
         /\ dataset.step \in Nat /\ dataset.step > 0 /\ dataset.slow \in Nat /\ dataset.slow > 0
         /\ dataset.fast \in Nat /\ dataset.fast > 0 /\ dataset.crops \in Nat /\ dataset.crops > 0
         /\ duration \in Nat /\ duration > 0 /\ frame \in [h : Nat, w : Nat]
         /\ Target \in [h : Nat, w : Nat] /\ Target.h > 0 /\ Target.w > 0 /\ Ratios \in Seq(Nat)
<1>1. /\ dataset.mode \in {"train", "val", "test"} /\ dataset.jitter \in BOOLEAN /\ dataset.slowfast \in BOOLEAN
      /\ {dataset.segments, dataset.length, dataset.step, dataset.slow, dataset.fast, dataset.crops} \subseteq Nat \ {0}
  <2>1. dataset \in Datasets
    BY DEF ClipTypes
  <2> QED BY <2>1, ClipsAssumption DEF ClipsAssumption
<1>2. duration \in Nat \ {0} /\ frame \in [h : Nat, w : Nat]
  <2>1. duration \in Durations /\ frame \in Frames
    BY DEF ClipTypes
  <2> QED BY <2>1, ClipsAssumption DEF ClipsAssumption
<1>3. Target \in [h : Nat \ {0}, w : Nat \ {0}] /\ Ratios \in Seq(Nat)
  BY ClipsAssumption DEF ClipsAssumption
<1>4. Target \in [h : Nat, w : Nat] /\ Target.h > 0 /\ Target.w > 0
  BY <1>3
<1>5. \A n \in Nat \ {0} : n \in Nat /\ n > 0
  OBVIOUS
<1>6. /\ dataset.segments \in Nat \ {0} /\ dataset.length \in Nat \ {0} /\ dataset.step \in Nat \ {0}
      /\ dataset.slow \in Nat \ {0} /\ dataset.fast \in Nat \ {0} /\ dataset.crops \in Nat \ {0}
  BY <1>1
<1> QED BY <1>1, <1>2, <1>3, <1>4, <1>5, <1>6

\* The first frames of the steps of a segment, in a video of some length.
StepsFrom(n, first, by, all, f) ==
  f = [i \in 1 .. n |->
        IF i = 1 THEN first
        ELSE IF f[i - 1] + by < all THEN f[i - 1] + by ELSE f[i - 1]]

\* There is such a function, however long the segment.
LEMMA StepsExist == ASSUME NEW n \in Nat \ {0}, NEW first, NEW by, NEW all
  PROVE  \E f : StepsFrom(n, first, by, all, f)
<1> DEFINE T == {m \in 1 .. n : \E f : StepsFrom(m, first, by, all, f)}
<1>1. 1 \in T
  <2>1. StepsFrom(1, first, by, all, [i \in 1 .. 1 |-> first])
    BY DEF StepsFrom
  <2> QED BY <2>1
<1>2. ASSUME NEW m \in 1 .. n - 1, m \in T PROVE m + 1 \in T
  <2>1. PICK f : StepsFrom(m, first, by, all, f)
    BY <1>2
  <2> DEFINE next == IF f[m] + by < all THEN f[m] + by ELSE f[m]
             g == [i \in 1 .. m + 1 |-> IF i = m + 1 THEN next ELSE f[i]]
             h(i) == IF i = 1 THEN first ELSE IF g[i - 1] + by < all THEN g[i - 1] + by ELSE g[i - 1]
  <2>2. \A i \in 1 .. m : f[i] = IF i = 1 THEN first ELSE IF f[i - 1] + by < all THEN f[i - 1] + by ELSE f[i - 1]
    BY <2>1 DEF StepsFrom
  <2>3. \A i \in 1 .. m + 1 : g[i] = h(i)
    <3> SUFFICES ASSUME NEW i \in 1 .. m + 1 PROVE g[i] = h(i)
      OBVIOUS
    <3>1. CASE i = m + 1
      <4>1. i # 1 /\ i - 1 = m /\ m \in 1 .. m + 1 /\ m # m + 1
        BY <3>1
      <4>2. g[m] = f[m] /\ g[i] = next
        <5> HIDE DEF next
        <5> QED BY <3>1, <4>1
      <4>3. h(i) = next
        BY <4>1, <4>2
      <4> HIDE DEF g, h, next
      <4> QED BY <4>2, <4>3
    <3>2. CASE i # m + 1
      <4>1. i \in 1 .. m /\ g[i] = f[i]
        <5> HIDE DEF next
        <5> QED BY <3>2
      <4>2. i # 1 => g[i - 1] = f[i - 1]
        <5> HIDE DEF next
        <5> QED BY <4>1
      <4> HIDE DEF g, next
      <4> QED BY <2>2, <4>1, <4>2
    <3> QED BY <3>1, <3>2
  <2>4. DOMAIN g = 1 .. m + 1 /\ g = [i \in 1 .. m + 1 |-> g[i]]
    <3> HIDE DEF next
    <3> QED OBVIOUS
  <2> HIDE DEF g
  <2>5. StepsFrom(m + 1, first, by, all, g)
    BY <2>3, <2>4 DEF StepsFrom
  <2>6. m + 1 \in 1 .. n
    OBVIOUS
  <2> QED BY <2>5, <2>6
<1> HIDE DEF T
<1>3. 1 .. n \subseteq T
  BY <1>1, <1>2, Induction
<1>4. n \in T
  BY <1>3
<1> QED BY <1>4 DEF T

\* A segment's frames are the video's.
LEMMA FrameIdsAreIds == ASSUME ClipTypes, Sampled, NEW s \in Segments
  PROVE  FrameIds(s) \in Seq(Ids) /\ Len(FrameIds(s)) = dataset.length
<1> DEFINE n == dataset.length
           f == CHOOSE f : StepsFrom(n, offsets[s], dataset.step, duration, f)
<1>1. n \in Nat \ {0} /\ dataset.step \in Nat /\ duration \in Nat /\ offsets[s] \in 1 .. duration
  BY ClipParts DEF Sampled
<1>2. StepsFrom(n, offsets[s], dataset.step, duration, f)
  <2> HIDE DEF n
  <2> QED BY <1>1, StepsExist
<1>3. FrameIds(s) = [i \in 1 .. n |-> IF f[i] + skip_offsets[i] <= duration THEN f[i] + skip_offsets[i] - 1 ELSE f[i] - 1]
  BY DEF FrameIds, StepsFrom
<1> HIDE DEF f
<1>4. \A i \in 1 .. n : f[i] = IF i = 1 THEN offsets[s]
        ELSE IF f[i - 1] + dataset.step < duration THEN f[i - 1] + dataset.step ELSE f[i - 1]
  BY <1>2 DEF StepsFrom
<1> DEFINE T == {i \in 1 .. n : f[i] \in 1 .. duration}
<1>5. 1 \in T
  BY <1>1, <1>4
<1>6. ASSUME NEW i \in 1 .. n - 1, i \in T PROVE i + 1 \in T
  <2>1. i + 1 \in 1 .. n /\ i + 1 # 1 /\ (i + 1) - 1 = i
    BY <1>1
  <2> HIDE DEF n
  <2>2. f[i + 1] = IF f[i] + dataset.step < duration THEN f[i] + dataset.step ELSE f[i]
    <3>1. f[i + 1] = IF f[(i + 1) - 1] + dataset.step < duration THEN f[(i + 1) - 1] + dataset.step ELSE f[(i + 1) - 1]
      BY <1>4, <2>1, Zenon
    <3> QED BY <2>1, <3>1
  <2>3. f[i] \in 1 .. duration
    BY <1>6
  <2> QED BY <1>1, <2>1, <2>2, <2>3
<1>7. 1 .. n \subseteq T
  <2> HIDE DEF T, n
  <2> QED BY <1>1, <1>5, <1>6, Induction
<1>8. \A i \in 1 .. n : (IF f[i] + skip_offsets[i] <= duration THEN f[i] + skip_offsets[i] - 1 ELSE f[i] - 1) \in Ids
  <2> SUFFICES ASSUME NEW i \in 1 .. n
               PROVE  (IF f[i] + skip_offsets[i] <= duration THEN f[i] + skip_offsets[i] - 1 ELSE f[i] - 1) \in Ids
    OBVIOUS
  <2>1. f[i] \in 1 .. duration /\ skip_offsets[i] \in Nat
    BY <1>7 DEF Sampled
  <2> QED BY <1>1, <2>1 DEF Ids
<1>9. FrameIds(s) \in [1 .. n -> Ids]
  BY <1>3, <1>8
<1> HIDE DEF n
<1>10. FrameIds(s) \in Seq(Ids) /\ Len(FrameIds(s)) = n
  BY <1>1, <1>9
<1> QED BY <1>10 DEF n

\* Every so many of a sequence, as many as fit.
LEMMA EveryOne == ASSUME NEW S, NEW ids \in Seq(S), NEW stride \in Nat, stride > 0
  PROVE  Every(ids, stride) \in Seq(S) /\ Len(Every(ids, stride)) = Len(ids) \div stride /\ Len(ids) \div stride \in Nat
<1> DEFINE n == Len(ids)
           q == n \div stride
           sq == stride * q
<1>1. n \in Nat /\ stride \in Int
  OBVIOUS
<1>2. q \in Int /\ sq <= n /\ n < sq + stride
  <2> HIDE DEF n
  <2> QED BY <1>1, Divided
<1>3. sq \in Int /\ (q < 0 => sq <= -stride)
  <2>1. q < 0 => stride * q <= stride * (-1)
    <3> HIDE DEF q
    <3> QED BY <1>1, <1>2
  <2>2. stride * q \in Int
    <3> HIDE DEF q
    <3> QED BY <1>1, <1>2
  <2> QED BY <2>1, <2>2
<1>4. q \in Nat
  <2> HIDE DEF sq, q, n
  <2> QED BY <1>1, <1>2, <1>3
<1>5. \A k \in 1 .. q : k * stride \in 1 .. n
  <2> SUFFICES ASSUME NEW k \in 1 .. q PROVE k * stride \in 1 .. n
    OBVIOUS
  <2>1. stride * k <= stride * q /\ stride * 1 <= stride * k
    <3> HIDE DEF q
    <3> QED BY <1>1, <1>2
  <2>2. stride * k \in Int /\ k * stride = stride * k /\ k \in Int
    BY <1>1
  <2>3. stride * k <= sq
    BY <2>1
  <2> HIDE DEF sq, q, n
  <2> QED BY <1>1, <1>2, <1>3, <2>1, <2>2, <2>3
<1>6. Every(ids, stride) = [k \in 1 .. q |-> ids[k * stride]]
  BY DEF Every
<1>7. \A k \in 1 .. q : ids[k * stride] \in S
  <2> HIDE DEF q
  <2> QED BY <1>5, ElementOfSeq
<1> HIDE DEF q, sq
<1>8. Every(ids, stride) \in [1 .. q -> S]
  BY <1>6, <1>7
<1>9. Every(ids, stride) \in Seq(S) /\ Len(Every(ids, stride)) = q
  BY <1>4, <1>8
<1> QED BY <1>4, <1>9 DEF q

\* All segments have as many frames, of the video, with SlowFast too.
LEMMA SegmentFramesAreIds == ASSUME ClipTypes, Sampled
  PROVE  ClipLength \in Nat /\ \A s \in Segments : SegmentFrames(s) \in Seq(Ids) /\ Len(SegmentFrames(s)) = ClipLength
<1>0. \A s \in Segments : FrameIds(s) \in Seq(Ids) /\ Len(FrameIds(s)) = dataset.length
  BY FrameIdsAreIds
<1>1. CASE ~dataset.slowfast
  BY <1>0, <1>1, ClipParts DEF SegmentFrames, ClipLength
<1>2. CASE dataset.slowfast
  <2>1. ASSUME NEW s \in Segments
        PROVE  SegmentFrames(s) \in Seq(Ids) /\ Len(SegmentFrames(s)) = ClipLength /\ ClipLength \in Nat
    <3> DEFINE ids == FrameIds(s)
               fast == Every(ids, dataset.fast)
               slow == Every(ids, dataset.slow)
    <3>1. ids \in Seq(Ids) /\ Len(ids) = dataset.length
      BY <1>0
    <3> HIDE DEF ids
    <3>2. /\ fast \in Seq(Ids) /\ Len(fast) = dataset.length \div dataset.fast /\ dataset.length \div dataset.fast \in Nat
          /\ slow \in Seq(Ids) /\ Len(slow) = dataset.length \div dataset.slow /\ dataset.length \div dataset.slow \in Nat
      <4>1. dataset.fast \in Nat /\ dataset.fast > 0 /\ dataset.slow \in Nat /\ dataset.slow > 0
        BY ClipParts
      <4> QED BY <3>1, <4>1, EveryOne
    <3>3. SegmentFrames(s) = fast \o slow
      BY <1>2 DEF SegmentFrames, ids
    <3> HIDE DEF fast, slow
    <3>4. fast \o slow \in Seq(Ids) /\ Len(fast \o slow) = Len(fast) + Len(slow)
      BY <3>2, Joined
    <3>5. ClipLength = Len(fast) + Len(slow)
      BY <1>2, <3>2 DEF ClipLength
    <3>6. Len(fast) + Len(slow) \in Nat
      BY <3>2
    <3> HIDE DEF Ids
    <3> QED BY <3>3, <3>4, <3>5, <3>6
  <2>2. 1 \in Segments
    BY ClipParts DEF Segments
  <2> QED BY <2>1, <2>2
<1> QED BY <1>1, <1>2, ClipParts

\* Every way to choose the first frames stays within the video.
LEMMA OffsetsAreFrames == ASSUME ClipTypes
  PROVE  TrainOffsets \cup ValOffsets \cup TestOffsets \subseteq [Segments -> 1 .. duration]
<1> DEFINE n == dataset.segments
           D == duration - skip_length + 1
           average == D \div n
           na == n * average
<1>1. n \in Nat /\ n > 0 /\ duration \in Nat /\ duration > 0
  BY ClipParts
<1>2. skip_length \in Nat /\ skip_length >= 1
  <2> DEFINE l == dataset.length
             t == dataset.step
  <2>1. l \in Nat /\ l > 0 /\ t \in Nat /\ t > 0
    BY ClipParts
  <2> HIDE DEF l, t
  <2>2. l * t \in Nat /\ l * t >= l * 1
    BY <2>1
  <2> QED BY <2>1, <2>2 DEF skip_length, l, t
<1>3. D \in Int /\ D <= duration
  BY <1>1, <1>2
<1>4. Ones \in [Segments -> 1 .. duration]
  BY <1>1 DEF Ones
<1>5. ASSUME D > 0 PROVE Ticks \in [Segments -> 1 .. duration]
  <2>1. ASSUME NEW s \in Segments PROVE (D * (2 * s - 1)) \div (2 * n) + 1 \in 1 .. duration
    <3> DEFINE m == D * (2 * s - 1)
               w == 2 * n
               q == m \div w
               wq == w * q
    <3>1. s \in Int /\ s >= 1 /\ s <= n /\ w \in Int /\ w > 0
      BY <1>1 DEF Segments
    <3>2. m \in Int /\ m >= 0 /\ m < w * D
      <4> DEFINE o == 2 * s - 1
      <4>1. o \in Int /\ o >= 1 /\ o < w
        BY <1>1, <3>1
      <4> HIDE DEF o, w, D
      <4>2. D * o \in Int /\ D * o >= 0 /\ D * o < w * D
        BY <1>5, <1>3, <3>1, <4>1
      <4> QED BY <4>2 DEF o
    <3> HIDE DEF D
    <3>3. q \in Int /\ wq <= m /\ m < wq + w
      <4> HIDE DEF m, w
      <4> QED BY <3>1, <3>2, Divided
    <3>4. q < 0 => w * q <= w * (-1)
      <4> HIDE DEF q, w
      <4> QED BY <3>1, <3>3
    <3>5. q >= D => w * q >= w * D
      <4> HIDE DEF q, w
      <4> QED BY <1>3, <3>1, <3>3
    <3>6. w * q \in Int /\ w * D \in Int /\ w * (-1) = -w
      <4> HIDE DEF q, w
      <4> QED BY <1>3, <3>1, <3>3
    <3> DEFINE wd == w * D
    <3>7. wd \in Int /\ m < wd /\ (q >= D => wq >= wd) /\ (q < 0 => wq <= -w) /\ wq \in Int
      BY <3>2, <3>4, <3>5, <3>6
    <3> HIDE DEF q, w, m, wq, wd
    <3>8. q >= 0 /\ q < D
      BY <1>3, <3>1, <3>2, <3>3, <3>7
    <3>9. q + 1 \in 1 .. duration
      BY <1>1, <1>3, <3>3, <3>8
    <3> QED BY <3>9 DEF q, m, w
  <2>2. Ticks = [s \in Segments |-> (D * (2 * s - 1)) \div (2 * n) + 1]
    BY DEF Ticks
  <2> HIDE DEF D, n
  <2> QED BY <2>1, <2>2
<1>6. ValOffsets \cup TestOffsets \subseteq [Segments -> 1 .. duration]
  <2>1. duration > n + skip_length - 1 => D > 0
    BY <1>1, <1>2
  <2>2. duration > skip_length - 1 => D > 0
    BY <1>1, <1>2
  <2> HIDE DEF D
  <2>3. ValOffsets \subseteq [Segments -> 1 .. duration]
    BY <1>4, <1>5, <2>1 DEF ValOffsets
  <2>4. TestOffsets \subseteq [Segments -> 1 .. duration]
    BY <1>4, <1>5, <2>2 DEF TestOffsets
  <2> QED BY <2>3, <2>4
<1>7. ASSUME average > 0, NEW r \in [Segments -> 0 .. average - 1]
      PROVE  [s \in Segments |-> (s - 1) * average + r[s] + 1] \in [Segments -> 1 .. duration]
  <2>1. average \in Int /\ na <= D
    <3> HIDE DEF D, n
    <3> QED BY <1>1, <1>3, Divided
  <2>2. ASSUME NEW s \in Segments PROVE (s - 1) * average + r[s] + 1 \in 1 .. duration
    <3>1. s \in Int /\ s >= 1 /\ s <= n
      BY <1>1 DEF Segments
    <3> HIDE DEF average, n
    <3> DEFINE x == (s - 1) * average
    <3>2. x \in Int /\ x >= 0 /\ x + average = s * average /\ s * average <= n * average
      BY <1>1, <1>7, <2>1, <3>1
    <3>3. x + average <= na /\ na \in Int
      BY <1>1, <2>1, <3>1, <3>2
    <3>4. r[s] \in 0 .. average - 1
      BY <1>7
    <3> HIDE DEF x, D, na
    <3>5. x + r[s] + 1 \in 1 .. duration
      BY <1>1, <1>3, <2>1, <3>2, <3>3, <3>4
    <3> QED BY <3>5 DEF x
  <2> HIDE DEF average
  <2> QED BY <2>2
<1>8. TrainOffsets \subseteq [Segments -> 1 .. duration]
  <2>1. CASE average > 0
    <3>1. TrainOffsets = {[s \in Segments |-> (s - 1) * average + r[s] + 1] : r \in [Segments -> 0 .. average - 1]}
      BY <2>1 DEF TrainOffsets
    <3> HIDE DEF average
    <3> QED BY <1>7, <2>1, <3>1
  <2>2. CASE ~(average > 0)
    <3>1. TrainOffsets \subseteq [Segments -> 1 .. D] \cup {Ones}
      BY <2>2 DEF TrainOffsets
    <3>2. 1 .. D \subseteq 1 .. duration
      BY <1>1, <1>3
    <3> HIDE DEF D
    <3> QED BY <1>4, <3>1, <3>2
  <2> QED BY <2>1, <2>2
<1> QED BY <1>6, <1>8

\* Sampling chooses such frames, and a jitter that is not negative.
LEMMA SampleSampled == ASSUME ClipTypes, SampleIndices PROVE Sampled' /\ ClipTypes'
<1>1. UNCHANGED <<dataset, duration, frame>>
  BY DEF SampleIndices
<1>2. ClipTypes' /\ Segments' = Segments
  BY <1>1 DEF ClipTypes, Segments
<1>3. offsets' \in [Segments -> 1 .. duration]
  <2>1. offsets' \in TrainOffsets \cup ValOffsets \cup TestOffsets
    BY ClipParts DEF SampleIndices
  <2> QED BY <2>1, OffsetsAreFrames
<1>4. skip_offsets' \in [1 .. dataset.length -> Nat]
  <2> DEFINE most == IF dataset.jitter THEN dataset.step - 1 ELSE 0
  <2>1. 0 .. most \subseteq Nat
    BY ClipParts
  <2>2. skip_offsets' \in [1 .. dataset.length -> 0 .. most]
    BY DEF SampleIndices
  <2> HIDE DEF most
  <2> QED BY <2>1, <2>2
<1> QED BY <1>1, <1>2, <1>3, <1>4 DEF Sampled

\* The list holds the frames of one segment after another.
ListedBySegment ==
  /\ frame_id_list \in Seq(Ids) /\ Len(frame_id_list) = dataset.segments * ClipLength
  /\ \A s \in Segments, j \in 1 .. ClipLength : frame_id_list[(s - 1) * ClipLength + j] = SegmentFrames(s)[j]

\* Reading lists them segment by segment.
LEMMA ReadLists == ASSUME ClipTypes, Sampled, ReadFrames PROVE ListedBySegment' /\ ClipTypes' /\ Sampled'
<1> DEFINE g == [s \in Segments |-> SegmentFrames(s)]
           n == dataset.segments
<1>1. ClipLength \in Nat /\ \A s \in Segments : SegmentFrames(s) \in Seq(Ids) /\ Len(SegmentFrames(s)) = ClipLength
  BY SegmentFramesAreIds
<1>2. n \in Nat /\ Segments = 1 .. n
  BY ClipParts DEF Segments
<1>3. g \in Seq(Seq(Ids)) /\ Len(g) = n /\ \A i \in 1 .. n : g[i] = SegmentFrames(i) /\ Len(g[i]) = ClipLength
  <2>1. g \in [1 .. n -> Seq(Ids)]
    BY <1>1, <1>2
  <2>2. \A i \in 1 .. n : g[i] = SegmentFrames(i) /\ Len(g[i]) = ClipLength
    BY <1>1, <1>2
  <2> HIDE DEF g, n
  <2> QED BY <1>2, <2>1, <2>2
<1>4. frame_id_list' = FlattenSeq(g)
  BY DEF ReadFrames
<1> HIDE DEF g
<1>5. /\ FlattenSeq(g) \in Seq(Ids) /\ Len(FlattenSeq(g)) = n * ClipLength
      /\ \A i \in 1 .. n, j \in 1 .. ClipLength : FlattenSeq(g)[(i - 1) * ClipLength + j] = g[i][j]
  <2>1. g \in Seq(Seq(Ids)) /\ \A i \in 1 .. Len(g) : Len(g[i]) = ClipLength
    <3> HIDE DEF n
    <3> QED BY <1>3
  <2>2. /\ FlattenSeq(g) \in Seq(Ids) /\ Len(FlattenSeq(g)) = Len(g) * ClipLength
        /\ \A i \in 1 .. Len(g), j \in 1 .. ClipLength : FlattenSeq(g)[(i - 1) * ClipLength + j] = g[i][j]
    BY <1>1, <2>1, Blocks
  <2>3. Len(g) = n
    BY <1>3
  <2> HIDE DEF n
  <2> QED BY <2>2, <2>3
<1>6. UNCHANGED <<dataset, duration, frame, offsets, skip_offsets>>
  BY DEF ReadFrames
<1>7. ClipTypes' /\ Sampled' /\ Segments' = Segments /\ Ids' = Ids /\ ClipLength' = ClipLength
  BY <1>6 DEF ClipTypes, Sampled, Segments, Ids, ClipLength
<1>8. \A s \in Segments : SegmentFrames(s)' = SegmentFrames(s)
  BY <1>6 DEF SegmentFrames, FrameIds
<1>9. /\ frame_id_list' \in Seq(Ids) /\ Len(frame_id_list') = dataset.segments * ClipLength
      /\ \A s \in Segments, j \in 1 .. ClipLength : frame_id_list'[(s - 1) * ClipLength + j] = SegmentFrames(s)[j]
  BY <1>2, <1>3, <1>4, <1>5
<1> QED BY <1>6, <1>7, <1>8, <1>9 DEF ListedBySegment

\* One crop, three or ten are made of each image; and a clip of SlowFast has frames.
Croppings == \A d \in Datasets :
  /\ d.transform \in {"center", "train"} => d.crops = 1
  /\ d.transform = "three" => d.crops = 3
  /\ d.transform = "ten" => d.crops = 10 /\ d.length = 1 /\ ~d.slowfast
  /\ d.slowfast => d.fast <= d.length
\* The frames are as big as the target, and the smallest ratio leaves some of them.
Sizes == \A f \in Frames :
  /\ Target.h <= f.h /\ Target.w <= f.w
  /\ \A i \in DOMAIN Ratios : f.h * Ratios[i] >= 8 /\ f.w * Ratios[i] >= 8

Regions == [y : Int, x : Int, h : Int, w : Int, flip : BOOLEAN]
Fits(r) ==
  /\ r \in Regions
  /\ r.h > 0 /\ r.y >= 0 /\ r.y + r.h <= frame.h
  /\ r.w > 0 /\ r.x >= 0 /\ r.x + r.w <= frame.w
\* A region as big as the target.
Windows == {r \in Regions : Fits(r) /\ Sized(r) = Target}
Images == [id : Ids, region : Regions, size : [h : Nat, w : Nat]]
CutsInto(list, n) ==
  /\ list \in Seq(Images) /\ Len(list) = n * ClipLength
  /\ \A k \in 1 .. n : \E s \in Segments, r \in Regions :
       Fits(r) /\ \A j \in 1 .. ClipLength : list[(k - 1) * ClipLength + j] = Image(SegmentFrames(s)[j], r, Target)

\* A place of a block is one of the whole.
LEMMA Placed == ASSUME NEW a \in Nat, NEW l \in Nat, NEW k \in 1 .. a, NEW j \in 1 .. l
  PROVE  (k - 1) * l + j \in 1 .. a * l
<1>1. (k - 1) * l \in Nat /\ (k - 1) * l + l = k * l /\ k * l <= a * l /\ a * l \in Nat
  OBVIOUS
<1> DEFINE x == (k - 1) * l
           y == a * l
<1>2. x \in Nat /\ y \in Nat /\ x + l <= y
  BY <1>1
<1> HIDE DEF x, y
<1>3. x + j \in 1 .. y
  BY <1>2
<1> QED BY <1>3 DEF x, y

\* All images of the list in one region.
LEMMA InOneRegion ==
  ASSUME ClipTypes, Sampled, ListedBySegment, NEW r, Fits(r)
  PROVE  CutsInto(SameForAll(r, Target), dataset.segments)
<1> DEFINE list == SameForAll(r, Target)
           L == ClipLength
           n == dataset.segments
<1>1. L \in Nat /\ n \in Nat /\ Segments = 1 .. n /\ Target \in [h : Nat, w : Nat] /\ r \in Regions
  BY SegmentFramesAreIds, ClipParts DEF Segments, Fits
<1>2. frame_id_list \in Seq(Ids) /\ Len(frame_id_list) = n * L /\ n * L \in Nat
  BY <1>1 DEF ListedBySegment
<1>3. list = [i \in 1 .. n * L |-> Image(frame_id_list[i], r, Target)]
  BY <1>2 DEF SameForAll
<1> HIDE DEF list, L, n
<1> DEFINE nl == n * L
<1>4. list \in Seq(Images) /\ Len(list) = nl /\ \A i \in 1 .. nl : list[i] = Image(frame_id_list[i], r, Target)
  <2>1. \A i \in 1 .. nl : frame_id_list[i] \in Ids
    BY <1>2, ElementOfSeq
  <2>2. \A i \in 1 .. nl : Image(frame_id_list[i], r, Target) \in Images
    BY <1>1, <2>1 DEF Images, Image
  <2>3. list \in [1 .. nl -> Images]
    BY <1>3, <2>2
  <2>4. \A i \in 1 .. nl : list[i] = Image(frame_id_list[i], r, Target)
    BY <1>3
  <2>5. nl \in Nat
    BY <1>2
  <2> HIDE DEF nl
  <2>6. list \in Seq(Images) /\ Len(list) = nl
    BY <2>3, <2>5
  <2> QED BY <2>4, <2>6
<1>5. ASSUME NEW k \in 1 .. n
      PROVE  \A j \in 1 .. L : list[(k - 1) * L + j] = Image(SegmentFrames(k)[j], r, Target)
  <2> SUFFICES ASSUME NEW j \in 1 .. L PROVE list[(k - 1) * L + j] = Image(SegmentFrames(k)[j], r, Target)
    OBVIOUS
  <2>1. (k - 1) * L + j \in 1 .. nl
    BY <1>1, Placed
  <2>2. frame_id_list[(k - 1) * L + j] = SegmentFrames(k)[j]
    BY <1>1 DEF ListedBySegment, L
  <2> HIDE DEF nl
  <2> QED BY <1>4, <2>1, <2>2
<1> QED BY <1>1, <1>4, <1>5 DEF CutsInto, list, n, L

\* The center is as big as the target and within the frame ...
LEMMA CenterFits == ASSUME ClipTypes, Sizes PROVE Fits(CenterCrop) /\ Sized(CenterCrop) = Target
<1>1. /\ frame \in [h : Nat, w : Nat] /\ Target \in [h : Nat, w : Nat] /\ Target.h > 0 /\ Target.w > 0
      /\ Target.h <= frame.h /\ Target.w <= frame.w
  BY ClipParts DEF Sizes, ClipTypes
<1>2. ASSUME NEW n \in Nat PROVE Halved(n) \in Nat /\ Halved(n) <= n
  BY <1>2 DEF Halved
<1>3. /\ Halved(frame.h - Target.h) \in Nat /\ Halved(frame.h - Target.h) <= frame.h - Target.h
      /\ Halved(frame.w - Target.w) \in Nat /\ Halved(frame.w - Target.w) <= frame.w - Target.w
  <2>1. frame.h - Target.h \in Nat /\ frame.w - Target.w \in Nat
    BY <1>1
  <2> QED BY <1>2, <2>1
<1> QED BY <1>1, <1>3 DEF Fits, CenterCrop, Crop, Region, Regions, Sized

\* ... and so are the thirds ...
LEMMA ThirdsFit == ASSUME ClipTypes, Sizes
  PROVE  DOMAIN Thirds = 1 .. 3 /\ \A k \in 1 .. 3 : Fits(Thirds[k]) /\ Sized(Thirds[k]) = Target
<1>1. /\ frame \in [h : Nat, w : Nat] /\ Target \in [h : Nat, w : Nat] /\ Target.h > 0 /\ Target.w > 0
      /\ Target.h <= frame.h /\ Target.w <= frame.w
  BY ClipParts DEF Sizes, ClipTypes
<1> DEFINE y == IF Target.h = frame.h THEN 0 ELSE (frame.h - Target.h) \div 2
           x == IF Target.h = frame.h THEN (frame.w - Target.w) \div 2 ELSE 0
<1>2. y \in Nat /\ 2 * y <= frame.h - Target.h /\ x \in Nat /\ 2 * x <= frame.w - Target.w
  BY <1>1
<1>3. Thirds = <<Crop(0, 0), Crop(2 * y, 2 * x), Crop(y, x)>>
  BY DEF Thirds
<1> HIDE DEF y, x
<1>4. ASSUME NEW i \in Nat, NEW j \in Nat, i <= frame.h - Target.h, j <= frame.w - Target.w
      PROVE  Fits(Crop(i, j)) /\ Sized(Crop(i, j)) = Target
  BY <1>1, <1>4 DEF Fits, Crop, Region, Regions, Sized
<1>5. Fits(Crop(0, 0)) /\ Sized(Crop(0, 0)) = Target
  BY <1>1, <1>4
<1>6. Fits(Crop(2 * y, 2 * x)) /\ Sized(Crop(2 * y, 2 * x)) = Target
  <2>1. 2 * y \in Nat /\ 2 * x \in Nat
    BY <1>2
  <2> QED BY <1>2, <1>4, <2>1
<1>7. Fits(Crop(y, x)) /\ Sized(Crop(y, x)) = Target
  <2>1. y <= frame.h - Target.h /\ x <= frame.w - Target.w
    BY <1>1, <1>2
  <2> QED BY <1>2, <1>4, <2>1
<1> DEFINE a == Crop(0, 0)
           b == Crop(2 * y, 2 * x)
           c == Crop(y, x)
<1>8. Thirds = <<a, b, c>> /\ Fits(a) /\ Fits(b) /\ Fits(c) /\ Sized(a) = Target /\ Sized(b) = Target /\ Sized(c) = Target
  BY <1>3, <1>5, <1>6, <1>7
<1> HIDE DEF a, b, c
<1>9. DOMAIN Thirds = 1 .. 3
  BY <1>8
<1>10. \A k \in 1 .. 3 : Thirds[k] \in {a, b, c}
  BY <1>8
<1> QED BY <1>8, <1>9, <1>10

\* ... and the ten.
LEMMA TenFit == ASSUME ClipTypes, Sizes
  PROVE  DOMAIN Ten = 1 .. 10 /\ \A k \in 1 .. 10 : Fits(Ten[k]) /\ Sized(Ten[k]) = Target
<1>1. /\ frame \in [h : Nat, w : Nat] /\ Target \in [h : Nat, w : Nat] /\ Target.h > 0 /\ Target.w > 0
      /\ Target.h <= frame.h /\ Target.w <= frame.w
  BY ClipParts DEF Sizes, ClipTypes
<1> DEFINE bottom == frame.h - Target.h
           right == frame.w - Target.w
           five == <<Crop(bottom \div 2, right \div 2), Crop(0, 0), Crop(bottom, 0), Crop(0, right), Crop(bottom, right)>>
           flipped == [k \in 1 .. 5 |-> Flip(five[k])]
<1>2. ASSUME NEW i \in Nat, NEW j \in Nat, i <= bottom, j <= right
      PROVE  Crop(i, j) \in Windows
  <2>1. Fits(Crop(i, j)) /\ Sized(Crop(i, j)) = Target
    BY <1>1, <1>2 DEF Fits, Crop, Region, Regions, Sized
  <2>2. Crop(i, j) \in Regions
    BY <2>1 DEF Fits
  <2> QED BY <2>1, <2>2 DEF Windows
<1>3. bottom \in Nat /\ right \in Nat /\ bottom \div 2 \in Nat /\ right \div 2 \in Nat /\ bottom \div 2 <= bottom /\ right \div 2 <= right
  BY <1>1
<1>4. Ten = five \o flipped
  BY DEF Ten
<1> DEFINE a == Crop(bottom \div 2, right \div 2)
           b == Crop(0, 0)
           c == Crop(bottom, 0)
           d == Crop(0, right)
           e == Crop(bottom, right)
<1>5. five = <<a, b, c, d, e>> /\ a \in Windows /\ b \in Windows /\ c \in Windows /\ d \in Windows /\ e \in Windows
  <2> HIDE DEF bottom, right
  <2> QED BY <1>2, <1>3
<1> HIDE DEF a, b, c, d, e, bottom, right
<1>6. five \in Seq(Windows) /\ Len(five) = 5
  BY <1>5
<1> HIDE DEF five
<1>7. \A r \in Windows : Flip(r) \in Windows
  BY DEF Windows, Flip, Fits, Regions, Sized
<1>8. flipped \in Seq(Windows) /\ Len(flipped) = 5
  <2>1. \A k \in 1 .. 5 : five[k] \in Windows
    BY <1>6, 5 \in Nat, AsFunction
  <2>2. flipped \in [1 .. 5 -> Windows]
    BY <1>7, <2>1
  <2> DEFINE places == 5
  <2>3. flipped \in [1 .. places -> Windows] /\ places \in Nat
    BY <2>2
  <2> HIDE DEF flipped, places, Windows
  <2>4. flipped \in Seq(Windows) /\ Len(flipped) = places
    BY <2>3, AsSequence
  <2> QED BY <2>4 DEF places
<1> HIDE DEF flipped
<1>9. five \o flipped \in Seq(Windows) /\ Len(five \o flipped) = 10
  <2>1. five \o flipped \in Seq(Windows) /\ Len(five \o flipped) = Len(five) + Len(flipped)
    BY <1>6, <1>8, Joined
  <2> QED BY <1>6, <1>8, <2>1
<1>10. Ten \in Seq(Windows) /\ Len(Ten) = 10
  BY <1>4, <1>9
<1>11. \A k \in 1 .. 10 : Ten[k] \in Windows
  BY <1>10, 10 \in Nat, AsFunction
<1> QED BY <1>10, <1>11 DEF Windows

\* Every size to crop is positive, and a crop ends with the frame.
LEMMA MultiScaleFits ==
  ASSUME ClipTypes, Sizes, NEW place \in FixOffset \cup RandomOffset, NEW size \in CropSize, NEW flipped \in BOOLEAN
  PROVE  Fits(IF flipped THEN Flip(MultiScaleCrop(place, size)) ELSE MultiScaleCrop(place, size))
<1>1. /\ frame \in [h : Nat, w : Nat] /\ Target \in [h : Nat, w : Nat] /\ Target.h > 0 /\ Target.w > 0
      /\ Target.h <= frame.h /\ Target.w <= frame.w /\ Ratios \in Seq(Nat)
      /\ \A i \in DOMAIN Ratios : frame.h * Ratios[i] >= 8 /\ frame.w * Ratios[i] >= 8
  BY ClipParts DEF Sizes, ClipTypes
<1>2. ASSUME place \in FixOffset
      PROVE  place[1] \in Nat /\ place[1] < frame.h /\ place[2] \in Nat /\ place[2] < frame.w
  <2> DEFINE h == (frame.h - Target.h) \div 4
             w == (frame.w - Target.w) \div 4
  <2>1. h \in Nat /\ 4 * h <= frame.h - Target.h /\ w \in Nat /\ 4 * w <= frame.w - Target.w
    BY <1>1
  <2>2. \E i, j \in 0 .. 4 : place = <<i * h, j * w>>
    <3>1. FixOffset = {<<i * h, j * w>> : i \in {0, 2, 4}, j \in {0, 2, 4}} \cup {<<i * h, j * w>> : i \in {1, 3}, j \in {1, 3}}
      BY DEF FixOffset
    <3>2. {0, 2, 4} \subseteq 0 .. 4 /\ {1, 3} \subseteq 0 .. 4
      OBVIOUS
    <3> HIDE DEF h, w
    <3> QED BY <1>2, <3>1, <3>2
  <2>3. PICK i \in 0 .. 4, j \in 0 .. 4 : place = <<i * h, j * w>>
    BY <2>2
  <2> HIDE DEF h, w
  <2>4. i * h \in Nat /\ i * h <= 4 * h /\ j * w \in Nat /\ j * w <= 4 * w
    BY <2>1
  <2>5. place[1] = i * h /\ place[2] = j * w
    BY <2>3
  <2>6. frame.h \in Nat /\ frame.w \in Nat /\ Target.h \in Nat /\ Target.w \in Nat /\ Target.h > 0 /\ Target.w > 0
    BY <1>1
  <2> DEFINE y == i * h
             x == j * w
  <2>7. y \in Nat /\ y <= 4 * h /\ x \in Nat /\ x <= 4 * w
    BY <2>4
  <2>8. place[1] = y /\ place[2] = x
    BY <2>5
  <2> HIDE DEF x, y
  <2> QED BY <2>1, <2>6, <2>7, <2>8
<1>3. ASSUME place \in RandomOffset
      PROVE  place[1] \in Nat /\ place[1] < frame.h /\ place[2] \in Nat /\ place[2] < frame.w
  <2>1. frame.h \in Nat /\ frame.w \in Nat /\ Target.h \in Nat /\ Target.w \in Nat /\ Target.h > 0 /\ Target.w > 0
    BY <1>1
  <2>2. place[1] \in 0 .. frame.h - Target.h /\ place[2] \in 0 .. frame.w - Target.w
    BY <1>3 DEF RandomOffset
  <2> QED BY <2>1, <2>2
<1>4. place[1] \in Nat /\ place[1] < frame.h /\ place[2] \in Nat /\ place[2] < frame.w
  BY <1>2, <1>3
<1>5. size[1] \in Nat /\ size[1] > 0 /\ size[2] \in Nat /\ size[2] > 0
  <2> DEFINE base == IF frame.h < frame.w THEN frame.h ELSE frame.w
             scaled(i) == (base * Ratios[i]) \div 8
  <2>1. PICK i \in DOMAIN Ratios, j \in DOMAIN Ratios : size = <<scaled(i), scaled(j)>>
    BY DEF CropSize
  <2>2. ASSUME NEW k \in DOMAIN Ratios PROVE scaled(k) \in Nat /\ scaled(k) > 0
    <3> DEFINE p == base * Ratios[k]
    <3>1. base \in {frame.h, frame.w} /\ base \in Nat /\ Ratios[k] \in Nat
      <4>1. frame.h \in Nat /\ frame.w \in Nat /\ Ratios \in Seq(Nat)
        BY <1>1
      <4>2. base \in {frame.h, frame.w}
        OBVIOUS
      <4>3. Ratios[k] \in Nat
        BY <4>1, ElementOfSeq
      <4> HIDE DEF base
      <4> QED BY <4>1, <4>2, <4>3
    <3>2. p \in Nat /\ p >= 8
      <4>1. frame.h * Ratios[k] >= 8 /\ frame.w * Ratios[k] >= 8
        BY <1>1
      <4> HIDE DEF base
      <4>2. base = frame.h \/ base = frame.w
        BY <3>1
      <4>3. base * Ratios[k] >= 8
        BY <4>1, <4>2
      <4>4. base * Ratios[k] \in Nat
        BY <3>1
      <4> QED BY <4>3, <4>4
    <3> HIDE DEF p
    <3>3. p \div 8 \in Nat /\ p \div 8 > 0
      BY <3>2
    <3> QED BY <3>3 DEF p
  <2> HIDE DEF scaled
  <2> QED BY <2>1, <2>2
<1>6. Fits(MultiScaleCrop(place, size))
  <2> DEFINE y == place[1]
             x == place[2]
             h == Sliced(y, size[1], frame.h)
             w == Sliced(x, size[2], frame.w)
  <2>1. frame.h \in Nat /\ frame.w \in Nat
    BY <1>1
  <2>2. h \in Nat /\ h > 0 /\ y \in Nat /\ y + h <= frame.h
    BY <1>4, <1>5, <2>1 DEF Sliced
  <2>3. w \in Nat /\ w > 0 /\ x \in Nat /\ x + w <= frame.w
    BY <1>4, <1>5, <2>1 DEF Sliced
  <2>4. MultiScaleCrop(place, size) = [y |-> y, x |-> x, h |-> h, w |-> w, flip |-> FALSE]
    BY DEF MultiScaleCrop, Region
  <2> HIDE DEF y, x, h, w
  <2> DEFINE m == [y |-> y, x |-> x, h |-> h, w |-> w, flip |-> FALSE]
  <2>5. m \in Regions
    BY <2>2, <2>3 DEF Regions
  <2>6. m.y = y /\ m.x = x /\ m.h = h /\ m.w = w
    OBVIOUS
  <2> HIDE DEF m
  <2>7. Fits(m)
    BY <2>2, <2>3, <2>5, <2>6 DEF Fits
  <2> QED BY <2>4, <2>7 DEF m
<1>7. \A r : Fits(r) => Fits(Flip(r))
  BY DEF Fits, Flip, Regions
<1> QED BY <1>6, <1>7

\* All images in one third, then in the next: a third of the clips each.
LEMMA InThirds ==
  ASSUME ClipTypes, Sampled, ListedBySegment, Sizes
  PROVE  CutsInto(ThreeCrop, dataset.segments * 3)
<1> DEFINE n == dataset.segments
           L == ClipLength
           g == [k \in 1 .. 3 |-> SameForAll(Thirds[k], Target)]
<1>1. L \in Nat /\ n \in Nat /\ Segments = 1 .. n
  BY SegmentFramesAreIds, ClipParts DEF Segments
<1>2. \A k \in 1 .. 3 : Fits(Thirds[k]) /\ CutsInto(SameForAll(Thirds[k], Target), n)
  <2> HIDE DEF n
  <2> QED BY ThirdsFit, InOneRegion DEF n
<1>3. ThreeCrop = FlattenSeq(g)
  BY ThirdsFit DEF ThreeCrop
<1> DEFINE nl == n * L
<1> HIDE DEF L, n
<1>4. nl \in Nat
  BY <1>1
<1>5. g \in Seq(Seq(Images)) /\ Len(g) = 3 /\ \A k \in 1 .. 3 : Len(g[k]) = nl /\ g[k] = SameForAll(Thirds[k], Target)
  <2>1. g \in [1 .. 3 -> Seq(Images)] /\ \A k \in 1 .. 3 : Len(g[k]) = nl /\ g[k] = SameForAll(Thirds[k], Target)
    BY <1>2 DEF CutsInto, L
  <2> HIDE DEF g, nl
  <2> QED BY <2>1, 3 \in Nat, AsSequence
<1> HIDE DEF g
<1>6. /\ FlattenSeq(g) \in Seq(Images) /\ Len(FlattenSeq(g)) = 3 * nl
      /\ \A k \in 1 .. 3, m \in 1 .. nl : FlattenSeq(g)[(k - 1) * nl + m] = g[k][m]
  <2> HIDE DEF nl
  <2>1. /\ FlattenSeq(g) \in Seq(Images) /\ Len(FlattenSeq(g)) = Len(g) * nl
        /\ \A i \in 1 .. Len(g), j \in 1 .. nl : FlattenSeq(g)[(i - 1) * nl + j] = g[i][j]
    <3>1. \A i \in 1 .. Len(g) : Len(g[i]) = nl
      BY <1>5
    <3>2. g \in Seq(Seq(Images)) /\ nl \in Nat
      BY <1>4, <1>5
    <3> HIDE DEF Images
    <3> QED BY <3>1, <3>2, Blocks
  <2> QED BY <1>5, <2>1
<1>7. n * 3 = 3 * n /\ (n * 3) * L = 3 * nl
  BY <1>1
<1>8. ASSUME NEW c \in 1 .. 3 * n
      PROVE  \E s \in Segments, r \in Regions :
               Fits(r) /\ \A j \in 1 .. L : ThreeCrop[(c - 1) * L + j] = Image(SegmentFrames(s)[j], r, Target)
  <2>1. PICK k \in 1 .. 3, s \in 1 .. n : c = (k - 1) * n + s
    BY <1>1, 3 \in Nat, Located
  <2> DEFINE part == SameForAll(Thirds[k], Target)
  <2>2. \E t \in Segments, r \in Regions :
          Fits(r) /\ \A j \in 1 .. L : part[(s - 1) * L + j] = Image(SegmentFrames(t)[j], r, Target)
    BY <1>2, <2>1 DEF CutsInto, L
  <2>3. \A j \in 1 .. L : ThreeCrop[(c - 1) * L + j] = part[(s - 1) * L + j]
    <3> SUFFICES ASSUME NEW j \in 1 .. L PROVE ThreeCrop[(c - 1) * L + j] = part[(s - 1) * L + j]
      OBVIOUS
    <3>1. (s - 1) * L + j \in 1 .. nl
      BY <1>1, Placed
    <3>2. (c - 1) * L + j = (k - 1) * nl + ((s - 1) * L + j)
      <4>1. (c - 1) * L = (k - 1) * nl + (s - 1) * L
        BY <1>1, <2>1
      <4>2. (k - 1) * nl \in Int /\ (s - 1) * L \in Int
        BY <1>1, <1>4
      <4> HIDE DEF nl
      <4> QED BY <4>1, <4>2
    <3> DEFINE m == (s - 1) * L + j
    <3>3. m \in 1 .. nl /\ (c - 1) * L + j = (k - 1) * nl + m
      BY <3>1, <3>2
    <3> HIDE DEF m, nl, part
    <3>4. FlattenSeq(g)[(k - 1) * nl + m] = g[k][m]
      BY <1>6, <3>3
    <3>5. g[k] = part
      BY <1>5 DEF part
    <3>6. ThreeCrop[(c - 1) * L + j] = part[m]
      BY <1>3, <3>3, <3>4, <3>5
    <3> QED BY <3>6 DEF m
  <2> HIDE DEF part
  <2> QED BY <2>2, <2>3
<1> HIDE DEF nl
<1> QED BY <1>3, <1>6, <1>7, <1>8 DEF CutsInto, L, n

\* All regions of one image, then those of the next: clips of one image.
LEMMA InTen ==
  ASSUME ClipTypes, Sampled, ListedBySegment, Sizes, ClipLength = 1
  PROVE  CutsInto(TenCrop, dataset.segments * 10)
<1> DEFINE n == dataset.segments
           cut(i) == [k \in 1 .. 10 |-> Image(frame_id_list[i], Ten[k], Target)]
           g == [i \in 1 .. n |-> cut(i)]
<1>1. n \in Nat /\ Segments = 1 .. n /\ Target \in [h : Nat, w : Nat]
  BY ClipParts DEF Segments
<1>2. /\ frame_id_list \in Seq(Ids) /\ Len(frame_id_list) = n
      /\ \A s \in 1 .. n : frame_id_list[s] = SegmentFrames(s)[1] /\ frame_id_list[s] \in Ids
  <2>1. Len(frame_id_list) = n * 1 /\ n * 1 = n
    BY <1>1 DEF ListedBySegment
  <2>2. \A s \in Segments : (s - 1) * 1 + 1 = s
    BY <1>1
  <2>3. \A s \in Segments : frame_id_list[(s - 1) * 1 + 1] = SegmentFrames(s)[1]
    BY DEF ListedBySegment
  <2>4. frame_id_list \in Seq(Ids)
    BY DEF ListedBySegment
  <2> HIDE DEF n
  <2>5. \A s \in 1 .. n : frame_id_list[s] \in Ids
    BY <1>1, <2>1, <2>4, AsFunction
  <2>6. \A s \in 1 .. n : frame_id_list[s] = SegmentFrames(s)[1]
    BY <1>1, <2>2, <2>3
  <2> QED BY <2>1, <2>4, <2>5, <2>6
<1>3. \A k \in 1 .. 10 : Fits(Ten[k]) /\ Sized(Ten[k]) = Target /\ Ten[k] \in Regions
  BY TenFit DEF Fits
<1>4. TenCrop = FlattenSeq(g)
  <2>1. DOMAIN Ten = 1 .. 10 /\ DOMAIN frame_id_list = 1 .. n
    <3>1. DOMAIN frame_id_list = 1 .. Len(frame_id_list)
      BY <1>2
    <3> QED BY TenFit, <1>2, <3>1
  <2> HIDE DEF n
  <2> QED BY <1>3, <2>1 DEF TenCrop, ByImage
<1> HIDE DEF n
<1>5. \A i \in 1 .. n : cut(i) \in Seq(Images) /\ Len(cut(i)) = 10
  <2> SUFFICES ASSUME NEW i \in 1 .. n PROVE cut(i) \in Seq(Images) /\ Len(cut(i)) = 10
    OBVIOUS
  <2>1. cut(i) \in [1 .. 10 -> Images]
    BY <1>1, <1>2, <1>3 DEF Image, Images
  <2> DEFINE c == cut(i)
             ten == 10
  <2>2. c \in [1 .. ten -> Images] /\ ten \in Nat
    BY <2>1
  <2> HIDE DEF c, ten, Images
  <2>3. c \in Seq(Images) /\ Len(c) = ten
    BY <2>2, AsSequence
  <2> QED BY <2>3 DEF c, ten
<1>6. g \in Seq(Seq(Images)) /\ Len(g) = n /\ \A i \in 1 .. n : Len(g[i]) = 10 /\ g[i] = cut(i)
  <2> HIDE DEF cut
  <2>1. g \in [1 .. n -> Seq(Images)] /\ \A i \in 1 .. n : Len(g[i]) = 10 /\ g[i] = cut(i)
    BY <1>5
  <2> HIDE DEF g
  <2> QED BY <1>1, <2>1, AsSequence
<1> HIDE DEF g
<1>7. /\ FlattenSeq(g) \in Seq(Images) /\ Len(FlattenSeq(g)) = n * 10
      /\ \A i \in 1 .. n, k \in 1 .. 10 : FlattenSeq(g)[(i - 1) * 10 + k] = g[i][k]
  <2>1. \A i \in 1 .. Len(g) : Len(g[i]) = 10
    BY <1>6
  <2>2. /\ FlattenSeq(g) \in Seq(Images) /\ Len(FlattenSeq(g)) = Len(g) * 10
        /\ \A i \in 1 .. Len(g), k \in 1 .. 10 : FlattenSeq(g)[(i - 1) * 10 + k] = g[i][k]
    <3> DEFINE ten == 10
    <3>1. ten \in Nat /\ g \in Seq(Seq(Images)) /\ \A i \in 1 .. Len(g) : Len(g[i]) = ten
      BY <1>6, <2>1
    <3> HIDE DEF ten
    <3>2. /\ FlattenSeq(g) \in Seq(Images) /\ Len(FlattenSeq(g)) = Len(g) * ten
          /\ \A i \in 1 .. Len(g), k \in 1 .. ten : FlattenSeq(g)[(i - 1) * ten + k] = g[i][k]
      BY <3>1, Blocks
    <3> QED BY <3>2 DEF ten
  <2> QED BY <1>6, <2>2
<1>8. ASSUME NEW c \in 1 .. n * 10
      PROVE  \E s \in Segments, r \in Regions :
               Fits(r) /\ \A j \in 1 .. 1 : TenCrop[(c - 1) * 1 + j] = Image(SegmentFrames(s)[j], r, Target)
  <2>1. PICK i \in 1 .. n, k \in 1 .. 10 : c = (i - 1) * 10 + k
    BY <1>1, 10 \in Nat, Located
  <2>2. TenCrop[c] = cut(i)[k]
    <3>1. \A a \in 1 .. n, b \in 1 .. 10 : FlattenSeq(g)[(a - 1) * 10 + b] = g[a][b]
      BY <1>7
    <3>2. g[i] = cut(i)
      BY <1>6
    <3> HIDE DEF cut
    <3>3. FlattenSeq(g)[(i - 1) * 10 + k] = g[i][k]
      BY <3>1, Zenon
    <3> QED BY <1>4, <2>1, <3>2, <3>3, Zenon
  <2>3. cut(i)[k] = Image(SegmentFrames(i)[1], Ten[k], Target)
    BY <1>2
  <2>4. (c - 1) * 1 + 1 = c
    BY <1>1
  <2>5. \A j \in 1 .. 1 : TenCrop[(c - 1) * 1 + j] = Image(SegmentFrames(i)[j], Ten[k], Target)
    <3>1. \A j \in 1 .. 1 : j = 1
      OBVIOUS
    <3> QED BY <2>2, <2>3, <2>4, <3>1
  <2> QED BY <1>1, <1>3, <2>5
<1>9. (n * 10) * 1 = n * 10
  BY <1>1
<1> QED BY <1>4, <1>7, <1>8, <1>9 DEF CutsInto, n

\* A list that cuts into clips is cut into them.
LEMMA CutIsWhole ==
  ASSUME ClipTypes, Sampled, ClipLength > 0, CutsInto(clip_input, dataset.segments * dataset.crops)
  PROVE  ClipsAreWhole
<1> DEFINE a == dataset.segments * dataset.crops
           L == ClipLength
           al == a * L
<1>1. a \in Nat /\ a > 0 /\ L \in Nat /\ L > 0 /\ al \in Nat /\ al = L * a
  <2>1. a \in Nat /\ a > 0
    <3> DEFINE segments == dataset.segments
               crops == dataset.crops
    <3>1. segments \in Nat /\ segments > 0 /\ crops \in Nat /\ crops > 0
      BY ClipParts
    <3> HIDE DEF segments, crops
    <3>2. segments * crops \in Nat /\ segments * crops > 0
      BY <3>1
    <3> QED BY <3>2 DEF segments, crops
  <2> HIDE DEF a
  <2> QED BY <2>1, SegmentFramesAreIds
<1>2. clip_input \in Seq(Images) /\ Len(clip_input) = al
  BY DEF CutsInto
<1>3. PerClip = L
  <2>1. CASE ~dataset.slowfast
    BY <2>1 DEF PerClip, ClipLength
  <2>2. CASE dataset.slowfast
    <3>1. PerClip = al \div a
      BY <1>2, <2>2 DEF PerClip
    <3>2. al \div a = L
      <4>1. a * L <= al /\ al < a * L + a
        <5> HIDE DEF a, L
        <5> QED BY <1>1
      <4> HIDE DEF a, L, al
      <4> QED BY <1>1, <4>1, Quotient
    <3> QED BY <3>1, <3>2
  <2> QED BY <2>1, <2>2
<1>4. Len(clip_input) = PerClip * dataset.segments * dataset.crops
  <2>1. L * (dataset.segments * dataset.crops) = L * dataset.segments * dataset.crops
    <3> DEFINE s == dataset.segments
               c == dataset.crops
    <3>1. s \in Nat /\ c \in Nat
      BY ClipParts
    <3> HIDE DEF s, c, L
    <3>2. L * (s * c) = L * s * c
      BY <1>1, <3>1
    <3> QED BY <3>2 DEF s, c
  <2> QED BY <1>1, <1>2, <1>3, <2>1
<1>5. Len(clip_input) \div PerClip = a
  <2>1. L * a <= al /\ al < L * a + L
    <3> HIDE DEF a, L, al
    <3> QED BY <1>1
  <2>2. al \div L = a
    <3> HIDE DEF a, L, al
    <3> QED BY <1>1, <2>1, Quotient
  <2> HIDE DEF a, L, al
  <2> QED BY <1>2, <1>3, <2>2
<1> HIDE DEF al, a
<1>6. ASSUME NEW n \in 1 .. a
      PROVE  LET clip == Clip(n)
                 region == clip[1].region
             IN  /\ \E s \in Segments : [i \in DOMAIN clip |-> clip[i].id] = SegmentFrames(s)
                 /\ \A i \in DOMAIN clip :
                      /\ clip[i].id \in 0 .. duration - 1
                      /\ clip[i].region = region /\ clip[i].size = Target
                 /\ region.h > 0 /\ region.y >= 0 /\ region.y + region.h <= frame.h
                 /\ region.w > 0 /\ region.x >= 0 /\ region.x + region.w <= frame.w
  <2>1. PICK s \in Segments, r \in Regions :
          Fits(r) /\ \A j \in 1 .. L : clip_input[(n - 1) * L + j] = Image(SegmentFrames(s)[j], r, Target)
    BY DEF CutsInto, a
  <2>2. SegmentFrames(s) \in Seq(Ids) /\ Len(SegmentFrames(s)) = L
    BY SegmentFramesAreIds
  <2> HIDE DEF L
  <2> DEFINE clip == Clip(n)
             x == (n - 1) * L + 1
             y == n * L
  <2>3. x \in Int /\ y \in Int /\ x >= 1 /\ y <= al /\ y - x + 1 = L /\ x <= y + 1 /\ \A j \in 1 .. L : x + j - 1 = (n - 1) * L + j
    <3>1. (n - 1) * L \in Nat /\ n * L = (n - 1) * L + L /\ n * L <= a * L
      BY <1>1
    <3> DEFINE p == (n - 1) * L
    <3>2. p \in Nat /\ n * L = p + L /\ n * L <= al
      BY <3>1 DEF al
    <3> HIDE DEF p
    <3>3. /\ p + 1 \in Int /\ n * L \in Int /\ p + 1 >= 1 /\ n * L <= al /\ n * L - (p + 1) + 1 = L /\ p + 1 <= n * L + 1
          /\ \A j \in 1 .. L : (p + 1) + j - 1 = p + j
      BY <1>1, <3>2
    <3> QED BY <3>3 DEF p
  <2>4. clip = SubSeq(clip_input, x, y)
    BY <1>3 DEF Clip
  <2> HIDE DEF clip
  <2>5. DOMAIN clip = 1 .. L /\ \A j \in 1 .. L : clip[j] = Image(SegmentFrames(s)[j], r, Target)
    <3> HIDE DEF x, y
    <3>1. \A i \in x .. y : clip_input[i] \in Images
      <4>1. \A i \in x .. y : i \in 1 .. al
        BY <1>1, <2>3
      <4> QED BY <1>1, <1>2, <4>1, AsFunction
    <3>2. SubSeq(clip_input, x, y) \in Seq(Images) /\ Len(SubSeq(clip_input, x, y)) = L
          /\ \A i \in 1 .. L : SubSeq(clip_input, x, y)[i] = clip_input[x + i - 1]
      BY <2>3, <3>1, SubSeqProperties
    <3>3. DOMAIN clip = 1 .. L
      BY <2>4, <3>2
    <3>4. \A j \in 1 .. L : clip[j] = clip_input[(n - 1) * L + j]
      BY <2>3, <2>4, <3>2
    <3> QED BY <2>1, <3>3, <3>4
  <2>6. [i \in DOMAIN clip |-> clip[i].id] = SegmentFrames(s)
    <3>1. \A i \in 1 .. L : clip[i].id = SegmentFrames(s)[i]
      BY <2>5 DEF Image
    <3>2. [i \in DOMAIN clip |-> clip[i].id] = [i \in 1 .. L |-> SegmentFrames(s)[i]]
      BY <2>5, <3>1
    <3>3. SegmentFrames(s) = [i \in 1 .. L |-> SegmentFrames(s)[i]]
      BY <2>2
    <3> QED BY <3>2, <3>3
  <2>7. clip[1].region = r
    <3>1. 1 \in 1 .. L
      BY <1>1
    <3> QED BY <2>5, <3>1 DEF Image
  <2>8. \A i \in DOMAIN clip : clip[i].id \in 0 .. duration - 1 /\ clip[i].region = r /\ clip[i].size = Target
    <3>1. \A i \in 1 .. L : SegmentFrames(s)[i] \in Ids
      BY <1>1, <2>2, AsFunction
    <3> QED BY <2>5, <3>1 DEF Image, Ids
  <2> QED BY <2>1, <2>6, <2>7, <2>8 DEF clip, Fits
<1> QED BY <1>4, <1>5, <1>6 DEF ClipsAreWhole

\* The clips are cut from what is sampled, listed and cropped.
ClipInv ==
  /\ ClipTypes
  /\ doing \in {"sample", "read", "transform", "clips", "batched"}
  /\ doing \in {"read", "transform", "clips"} => Sampled
  /\ doing \in {"transform", "clips"} => ListedBySegment
  /\ doing = "clips" => CutsInto(clip_input, dataset.segments * dataset.crops)
  /\ ShardsCoverBatch

\* Each transform keeps the frames of a segment together, in one region.
LEMMA TransformCuts == ASSUME Croppings, Sizes, ClipTypes, Sampled, ListedBySegment, Transform
  PROVE  CutsInto(clip_input', dataset.segments * dataset.crops)
<1>1. /\ dataset.transform \in {"center", "train"} => dataset.crops = 1
      /\ dataset.transform = "three" => dataset.crops = 3
      /\ dataset.transform = "ten" => dataset.crops = 10 /\ ClipLength = 1
      /\ dataset.segments \in Nat /\ dataset.segments * 1 = dataset.segments
  <2>1. dataset.segments \in Nat /\ dataset \in Datasets
    BY ClipParts DEF ClipTypes
  <2>2. dataset.segments * 1 = dataset.segments
    BY <2>1
  <2> QED BY <2>1, <2>2 DEF Croppings, ClipLength
<1>2. CASE dataset.transform = "center" /\ clip_input' = SameForAll(CenterCrop, Sized(CenterCrop))
  BY <1>1, <1>2, CenterFits, InOneRegion
<1>3. CASE dataset.transform = "three" /\ clip_input' = ThreeCrop
  BY <1>1, <1>3, InThirds
<1>4. CASE dataset.transform = "ten" /\ clip_input' = TenCrop
  BY <1>1, <1>4, InTen
<1>5. ASSUME dataset.transform = "train", NEW place \in FixOffset \cup RandomOffset, NEW size \in CropSize, NEW flipped \in BOOLEAN,
             clip_input' = SameForAll(IF flipped THEN Flip(MultiScaleCrop(place, size)) ELSE MultiScaleCrop(place, size), Target)
      PROVE  CutsInto(clip_input', dataset.segments * dataset.crops)
  <2> DEFINE r == IF flipped THEN Flip(MultiScaleCrop(place, size)) ELSE MultiScaleCrop(place, size)
  <2>1. Fits(r)
    BY MultiScaleFits
  <2>2. clip_input' = SameForAll(r, Target)
    BY <1>5
  <2> HIDE DEF r
  <2> QED BY <1>1, <1>5, <2>1, <2>2, InOneRegion
<1> QED BY <1>2, <1>3, <1>4, <1>5 DEF Transform

\* The parts of a batch b for devices that start at the places of list.
PartsOf(b, most, list, ctx) ==
  [k \in 1 .. Cardinality({k \in 1 .. ctx : list[k] < most}) |->
    SubSeq(b, list[k] + 1, IF list[k + 1] > most THEN most ELSE list[k + 1])]

\* One after another they are the batch, whatever is left for the last.
LEMMA Shards ==
  ASSUME NEW size \in Nat \ {0}, NEW ctx \in Nat \ {0}, NEW most \in 1 .. size, NEW list,
         list = BsList(size, ctx), NEW b \in Seq(Nat), Len(b) = most
  PROVE  FlattenSeq(PartsOf(b, most, list, ctx)) = b
<1> DEFINE per == (size + ctx - 1) \div ctx
           starts == {k \in 1 .. ctx : list[k] < most}
           Behind(k) == IF list[k + 1] > most THEN most ELSE list[k + 1]
<1>1. per \in Nat /\ per >= 1 /\ size <= ctx * per
  <2> DEFINE m == size + ctx - 1
  <2>1. m \in Nat /\ m >= ctx /\ ctx > 0
    OBVIOUS
  <2> DEFINE q == m \div ctx
             cq == ctx * q
  <2>2. q \in Int /\ cq <= m /\ m < cq + ctx
    <3> HIDE DEF m
    <3> QED BY <2>1, Divided
  <2>3. cq \in Int /\ (q <= 0 => cq <= 0)
    <3>1. q <= 0 => ctx * q <= ctx * 0
      <4> HIDE DEF q
      <4> QED BY <2>2
    <3>2. ctx * q \in Int
      <4> HIDE DEF q
      <4> QED BY <2>2
    <3> QED BY <3>1, <3>2
  <2> HIDE DEF cq, q
  <2>4. q >= 1
    <3> HIDE DEF m
    <3> QED BY <2>1, <2>2, <2>3
  <2>5. size <= cq
    BY <2>2, <2>3
  <2> QED BY <2>2, <2>4, <2>5 DEF q, cq
<1> HIDE DEF per
<1>2. DOMAIN list = 1 .. ctx + 1 /\ list[ctx + 1] = size /\ \A k \in 1 .. ctx : list[k] = (k - 1) * per
  BY DEF BsList, per
<1>3. \A k \in 1 .. ctx : list[k] \in Nat
  <2> SUFFICES ASSUME NEW k \in 1 .. ctx PROVE list[k] \in Nat
    OBVIOUS
  <2>1. k - 1 \in Nat
    OBVIOUS
  <2>2. (k - 1) * per \in Nat
    BY <1>1, <2>1
  <2> QED BY <1>2, <2>2
<1>4. \A k \in 1 .. ctx - 1 : list[k] < list[k + 1]
  <2> SUFFICES ASSUME NEW k \in 1 .. ctx - 1 PROVE list[k] < list[k + 1]
    OBVIOUS
  <2>1. k \in 1 .. ctx /\ k + 1 \in 1 .. ctx /\ (k + 1) - 1 = k /\ k \in Nat
    OBVIOUS
  <2>2. k * per = (k - 1) * per + per /\ (k - 1) * per \in Int
    BY <1>1, <2>1
  <2>3. list[k] = (k - 1) * per /\ list[k + 1] = k * per
    BY <1>2, <2>1
  <2> QED BY <1>1, <2>2, <2>3
\* The shards begin at the first of them up to one.
<1>5. \E p \in 1 .. ctx : starts = 1 .. p
  <2> DEFINE T == {k \in 1 .. ctx : k \in starts => 1 .. k \subseteq starts}
  <2>0. list[1] = 0 /\ 1 \in starts
    <3>1. 1 \in 1 .. ctx /\ (1 - 1) * per = 0
      BY <1>1
    <3>2. list[1] = 0
      BY <1>2, <3>1
    <3> QED BY <3>1, <3>2
  <2>1. 1 \in T
    <3>1. 1 .. 1 = {1} /\ 1 \in 1 .. ctx
      OBVIOUS
    <3> HIDE DEF starts
    <3> QED BY <2>0, <3>1
  <2>2. ASSUME NEW k \in 1 .. ctx - 1, k \in T PROVE k + 1 \in T
    <3>1. k \in 1 .. ctx /\ k + 1 \in 1 .. ctx
      OBVIOUS
    <3>2. ASSUME k + 1 \in starts PROVE 1 .. k + 1 \subseteq starts
      <4>1. list[k] < most
        BY <1>3, <1>4, <3>1, <3>2
      <4>2. k \in starts
        BY <3>1, <4>1
      <4>3. 1 .. k + 1 = 1 .. k \cup {k + 1}
        OBVIOUS
      <4> HIDE DEF starts
      <4> QED BY <2>2, <3>2, <4>2, <4>3
    <3> QED BY <3>1, <3>2
  <2>3. 1 .. ctx \subseteq T
    <3> HIDE DEF T
    <3> QED BY <2>1, <2>2, Induction
  <2>4. PICK p \in starts : \A k \in starts : k <= p
    <3> DEFINE U == {ctx - k : k \in starts}
    <3>1. U \in SUBSET Nat /\ U # {}
      BY <2>0
    <3>2. PICK u \in U : \A v \in U : u <= v
      <4> HIDE DEF U
      <4> QED BY <3>1, LeastNatural
    <3>3. PICK p \in starts : u = ctx - p
      BY <3>2
    <3>4. \A k \in starts : ctx - p <= ctx - k
      BY <3>2, <3>3
    <3>5. \A k \in starts : k \in Int
      OBVIOUS
    <3> HIDE DEF starts, U
    <3> QED BY <3>3, <3>4, <3>5
  <2>5. p \in 1 .. ctx
    BY <2>4
  <2>6. starts \subseteq 1 .. p
    <3>1. \A k \in starts : k \in 1 .. ctx
      OBVIOUS
    <3> HIDE DEF starts
    <3> QED BY <2>4, <2>5, <3>1
  <2>7. 1 .. p \subseteq starts
    BY <2>3, <2>4, <2>5
  <2> HIDE DEF starts
  <2> QED BY <2>5, <2>6, <2>7
<1>6. PICK p \in 1 .. ctx : starts = 1 .. p
  BY <1>5
<1>7. Cardinality(starts) = p
  <2> HIDE DEF starts
  <2> QED BY <1>6, FS_Interval
<1> DEFINE s == [k \in 1 .. p |-> SubSeq(b, list[k] + 1, Behind(k))]
\* They end where the next begins, and the last with the batch.
<1>8. \A k \in 1 .. p : k \in 1 .. ctx /\ list[k] \in Nat /\ list[k] < most
  <2>1. \A k \in 1 .. p : k \in starts
    <3> HIDE DEF starts
    <3> QED BY <1>6
  <2> QED BY <1>3, <2>1
<1>9. \A k \in 1 .. p - 1 : Behind(k) = list[k + 1]
  <2> SUFFICES ASSUME NEW k \in 1 .. p - 1 PROVE Behind(k) = list[k + 1]
    OBVIOUS
  <2>1. k + 1 \in 1 .. p
    BY <1>6
  <2>2. list[k + 1] \in Nat /\ list[k + 1] < most
    BY <1>8, <2>1
  <2> QED BY <2>2
<1>10. Behind(p) = most
  <2>1. CASE p = ctx
    BY <1>2, <2>1
  <2>2. CASE p # ctx
    <3>1. p + 1 \in 1 .. ctx /\ p + 1 \notin 1 .. p
      BY <2>2
    <3>2. ~(list[p + 1] < most) /\ list[p + 1] \in Nat
      <4>1. p + 1 \notin starts
        <5> HIDE DEF starts
        <5> QED BY <1>6, <3>1
      <4> QED BY <1>3, <3>1, <4>1
    <3> QED BY <3>2
  <2> QED BY <2>1, <2>2
<1>11. \A k \in 1 .. p : Behind(k) \in list[k] + 1 .. most
  <2> SUFFICES ASSUME NEW k \in 1 .. p PROVE Behind(k) \in list[k] + 1 .. most
    OBVIOUS
  <2>1. CASE k = p
    <3> HIDE DEF Behind
    <3> QED BY <1>8, <1>10, <2>1
  <2>2. CASE k # p
    <3>1. k \in 1 .. p - 1 /\ k \in 1 .. ctx - 1 /\ k + 1 \in 1 .. p
      BY <2>2
    <3>2. list[k] \in Nat /\ list[k + 1] \in Nat /\ list[k] < list[k + 1] /\ list[k + 1] < most /\ Behind(k) = list[k + 1]
      <4> HIDE DEF Behind
      <4> QED BY <1>4, <1>8, <1>9, <3>1
    <3> HIDE DEF Behind
    <3> QED BY <3>2
  <2> QED BY <2>1, <2>2
<1> HIDE DEF Behind, starts
<1>12. s \in Seq(Seq(Nat)) /\ s # <<>> /\ Len(s) = p
  <2>1. \A k \in 1 .. p : SubSeq(b, list[k] + 1, Behind(k)) \in Seq(Nat)
    <3> SUFFICES ASSUME NEW k \in 1 .. p PROVE SubSeq(b, list[k] + 1, Behind(k)) \in Seq(Nat)
      OBVIOUS
    <3> DEFINE x == list[k] + 1
               y == Behind(k)
    <3>1. x \in Int /\ x >= 1 /\ y \in Int /\ y <= most
      BY <1>8, <1>11
    <3> HIDE DEF x, y
    <3>2. \A i \in x .. y : b[i] \in Nat
      BY <3>1
    <3>3. SubSeq(b, x, y) \in Seq(Nat)
      BY <3>1, <3>2, SubSeqProperties
    <3> QED BY <3>3 DEF x, y
  <2>2. s \in [1 .. p -> Seq(Nat)]
    BY <2>1
  <2>3. p \in Nat /\ p # 0
    BY <1>6
  <2> HIDE DEF s
  <2> QED BY <2>2, <2>3
<1>13. PICK f : /\ f \in [1 .. Len(s) -> Seq(Nat)] /\ FlattenSeq(s) = f[Len(s)]
                /\ f[1] = s[1] /\ \A i \in 1 .. Len(s) - 1 : f[i + 1] = f[i] \o s[i + 1]
  <2> HIDE DEF s
  <2> QED BY <1>12, Flattened
<1> DEFINE T == {k \in 1 .. p : f[k] = SubSeq(b, 1, Behind(k))}
<1>14. 1 \in T
  <2>1. 1 \in 1 .. p /\ list[1] = 0
    <3>1. 1 \in 1 .. p /\ 1 \in 1 .. ctx /\ (1 - 1) * per = 0
      BY <1>1, <1>6
    <3> QED BY <1>2, <3>1
  <2>2. s[1] = SubSeq(b, 1, Behind(1))
    <3>1. list[1] + 1 = 1
      BY <2>1
    <3>2. s[1] = SubSeq(b, list[1] + 1, Behind(1))
      BY <2>1
    <3> HIDE DEF s
    <3> QED BY <3>1, <3>2, Zenon
  <2> HIDE DEF s
  <2> QED BY <1>13, <2>1, <2>2
<1>15. ASSUME NEW k \in 1 .. p - 1, k \in T PROVE k + 1 \in T
  <2>1. k \in 1 .. p /\ k + 1 \in 1 .. p
    BY <1>6
  <2>2. f[k] = SubSeq(b, 1, Behind(k)) /\ s[k + 1] = SubSeq(b, list[k + 1] + 1, Behind(k + 1)) /\ list[k + 1] = Behind(k)
    BY <1>9, <1>15, <2>1
  <2> DEFINE x == Behind(k)
             y == Behind(k + 1)
  <2>3. x \in 0 .. most /\ y \in x .. most
    <3>1. list[k] \in Nat /\ list[k + 1] \in Nat /\ Behind(k) \in list[k] + 1 .. most /\ Behind(k + 1) \in list[k + 1] + 1 .. most
      BY <1>8, <1>11, <2>1
    <3>2. list[k + 1] = Behind(k) /\ most \in Int
      BY <2>2, <1>8
    <3>3. x \in Nat /\ x <= most
      BY <3>1, <3>2
    <3>4. y \in list[k + 1] + 1 .. most /\ list[k + 1] = x
      BY <3>1, <3>2
    <3> HIDE DEF x, y
    <3> QED BY <3>2, <3>3, <3>4
  <2> HIDE DEF x, y
  <2>4. SubSeq(b, 1, x) \o SubSeq(b, x + 1, y) = SubSeq(b, 1, y)
    BY <2>3, ConcatAdjacentSubSeq
  <2>5. f[k + 1] = f[k] \o s[k + 1]
    <3> HIDE DEF s
    <3> QED BY <1>12, <1>13
  <2> HIDE DEF s
  <2> QED BY <2>1, <2>2, <2>4, <2>5 DEF x, y
<1>16. f[p] = SubSeq(b, 1, most)
  <2>1. 1 .. p \subseteq T
    <3>1. p \in Nat /\ 1 .. p - 1 = 1 .. p - 1
      BY <1>6
    <3> HIDE DEF T
    <3> QED BY <3>1, <1>14, <1>15, Induction
  <2>2. p \in 1 .. p
    BY <1>6
  <2> QED BY <1>10, <2>1, <2>2
<1>17. FlattenSeq(s) = b
  <2> HIDE DEF s
  <2> QED BY <1>12, <1>13, <1>16, SubSeqFull
<1> QED BY <1>7, <1>17 DEF PartsOf, starts, Behind

\* A clip is never empty.
LEMMA ClipsHaveFrames == ASSUME Croppings, ClipTypes PROVE ClipLength > 0
<1> DEFINE l == dataset.length
           f == dataset.fast
           o == dataset.slow
<1>1. l \in Int /\ l > 0 /\ f \in Int /\ f > 0 /\ o \in Int /\ o > 0 /\ (dataset.slowfast => f <= l)
  BY ClipParts DEF Croppings, ClipTypes
<1>2. l \div o \in Int /\ l \div o >= 0
  <2>1. l \div o \in Int /\ l < o * (l \div o) + o
    <3> HIDE DEF l, o
    <3> QED BY <1>1, Divided
  <2> DEFINE q == l \div o
  <2>2. q <= -1 => o * q <= o * (-1)
    <3> HIDE DEF q, o
    <3> QED BY <1>1, <2>1 DEF q
  <2> DEFINE oq == o * q
  <2>3. oq \in Int /\ l < oq + o /\ (q <= -1 => oq <= -o) /\ q \in Int
    <3>1. o * q \in Int
      <4> HIDE DEF q, o
      <4> QED BY <1>1, <2>1 DEF q
    <3> QED BY <2>1, <2>2, <3>1, <1>1
  <2> HIDE DEF oq, q, o, l
  <2>4. q >= 0
    BY <1>1, <2>3
  <2> QED BY <2>3, <2>4 DEF q
<1>3. ASSUME dataset.slowfast PROVE l \div f \in Int /\ l \div f >= 1
  <2>1. l \div f \in Int /\ l < f * (l \div f) + f
    <3> HIDE DEF l, f
    <3> QED BY <1>1, Divided
  <2> DEFINE q == l \div f
  <2>2. q <= 0 => f * q <= f * 0
    <3> HIDE DEF q, f
    <3> QED BY <1>1, <2>1 DEF q
  <2> DEFINE fq == f * q
  <2>3. fq \in Int /\ l < fq + f /\ (q <= 0 => fq <= 0) /\ q \in Int /\ f <= l
    <3>1. f * q \in Int
      <4> HIDE DEF q, f
      <4> QED BY <1>1, <2>1 DEF q
    <3> QED BY <2>1, <2>2, <3>1, <1>1, <1>3
  <2> HIDE DEF fq, q, f, l
  <2>4. q >= 1
    BY <1>1, <2>3
  <2> QED BY <2>3, <2>4 DEF q
<1>4. CASE dataset.slowfast
  <2>1. ClipLength = l \div f + l \div o
    BY <1>4 DEF ClipLength
  <2> HIDE DEF l, f, o
  <2> QED BY <1>2, <1>3, <1>4, <2>1
<1>5. CASE ~dataset.slowfast
  BY <1>1, <1>5 DEF ClipLength
<1> QED BY <1>4, <1>5

\* Nothing is sampled or batched at first.
LEMMA ClipInitially == ClipInit => ClipInv
<1> SUFFICES ASSUME ClipInit PROVE ClipInv
  OBVIOUS
<1>1. ClipTypes
  BY DEF ClipInit, ClipTypes
<1>2. ShardsCoverBatch
  BY DEF ClipInit, ShardsCoverBatch, FlattenSeq
<1> QED BY <1>1, <1>2 DEF ClipInit, ClipInv

\* The parts of a batch cover it, however many devices share it.
LEMMA ShardKeeps == ASSUME ClipInv, ShardBatch PROVE ClipInv'
<1>1. PICK size \in BatchSizes, num_ctx \in 1 .. MaxContexts : \E most \in 1 .. size :
       LET bs_list == BsList(size, num_ctx)
           parts == Cardinality({k \in 1 .. num_ctx : bs_list[k] < most})
           Behind(k) == IF bs_list[k + 1] > most THEN most ELSE bs_list[k + 1]
       IN  /\ batch' = [i \in 1 .. most |-> i]
           /\ shards' = [k \in 1 .. parts |-> SubSeq(batch', bs_list[k] + 1, Behind(k))]
  BY DEF ShardBatch
<1>2. PICK most \in 1 .. size :
       LET bs_list == BsList(size, num_ctx)
           parts == Cardinality({k \in 1 .. num_ctx : bs_list[k] < most})
           Behind(k) == IF bs_list[k + 1] > most THEN most ELSE bs_list[k + 1]
       IN  /\ batch' = [i \in 1 .. most |-> i]
           /\ shards' = [k \in 1 .. parts |-> SubSeq(batch', bs_list[k] + 1, Behind(k))]
  BY <1>1
<1>3. size \in Nat \ {0} /\ num_ctx \in Nat \ {0}
  BY ClipsAssumption DEF ClipsAssumption
<1>4. most \in Nat /\ batch' \in Seq(Nat) /\ Len(batch') = most
  <2>1. most \in Nat /\ batch' \in [1 .. most -> Nat]
    BY <1>2, <1>3
  <2> QED BY <2>1, AsSequence
<1>5. FlattenSeq(shards') = batch'
  <2> DEFINE list == BsList(size, num_ctx)
             b == batch'
  <2> HIDE DEF list, b
  <2>1. FlattenSeq(PartsOf(b, most, list, num_ctx)) = b
    <3>1. list = BsList(size, num_ctx) /\ b \in Seq(Nat) /\ Len(b) = most
      BY <1>4 DEF list, b
    <3> QED BY <1>3, <3>1, Shards
  <2>2. shards' = PartsOf(b, most, list, num_ctx)
    BY <1>2 DEF PartsOf, list, b
  <2> QED BY <2>1, <2>2 DEF b
<1>6. doing' = "batched" /\ UNCHANGED <<dataset, duration, frame>>
  BY DEF ShardBatch
<1> QED BY <1>5, <1>6 DEF ClipInv, ClipTypes, ShardsCoverBatch

\* The frames to read depend on what was sampled only.
LEMMA SameFrames == ASSUME UNCHANGED <<dataset, duration, frame, offsets, skip_offsets>>
  PROVE  /\ ClipTypes' = ClipTypes /\ Sampled' = Sampled /\ Segments' = Segments /\ Ids' = Ids
         /\ ClipLength' = ClipLength /\ Images' = Images
         /\ \A s \in Segments : SegmentFrames(s)' = SegmentFrames(s)
         /\ \A r : Fits(r)' = Fits(r)
<1>1. ClipTypes' = ClipTypes /\ Segments' = Segments /\ Ids' = Ids /\ ClipLength' = ClipLength
  BY DEF ClipTypes, Segments, Ids, ClipLength
<1>2. Sampled' = Sampled
  BY <1>1 DEF Sampled
<1>3. Images' = Images
  BY <1>1 DEF Images
<1>4. \A s \in Segments : SegmentFrames(s)' = SegmentFrames(s)
  BY DEF SegmentFrames, FrameIds
<1>5. \A r : Fits(r)' = Fits(r)
  BY DEF Fits
<1> QED BY <1>1, <1>2, <1>3, <1>4, <1>5

\* The list stays that of the frames sampled ...
LEMMA SameList == ASSUME UNCHANGED <<dataset, duration, frame, offsets, skip_offsets, frame_id_list>>, ListedBySegment
  PROVE  ListedBySegment'
BY SameFrames DEF ListedBySegment

\* ... and the images cut from it too.
LEMMA SameCut == ASSUME UNCHANGED <<dataset, duration, frame, offsets, skip_offsets>>,
                        CutsInto(clip_input', dataset.segments * dataset.crops)
  PROVE  CutsInto(clip_input, dataset.segments * dataset.crops)'
<1> DEFINE list == clip_input'
           n == dataset.segments * dataset.crops
<1>1. /\ list \in Seq(Images) /\ Len(list) = n * ClipLength
      /\ \A k \in 1 .. n : \E s \in Segments, r \in Regions :
           Fits(r) /\ \A j \in 1 .. ClipLength : list[(k - 1) * ClipLength + j] = Image(SegmentFrames(s)[j], r, Target)
  BY DEF CutsInto
<1>2. (dataset.segments * dataset.crops)' = n
  OBVIOUS
<1> HIDE DEF n
<1>3. list \in Seq(Images') /\ Len(list) = n * ClipLength'
  BY <1>1, SameFrames
<1>4. ASSUME NEW k \in 1 .. n
      PROVE  \E s \in Segments', r \in Regions : Fits(r)' /\
               \A j \in 1 .. ClipLength' : list[(k - 1) * ClipLength' + j] = Image(SegmentFrames(s)'[j], r, Target)
  <2>1. PICK s \in Segments, r \in Regions :
          Fits(r) /\ \A j \in 1 .. ClipLength : list[(k - 1) * ClipLength + j] = Image(SegmentFrames(s)[j], r, Target)
    BY <1>1
  <2> HIDE DEF list
  <2> QED BY <2>1, SameFrames
<1> QED BY <1>2, <1>3, <1>4 DEF CutsInto

\* Every step keeps the invariant.
LEMMA ClipStep == ASSUME Croppings, Sizes, ClipInv, [ClipNext]_clipVars PROVE ClipInv'
<1>1. CASE SampleIndices
  <2>1. ClipTypes' /\ Sampled'
    BY <1>1, SampleSampled DEF ClipInv
  <2>2. doing' = "read" /\ UNCHANGED <<batch, shards>>
    BY <1>1 DEF SampleIndices
  <2> QED BY <2>1, <2>2 DEF ClipInv, ShardsCoverBatch
<1>2. CASE ReadFrames
  <2>1. ClipTypes' /\ Sampled' /\ ListedBySegment'
    BY <1>2, ReadLists DEF ClipInv, ReadFrames
  <2>2. doing' = "transform" /\ UNCHANGED <<batch, shards>>
    BY <1>2 DEF ReadFrames
  <2> QED BY <2>1, <2>2 DEF ClipInv, ShardsCoverBatch
<1>3. CASE Transform
  <2>1. /\ doing' = "clips" /\ doing = "transform"
        /\ UNCHANGED <<dataset, duration, frame, offsets, skip_offsets, frame_id_list, batch, shards>>
    BY <1>3 DEF Transform
  <2>2. CutsInto(clip_input', dataset.segments * dataset.crops)
    BY <1>3, <2>1, TransformCuts DEF ClipInv
  <2>3. ClipTypes' /\ Sampled' /\ ListedBySegment' /\ ShardsCoverBatch'
    BY <2>1, SameFrames, SameList DEF ClipInv, ShardsCoverBatch
  <2>4. CutsInto(clip_input, dataset.segments * dataset.crops)'
    BY <2>1, <2>2, SameCut
  <2> QED BY <2>1, <2>3, <2>4 DEF ClipInv
<1>4. CASE ShardBatch
  BY <1>4, ShardKeeps
<1>5. CASE UNCHANGED clipVars
  <2>1. UNCHANGED <<dataset, duration, frame, doing, offsets, skip_offsets, frame_id_list, clip_input, batch, shards>>
    BY <1>5 DEF clipVars
  <2>2. doing = "clips" => CutsInto(clip_input, dataset.segments * dataset.crops)'
    BY <2>1, SameCut DEF ClipInv
  <2>3. doing \in {"transform", "clips"} => ListedBySegment'
    BY <2>1, SameList DEF ClipInv
  <2> QED BY <2>1, <2>2, <2>3, SameFrames DEF ClipInv, ShardsCoverBatch
<1> QED BY <1>1, <1>2, <1>3, <1>4, <1>5 DEF ClipNext

\* In every state: the images of a sample are cut at every length into clips, as many as there are
\* segments and crops, each the frames of one segment in their order, in one region of the frame and
\* of the target's size (VideoClsCustom, the transforms and the reshape); and the shards of a batch are
\* the batch (ShardedDataLoader). It takes a caller that counts the crops as the transform makes them,
\* ten crops of single frames only, and frames no smaller than the crops.
THEOREM ClipsTheorem == ASSUME Croppings, Sizes PROVE ClipSpec => []ClipsHoldTogether
<1>1. ClipInit => ClipInv
  BY ClipInitially
<1>2. ClipInv /\ [ClipNext]_clipVars => ClipInv'
  BY ClipStep
<1>3. ClipInv => ClipsHoldTogether
  <2> SUFFICES ASSUME ClipInv PROVE ClipsHoldTogether
    OBVIOUS
  <2>1. ASSUME doing = "clips" PROVE ClipsAreWhole
    <3>1. ClipTypes /\ Sampled /\ CutsInto(clip_input, dataset.segments * dataset.crops)
      BY <2>1 DEF ClipInv
    <3>2. ClipLength > 0
      BY <3>1, ClipsHaveFrames
    <3> QED BY <3>1, <3>2, CutIsWhole
  <2>2. doing # "clips" => ClipsAreWhole
    BY DEF ClipsAreWhole
  <2> QED BY <2>1, <2>2 DEF ClipInv, ClipsHoldTogether
<1> QED BY <1>1, <1>2, <1>3, PTL DEF ClipSpec

----------------------------------------------------------------------------
(* VideoLoader *)

\* Sequences that pair off with sets that have nothing in common, joined.
LEMMA PairedJoin ==
  ASSUME NEW A, NEW B, A \cap B = {}, NEW a \in Seq(A), NEW b \in Seq(B),
         Paired(a, Len(a), A), Paired(b, Len(b), B)
  PROVE  a \o b \in Seq(A \cup B) /\ Paired(a \o b, Len(a \o b), A \cup B)
<1> DEFINE S == A \cup B
           c == a \o b
<1>1. a \in Seq(S) /\ b \in Seq(S)
  OBVIOUS
<1> HIDE DEF S
<1>2. /\ c \in Seq(S) /\ Len(c) = Len(a) + Len(b) /\ Len(a) \in Nat /\ Len(b) \in Nat
      /\ \A i \in 1 .. Len(a) : c[i] = a[i]
      /\ \A i \in 1 .. Len(b) : c[Len(a) + i] = b[i]
  BY <1>1, Joined
<1> HIDE DEF c
<1> DEFINE m == Len(a)
           n == Len(b)
<1>3. c \in [1 .. m + n -> S]
  BY <1>2
<1>4. ASSUME NEW i \in 1 .. m + n
      PROVE  (i <= m /\ i \in 1 .. m /\ c[i] = a[i] /\ c[i] \in A) \/ (i > m /\ i - m \in 1 .. n /\ c[i] = b[i - m] /\ c[i] \in B)
  <2>1. CASE i <= m
    <3>1. i \in 1 .. m
      BY <1>2, <2>1
    <3> QED BY <1>2, <2>1, <3>1 DEF Paired
  <2>2. CASE ~(i <= m)
    <3>1. i - m \in 1 .. n /\ m + (i - m) = i /\ i > m
      BY <1>2, <2>2
    <3>2. c[m + (i - m)] = b[i - m]
      BY <1>2, <3>1
    <3>3. b[i - m] \in B
      BY <3>1 DEF Paired
    <3> QED BY <3>1, <3>2, <3>3
  <2> QED BY <2>1, <2>2
<1>5. ASSUME NEW i \in 1 .. m + n, NEW j \in 1 .. m + n, c[i] = c[j] PROVE i = j
  <2>1. CASE i <= m /\ j <= m
    <3>1. i \in 1 .. m /\ j \in 1 .. m /\ a[i] = a[j]
      BY <1>2, <1>4, <1>5, <2>1
    <3> QED BY <3>1 DEF Paired
  <2>2. CASE ~(i <= m) /\ ~(j <= m)
    <3>1. i - m \in 1 .. n /\ j - m \in 1 .. n /\ b[i - m] = b[j - m]
      BY <1>2, <1>4, <1>5, <2>2
    <3>2. i - m = j - m
      BY <3>1 DEF Paired
    <3> QED BY <1>2, <3>2
  <2>3. CASE (i <= m /\ ~(j <= m)) \/ (~(i <= m) /\ j <= m)
    <3>1. c[i] \in A /\ c[i] \in B
      BY <1>2, <1>4, <1>5, <2>3
    <3> QED BY <3>1
  <2> QED BY <2>1, <2>2, <2>3
<1>6. ASSUME NEW s \in S PROVE \E i \in 1 .. m + n : c[i] = s
  <2>1. CASE s \in A
    <3>1. PICK i \in 1 .. m : a[i] = s
      BY <2>1 DEF Paired
    <3>2. i \in 1 .. m + n
      BY <1>2
    <3> QED BY <1>2, <3>1, <3>2
  <2>2. CASE s \in B
    <3>1. PICK i \in 1 .. n : b[i] = s
      BY <2>2 DEF Paired
    <3>2. m + i \in 1 .. m + n
      BY <1>2
    <3> QED BY <1>2, <3>1, <3>2
  <2> QED BY <2>1, <2>2 DEF S
<1>7. Paired(c, m + n, S)
  BY <1>3, <1>5, <1>6 DEF Paired
<1> QED BY <1>2, <1>7 DEF c, S

\* As many of them as there are.
AllOf(G, n) == UNION {G[i] : i \in 1 .. n}

LEMMA PairedFlat ==
  ASSUME NEW S, NEW s \in Seq(Seq(S)), s # <<>>, NEW G,
         \A i \in 1 .. Len(s) : G[i] \subseteq S /\ Paired(s[i], Len(s[i]), G[i]),
         \A i, j \in 1 .. Len(s) : i # j => G[i] \cap G[j] = {}
  PROVE  /\ FlattenSeq(s) \in Seq(AllOf(G, Len(s)))
         /\ Paired(FlattenSeq(s), Len(FlattenSeq(s)), AllOf(G, Len(s)))
<1> DEFINE n == Len(s)
           all(i) == AllOf(G, i)
<1>1. PICK f : /\ f \in [1 .. Len(s) -> Seq(S)] /\ FlattenSeq(s) = f[Len(s)]
               /\ f[1] = s[1] /\ \A i \in 1 .. Len(s) - 1 : f[i + 1] = f[i] \o s[i + 1]
  BY Flattened
<1>2. n \in Nat /\ n > 0
  BY EmptySeq
<1>3. ASSUME NEW i \in 1 .. n PROVE s[i] \in Seq(G[i])
  <2> DEFINE t == s[i]
  <2>1. t \in Seq(S) /\ Paired(t, Len(t), G[i])
    BY <1>3, ElementOfSeq
  <2> HIDE DEF t
  <2>2. t \in [1 .. Len(t) -> G[i]] /\ Len(t) \in Nat
    BY <2>1 DEF Paired
  <2>3. t \in Seq(G[i])
    BY <2>2, AsSequence
  <2> QED BY <2>3 DEF t
<1> DEFINE P(i) == f[i] \in Seq(all(i)) /\ Paired(f[i], Len(f[i]), all(i))
           T == {i \in 1 .. n : P(i)}
<1>4. P(1)
  <2>1. 1 \in 1 .. n /\ all(1) = G[1]
    <3>1. 1 .. 1 = {1}
      OBVIOUS
    <3> QED BY <1>2, <3>1 DEF AllOf
  <2> HIDE DEF all
  <2>2. f[1] \in Seq(G[1]) /\ Paired(f[1], Len(f[1]), G[1])
    BY <1>1, <1>3, <2>1
  <2> QED BY <2>1, <2>2
<1>5. ASSUME NEW i \in 1 .. n - 1, P(i) PROVE P(i + 1)
  <2>1. i + 1 \in 1 .. n /\ i \in Nat
    BY <1>2
  <2>2. all(i + 1) = all(i) \cup G[i + 1]
    <3>1. 1 .. i + 1 = (1 .. i) \cup {i + 1}
      BY <2>1
    <3> QED BY <3>1 DEF AllOf
  <2>3. all(i) \cap G[i + 1] = {}
    <3>1. \A k \in 1 .. i : k \in 1 .. n /\ k # i + 1
      BY <1>2
    <3>2. \A k \in 1 .. i : G[k] \cap G[i + 1] = {}
      BY <2>1, <3>1
    <3> QED BY <3>2 DEF AllOf
  <2> DEFINE a == f[i]
             b == s[i + 1]
             A == all(i)
             B == G[i + 1]
  <2>4. a \in Seq(A) /\ Paired(a, Len(a), A) /\ b \in Seq(B) /\ Paired(b, Len(b), B) /\ A \cap B = {} /\ f[i + 1] = a \o b
    <3> HIDE DEF all
    <3>1. Paired(b, Len(b), B) /\ b \in Seq(B)
      BY <1>3, <2>1
    <3>2. f[i + 1] = a \o b
      BY <1>1
    <3> QED BY <1>5, <2>3, <3>1, <3>2
  <2> HIDE DEF a, b, A, B, all
  <2>5. a \o b \in Seq(A \cup B) /\ Paired(a \o b, Len(a \o b), A \cup B)
    BY <2>4, PairedJoin
  <2> QED BY <2>2, <2>4, <2>5 DEF A, B
<1>6. 1 .. n \subseteq T
  <2>1. 1 \in T
    <3> HIDE DEF P
    <3> QED BY <1>2, <1>4
  <2>2. \A i \in 1 .. n - 1 : i \in T => i + 1 \in T
    <3> SUFFICES ASSUME NEW i \in 1 .. n - 1, i \in T PROVE i + 1 \in T
      OBVIOUS
    <3>1. i + 1 \in 1 .. n
      BY <1>2
    <3>2. P(i)
      <4> HIDE DEF P
      <4> QED OBVIOUS
    <3>3. P(i + 1)
      <4> HIDE DEF P
      <4> QED BY <1>5, <3>2
    <3> HIDE DEF P
    <3> QED BY <3>1, <3>3
  <2> HIDE DEF T, n
  <2> QED BY <1>2, <2>1, <2>2, Induction
<1>7. P(n)
  <2>1. n \in 1 .. n
    BY <1>2
  <2> HIDE DEF P
  <2> QED BY <1>6, <2>1
<1> QED BY <1>1, <1>7

LEMMA Counted == ASSUME NEW n \in Nat
  PROVE  Cardinality(1 .. n) = n
<1>1. Cardinality(1 .. n) = IF 1 > n THEN 0 ELSE n - 1 + 1
  BY FS_Interval
<1> QED BY <1>1

\* How often i is in a sequence.
CountOf(s, i) == Cardinality({n \in 1 .. Len(s) : s[n] = i})

\* Sequences joined have it as often as both.
LEMMA CountJoined == ASSUME NEW S, NEW a \in Seq(S), NEW b \in Seq(S), NEW i
  PROVE  CountOf(a \o b, i) = CountOf(a, i) + CountOf(b, i) /\ CountOf(a, i) \in Nat /\ CountOf(b, i) \in Nat
<1> DEFINE m == Len(a)
           n == Len(b)
           c == a \o b
           A == {k \in 1 .. m : a[k] = i}
           B == {k \in 1 .. n : b[k] = i}
           C == {k \in 1 .. Len(c) : c[k] = i}
           D == {k \in m + 1 .. m + n : c[k] = i}
<1>1. /\ c \in Seq(S) /\ Len(c) = m + n /\ m \in Nat /\ n \in Nat
      /\ \A k \in 1 .. m : c[k] = a[k]
      /\ \A k \in 1 .. n : c[m + k] = b[k]
  BY Joined
<1> HIDE DEF c, m, n
<1>2. C = A \cup D /\ A \cap D = {}
  BY <1>1
<1>3. IsFiniteSet(A) /\ IsFiniteSet(B) /\ IsFiniteSet(D)
  <2>1. IsFiniteSet(1 .. m) /\ IsFiniteSet(1 .. n) /\ IsFiniteSet(m + 1 .. m + n)
    <3>1. m \in Int /\ n \in Int /\ m + 1 \in Int /\ m + n \in Int
      BY <1>1
    <3>2. IsFiniteSet(1 .. m)
      BY <3>1, FS_Interval
    <3>3. IsFiniteSet(1 .. n)
      BY <3>1, FS_Interval
    <3> DEFINE x == m + 1
               y == m + n
    <3>4. x \in Int /\ y \in Int
      BY <3>1
    <3> HIDE DEF x, y
    <3>5. IsFiniteSet(x .. y)
      BY <3>4, FS_Interval
    <3> QED BY <3>2, <3>3, <3>5 DEF x, y
  <2>2. A \subseteq 1 .. m /\ B \subseteq 1 .. n /\ D \subseteq m + 1 .. m + n
    OBVIOUS
  <2> HIDE DEF A, B, D
  <2> QED BY <2>1, <2>2, FS_Subset
<1>4. Cardinality(D) = Cardinality(B)
  <2> DEFINE g == [k \in B |-> m + k]
  <2>1. \A k \in B : g[k] \in D
    <3>1. \A k \in B : k \in 1 .. n /\ b[k] = i /\ m + k \in m + 1 .. m + n
      BY <1>1
    <3> QED BY <1>1, <3>1
  <2>2. \A k, j \in B : g[k] = g[j] => k = j
    BY <1>1
  <2>3. \A d \in D : \E k \in B : g[k] = d
    <3> SUFFICES ASSUME NEW d \in D PROVE \E k \in B : g[k] = d
      OBVIOUS
    <3>1. d - m \in 1 .. n /\ m + (d - m) = d
      BY <1>1
    <3>2. d - m \in B
      BY <1>1, <3>1
    <3> QED BY <3>1, <3>2
  <2>4. g \in [B -> D]
    BY <2>1
  <2> HIDE DEF g, B, D
  <2>5. g \in Bijection(B, D)
    BY <2>2, <2>3, <2>4 DEF Bijection, Injection, Surjection, IsInjective
  <2>6. ExistsBijection(B, D)
    BY <2>5 DEF ExistsBijection
  <2> QED BY <1>3, <2>6, FS_Bijection
<1>5. Cardinality(C) = Cardinality(A) + Cardinality(D)
  <2> HIDE DEF A, C, D
  <2>1. Cardinality(A \cup D) = Cardinality(A) + Cardinality(D) - Cardinality(A \cap D)
    BY <1>3, FS_Union
  <2>2. Cardinality(A \cap D) = 0
    BY <1>2, FS_EmptySet
  <2>3. Cardinality(A) \in Nat /\ Cardinality(D) \in Nat
    BY <1>3, FS_CardinalityType
  <2> QED BY <1>2, <2>1, <2>2, <2>3
<1>6. Cardinality(A) \in Nat /\ Cardinality(B) \in Nat
  BY <1>3, FS_CardinalityType
<1> QED BY <1>4, <1>5, <1>6 DEF CountOf, m, n, c

\* Parts each of which repeats its own number.
LEMMA CountFlat ==
  ASSUME NEW m \in Nat, m > 0, NEW N \in [1 .. m -> Nat], NEW s, s = [i \in 1 .. m |-> [k \in 1 .. N[i] |-> i]]
  PROVE  FlattenSeq(s) \in Seq(1 .. m) /\ \A i \in 1 .. m : CountOf(FlattenSeq(s), i) = N[i]
<1> DEFINE S == 1 .. m
<1>1. s \in Seq(Seq(S)) /\ s # <<>> /\ Len(s) = m /\ \A i \in S : s[i] = [k \in 1 .. N[i] |-> i]
  <2>1. \A i \in S : [k \in 1 .. N[i] |-> i] \in Seq(S)
    <3> SUFFICES ASSUME NEW i \in S PROVE [k \in 1 .. N[i] |-> i] \in Seq(S)
      OBVIOUS
    <3> DEFINE l == N[i]
               t == [k \in 1 .. l |-> i]
    <3>1. l \in Nat /\ t \in [1 .. l -> S]
      OBVIOUS
    <3> HIDE DEF l, t, S
    <3>2. t \in Seq(S)
      BY <3>1, AsSequence
    <3> QED BY <3>2 DEF t, l
  <2>2. s \in [1 .. m -> Seq(S)]
    BY <2>1
  <2>3. \A i \in S : s[i] = [k \in 1 .. N[i] |-> i]
    OBVIOUS
  <2> HIDE DEF S
  <2>4. s \in Seq(Seq(S)) /\ Len(s) = m
    BY <2>2, AsSequence
  <2>5. s # <<>>
    <3>1. Len(s) # 0
      BY <2>4
    <3> QED BY <2>4, <3>1, EmptySeq
  <2> QED BY <2>3, <2>4, <2>5 DEF S
<1>2. \A i, j \in S : CountOf(s[j], i) = IF i = j THEN N[i] ELSE 0
  <2> SUFFICES ASSUME NEW i \in S, NEW j \in S PROVE CountOf(s[j], i) = IF i = j THEN N[i] ELSE 0
    OBVIOUS
  <2> DEFINE l == N[j]
             t == s[j]
  <2>1. l \in Nat /\ t = [k \in 1 .. l |-> j] /\ Len(t) = l
    <3>1. l \in Nat /\ t = [k \in 1 .. l |-> j]
      BY <1>1
    <3> HIDE DEF l, t
    <3> QED BY <3>1
  <2> HIDE DEF l, t
  <2>2. CASE i = j
    <3>1. {k \in 1 .. Len(t) : t[k] = i} = 1 .. l
      BY <2>1, <2>2
    <3>2. Cardinality(1 .. l) = l
      BY <2>1, Counted
    <3> QED BY <2>2, <3>1, <3>2 DEF CountOf, l, t
  <2>3. CASE i # j
    <3>1. {k \in 1 .. Len(t) : t[k] = i} = {}
      BY <2>1, <2>3
    <3> QED BY <2>3, <3>1, FS_EmptySet DEF CountOf, t
  <2> QED BY <2>2, <2>3
<1> HIDE DEF S
<1>3. PICK f : /\ f \in [1 .. Len(s) -> Seq(S)] /\ FlattenSeq(s) = f[Len(s)]
               /\ f[1] = s[1] /\ \A i \in 1 .. Len(s) - 1 : f[i + 1] = f[i] \o s[i + 1]
  <2> DEFINE t == s
  <2>1. t \in Seq(Seq(S)) /\ t # <<>>
    BY <1>1
  <2> HIDE DEF t
  <2>2. \E f : /\ f \in [1 .. Len(t) -> Seq(S)] /\ FlattenSeq(t) = f[Len(t)]
               /\ f[1] = t[1] /\ \A i \in 1 .. Len(t) - 1 : f[i + 1] = f[i] \o t[i + 1]
    BY <2>1, Flattened
  <2> QED BY <2>2 DEF t
<1> DEFINE P(j) == \A i \in S : CountOf(f[j], i) = IF i <= j THEN N[i] ELSE 0
           T == {j \in 1 .. m : P(j)}
<1>4. 1 \in T
  <2>1. 1 \in S /\ \A i \in S : (i = 1 <=> i <= 1)
    BY DEF S
  <2>2. \A i \in S : CountOf(f[1], i) = IF i = 1 THEN N[i] ELSE 0
    <3>1. \A i \in S : CountOf(s[1], i) = IF i = 1 THEN N[i] ELSE 0
      BY <1>2, <2>1
    <3>2. f[1] = s[1]
      BY <1>3
    <3> QED BY <3>1, <3>2
  <2>3. P(1)
    BY <2>1, <2>2
  <2> HIDE DEF P
  <2> QED BY <2>1, <2>3 DEF S
<1>5. \A j \in 1 .. m - 1 : j \in T => j + 1 \in T
  <2> SUFFICES ASSUME NEW j \in 1 .. m - 1, P(j) PROVE j + 1 \in T
    OBVIOUS
  <2>1. j + 1 \in S /\ j \in S /\ j \in Nat
    BY DEF S
  <2> DEFINE a == f[j]
             b == s[j + 1]
  <2>2. a \in Seq(S) /\ b \in Seq(S) /\ f[j + 1] = a \o b
    <3>1. b \in Seq(S)
      BY <1>1, <2>1, ElementOfSeq DEF S
    <3>2. f[j] \in Seq(S) /\ f[j + 1] = f[j] \o s[j + 1]
      BY <1>1, <1>3, <2>1 DEF S
    <3> QED BY <3>1, <3>2
  <2> HIDE DEF a, b
  <2>3. \A i \in S : CountOf(a \o b, i) = CountOf(a, i) + CountOf(b, i)
    BY <2>2, CountJoined
  <2>4. ASSUME NEW i \in S PROVE CountOf(f[j + 1], i) = IF i <= j + 1 THEN N[i] ELSE 0
    <3>1. CountOf(a, i) = IF i <= j THEN N[i] ELSE 0
      BY DEF a
    <3>2. CountOf(b, i) = IF i = j + 1 THEN N[i] ELSE 0
      BY <1>2, <2>1 DEF b
    <3>3. N[i] \in Nat /\ i \in Int
      BY DEF S
    <3> QED BY <2>1, <2>2, <2>3, <3>1, <3>2, <3>3
  <2>5. P(j + 1)
    BY <2>4
  <2> HIDE DEF P
  <2> QED BY <2>1, <2>5 DEF S
<1>6. 1 .. m \subseteq T
  <2> HIDE DEF T
  <2> QED BY <1>4, <1>5, Induction
<1>7. \A i \in S : CountOf(f[m], i) = N[i]
  <2>1. m \in T
    BY <1>6
  <2>2. P(m)
    <3> HIDE DEF P
    <3> QED BY <2>1
  <2> QED BY <2>2 DEF S
<1>8. f[m] \in Seq(S)
  BY <1>1, <1>3
<1>9. FlattenSeq(s) = f[m]
  BY <1>1, <1>3
<1> QED BY <1>7, <1>8, <1>9 DEF S

\* A shuffle takes each place once.
LEMMA Shuffled == ASSUME NEW S, NEW s \in Seq(S), NEW t \in Shuffles(s)
  PROVE  /\ t \in Seq(S) /\ Len(t) = Len(s)
         /\ \E p : OneToOne(p, Len(s)) /\ \A k \in 1 .. Len(s) : t[k] = s[p[k]]
<1> DEFINE n == Len(s)
<1>1. n \in Nat /\ DOMAIN s = 1 .. n
  OBVIOUS
<1>2. PICK p \in Bijection(1 .. n, 1 .. n) : t = [k \in 1 .. n |-> s[p[k]]]
  BY <1>1 DEF Shuffles
<1>5. OneToOne(p, n)
  BY <1>2 DEF OneToOne, Bijection, Injection, IsInjective
<1>6. t \in [1 .. n -> S]
  <2>1. \A k \in 1 .. n : p[k] \in 1 .. n
    BY <1>5 DEF OneToOne
  <2> QED BY <1>2, <2>1
<1> HIDE DEF n
<1>7. t \in Seq(S) /\ Len(t) = n
  BY <1>1, <1>6, AsSequence
<1> QED BY <1>2, <1>5, <1>7 DEF n

\* What is shuffled pairs off with the same set, and counts the same.
LEMMA ShuffledPaired == ASSUME NEW S, NEW s \in Seq(S), NEW t \in Shuffles(s), Paired(s, Len(s), S)
  PROVE  Paired(t, Len(t), S)
<1>1. PICK p : t \in Seq(S) /\ Len(t) = Len(s) /\ OneToOne(p, Len(s)) /\ \A k \in 1 .. Len(s) : t[k] = s[p[k]]
  BY Shuffled
<1> DEFINE n == Len(s)
<1>2. n \in Nat
  OBVIOUS
<1> HIDE DEF n
<1>3. PICK c : Paired(c, n, S) /\ \A i \in 1 .. n : c[i] = s[p[i]]
  BY <1>1, <1>2, PairedSorted DEF n
<1>4. \A k \in 1 .. n : t[k] = c[k]
  BY <1>1, <1>3 DEF n
<1>5. t \in [1 .. n -> S]
  BY <1>1 DEF n
<1> QED BY <1>1, <1>3, <1>4, <1>5 DEF Paired, n

LEMMA ShuffledCount == ASSUME NEW S, NEW s \in Seq(S), NEW t \in Shuffles(s), NEW i
  PROVE  CountOf(t, i) = CountOf(s, i)
<1>1. PICK p : t \in Seq(S) /\ Len(t) = Len(s) /\ OneToOne(p, Len(s)) /\ \A k \in 1 .. Len(s) : t[k] = s[p[k]]
  BY Shuffled
<1> DEFINE n == Len(s)
           I == {k \in 1 .. n : t[k] = i}
           J == {k \in 1 .. n : s[k] = i}
<1>2. n \in Nat
  OBVIOUS
<1> HIDE DEF n
<1>3. IsFiniteSet(1 .. n)
  BY <1>2, FS_Interval
<1>4. p \in Injection(1 .. n, 1 .. n)
  BY <1>1 DEF Injection, IsInjective, OneToOne, n
<1>5. p \in Surjection(1 .. n, 1 .. n)
  BY <1>3, <1>4, FS_Injection
<1>6. Paired(p, n, 1 .. n)
  BY <1>1, <1>5 DEF Paired, OneToOne, Surjection, n
<1>7. \A k \in 1 .. n : k \in I <=> p[k] \in J
  <2>1. \A k \in 1 .. n : p[k] \in 1 .. n
    BY <1>1 DEF OneToOne, n
  <2>2. \A k \in 1 .. n : t[k] = s[p[k]]
    BY <1>1 DEF n
  <2> QED BY <2>1, <2>2
<1>8. I \subseteq 1 .. n /\ J \subseteq 1 .. n
  OBVIOUS
<1> HIDE DEF I, J
<1>9. Cardinality(I) = Cardinality(J)
  <2> DEFINE A == 1 .. n
  <2>1. J \subseteq A /\ I = PlacesIn(p, n, J)
    BY <1>7, <1>8 DEF PlacesIn
  <2>2. Paired(p, n, A)
    BY <1>6
  <2> HIDE DEF A
  <2> QED BY <1>2, <2>1, <2>2, PairedPart
<1> QED BY <1>1, <1>9 DEF CountOf, I, J, n

\* How many multiples of w there are from 0 to m.
MultiplesUpto(m, w) == IF m >= 0 THEN m \div w + 1 ELSE 0

\* The multiples of w, in order.
LEMMA Multiples ==
  ASSUME NEW w \in Nat, w > 0, NEW m \in Int, NEW e \in Int, m <= e
  PROVE  /\ MultiplesUpto(m, w) \in Nat
         /\ \A k \in 1 .. MultiplesUpto(m, w) : (k - 1) * w \in 0 .. e /\ ((k - 1) * w) % w = 0 /\ (k - 1) * w <= m
         /\ \A b \in 0 .. e : b % w = 0 /\ b <= m => \E k \in 1 .. MultiplesUpto(m, w) : b = (k - 1) * w
<1> DEFINE d == m \div w
           n == MultiplesUpto(m, w)
<1>1. d \in Int /\ w * d <= m /\ m < w * d + w
  BY Divided
<1>2. m >= 0 => d >= 0
  <2> HIDE DEF d
  <2>1. d <= -1 => w * d <= w * (-1)
    BY <1>1
  <2>2. w * (-1) = -w /\ w * d \in Int
    BY <1>1
  <2> QED BY <1>1, <2>1, <2>2
<1>3. n = IF m >= 0 THEN d + 1 ELSE 0
  BY DEF MultiplesUpto
<1> HIDE DEF n, d
<1>4. n \in Nat
  BY <1>1, <1>2, <1>3
<1>5. ASSUME NEW k \in 1 .. n PROVE (k - 1) * w \in 0 .. e /\ ((k - 1) * w) % w = 0 /\ (k - 1) * w <= m
  <2> DEFINE q == k - 1
  <2>1. q \in Nat /\ q <= d
    BY <1>1, <1>3, <1>4
  <2> HIDE DEF q
  <2>2. q * w = w * q + 0 /\ w * q \in Nat
    BY <2>1
  <2>3. w * q <= w * d
    BY <1>1, <2>1
  <2>4. w * q <= m /\ w * q \in 0 .. e
    <3>1. w * d \in Int
      BY <1>1
    <3> QED BY <1>1, <2>2, <2>3, <3>1
  <2>5. (w * q + 0) % w = 0
    BY <2>1, Remainder
  <2> QED BY <2>2, <2>4, <2>5 DEF q
<1>6. ASSUME NEW b \in 0 .. e, b % w = 0, b <= m PROVE \E k \in 1 .. n : b = (k - 1) * w
  <2> DEFINE q == b \div w
             r == b - w * q
  <2>1. q \in Int /\ w * q <= b /\ b < w * q + w
    BY Divided
  <2> HIDE DEF q
  <2>2. w * q \in Int /\ r \in 0 .. w - 1 /\ b = w * q + r
    BY <2>1
  <2> HIDE DEF r
  <2>3. r = 0
    <3>1. (w * q + r) % w = r
      BY <2>1, <2>2, Remainder
    <3>2. b % w = r
      BY <2>2, <3>1
    <3> QED BY <1>6, <3>2
  <2>4. b = w * q
    BY <2>2, <2>3
  <2>5. q >= 0 /\ q <= d
    <3>1. q <= -1 => w * q <= w * (-1)
      BY <2>1
    <3>2. q >= d + 1 => w * q >= w * (d + 1)
      BY <1>1, <2>1
    <3>3. w * (-1) = -w /\ w * (d + 1) = w * d + w /\ w * d \in Int
      BY <1>1
    <3> QED BY <1>1, <1>6, <2>1, <2>2, <2>4, <3>1, <3>2, <3>3
  <2>6. q + 1 \in 1 .. n
    BY <1>1, <1>3, <1>6, <2>1, <2>5
  <2>7. b = ((q + 1) - 1) * w
    <3>1. (q + 1) - 1 = q
      BY <2>1
    <3> QED BY <2>1, <2>4, <3>1
  <2> QED BY <2>6, <2>7
<1> QED BY <1>4, <1>5, <1>6 DEF n

(* The constructor's arguments, clamped *)

OpenLoaders == [lens : Seq(Nat \ {0, 1}) \ {<<>>}, bs : Nat \ {0}, interval : Nat, skip : Nat,
           shuffle : 0 .. 2, damaged : BOOLEAN]

LEMMA Clamped == ASSUME NEW l \in Loaders
  PROVE  [l EXCEPT !.interval = AtLeastZero(@), !.skip = AtLeastZero(@)] \in OpenLoaders
<1> DEFINE x == AtLeastZero(l.interval)
           y == AtLeastZero(l.skip)
<1>1. l \in [lens : Seq(Nat \ {0, 1}) \ {<<>>}, bs : Nat \ {0}, interval : Int, skip : Int,
             shuffle : 0 .. 2, damaged : BOOLEAN]
  BY LoadersAssumption
<1>2. x \in Nat /\ y \in Nat
  BY <1>1 DEF AtLeastZero
<1>3. [l EXCEPT !.interval = AtLeastZero(@), !.skip = AtLeastZero(@)] = [l EXCEPT !.interval = x, !.skip = y]
  OBVIOUS
<1> HIDE DEF x, y
<1>4. [l EXCEPT !.interval = x, !.skip = y] \in OpenLoaders
  BY <1>1, <1>2 DEF OpenLoaders
<1> QED BY <1>3, <1>4

\* A batch has a length, and the next begins behind it.
LEMMA Lengths == ASSUME NEW l \in OpenLoaders
  PROVE  /\ bs_length(l) \in Nat /\ bs_length(l) > 0 /\ bs_skip(l) \in Nat /\ bs_skip(l) > 0
         /\ bs_skip(l) = bs_length(l) + l.skip /\ l.skip \in Nat
         /\ l.bs * (l.interval + 1) - l.interval + l.skip = bs_skip(l)
<1> DEFINE b == l.bs
           v == l.interval
           k == l.skip
<1>1. b \in Nat /\ b > 0 /\ v \in Nat /\ k \in Nat
  BY DEF OpenLoaders
<1>2. bs_length(l) = b * (1 + v) - v /\ bs_skip(l) = (b * (1 + v) - v) + k
  BY DEF bs_length, bs_skip
<1> HIDE DEF b, v, k
<1>3. b * (1 + v) - v = b + (b - 1) * v /\ (b - 1) * v \in Nat /\ b * (v + 1) = b * (1 + v)
  <2>1. b * (1 + v) = b + b * v /\ (b - 1) * v = b * v - v /\ b * v \in Nat
    BY <1>1
  <2>2. (b - 1) * v \in Nat
    <3>1. b - 1 \in Nat
      BY <1>1
    <3> QED BY <1>1, <3>1
  <2>3. b * (v + 1) = b * (1 + v)
    <3>1. v + 1 = 1 + v
      BY <1>1
    <3> QED BY <3>1
  <2> QED BY <1>1, <2>1, <2>2, <2>3
<1> DEFINE x == (b - 1) * v
<1>4. x \in Nat /\ bs_length(l) = b + x /\ bs_skip(l) = b + x + k
  BY <1>1, <1>2, <1>3
<1>5. b * (v + 1) - v + k = bs_skip(l)
  BY <1>2, <1>3
<1> HIDE DEF x
<1>6. l.bs * (l.interval + 1) - l.interval + l.skip = bs_skip(l)
  BY <1>5 DEF b, v, k
<1> QED BY <1>1, <1>4, <1>6 DEF k

LEMMA VideoOf == ASSUME NEW l \in OpenLoaders, NEW i \in Videos(l)
  PROVE  End(l, i) \in Nat
<1>1. l.lens \in Seq(Nat \ {0, 1})
  BY DEF OpenLoaders
<1>2. l.lens[i] \in Nat \ {0, 1}
  BY <1>1, ElementOfSeq DEF Videos
<1> QED BY <1>2 DEF End

\* Batches that are the same are of one video and begin at one frame.
LEMMA SamplesDiffer ==
  ASSUME NEW l \in OpenLoaders, NEW i, NEW j, NEW b \in Int, NEW c \in Int, Samples(l, i, b) = Samples(l, j, c)
  PROVE  i = j /\ b = c
<1>1. Samples(l, i, b).video = i /\ Samples(l, j, c).video = j
  BY DEF Samples
<1>2. Samples(l, i, b).frames[1] = b
  <2>1. 1 \in 1 .. l.bs
    BY DEF OpenLoaders
  <2>2. Samples(l, i, b).frames[1] = b + (1 - 1) * (l.interval + 1)
    BY <2>1 DEF Samples
  <2> QED BY <2>2 DEF OpenLoaders
<1>3. Samples(l, j, c).frames[1] = c
  <2>1. 1 \in 1 .. l.bs
    BY DEF OpenLoaders
  <2>2. Samples(l, j, c).frames[1] = c + (1 - 1) * (l.interval + 1)
    BY <2>1 DEF Samples
  <2> QED BY <2>2 DEF OpenLoaders
<1> QED BY <1>1, <1>2, <1>3

\* The last place of a batch that fits, how many batches there are, and the k-th.
LastPlace(l, i) == End(l, i) - bs_length(l) - IF l.shuffle = 1 THEN 0 ELSE 1
BatchCount(l, i) == MultiplesUpto(LastPlace(l, i), bs_skip(l))
BatchOf(l, i, k) == Samples(l, i, (k - 1) * bs_skip(l))
GridOf(l, i) == {BatchOf(l, i, k) : k \in 1 .. BatchCount(l, i)}
AllBatches(l) == AllOf([i \in Videos(l) |-> GridOf(l, i)], Len(l.lens))

LEMMA VideosOf == ASSUME NEW l \in OpenLoaders
  PROVE  Videos(l) = 1 .. Len(l.lens) /\ Len(l.lens) \in Nat /\ Len(l.lens) > 0
<1>1. l.lens \in Seq(Nat \ {0, 1}) /\ l.lens # <<>>
  BY DEF OpenLoaders
<1>2. Len(l.lens) \in Nat /\ Len(l.lens) # 0 /\ DOMAIN l.lens = 1 .. Len(l.lens)
  BY <1>1, EmptySeq
<1> QED BY <1>2 DEF Videos

LEMMA PlacesOfBatches ==
  ASSUME NEW l \in OpenLoaders, NEW i \in Videos(l)
  PROVE  /\ LastPlace(l, i) \in Int /\ BatchCount(l, i) \in Nat /\ LastPlace(l, i) <= End(l, i)
         /\ \A k \in 1 .. BatchCount(l, i) : /\ (k - 1) * bs_skip(l) \in 0 .. End(l, i)
                                        /\ ((k - 1) * bs_skip(l)) % bs_skip(l) = 0
                                        /\ (k - 1) * bs_skip(l) <= LastPlace(l, i)
         /\ \A b \in 0 .. End(l, i) : b % bs_skip(l) = 0 /\ b <= LastPlace(l, i) =>
              \E k \in 1 .. BatchCount(l, i) : b = (k - 1) * bs_skip(l)
<1> DEFINE w == bs_skip(l)
           m == LastPlace(l, i)
           e == End(l, i)
<1>1. w \in Nat /\ w > 0 /\ e \in Int /\ m \in Int /\ m <= e
  BY Lengths, VideoOf DEF LastPlace
<1> HIDE DEF w, m, e
<1>2. /\ MultiplesUpto(m, w) \in Nat
      /\ \A k \in 1 .. MultiplesUpto(m, w) : (k - 1) * w \in 0 .. e /\ ((k - 1) * w) % w = 0 /\ (k - 1) * w <= m
      /\ \A b \in 0 .. e : b % w = 0 /\ b <= m => \E k \in 1 .. MultiplesUpto(m, w) : b = (k - 1) * w
  BY <1>1, Multiples
<1> QED BY <1>1, <1>2 DEF w, m, e, BatchCount

\* The grid of a video are its batches, one after another.
LEMMA GridIs == ASSUME loader \in OpenLoaders, NEW i \in Videos(loader)
  PROVE  Grid(i) = GridOf(loader, i)
<1> DEFINE w == bs_skip(loader)
           e == End(loader, i)
           m == LastPlace(loader, i)
           B == {b \in 0 .. e : b % w = 0 /\ b <= m}
           n == BatchCount(loader, i)
<1>1. Grid(i) = {Samples(loader, i, b) : b \in B}
  <2>1. e \in Int /\ bs_length(loader) \in Int
    BY Lengths, VideoOf
  <2>2. \A b \in 0 .. e : (IF FileOrder THEN b <= e - bs_length(loader) ELSE b < e - bs_length(loader)) <=> b <= m
    <3>1. CASE FileOrder
      <4>1. m = e - bs_length(loader)
        BY <2>1, <3>1 DEF FileOrder, LastPlace
      <4> QED BY <3>1, <4>1
    <3>2. CASE ~FileOrder
      <4>1. m = e - bs_length(loader) - 1
        BY <2>1, <3>2 DEF FileOrder, LastPlace
      <4> HIDE DEF m, e
      <4> QED BY <2>1, <3>2, <4>1
    <3> QED BY <3>1, <3>2
  <2>3. {b \in 0 .. e : b % w = 0 /\ IF FileOrder THEN b <= e - bs_length(loader) ELSE b < e - bs_length(loader)} = B
    <3> HIDE DEF e, w, m
    <3> QED BY <2>2
  <2> QED BY <2>3 DEF Grid
<1>2. /\ \A k \in 1 .. n : (k - 1) * w \in B
      /\ \A b \in B : \E k \in 1 .. n : b = (k - 1) * w
  BY PlacesOfBatches
<1>3. GridOf(loader, i) = {Samples(loader, i, (k - 1) * w) : k \in 1 .. n}
  BY DEF GridOf, BatchOf
<1> HIDE DEF B, w, n
<1> QED BY <1>1, <1>2, <1>3

LEMMA BatchesDiffer ==
  ASSUME NEW l \in OpenLoaders, NEW i, NEW j, NEW k \in Nat, NEW n \in Nat, BatchOf(l, i, k) = BatchOf(l, j, n)
  PROVE  i = j /\ k = n
<1> DEFINE w == bs_skip(l)
<1>1. w \in Nat /\ w > 0
  BY Lengths
<1> HIDE DEF w
<1>2. (k - 1) * w \in Int /\ (n - 1) * w \in Int
  BY <1>1
<1>3. i = j /\ (k - 1) * w = (n - 1) * w
  BY <1>2, SamplesDiffer DEF BatchOf, w
<1>4. k = n
  <2>1. k > n => (k - 1) * w >= (n - 1) * w + w
    <3> SUFFICES ASSUME k > n PROVE (k - 1) * w >= (n - 1) * w + w
      OBVIOUS
    <3>1. k - 1 >= n /\ k - 1 \in Int
      OBVIOUS
    <3>2. (k - 1) * w >= n * w
      BY <1>1, <3>1
    <3>3. n * w = (n - 1) * w + w
      BY <1>1
    <3> QED BY <3>2, <3>3
  <2>2. n > k => (n - 1) * w >= (k - 1) * w + w
    <3> SUFFICES ASSUME n > k PROVE (n - 1) * w >= (k - 1) * w + w
      OBVIOUS
    <3>1. n - 1 >= k /\ n - 1 \in Int
      OBVIOUS
    <3>2. (n - 1) * w >= k * w
      BY <1>1, <3>1
    <3>3. k * w = (k - 1) * w + w
      BY <1>1
    <3> QED BY <3>2, <3>3
  <2> QED BY <1>1, <1>2, <1>3, <2>1, <2>2
<1> QED BY <1>3, <1>4

\* The samplers but that of random file order list the batches themselves.
LEMMA BatchesOfVideo ==
  ASSUME NEW l \in OpenLoaders, l.shuffle # 1, NEW i \in Videos(l)
  PROVE  VideoBatches(l, i) = [k \in 1 .. BatchCount(l, i) |-> BatchOf(l, i, k)]
<1> DEFINE w == bs_skip(l)
           e == End(l, i)
           m == LastPlace(l, i)
           n == BatchCount(l, i)
           B == {b \in 0 .. e : b % w = 0 /\ b + bs_length(l) < e}
           C == {b \in 0 .. e : b % w = 0 /\ b <= m}
           g == [k \in 1 .. n |-> (k - 1) * w]
<1>1. B = C
  <2>1. e \in Int /\ bs_length(l) \in Int /\ m = e - bs_length(l) - 1
    BY Lengths, VideoOf DEF LastPlace
  <2> HIDE DEF m, e, w
  <2> QED BY <2>1
<1>2. /\ \A k \in 1 .. n : (k - 1) * w \in C
      /\ \A b \in C : \E k \in 1 .. n : b = (k - 1) * w
      /\ n \in Nat
  BY PlacesOfBatches
<1>3. Paired(g, n, C)
  <2>1. ASSUME NEW j \in 1 .. n, NEW k \in 1 .. n, g[j] = g[k] PROVE j = k
    <3>1. BatchOf(l, i, j) = BatchOf(l, i, k)
      BY <2>1 DEF BatchOf
    <3>2. j \in Nat /\ k \in Nat
      BY <1>2
    <3> QED BY <3>1, <3>2, BatchesDiffer
  <2> HIDE DEF C, n, w
  <2> QED BY <1>2, <2>1 DEF Paired
<1> HIDE DEF g, n, C
<1>4. Cardinality(C) = n
  BY <1>2, <1>3, PairedCount
<1> QED BY <1>1, <1>4 DEF VideoBatches, BatchOf, n

\* That of random file order lists a video as often as it has batches.
LEMMA VisitsOfVideo ==
  ASSUME NEW l \in OpenLoaders, l.shuffle = 1, NEW i \in Videos(l)
  PROVE  NumBatches(l, i) = BatchCount(l, i)
<1> DEFINE w == bs_skip(l)
           e == End(l, i)
           b == bs_length(l)
           s == l.skip
           m == LastPlace(l, i)
<1>1. w \in Nat /\ w > 0 /\ e \in Nat /\ b \in Nat /\ b > 0 /\ s \in Nat /\ w = b + s /\ m = e - b
  BY Lengths, VideoOf DEF LastPlace
<1>2. NumBatches(l, i) = (e + s) \div w /\ BatchCount(l, i) = MultiplesUpto(m, w)
  BY DEF NumBatches, BatchCount
<1> HIDE DEF w, e, b, s, m
<1>3. CASE m >= 0
  <2> DEFINE d == m \div w
  <2>1. d \in Int /\ w * d <= m /\ m < w * d + w
    BY <1>1, Divided
  <2> HIDE DEF d
  <2>2. w * (d + 1) = w * d + w /\ w * d \in Int
    BY <1>1, <2>1
  <2>3. e + s = m + w
    BY <1>1
  <2> DEFINE q == d + 1
             x == e + s
  <2>4. q \in Int /\ x \in Int /\ w * q <= x /\ x < w * q + w
    BY <1>1, <2>1, <2>2, <2>3
  <2> HIDE DEF q, x
  <2>5. x \div w = q
    BY <1>1, <2>4, Quotient
  <2> QED BY <1>2, <1>3, <2>5 DEF q, x, d, MultiplesUpto
<1>4. CASE ~(m >= 0)
  <2> DEFINE x == e + s
  <2>1. x \in Int /\ w * 0 <= x /\ x < w * 0 + w
    BY <1>1, <1>4
  <2> HIDE DEF x
  <2>2. x \div w = 0
    BY <1>1, <2>1, Quotient
  <2> QED BY <1>2, <1>4, <2>2 DEF x, MultiplesUpto
<1> QED BY <1>3, <1>4

\* A visit order has every batch once, or every video as often as it has batches.
Complete(l, v) ==
  IF l.shuffle = 1 THEN v \in Seq(Videos(l)) /\ \A i \in Videos(l) : CountOf(v, i) = BatchCount(l, i)
  ELSE v \in Seq(AllBatches(l)) /\ Paired(v, Len(v), AllBatches(l))

LEMMA GridPaired ==
  ASSUME NEW l \in OpenLoaders, NEW i \in Videos(l)
  PROVE  /\ BatchCount(l, i) \in Nat
         /\ Paired([k \in 1 .. BatchCount(l, i) |-> BatchOf(l, i, k)], BatchCount(l, i), GridOf(l, i))
<1> DEFINE n == BatchCount(l, i)
           g == [k \in 1 .. n |-> BatchOf(l, i, k)]
<1>1. n \in Nat
  BY PlacesOfBatches
<1>2. GridOf(l, i) = {BatchOf(l, i, k) : k \in 1 .. n}
  BY DEF GridOf
<1> HIDE DEF n
<1>3. ASSUME NEW j \in 1 .. n, NEW k \in 1 .. n, g[j] = g[k] PROVE j = k
  <2>1. BatchOf(l, i, j) = BatchOf(l, i, k) /\ j \in Nat /\ k \in Nat
    BY <1>1, <1>3
  <2> QED BY <2>1, BatchesDiffer
<1>4. Paired(g, n, GridOf(l, i))
  BY <1>2, <1>3 DEF Paired
<1> QED BY <1>1, <1>4 DEF n

LEMMA GridsDiffer ==
  ASSUME NEW l \in OpenLoaders, NEW i \in Videos(l), NEW j \in Videos(l), i # j
  PROVE  GridOf(l, i) \cap GridOf(l, j) = {}
<1> SUFFICES ASSUME NEW b \in GridOf(l, i) \cap GridOf(l, j) PROVE FALSE
  OBVIOUS
<1>1. BatchCount(l, i) \in Nat /\ BatchCount(l, j) \in Nat
  BY GridPaired
<1>2. PICK k \in 1 .. BatchCount(l, i) : b = BatchOf(l, i, k)
  BY DEF GridOf
<1>3. PICK n \in 1 .. BatchCount(l, j) : b = BatchOf(l, j, n)
  BY DEF GridOf
<1>4. k \in Nat /\ n \in Nat
  BY <1>1
<1>5. BatchOf(l, i, k) = BatchOf(l, j, n)
  BY <1>2, <1>3
<1>6. i = j
  BY <1>4, <1>5, BatchesDiffer
<1> QED BY <1>6

LEMMA CompleteBatches ==
  ASSUME NEW l \in OpenLoaders, l.shuffle # 1
  PROVE  Complete(l, VisitOrder(l))
<1> DEFINE m == Len(l.lens)
           S == AllBatches(l)
           G == [i \in 1 .. m |-> GridOf(l, i)]
           s == [i \in 1 .. m |-> VideoBatches(l, i)]
<1>1. m \in Nat /\ m > 0 /\ Videos(l) = 1 .. m
  BY VideosOf
<1>2. S = AllOf(G, m)
  BY <1>1 DEF AllBatches
<1>3. VisitOrder(l) = FlattenSeq(s)
  <2>1. [i \in Videos(l) |-> IF l.shuffle = 1 THEN [k \in 1 .. NumBatches(l, i) |-> i] ELSE VideoBatches(l, i)] = s
    BY <1>1
  <2> HIDE DEF s
  <2> QED BY <2>1 DEF VisitOrder
<1>4. ASSUME NEW i \in 1 .. m
      PROVE  /\ s[i] \in Seq(S) /\ G[i] \subseteq S /\ Paired(s[i], Len(s[i]), G[i])
  <2> DEFINE n == BatchCount(l, i)
             t == [k \in 1 .. n |-> BatchOf(l, i, k)]
  <2>1. i \in Videos(l)
    BY <1>1
  <2>2. s[i] = t /\ G[i] = GridOf(l, i)
    BY <2>1, BatchesOfVideo
  <2>3. n \in Nat /\ Paired(t, n, GridOf(l, i))
    BY <2>1, GridPaired
  <2>4. G[i] \subseteq S
    <3> HIDE DEF G, S
    <3> QED BY <1>2 DEF AllOf
  <2> HIDE DEF t, n, s, G, S
  <2>5. t \in [1 .. n -> S]
    BY <2>2, <2>3, <2>4 DEF Paired
  <2>6. t \in Seq(S) /\ Len(t) = n
    BY <2>3, <2>5, AsSequence
  <2> QED BY <2>2, <2>3, <2>4, <2>6
<1>5. \A i, j \in 1 .. m : i # j => G[i] \cap G[j] = {}
  BY <1>1, GridsDiffer
<1>6. s \in [1 .. m -> Seq(S)]
  <2> HIDE DEF S, G
  <2> QED BY <1>4
<1> HIDE DEF m, S, G, s
<1>7. s \in Seq(Seq(S)) /\ Len(s) = m
  BY <1>1, <1>6, AsSequence
<1>8. s # <<>>
  <2>1. Len(s) # 0
    BY <1>1, <1>7
  <2> QED BY <1>7, <2>1, EmptySeq
<1>9. /\ FlattenSeq(s) \in Seq(AllOf(G, Len(s)))
      /\ Paired(FlattenSeq(s), Len(FlattenSeq(s)), AllOf(G, Len(s)))
  <2>1. \A i \in 1 .. Len(s) : G[i] \subseteq S /\ Paired(s[i], Len(s[i]), G[i])
    BY <1>4, <1>7
  <2>2. \A i, j \in 1 .. Len(s) : i # j => G[i] \cap G[j] = {}
    BY <1>5, <1>7
  <2> QED BY <1>7, <1>8, <2>1, <2>2, PairedFlat
<1> QED BY <1>2, <1>3, <1>7, <1>9 DEF Complete, S

LEMMA CompleteVisits ==
  ASSUME NEW l \in OpenLoaders, l.shuffle = 1
  PROVE  Complete(l, VisitOrder(l))
<1> DEFINE m == Len(l.lens)
           N == [i \in 1 .. m |-> BatchCount(l, i)]
           s == [i \in 1 .. m |-> [k \in 1 .. N[i] |-> i]]
<1>1. m \in Nat /\ m > 0 /\ Videos(l) = 1 .. m
  BY VideosOf
<1>2. VisitOrder(l) = FlattenSeq(s)
  <2>1. \A i \in 1 .. m : NumBatches(l, i) = N[i]
    BY <1>1, VisitsOfVideo
  <2>2. [i \in Videos(l) |-> IF l.shuffle = 1 THEN [k \in 1 .. NumBatches(l, i) |-> i] ELSE VideoBatches(l, i)] = s
    <3> HIDE DEF N
    <3> QED BY <1>1, <2>1
  <2> HIDE DEF s
  <2> QED BY <2>2 DEF VisitOrder
<1>3. N \in [1 .. m -> Nat]
  <2>1. \A i \in 1 .. m : BatchCount(l, i) \in Nat
    BY <1>1, PlacesOfBatches
  <2> QED BY <2>1
<1>4. \A i \in 1 .. m : N[i] = BatchCount(l, i)
  OBVIOUS
<1> HIDE DEF m, N
<1>5. s = [i \in 1 .. m |-> [k \in 1 .. N[i] |-> i]]
  OBVIOUS
<1> HIDE DEF s
<1>6. FlattenSeq(s) \in Seq(1 .. m) /\ \A i \in 1 .. m : CountOf(FlattenSeq(s), i) = N[i]
  BY <1>1, <1>3, <1>5, CountFlat
<1> QED BY <1>1, <1>2, <1>4, <1>6 DEF Complete

LEMMA CompleteShuffle ==
  ASSUME NEW l \in OpenLoaders, NEW v, Complete(l, v), NEW t \in Shuffles(v)
  PROVE  Complete(l, t) /\ Len(t) = Len(v)
<1>1. CASE l.shuffle = 1
  <2>1. v \in Seq(Videos(l)) /\ \A i \in Videos(l) : CountOf(v, i) = BatchCount(l, i)
    BY <1>1 DEF Complete
  <2>2. t \in Seq(Videos(l)) /\ Len(t) = Len(v)
    BY <2>1, Shuffled
  <2>3. \A i \in Videos(l) : CountOf(t, i) = BatchCount(l, i)
    BY <2>1, ShuffledCount
  <2> QED BY <1>1, <2>2, <2>3 DEF Complete
<1>2. CASE l.shuffle # 1
  <2>1. v \in Seq(AllBatches(l)) /\ Paired(v, Len(v), AllBatches(l))
    BY <1>2 DEF Complete
  <2>2. t \in Seq(AllBatches(l)) /\ Len(t) = Len(v)
    BY <2>1, Shuffled
  <2>3. Paired(t, Len(t), AllBatches(l))
    BY <2>1, ShuffledPaired
  <2> QED BY <1>2, <2>2, <2>3 DEF Complete
<1> QED BY <1>1, <1>2

(* The batch given at each place of the visit order *)

\* How many of the first n places have what place m has.
VisitsTo(v, i, n) == Cardinality({m \in 1 .. n : v[m] = i})
TakenAt(l, v, n) == IF l.shuffle = 1 THEN BatchOf(l, v[n], VisitsTo(v, v[n], n)) ELSE v[n]

LEMMA VisitsStep ==
  ASSUME NEW v, NEW i, NEW n \in Nat
  PROVE  VisitsTo(v, i, n) \in Nat /\ VisitsTo(v, i, n + 1) = VisitsTo(v, i, n) + (IF v[n + 1] = i THEN 1 ELSE 0)
<1> DEFINE A == {m \in 1 .. n : v[m] = i}
           B == {m \in 1 .. n + 1 : v[m] = i}
<1>1. IsFiniteSet(A)
  <2>1. IsFiniteSet(1 .. n)
    BY FS_Interval
  <2> QED BY <2>1, FS_Subset
<1>2. B = IF v[n + 1] = i THEN A \cup {n + 1} ELSE A
  OBVIOUS
<1>3. ~(n + 1 \in A)
  OBVIOUS
<1>4. VisitsTo(v, i, n) = Cardinality(A) /\ VisitsTo(v, i, n + 1) = Cardinality(B)
  BY DEF VisitsTo
<1> HIDE DEF A, B
<1>5. Cardinality(A) \in Nat
  BY <1>1, FS_CardinalityType
<1>6. Cardinality(A \cup {n + 1}) = Cardinality(A) + 1
  BY <1>1, <1>3, FS_AddElement
<1> QED BY <1>2, <1>4, <1>5, <1>6

LEMMA VisitsGrow ==
  ASSUME NEW v, NEW i, NEW m \in Nat, NEW n \in Nat, m < n, v[n] = i
  PROVE  VisitsTo(v, i, m) < VisitsTo(v, i, n)
<1> DEFINE k == n - 1
           A == {j \in 1 .. m : v[j] = i}
           B == {j \in 1 .. k : v[j] = i}
<1>1. k \in Nat /\ k + 1 = n /\ m <= k
  OBVIOUS
<1>2. A \subseteq B
  BY <1>1
<1>3. IsFiniteSet(B)
  <2> HIDE DEF k
  <2>1. IsFiniteSet(1 .. k)
    BY <1>1, FS_Interval
  <2> QED BY <2>1, FS_Subset
<1>4. VisitsTo(v, i, m) = Cardinality(A) /\ VisitsTo(v, i, k) = Cardinality(B)
  BY DEF VisitsTo
<1> HIDE DEF A, B, k
<1>5. Cardinality(A) <= Cardinality(B)
  BY <1>2, <1>3, FS_Subset
<1>6. VisitsTo(v, i, m) \in Nat
  BY VisitsStep
<1>7. VisitsTo(v, i, k) \in Nat /\ VisitsTo(v, i, n) = VisitsTo(v, i, k) + 1
  BY <1>1, VisitsStep
<1> QED BY <1>4, <1>5, <1>6, <1>7

\* In random file order the places of a video count up to its batches.
LEMMA PlacesOfVideo ==
  ASSUME NEW S, NEW v \in Seq(S), NEW i
  PROVE  /\ \A n \in 1 .. Len(v) : v[n] = i => VisitsTo(v, i, n) \in 1 .. CountOf(v, i)
         /\ \A k \in 1 .. CountOf(v, i) : \E n \in 1 .. Len(v) : v[n] = i /\ VisitsTo(v, i, n) = k
<1> DEFINE m == Len(v)
           c == CountOf(v, i)
           I == {n \in 1 .. m : v[n] = i}
           f == [n \in I |-> VisitsTo(v, i, n)]
<1>1. m \in Nat
  OBVIOUS
<1>2. c = VisitsTo(v, i, m)
  BY DEF CountOf, VisitsTo
<1> HIDE DEF m
<1>3. c = Cardinality(I) /\ IsFiniteSet(I) /\ c \in Nat
  <2>1. IsFiniteSet(1 .. m)
    BY <1>1, FS_Interval
  <2>2. IsFiniteSet(I)
    BY <2>1, FS_Subset
  <2>3. c = Cardinality(I)
    BY <1>2 DEF VisitsTo
  <2> HIDE DEF I, c
  <2> QED BY <2>2, <2>3, FS_CardinalityType
<1> HIDE DEF c
<1>4. ASSUME NEW n \in 1 .. m, v[n] = i PROVE VisitsTo(v, i, n) \in 1 .. c
  <2>1. n \in Nat /\ n <= m /\ n > 0
    BY <1>1
  <2>2. VisitsTo(v, i, n) \in Nat
    BY <2>1, VisitsStep
  <2>3. VisitsTo(v, i, 0) \in Nat
    BY VisitsStep
  <2>4. VisitsTo(v, i, 0) < VisitsTo(v, i, n)
    BY <1>4, <2>1, VisitsGrow
  <2>5. VisitsTo(v, i, n) <= VisitsTo(v, i, m)
    <3> DEFINE A == {j \in 1 .. n : v[j] = i}
    <3>1. A \subseteq I
      BY <1>1, <2>1
    <3>2. VisitsTo(v, i, n) = Cardinality(A)
      BY DEF VisitsTo
    <3> HIDE DEF A, I
    <3>3. Cardinality(A) <= Cardinality(I)
      BY <1>3, <3>1, FS_Subset
    <3> QED BY <1>2, <1>3, <3>2, <3>3
  <2> QED BY <1>2, <1>3, <2>2, <2>3, <2>4, <2>5
<1>5. f \in Injection(I, 1 .. c)
  <2>1. f \in [I -> 1 .. c]
    BY <1>4
  <2>2. ASSUME NEW a \in I, NEW b \in I, f[a] = f[b] PROVE a = b
    <3>1. a \in Nat /\ b \in Nat /\ v[a] = i /\ v[b] = i
      BY <1>1
    <3>2. VisitsTo(v, i, a) = VisitsTo(v, i, b) /\ VisitsTo(v, i, a) \in Nat
      BY <2>2, <3>1, VisitsStep
    <3>3. ~(a < b) /\ ~(b < a)
      <4>1. a < b => VisitsTo(v, i, a) < VisitsTo(v, i, b)
        BY <3>1, VisitsGrow
      <4>2. b < a => VisitsTo(v, i, b) < VisitsTo(v, i, a)
        BY <3>1, VisitsGrow
      <4> QED BY <3>2, <4>1, <4>2
    <3> QED BY <3>1, <3>3
  <2> HIDE DEF f, I
  <2> QED BY <2>1, <2>2 DEF Injection, IsInjective
<1>6. f \in Surjection(I, 1 .. c)
  <2>1. IsFiniteSet(1 .. c) /\ Cardinality(1 .. c) = c
    BY <1>3, FS_Interval, Counted
  <2> DEFINE C == 1 .. c
  <2> HIDE DEF f, I, C
  <2>2. f \in Injection(I, C) /\ IsFiniteSet(C) /\ Cardinality(I) = Cardinality(C)
    BY <1>3, <1>5, <2>1 DEF C
  <2>3. f \in Surjection(I, C)
    BY <2>2, FS_Injection
  <2> QED BY <2>3 DEF C
<1>7. ASSUME NEW k \in 1 .. c PROVE \E n \in 1 .. m : v[n] = i /\ VisitsTo(v, i, n) = k
  <2>1. PICK n \in I : f[n] = k
    <3> HIDE DEF f, I
    <3> QED BY <1>6 DEF Surjection
  <2> QED BY <2>1
<1> QED BY <1>4, <1>7 DEF m, c

LEMMA CompleteTaken ==
  ASSUME NEW l \in OpenLoaders, NEW v, Complete(l, v)
  PROVE  Len(v) \in Nat /\ Paired([n \in 1 .. Len(v) |-> TakenAt(l, v, n)], Len(v), AllBatches(l))
<1> DEFINE m == Len(v)
           S == AllBatches(l)
           f == [n \in 1 .. m |-> TakenAt(l, v, n)]
<1>1. CASE l.shuffle # 1
  <2>1. v \in Seq(S) /\ Paired(v, m, S)
    BY <1>1 DEF Complete
  <2>2. m \in Nat
    BY <2>1
  <2> HIDE DEF m, S
  <2>3. v \in [1 .. m -> S]
    BY <2>1 DEF Paired
  <2>4. f = v
    BY <1>1, <2>3 DEF TakenAt
  <2> QED BY <2>1, <2>2, <2>4 DEF m, S
<1>2. CASE l.shuffle = 1
  <2>1. v \in Seq(Videos(l)) /\ \A i \in Videos(l) : CountOf(v, i) = BatchCount(l, i)
    BY <1>2 DEF Complete
  <2>2. m \in Nat /\ \A n \in 1 .. m : v[n] \in Videos(l)
    BY <2>1, ElementOfSeq
  <2>3. ASSUME NEW i \in Videos(l)
        PROVE  /\ \A n \in 1 .. m : v[n] = i => VisitsTo(v, i, n) \in 1 .. BatchCount(l, i)
               /\ \A k \in 1 .. BatchCount(l, i) : \E n \in 1 .. m : v[n] = i /\ VisitsTo(v, i, n) = k
    <3>1. CountOf(v, i) = BatchCount(l, i)
      BY <2>1
    <3>2. /\ \A n \in 1 .. Len(v) : v[n] = i => VisitsTo(v, i, n) \in 1 .. CountOf(v, i)
          /\ \A k \in 1 .. CountOf(v, i) : \E n \in 1 .. Len(v) : v[n] = i /\ VisitsTo(v, i, n) = k
      BY <2>1, PlacesOfVideo
    <3> QED BY <3>1, <3>2
  <2>4. \A b : b \in S <=> \E i \in Videos(l) : b \in GridOf(l, i)
    <3>1. Videos(l) = 1 .. Len(l.lens)
      BY VideosOf
    <3> QED BY <3>1 DEF AllBatches, AllOf
  <2> HIDE DEF m, S
  <2>5. \A n \in 1 .. m : f[n] = BatchOf(l, v[n], VisitsTo(v, v[n], n)) /\ VisitsTo(v, v[n], n) \in 1 .. BatchCount(l, v[n])
    BY <1>2, <2>2, <2>3 DEF TakenAt
  <2>6. \A n \in 1 .. m : f[n] \in S
    BY <2>2, <2>4, <2>5 DEF GridOf
  <2>7. ASSUME NEW a \in 1 .. m, NEW b \in 1 .. m, f[a] = f[b] PROVE a = b
    <3> DEFINE i == v[a]
               j == v[b]
               x == VisitsTo(v, i, a)
               y == VisitsTo(v, j, b)
    <3>1. i \in Videos(l) /\ j \in Videos(l) /\ a \in Nat /\ b \in Nat
      BY <2>2
    <3>2. x \in Nat /\ y \in Nat
      BY <3>1, VisitsStep
    <3>3. BatchOf(l, i, x) = BatchOf(l, j, y)
      BY <2>5, <2>7
    <3> HIDE DEF x, y
    <3>4. i = j /\ x = y
      BY <3>2, <3>3, BatchesDiffer
    <3>5. a < b => x < y
      BY <3>1, <3>4, VisitsGrow DEF x, y
    <3>6. b < a => y < x
      BY <3>1, <3>4, VisitsGrow DEF x, y
    <3> QED BY <3>1, <3>2, <3>4, <3>5, <3>6
  <2>8. ASSUME NEW s \in S PROVE \E n \in 1 .. m : f[n] = s
    <3>1. PICK i \in Videos(l) : s \in GridOf(l, i)
      BY <2>4
    <3>2. PICK k \in 1 .. BatchCount(l, i) : s = BatchOf(l, i, k)
      BY <3>1 DEF GridOf
    <3>3. PICK n \in 1 .. m : v[n] = i /\ VisitsTo(v, i, n) = k
      BY <2>3
    <3>4. f[n] = s
      BY <2>5, <3>2, <3>3
    <3> QED BY <3>4
  <2>9. f \in [1 .. m -> S]
    <3>1. f = [n \in 1 .. m |-> f[n]]
      OBVIOUS
    <3> HIDE DEF f
    <3> QED BY <2>6, <3>1
  <2> HIDE DEF f
  <2>10. Paired(f, m, S)
    BY <2>7, <2>8, <2>9 DEF Paired
  <2> QED BY <2>2, <2>10 DEF m, S, f
<1> QED BY <1>1, <1>2

TakenUpto(l, v, n) == {TakenAt(l, v, k) : k \in 1 .. n}
EmptyIn(g) == {n \in 1 .. Len(g) : g[n] = NoFrames}
BatchesIn(g) == {b \in ToSet(g) : b # NoFrames}

\* Of what is given (g) and lost (o), the first i batches of n have been taken (T).
Proper(g, o, T, i, n) ==
  /\ BatchesIn(g) \cup o = T /\ BatchesIn(g) \cap o = {}
  /\ \A a, b \in 1 .. Len(g) : g[a] = g[b] /\ g[a] # NoFrames => a = b
  /\ IsFiniteSet(o) /\ Cardinality(o) + Len(g) = i + Cardinality(EmptyIn(g))
  /\ EmptyIn(g) # {} => i = n

LEMMA OneMore == ASSUME NEW S, NEW g \in Seq(S), NEW x \in S
  PROVE  /\ Append(g, x) \in Seq(S) /\ Len(g) \in Nat /\ Len(Append(g, x)) = Len(g) + 1
         /\ \A i \in 1 .. Len(g) : Append(g, x)[i] = g[i]
         /\ Append(g, x)[Len(g) + 1] = x
         /\ ToSet(Append(g, x)) = ToSet(g) \cup {x}
<1> DEFINE n == Len(g)
           h == Append(g, x)
<1>1. h \in Seq(S) /\ n \in Nat /\ Len(h) = n + 1 /\ \A i \in 1 .. n : h[i] = g[i]
  OBVIOUS
<1>2. h[n + 1] = x
  OBVIOUS
<1>3. DOMAIN h = 1 .. n + 1 /\ DOMAIN g = 1 .. n
  BY <1>1
<1> HIDE DEF h, n
<1>4. ToSet(h) = ToSet(g) \cup {x}
  <2>1. ToSet(h) = {h[i] : i \in 1 .. n + 1} /\ ToSet(g) = {g[i] : i \in 1 .. n}
    BY <1>3 DEF ToSet
  <2>2. 1 .. n + 1 = (1 .. n) \cup {n + 1}
    BY <1>1
  <2>3. {h[i] : i \in 1 .. n + 1} = {h[i] : i \in 1 .. n} \cup {h[n + 1]}
    BY <2>2
  <2>4. {h[i] : i \in 1 .. n} = {g[i] : i \in 1 .. n}
    BY <1>1
  <2> QED BY <1>2, <2>1, <2>3, <2>4
<1> QED BY <1>1, <1>2, <1>4 DEF h, n

LEMMA EmptyFinite == ASSUME NEW S, NEW g \in Seq(S)
  PROVE  IsFiniteSet(EmptyIn(g)) /\ Cardinality(EmptyIn(g)) \in Nat /\ (Cardinality(EmptyIn(g)) = 0 <=> EmptyIn(g) = {})
<1>1. IsFiniteSet(1 .. Len(g))
  <2>1. Len(g) \in Int
    OBVIOUS
  <2> QED BY <2>1, FS_Interval
<1>2. EmptyIn(g) \in SUBSET (1 .. Len(g))
  BY DEF EmptyIn
<1>3. IsFiniteSet(EmptyIn(g))
  BY <1>1, <1>2, FS_Subset
<1> QED BY <1>3, FS_CardinalityType, FS_EmptySet

LEMMA NothingTaken == ASSUME NEW n
  PROVE  Proper(<<>>, {}, {}, 0, n)
<1>1. ToSet(<<>>) = {} /\ 1 .. Len(<<>>) = {} /\ Len(<<>>) = 0
  BY DEF ToSet
<1>2. BatchesIn(<<>>) = {} /\ EmptyIn(<<>>) = {}
  BY <1>1 DEF BatchesIn, EmptyIn
<1>3. Cardinality({}) = 0 /\ IsFiniteSet({})
  BY FS_EmptySet
<1> QED BY <1>1, <1>2, <1>3 DEF Proper

LEMMA BatchGiven ==
  ASSUME NEW S, NEW g \in Seq(S), NEW o, NEW T, NEW i \in Nat, NEW n \in Nat, i < n, Proper(g, o, T, i, n),
         NEW x \in S, x # NoFrames, x \notin T
  PROVE  Proper(Append(g, x), o, T \cup {x}, i + 1, n)
<1> DEFINE h == Append(g, x)
           m == Len(g)
<1>1. /\ m \in Nat /\ Len(h) = m + 1 /\ ToSet(h) = ToSet(g) \cup {x}
      /\ \A k \in 1 .. m : h[k] = g[k]
      /\ h[m + 1] = x
  BY OneMore
<1> HIDE DEF h
<1>2. EmptyIn(g) = {}
  BY DEF Proper
<1>3. EmptyIn(h) = {}
  <2> SUFFICES ASSUME NEW k \in 1 .. m + 1, h[k] = NoFrames PROVE FALSE
    BY <1>1 DEF EmptyIn
  <2>1. k # m + 1
    BY <1>1
  <2>2. k \in 1 .. m /\ g[k] = NoFrames
    BY <1>1, <2>1
  <2> QED BY <1>2, <2>2 DEF EmptyIn
<1>4. BatchesIn(h) = BatchesIn(g) \cup {x}
  BY <1>1 DEF BatchesIn
<1>5. BatchesIn(g) \cup o = T /\ BatchesIn(g) \cap o = {}
  BY DEF Proper
<1>6. BatchesIn(h) \cup o = T \cup {x} /\ BatchesIn(h) \cap o = {}
  BY <1>4, <1>5
<1>7. ASSUME NEW a \in 1 .. m + 1, NEW b \in 1 .. m + 1, h[a] = h[b], h[a] # NoFrames PROVE a = b
  <2>1. \A k \in 1 .. m : g[k] # x \/ g[k] = NoFrames
    <3> SUFFICES ASSUME NEW k \in 1 .. m, g[k] # NoFrames PROVE g[k] # x
      OBVIOUS
    <3>1. g[k] \in ToSet(g)
      <4>1. DOMAIN g = 1 .. m
        OBVIOUS
      <4> QED BY <4>1 DEF ToSet
    <3> QED BY <1>5, <3>1 DEF BatchesIn
  <2>2. CASE a \in 1 .. m /\ b \in 1 .. m
    <3>1. g[a] = g[b] /\ g[a] # NoFrames
      BY <1>1, <1>7, <2>2
    <3> QED BY <2>2, <3>1 DEF Proper
  <2>3. CASE a = m + 1 /\ b \in 1 .. m
    BY <1>1, <1>7, <2>1, <2>3
  <2>4. CASE b = m + 1 /\ a \in 1 .. m
    BY <1>1, <1>7, <2>1, <2>4
  <2>5. (a = m + 1 \/ a \in 1 .. m) /\ (b = m + 1 \/ b \in 1 .. m)
    BY <1>1
  <2> QED BY <2>2, <2>3, <2>4, <2>5
<1>8. Cardinality(o) + m = i + Cardinality(EmptyIn(g)) /\ IsFiniteSet(o)
  BY DEF Proper
<1>9. Cardinality(o) \in Nat /\ Cardinality({}) = 0
  BY <1>8, FS_CardinalityType, FS_EmptySet
<1>10. Cardinality(o) + Len(h) = (i + 1) + Cardinality(EmptyIn(h))
  <2> HIDE DEF m
  <2> QED BY <1>1, <1>2, <1>3, <1>8, <1>9
<1> HIDE DEF m
<1>11. Proper(h, o, T \cup {x}, i + 1, n)
  BY <1>1, <1>3, <1>6, <1>7, <1>8, <1>10 DEF Proper
<1> QED BY <1>11 DEF h

LEMMA BatchLost ==
  ASSUME NEW S, NEW g \in Seq(S), NEW o, NEW T, NEW i \in Nat, NEW n \in Nat, i < n, Proper(g, o, T, i, n),
         NEW x, x \notin T
  PROVE  Proper(g, o \cup {x}, T \cup {x}, i + 1, n)
<1>1. EmptyIn(g) = {}
  BY DEF Proper
<1>2. BatchesIn(g) \cup (o \cup {x}) = T \cup {x} /\ BatchesIn(g) \cap (o \cup {x}) = {} /\ x \notin o
  <2>1. BatchesIn(g) \cup o = T /\ BatchesIn(g) \cap o = {}
    BY DEF Proper
  <2> QED BY <2>1
<1>3. Cardinality(o) + Len(g) = i + Cardinality(EmptyIn(g)) /\ IsFiniteSet(o) /\ Len(g) \in Nat
  BY DEF Proper
<1>4. Cardinality(o) \in Nat /\ Cardinality({}) = 0
  BY <1>3, FS_CardinalityType, FS_EmptySet
<1>5. IsFiniteSet(o \cup {x}) /\ Cardinality(o \cup {x}) = Cardinality(o) + 1
  BY <1>2, <1>3, FS_AddElement
<1>6. Cardinality(o \cup {x}) + Len(g) = (i + 1) + Cardinality(EmptyIn(g))
  BY <1>1, <1>3, <1>4, <1>5
<1>7. \A a, b \in 1 .. Len(g) : g[a] = g[b] /\ g[a] # NoFrames => a = b
  BY DEF Proper
<1> QED BY <1>1, <1>2, <1>5, <1>6, <1>7 DEF Proper

LEMMA EmptyGiven ==
  ASSUME NEW S, NoFrames \in S, NEW g \in Seq(S), NEW o, NEW T, NEW n \in Nat, Proper(g, o, T, n, n)
  PROVE  Proper(Append(g, NoFrames), o, T, n, n)
<1> DEFINE h == Append(g, NoFrames)
           m == Len(g)
<1>1. /\ m \in Nat /\ Len(h) = m + 1 /\ ToSet(h) = ToSet(g) \cup {NoFrames}
      /\ \A k \in 1 .. m : h[k] = g[k]
      /\ h[m + 1] = NoFrames
  BY OneMore
<1> HIDE DEF h
<1>2. EmptyIn(h) = EmptyIn(g) \cup {m + 1} /\ ~(m + 1 \in EmptyIn(g))
  BY <1>1 DEF EmptyIn
<1>3. BatchesIn(h) = BatchesIn(g)
  BY <1>1 DEF BatchesIn
<1>4. ASSUME NEW a \in 1 .. m + 1, NEW b \in 1 .. m + 1, h[a] = h[b], h[a] # NoFrames PROVE a = b
  <2>1. a \in 1 .. m /\ b \in 1 .. m
    BY <1>1, <1>4
  <2>2. g[a] = g[b] /\ g[a] # NoFrames
    BY <1>1, <1>4, <2>1
  <2> QED BY <2>1, <2>2 DEF Proper
<1>5. Cardinality(o) + m = n + Cardinality(EmptyIn(g)) /\ IsFiniteSet(o)
  BY DEF Proper
<1>6. Cardinality(o) \in Nat
  BY <1>5, FS_CardinalityType
<1>7. IsFiniteSet(EmptyIn(g)) /\ Cardinality(EmptyIn(g)) \in Nat
  BY EmptyFinite
<1>8. Cardinality(EmptyIn(h)) = Cardinality(EmptyIn(g)) + 1
  BY <1>2, <1>7, FS_AddElement
<1>9. BatchesIn(g) \cup o = T /\ BatchesIn(g) \cap o = {}
  BY DEF Proper
<1> HIDE DEF m
<1>10. Cardinality(o) + Len(h) = n + Cardinality(EmptyIn(h))
  BY <1>1, <1>5, <1>6, <1>7, <1>8
<1>11. Proper(h, o, T, n, n)
  BY <1>1, <1>3, <1>4, <1>5, <1>9, <1>10 DEF Proper
<1> QED BY <1>11 DEF h

LoaderTypes ==
  /\ loader \in OpenLoaders /\ Complete(loader, visit_order)
  /\ visit_idx \in 0 .. Len(visit_order) /\ len = Len(visit_order)
  /\ given \in Seq(AllBatches(loader) \cup {NoFrames}) /\ curr = Len(given) /\ curr <= len

\* Each video's record is behind the batches already taken from it.
RecordsFollow ==
  FileOrder => current = [i \in Videos(loader) |-> VisitsTo(visit_order, i, visit_idx) * bs_skip(loader)]

LoaderInv ==
  /\ LoaderTypes
  /\ RecordsFollow
  /\ Proper(given, lost, TakenUpto(loader, visit_order, visit_idx), visit_idx, len)

LEMMA OrderLength == ASSUME NEW l \in OpenLoaders, NEW v, Complete(l, v)
  PROVE  Len(v) \in Nat /\ DOMAIN v = 1 .. Len(v)
BY DEF Complete

LEMMA NoFramesIsNone == ASSUME NEW l \in OpenLoaders
  PROVE  NoFrames \notin AllBatches(l)
<1> SUFFICES ASSUME NoFrames \in AllBatches(l) PROVE FALSE
  OBVIOUS
<1>1. Videos(l) = 1 .. Len(l.lens) /\ Len(l.lens) \in Nat
  BY VideosOf
<1>2. PICK i \in 1 .. Len(l.lens) : NoFrames \in GridOf(l, i)
  BY <1>1 DEF AllBatches, AllOf
<1>3. PICK k \in 1 .. BatchCount(l, i) : NoFrames = BatchOf(l, i, k)
  BY <1>2 DEF GridOf
<1>4. NoFrames.video = i
  BY <1>3 DEF BatchOf, Samples
<1>5. NoFrames.video = 0
  BY DEF NoFrames
<1> QED BY <1>1, <1>4, <1>5

\* What is taken next has not been taken yet.
LEMMA TakenNext ==
  ASSUME NEW l \in OpenLoaders, NEW v, Complete(l, v), NEW n \in Nat, n < Len(v)
  PROVE  /\ TakenAt(l, v, n + 1) \in AllBatches(l) /\ TakenAt(l, v, n + 1) # NoFrames
         /\ TakenAt(l, v, n + 1) \notin TakenUpto(l, v, n)
         /\ TakenUpto(l, v, n + 1) = TakenUpto(l, v, n) \cup {TakenAt(l, v, n + 1)}
<1> DEFINE m == Len(v)
           f == [k \in 1 .. m |-> TakenAt(l, v, k)]
<1>1. m \in Nat /\ Paired(f, m, AllBatches(l))
  BY CompleteTaken
<1>2. n + 1 \in 1 .. m /\ \A k \in 1 .. n : k \in 1 .. m /\ k # n + 1
  BY <1>1
<1>3. f[n + 1] = TakenAt(l, v, n + 1) /\ \A k \in 1 .. n : f[k] = TakenAt(l, v, k)
  BY <1>2
<1> HIDE DEF f, m
<1>4. f[n + 1] \in AllBatches(l) /\ \A k \in 1 .. n : f[k] # f[n + 1]
  BY <1>1, <1>2 DEF Paired
<1>5. TakenUpto(l, v, n + 1) = TakenUpto(l, v, n) \cup {TakenAt(l, v, n + 1)}
  <2>1. 1 .. n + 1 = (1 .. n) \cup {n + 1}
    OBVIOUS
  <2> QED BY <2>1 DEF TakenUpto
<1>6. TakenAt(l, v, n + 1) \notin TakenUpto(l, v, n)
  BY <1>3, <1>4 DEF TakenUpto
<1> QED BY <1>3, <1>4, <1>5, <1>6, NoFramesIsNone

LEMMA LoaderInitially == Init => LoaderInv
<1> SUFFICES ASSUME Init PROVE LoaderInv
  OBVIOUS
<1>1. loader \in OpenLoaders
  BY Clamped DEF Init
<1>2. Complete(loader, VisitOrder(loader))
  BY <1>1, CompleteBatches, CompleteVisits
<1>3. Complete(loader, visit_order)
  <2>1. visit_order = VisitOrder(loader) \/ visit_order \in Shuffles(VisitOrder(loader))
    BY DEF Init
  <2> QED BY <1>1, <1>2, <2>1, CompleteShuffle
<1>4. Len(visit_order) \in Nat
  BY <1>1, <1>3, OrderLength
<1>5. LoaderTypes
  BY <1>1, <1>3, <1>4 DEF LoaderTypes, Init
<1>6. RecordsFollow
  <2>1. \A i : VisitsTo(visit_order, i, 0) * bs_skip(loader) = 0
    <3>1. \A i : VisitsTo(visit_order, i, 0) = 0
      BY FS_EmptySet DEF VisitsTo
    <3>2. bs_skip(loader) \in Nat
      BY <1>1, Lengths
    <3> QED BY <3>1, <3>2
  <2> QED BY <2>1 DEF RecordsFollow, Init
<1>7. TakenUpto(loader, visit_order, 0) = {}
  BY DEF TakenUpto
<1>8. Proper(given, lost, TakenUpto(loader, visit_order, visit_idx), visit_idx, len)
  BY <1>7, NothingTaken DEF Init
<1> QED BY <1>5, <1>6, <1>8 DEF LoaderInv

LEMMA ResetKeeps == ASSUME LoaderInv, reset PROVE LoaderInv'
<1>1. loader \in OpenLoaders /\ Complete(loader, visit_order) /\ len = Len(visit_order)
  BY DEF LoaderInv, LoaderTypes
<1>2. Complete(loader, visit_order') /\ Len(visit_order') = Len(visit_order)
  <2>1. visit_order' = visit_order \/ visit_order' \in Shuffles(visit_order)
    BY DEF reset, ResetSampler
  <2> QED BY <1>1, <2>1, CompleteShuffle
<1>3. Len(visit_order) \in Nat
  BY <1>1, OrderLength
<1>4. loader' = loader /\ len' = len /\ given' = <<>> /\ lost' = {} /\ curr' = 0 /\ visit_idx' = 0
  BY DEF reset, ResetSampler
<1>5. LoaderTypes'
  BY <1>1, <1>2, <1>3, <1>4 DEF LoaderTypes
<1>6. RecordsFollow'
  <2>1. \A i : VisitsTo(visit_order', i, 0) * bs_skip(loader) = 0
    <3>1. \A i : VisitsTo(visit_order', i, 0) = 0
      BY FS_EmptySet DEF VisitsTo
    <3>2. bs_skip(loader) \in Nat
      BY <1>1, Lengths
    <3> QED BY <3>1, <3>2
  <2>2. current' = [i \in Videos(loader) |-> 0]
    BY DEF reset, ResetSampler
  <2> QED BY <1>4, <2>1, <2>2 DEF RecordsFollow
<1>7. TakenUpto(loader, visit_order', 0) = {}
  BY DEF TakenUpto
<1>8. Proper(<<>>, {}, {}, 0, len)
  BY NothingTaken
<1>9. Proper(given, lost, TakenUpto(loader, visit_order, visit_idx), visit_idx, len)'
  BY <1>4, <1>7, <1>8
<1> QED BY <1>5, <1>6, <1>9 DEF LoaderInv

\* The sampler's part of a step, whether get_batch succeeds or not.
LEMMA AdvanceKeeps ==
  ASSUME LoaderInv, HasNext, Advance, UNCHANGED <<loader, len>>
  PROVE  /\ visit_idx \in Nat /\ len \in Nat /\ visit_idx < len /\ visit_idx' = visit_idx + 1
         /\ visit_idx' \in 0 .. Len(visit_order') /\ visit_order' = visit_order
         /\ NextSamples = TakenAt(loader, visit_order, visit_idx + 1)
         /\ RecordsFollow'
<1>1. loader \in OpenLoaders /\ Complete(loader, visit_order) /\ len = Len(visit_order) /\ visit_idx \in 0 .. Len(visit_order)
  BY DEF LoaderInv, LoaderTypes
<1>2. Len(visit_order) \in Nat
  BY <1>1, OrderLength
<1> DEFINE n == visit_idx
           v == visit_order[n + 1]
           w == bs_skip(loader)
<1>3. n \in Nat /\ n < Len(visit_order) /\ visit_idx' = n + 1 /\ visit_order' = visit_order
  BY <1>1, <1>2 DEF HasNext, Advance
<1>4. w \in Nat /\ loader.bs \in Nat /\ loader.interval \in Nat /\ loader.skip \in Nat
  BY <1>1, Lengths DEF OpenLoaders
<1>5. CASE ~FileOrder
  <2>1. NextSamples = TakenAt(loader, visit_order, n + 1)
    BY <1>5 DEF NextSamples, TakenAt, FileOrder
  <2>2. RecordsFollow'
    BY <1>5 DEF RecordsFollow, FileOrder
  <2> QED BY <1>1, <1>2, <1>3, <2>1, <2>2
<1>6. CASE FileOrder
  <2>1. visit_order \in Seq(Videos(loader))
    BY <1>1, <1>6 DEF Complete, FileOrder
  <2>2. v \in Videos(loader)
    <3>1. n + 1 \in 1 .. Len(visit_order)
      BY <1>2, <1>3
    <3> QED BY <2>1, <3>1, ElementOfSeq
  <2>3. current = [i \in Videos(loader) |-> VisitsTo(visit_order, i, n) * w]
    BY <1>6 DEF LoaderInv, RecordsFollow
  <2>4. \A i : /\ VisitsTo(visit_order, i, n) \in Nat
               /\ VisitsTo(visit_order, i, n + 1) = VisitsTo(visit_order, i, n) + (IF v = i THEN 1 ELSE 0)
    BY <1>3, VisitsStep
  <2> DEFINE x == VisitsTo(visit_order, v, n)
  <2>5. x \in Nat /\ VisitsTo(visit_order, v, n + 1) = x + 1 /\ current[v] = x * w
    BY <2>2, <2>3, <2>4
  <2> HIDE DEF x
  <2>6. NextSamples = TakenAt(loader, visit_order, n + 1)
    <3>1. (x + 1) - 1 = x
      BY <2>5
    <3>2. TakenAt(loader, visit_order, n + 1) = Samples(loader, v, ((x + 1) - 1) * w)
      BY <1>6, <2>5 DEF TakenAt, FileOrder, BatchOf
    <3>3. NextSamples = Samples(loader, v, current[v])
      BY <1>6 DEF NextSamples
    <3> QED BY <2>5, <3>1, <3>2, <3>3
  <2>7. current' = [current EXCEPT ![v] = current[v] + w]
    <3>1. current' = [current EXCEPT ![v] = (current[v] + loader.bs * (loader.interval + 1)) - loader.interval + loader.skip]
      BY <1>6 DEF Advance
    <3>2. x * w \in Nat /\ loader.bs * (loader.interval + 1) \in Nat
      BY <1>4, <2>5
    <3>3. loader.bs * (loader.interval + 1) - loader.interval + loader.skip = w
      BY <1>1, Lengths
    <3> DEFINE z == loader.bs * (loader.interval + 1)
    <3>4. (x * w + z) - loader.interval + loader.skip = x * w + w
      <4>1. z \in Nat /\ z - loader.interval + loader.skip = w
        BY <3>2, <3>3
      <4> HIDE DEF z, w
      <4> QED BY <1>4, <3>2, <4>1
    <3> HIDE DEF w
    <3> QED BY <2>5, <3>1, <3>4
  <2>8. \A i \in Videos(loader) : current'[i] = VisitsTo(visit_order, i, n + 1) * w
    <3> SUFFICES ASSUME NEW i \in Videos(loader) PROVE current'[i] = VisitsTo(visit_order, i, n + 1) * w
      OBVIOUS
    <3>1. CASE i = v
      <4>1. current'[i] = x * w + w
        BY <2>2, <2>3, <2>5, <2>7, <3>1
      <4>2. (x + 1) * w = x * w + w
        BY <1>4, <2>5
      <4> QED BY <2>5, <3>1, <4>1, <4>2
    <3>2. CASE i # v
      <4>1. current'[i] = VisitsTo(visit_order, i, n) * w
        BY <2>2, <2>3, <2>7, <3>2
      <4>2. VisitsTo(visit_order, i, n + 1) = VisitsTo(visit_order, i, n)
        BY <2>4, <3>2
      <4> QED BY <4>1, <4>2
    <3> QED BY <3>1, <3>2
  <2>9. current' = [i \in Videos(loader) |-> VisitsTo(visit_order, i, n + 1) * w]
    <3>1. DOMAIN current' = Videos(loader) /\ current' = [i \in DOMAIN current' |-> current'[i]]
      BY <2>3, <2>7
    <3> QED BY <2>8, <3>1
  <2>10. RecordsFollow'
    BY <1>3, <2>9 DEF RecordsFollow
  <2> QED BY <1>1, <1>2, <1>3, <2>6, <2>10
<1> QED BY <1>5, <1>6

LEMMA BatchKeepsLoader == ASSUME LoaderInv, NextBatch PROVE LoaderInv'
<1> DEFINE x == NextSamples
           n == visit_idx
           T == TakenUpto(loader, visit_order, n)
           S == AllBatches(loader) \cup {NoFrames}
<1>1. /\ curr < len /\ HasNext /\ Advance /\ UNCHANGED <<loader, len>>
      /\ given' = Append(given, x) /\ curr' = curr + 1 /\ lost' = lost
  BY DEF NextBatch
<1>2. /\ n \in Nat /\ len \in Nat /\ n < len /\ visit_idx' = n + 1
      /\ visit_idx' \in 0 .. Len(visit_order') /\ visit_order' = visit_order
      /\ x = TakenAt(loader, visit_order, n + 1)
      /\ RecordsFollow'
  BY <1>1, AdvanceKeeps
<1>3. /\ loader \in OpenLoaders /\ Complete(loader, visit_order) /\ len = Len(visit_order)
      /\ given \in Seq(S) /\ curr = Len(given) /\ Proper(given, lost, T, n, len)
  BY DEF LoaderInv, LoaderTypes
<1> HIDE DEF x, n
<1>4. x \in S /\ x # NoFrames /\ x \notin T /\ TakenUpto(loader, visit_order, n + 1) = T \cup {x}
  BY <1>2, <1>3, TakenNext
<1> HIDE DEF S, T
<1>5. Append(given, x) \in Seq(S) /\ Len(given) \in Nat /\ Len(Append(given, x)) = Len(given) + 1
  BY <1>3, <1>4, OneMore
<1>6. Proper(Append(given, x), lost, T \cup {x}, n + 1, len)
  BY <1>2, <1>3, <1>4, BatchGiven
<1>7. LoaderTypes'
  BY <1>1, <1>2, <1>3, <1>5 DEF LoaderTypes, S
<1>8. Proper(given, lost, TakenUpto(loader, visit_order, visit_idx), visit_idx, len)'
  BY <1>1, <1>2, <1>4, <1>6
<1> QED BY <1>2, <1>7, <1>8 DEF LoaderInv

LEMMA RaiseKeepsLoader == ASSUME LoaderInv, NextRaises PROVE LoaderInv'
<1> DEFINE x == NextSamples
           n == visit_idx
           T == TakenUpto(loader, visit_order, n)
           S == AllBatches(loader) \cup {NoFrames}
<1>1. /\ HasNext /\ Advance /\ UNCHANGED <<loader, len>>
      /\ given' = given /\ curr' = curr /\ lost' = lost \cup {x}
  BY DEF NextRaises
<1>2. /\ n \in Nat /\ len \in Nat /\ n < len /\ visit_idx' = n + 1
      /\ visit_idx' \in 0 .. Len(visit_order') /\ visit_order' = visit_order
      /\ x = TakenAt(loader, visit_order, n + 1)
      /\ RecordsFollow'
  BY <1>1, AdvanceKeeps
<1>3. /\ loader \in OpenLoaders /\ Complete(loader, visit_order) /\ len = Len(visit_order)
      /\ given \in Seq(S) /\ curr = Len(given) /\ curr <= len /\ Proper(given, lost, T, n, len)
  BY DEF LoaderInv, LoaderTypes
<1> HIDE DEF x, n
<1>4. x \notin T /\ TakenUpto(loader, visit_order, n + 1) = T \cup {x}
  BY <1>2, <1>3, TakenNext
<1> HIDE DEF S, T
<1>5. Proper(given, lost \cup {x}, T \cup {x}, n + 1, len)
  BY <1>2, <1>3, <1>4, BatchLost
<1>6. LoaderTypes'
  BY <1>1, <1>2, <1>3 DEF LoaderTypes, S
<1>7. Proper(given, lost, TakenUpto(loader, visit_order, visit_idx), visit_idx, len)'
  BY <1>1, <1>2, <1>4, <1>5
<1> QED BY <1>2, <1>6, <1>7 DEF LoaderInv

LEMMA EmptyKeepsLoader == ASSUME LoaderInv, NextEmpty PROVE LoaderInv'
<1> DEFINE n == visit_idx
           T == TakenUpto(loader, visit_order, n)
           S == AllBatches(loader) \cup {NoFrames}
<1>1. /\ curr < len /\ ~HasNext /\ given' = Append(given, NoFrames) /\ curr' = curr + 1
      /\ UNCHANGED <<loader, visit_order, visit_idx, current, len, lost>>
  BY DEF NextEmpty
<1>2. /\ loader \in OpenLoaders /\ Complete(loader, visit_order) /\ len = Len(visit_order) /\ n \in 0 .. Len(visit_order)
      /\ given \in Seq(S) /\ curr = Len(given) /\ RecordsFollow /\ Proper(given, lost, T, n, len)
  BY DEF LoaderInv, LoaderTypes
<1>3. len \in Nat /\ n = len
  <2>1. Len(visit_order) \in Nat
    BY <1>2, OrderLength
  <2> QED BY <1>1, <1>2, <2>1 DEF HasNext
<1> HIDE DEF T
<1>4. NoFrames \in S
  OBVIOUS
<1> HIDE DEF S
<1>5. Append(given, NoFrames) \in Seq(S) /\ Len(given) \in Nat /\ Len(Append(given, NoFrames)) = Len(given) + 1
  BY <1>2, <1>4, OneMore
<1>6. Proper(Append(given, NoFrames), lost, T, len, len)
  BY <1>2, <1>3, <1>4, EmptyGiven
<1>7. LoaderTypes'
  BY <1>1, <1>2, <1>3, <1>5 DEF LoaderTypes, S
<1>8. RecordsFollow'
  BY <1>1, <1>2 DEF RecordsFollow, FileOrder
<1>9. Proper(given, lost, TakenUpto(loader, visit_order, visit_idx), visit_idx, len)'
  BY <1>1, <1>3, <1>6 DEF T
<1> QED BY <1>7, <1>8, <1>9 DEF LoaderInv

LEMMA LoaderInvariance == Spec => []LoaderInv
<1>1. Init => LoaderInv
  BY LoaderInitially
<1>2. LoaderInv /\ [Next]_vars => LoaderInv'
  <2> SUFFICES ASSUME LoaderInv, [Next]_vars PROVE LoaderInv'
    OBVIOUS
  <2>1. CASE reset
    BY <2>1, ResetKeeps
  <2>2. CASE NextBatch
    BY <2>2, BatchKeepsLoader
  <2>3. CASE NextRaises
    BY <2>3, RaiseKeepsLoader
  <2>4. CASE NextEmpty
    BY <2>4, EmptyKeepsLoader
  <2>5. CASE UNCHANGED vars
    BY <2>5 DEF LoaderInv, LoaderTypes, RecordsFollow, FileOrder, vars
  <2> QED BY <2>1, <2>2, <2>3, <2>4, <2>5 DEF Next
<1> QED BY <1>1, <1>2, PTL DEF Spec

LEMMA EpochHolds == LoaderInv => EpochIsComplete
<1> SUFFICES ASSUME LoaderInv PROVE EpochIsComplete
  OBVIOUS
<1> DEFINE n == visit_idx
           T == TakenUpto(loader, visit_order, n)
           S == AllBatches(loader)
           E == EmptyIn(given)
<1>1. /\ loader \in OpenLoaders /\ Complete(loader, visit_order) /\ len = Len(visit_order) /\ n \in 0 .. Len(visit_order)
      /\ given \in Seq(S \cup {NoFrames}) /\ curr = Len(given) /\ curr <= len /\ Proper(given, lost, T, n, len)
  BY DEF LoaderInv, LoaderTypes
<1>2. len \in Nat /\ n \in Nat /\ n <= len
  <2>1. Len(visit_order) \in Nat
    BY <1>1, OrderLength
  <2> QED BY <1>1, <2>1
<1>3. UNION {Grid(i) : i \in Videos(loader)} = S
  <2>1. Videos(loader) = 1 .. Len(loader.lens)
    BY <1>1, VideosOf
  <2>2. \A i \in Videos(loader) : Grid(i) = GridOf(loader, i)
    BY <1>1, GridIs
  <2>3. S = UNION {GridOf(loader, i) : i \in Videos(loader)}
    BY <2>1 DEF AllBatches, AllOf
  <2> QED BY <2>2, <2>3
<1>4. Batches = BatchesIn(given) /\ DOMAIN given = 1 .. Len(given)
  BY <1>1 DEF Batches, BatchesIn
<1>5. T \subseteq S /\ (n = len => T = S)
  <2> DEFINE f == [k \in 1 .. len |-> TakenAt(loader, visit_order, k)]
  <2>1. Paired(f, len, S)
    BY <1>1, CompleteTaken
  <2>2. \A k \in 1 .. n : k \in 1 .. len /\ f[k] = TakenAt(loader, visit_order, k)
    BY <1>2
  <2>3. n = len => \A k \in 1 .. len : k \in 1 .. n
    OBVIOUS
  <2> HIDE DEF f, S
  <2>4. \A k \in 1 .. len : f[k] \in S
    BY <2>1 DEF Paired
  <2>5. \A s \in S : \E k \in 1 .. len : f[k] = s
    BY <2>1 DEF Paired
  <2>6. T = {f[k] : k \in 1 .. n}
    BY <2>2 DEF TakenUpto
  <2> HIDE DEF T
  <2>7. T \subseteq S
    BY <2>2, <2>4, <2>6
  <2>8. n = len => S \subseteq T
    BY <2>3, <2>5, <2>6
  <2> QED BY <2>7, <2>8
<1>6. GivenOnce
  <2>1. Batches \cup lost = T
    BY <1>1, <1>4 DEF Proper
  <2>2. \A a, b \in DOMAIN given : given[a] = given[b] /\ given[a] # NoFrames => a = b
    BY <1>1, <1>4 DEF Proper
  <2> HIDE DEF T, S
  <2> QED BY <1>3, <1>5, <2>1, <2>2 DEF GivenOnce
<1>7. EmptyForRaised
  <2>1. {a \in DOMAIN given : given[a] = NoFrames} = E
    BY <1>4 DEF EmptyIn
  <2>2. Cardinality(lost) + curr = n + Cardinality(E) /\ IsFiniteSet(lost) /\ (E # {} => n = len)
    BY <1>1 DEF Proper
  <2>3. Cardinality(lost) \in Nat
    BY <2>2, FS_CardinalityType
  <2>4. Cardinality(E) \in Nat /\ (Cardinality(E) = 0 <=> E = {})
    BY <1>1, EmptyFinite
  <2>5. curr \in Nat
    BY <1>1
  <2> HIDE DEF E
  <2>6. Cardinality(E) <= Cardinality(lost)
    BY <1>1, <1>2, <2>2, <2>3, <2>4, <2>5
  <2>7. curr = len => Cardinality(E) = Cardinality(lost)
    BY <1>1, <1>2, <2>2, <2>3, <2>4, <2>5
  <2> QED BY <2>1, <2>6, <2>7 DEF EmptyForRaised
<1> QED BY <1>6, <1>7 DEF EpochIsComplete

\* An epoch gives every batch of every video once, whole within its range, also after
\* one left half way, and as many empty batches as get_batch raised (the samplers'
\* Next and Reset, __next__).
THEOREM EpochTheorem == Spec => []EpochIsComplete
BY LoaderInvariance, EpochHolds, PTL
=============================================================================
