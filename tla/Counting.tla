------------------------------ MODULE Counting ------------------------------
(***************************************************************************)
(* Lemmas about counting that the other proofs share: induction over the    *)
(* subsets of a finite set, from the well-founded order of the naturals,    *)
(* and with it what SumFunctionOnSet and Cardinality do when one element    *)
(* changes.                                                                 *)
(***************************************************************************)
EXTENDS Integers, FiniteSetsExt, Functions, FiniteSetTheorems, FunctionTheorems, TLAPS

(* A set of naturals has a least one. *)
LEMMA LeastNumber ==
  ASSUME NEW T, T \subseteq Nat, T # {}
  PROVE  \E m \in T : \A k \in T : m <= k
<1> DEFINE R == {ss \in Nat \X Nat : ss[1] < ss[2]}
<1>1. IsWellFoundedOn(R, Nat)
  <2>1. OpToRel(<, Nat) = R
    BY DEF OpToRel
  <2> QED
    BY <2>1, NatLessThanWellFounded
<1>2. PICK m \in T : \A k \in T : ~(<<k, m>> \in R)
  <2> HIDE DEF R
  <2> QED
    BY <1>1, WFMin
<1>3. ASSUME NEW k \in T, k < m
      PROVE  <<k, m>> \in R
  BY <1>3
<1>4. \A k \in T : k \in Nat /\ m \in Nat /\ ~(k < m)
  BY <1>2, <1>3
<1> QED
  BY <1>4

(* Induction, for a set of numbers. *)
LEMMA SetInduction ==
  ASSUME NEW G, 0 \in G, \A n \in Nat : n \in G => n + 1 \in G
  PROVE  Nat \subseteq G
<1> SUFFICES ASSUME Nat \ G # {}
             PROVE  FALSE
  OBVIOUS
<1>1. PICK m \in Nat \ G : \A k \in Nat \ G : m <= k
  BY LeastNumber
<1>2. m # 0 /\ m - 1 \in Nat
  BY <1>1
<1>3. m - 1 \in G
  BY <1>1, <1>2
<1> QED
  BY <1>1, <1>2, <1>3

(* Induction over the subsets of a finite set. *)
LEMMA SubsetInduction ==
  ASSUME NEW D, IsFiniteSet(D), NEW G,
         \A s \in SUBSET D : (\A t \in SUBSET s : t # s => t \in G) => s \in G
  PROVE  SUBSET D \subseteq G
<1> DEFINE H == {n \in Nat : \A s \in SUBSET D : Cardinality(s) < n => s \in G}
<1>0. \A s \in SUBSET D : IsFiniteSet(s) /\ Cardinality(s) \in Nat
  BY FS_Subset, FS_CardinalityType
<1>1. 0 \in H
  BY <1>0
<1>2. ASSUME NEW n \in Nat, n \in H
      PROVE  n + 1 \in H
  <2> SUFFICES ASSUME NEW s \in SUBSET D, Cardinality(s) < n + 1
               PROVE  s \in G
    OBVIOUS
  <2>1. ASSUME NEW t \in SUBSET s, t # s
        PROVE  t \in G
    <3>1. Cardinality(t) <= Cardinality(s) /\ Cardinality(t) # Cardinality(s)
      BY <1>0, <2>1, FS_Subset
    <3> QED
      BY <1>0, <1>2, <3>1
  <2> QED
    BY <2>1
<1>3. Nat \subseteq H
  <2> HIDE DEF H
  <2> QED
    BY <1>1, <1>2, SetInduction
<1>4. ASSUME NEW s \in SUBSET D
      PROVE  s \in G
  <2>1. Cardinality(s) + 1 \in H
    BY <1>0, <1>3
  <2> QED
    BY <1>0, <2>1
<1> QED
  BY <1>4

-----------------------------------------------------------------------------
(* g[s] is the sum of f over s, for each subset s of D: the function that   *)
(* SumFunctionOnSet chooses, which exists and is unique where it matters.   *)
Summed(g, f, D) ==
  g = [s \in SUBSET D |->
         IF s = {} THEN 0
         ELSE f[CHOOSE x \in s : TRUE] + g[s \ {CHOOSE x \in s : TRUE}]]

LEMMA SumUnfolds ==
  ASSUME NEW f, NEW D
  PROVE  SumFunctionOnSet(f, D) = (CHOOSE g : Summed(g, f, D))[D]
BY DEF SumFunctionOnSet, FoldFunctionOnSet, MapThenFoldSet, Summed

One(s) == CHOOSE x \in s : TRUE

LEMMA SummedMeans ==
  ASSUME NEW f, NEW D, NEW g
  PROVE  Summed(g, f, D) <=>
           /\ g = [s \in SUBSET D |-> g[s]]
           /\ \A s \in SUBSET D : g[s] = IF s = {} THEN 0 ELSE f[One(s)] + g[s \ {One(s)}]
BY DEF Summed, One

LEMMA SumExists ==
  ASSUME NEW D, IsFiniteSet(D), NEW f \in [D -> Int]
  PROVE  \E g \in [SUBSET D -> Int] : Summed(g, f, D)
<1> DEFINE UpTo(g, n) == \A s \in SUBSET D :
             Cardinality(s) <= n => g[s] = IF s = {} THEN 0 ELSE f[One(s)] + g[s \ {One(s)}]
           H == {n \in Nat : \E g \in [SUBSET D -> Int] : UpTo(g, n)}
<1>0. \A s \in SUBSET D : IsFiniteSet(s) /\ Cardinality(s) \in Nat
  BY FS_Subset, FS_CardinalityType
<1>1. 0 \in H
  <2> DEFINE g == [s \in SUBSET D |-> 0]
  <2>1. \A s \in SUBSET D : Cardinality(s) <= 0 => s = {}
    BY <1>0, FS_EmptySet
  <2>2. g \in [SUBSET D -> Int] /\ UpTo(g, 0)
    BY <2>1
  <2> QED
    BY <2>2
<1>2. ASSUME NEW n \in Nat, n \in H
      PROVE  n + 1 \in H
  <2>1. PICK g \in [SUBSET D -> Int] : UpTo(g, n)
    BY <1>2
  <2> DEFINE h == [s \in SUBSET D |->
                     IF s = {} THEN 0
                     ELSE IF Cardinality(s) = n + 1 THEN f[One(s)] + g[s \ {One(s)}] ELSE g[s]]
  <2>2. ASSUME NEW s \in SUBSET D, s # {}
        PROVE  /\ One(s) \in s /\ One(s) \in D
               /\ s \ {One(s)} \in SUBSET D
               /\ Cardinality(s \ {One(s)}) = Cardinality(s) - 1
    <3>1. One(s) \in s
      BY <2>2 DEF One
    <3> QED
      BY <3>1, <1>0, FS_RemoveElement
  <2>3. h \in [SUBSET D -> Int]
    <3> SUFFICES ASSUME NEW s \in SUBSET D
                 PROVE  (IF s = {} THEN 0
                     ELSE IF Cardinality(s) = n + 1 THEN f[One(s)] + g[s \ {One(s)}] ELSE g[s]) \in Int
      OBVIOUS
    <3> QED
      BY <2>2
  <2>4. g[{}] = 0
    BY <2>1, FS_EmptySet
  <2>5. ASSUME NEW s \in SUBSET D, Cardinality(s) <= n
        PROVE  h[s] = g[s]
    <3>1. Cardinality(s) # n + 1
      BY <1>0, <2>5
    <3>2. h[s] = IF s = {} THEN 0 ELSE g[s]
      BY <3>1
    <3> QED
      BY <2>4, <3>2
  <2>6. UpTo(h, n + 1)
    <3> SUFFICES ASSUME NEW s \in SUBSET D, Cardinality(s) <= n + 1, s # {}
                 PROVE  h[s] = f[One(s)] + h[s \ {One(s)}]
      BY <2>4
    <3>1. h[s \ {One(s)}] = g[s \ {One(s)}]
      <4>1. s \ {One(s)} \in SUBSET D /\ Cardinality(s \ {One(s)}) <= n
        BY <1>0, <2>2
      <4> HIDE DEF h
      <4> QED
        BY <2>5, <4>1
    <3>2. CASE Cardinality(s) = n + 1
      BY <3>1, <3>2
    <3>3. CASE Cardinality(s) <= n
      <4>1. h[s] = g[s]
        BY <2>5, <3>3
      <4> HIDE DEF h
      <4> QED
        BY <2>1, <3>1, <3>3, <4>1
    <3> QED
      BY <1>0, <3>2, <3>3
  <2> HIDE DEF h
  <2>7. \E k \in [SUBSET D -> Int] : UpTo(k, n + 1)
    <3> HIDE DEF UpTo
    <3> QED
      BY <2>3, <2>6
  <2> HIDE DEF UpTo
  <2> QED
    BY <2>7
<1>3. Cardinality(D) \in H
  <2> HIDE DEF H
  <2> QED
    BY <1>0, <1>1, <1>2, SetInduction
<1>4. PICK g \in [SUBSET D -> Int] : UpTo(g, Cardinality(D))
  BY <1>3
<1>5. \A s \in SUBSET D : Cardinality(s) <= Cardinality(D)
  BY FS_Subset
<1>6. \A s \in SUBSET D : g[s] = IF s = {} THEN 0 ELSE f[One(s)] + g[s \ {One(s)}]
  BY <1>4, <1>5
<1>7. g = [s \in SUBSET D |-> g[s]]
  OBVIOUS
<1>8. Summed(g, f, D)
  BY <1>6, <1>7, SummedMeans
<1> QED
  BY <1>8

LEMMA SummedIsInt ==
  ASSUME NEW D, IsFiniteSet(D), NEW f \in [D -> Int], NEW g, Summed(g, f, D)
  PROVE  \A s \in SUBSET D : g[s] \in Int
<1> DEFINE G == {s \in SUBSET D : g[s] \in Int}
<1>1. ASSUME NEW s \in SUBSET D, \A t \in SUBSET s : t # s => t \in G
      PROVE  s \in G
  <2>1. CASE s = {}
    <3>1. {} \in SUBSET D
      OBVIOUS
    <3>2. g[{}] = 0
      BY <3>1, SummedMeans
    <3> QED
      BY <2>1, <3>2
  <2>2. CASE s # {}
    <3>1. One(s) \in s
      BY <2>2 DEF One
    <3>2. g[s \ {One(s)}] \in Int
      BY <1>1, <3>1
    <3>3. g[s] = f[One(s)] + g[s \ {One(s)}]
      BY <2>2, SummedMeans
    <3> QED
      BY <3>1, <3>2, <3>3
  <2> QED
    BY <2>1, <2>2
<1>2. SUBSET D \subseteq G
  <2> HIDE DEF G
  <2> QED
    BY <1>1, SubsetInduction
<1> QED
  BY <1>2

(* A sum may be taken apart at any of its elements. *)
AnyOrder(g, f, D) == \A s \in SUBSET D : \A y \in s : g[s] = f[y] + g[s \ {y}]

LEMMA SummedAnyOrder ==
  ASSUME NEW D, IsFiniteSet(D), NEW f \in [D -> Int], NEW g, Summed(g, f, D)
  PROVE  AnyOrder(g, f, D)
<1> DEFINE G == {s \in SUBSET D : \A y \in s : g[s] = f[y] + g[s \ {y}]}
<1>1. ASSUME NEW s \in SUBSET D, \A t \in SUBSET s : t # s => t \in G
      PROVE  s \in G
  <2> SUFFICES ASSUME NEW y \in s
               PROVE  g[s] = f[y] + g[s \ {y}]
    OBVIOUS
  <2> DEFINE x == One(s)
  <2>1. x \in s
    BY DEF One
  <2>2. g[s] = f[x] + g[s \ {x}]
    BY SummedMeans
  <2> HIDE DEF x
  <2>3. CASE x = y
    BY <2>2, <2>3
  <2>4. CASE x # y
    <3>1. s \ {x} \in G /\ y \in s \ {x} /\ s \ {y} \in G /\ x \in s \ {y}
      BY <1>1, <2>1, <2>4
    <3>2. g[s \ {x}] = f[y] + g[(s \ {x}) \ {y}]
      BY <3>1
    <3>3. g[s \ {y}] = f[x] + g[(s \ {y}) \ {x}]
      BY <3>1
    <3>4. (s \ {x}) \ {y} = (s \ {y}) \ {x}
      OBVIOUS
    <3>5. f[x] \in Int /\ f[y] \in Int /\ g[(s \ {y}) \ {x}] \in Int
      BY <2>1, SummedIsInt
    <3>6. g[s] = f[x] + (f[y] + g[(s \ {y}) \ {x}])
      BY <2>2, <3>2, <3>4
    <3>7. f[x] + (f[y] + g[(s \ {y}) \ {x}]) = f[y] + (f[x] + g[(s \ {y}) \ {x}])
      BY <3>5
    <3> QED
      BY <3>3, <3>6, <3>7
  <2> QED
    BY <2>3, <2>4
<1>2. SUBSET D \subseteq G
  <2> HIDE DEF G
  <2> QED
    BY <1>1, SubsetInduction
<1> QED
  BY <1>2 DEF AnyOrder

(* Sums of functions that agree on a set are the same. *)
(* Summands that agree have one sum. *)
LEMMA SummedAgree ==
  ASSUME NEW D, IsFiniteSet(D), NEW e \in [D -> Int], NEW f \in [D -> Int],
         NEW g, Summed(g, e, D), NEW h, Summed(h, f, D)
  PROVE  \A s \in SUBSET D : (\A x \in s : e[x] = f[x]) => g[s] = h[s]
<1> DEFINE G == {s \in SUBSET D : (\A x \in s : e[x] = f[x]) => g[s] = h[s]}
<1>1. ASSUME NEW s \in SUBSET D, \A t \in SUBSET s : t # s => t \in G
      PROVE  s \in G
  <2> SUFFICES ASSUME \A x \in s : e[x] = f[x]
               PROVE  g[s] = h[s]
    OBVIOUS
  <2>1. CASE s = {}
    BY <2>1, SummedMeans
  <2>2. CASE s # {}
    <3>1. One(s) \in s
      BY <2>2 DEF One
    <3>2. g[s \ {One(s)}] = h[s \ {One(s)}]
      BY <1>1, <3>1
    <3>3. g[s] = e[One(s)] + g[s \ {One(s)}] /\ h[s] = f[One(s)] + h[s \ {One(s)}]
      BY <2>2, SummedMeans
    <3> QED
      BY <3>1, <3>2, <3>3
  <2> QED
    BY <2>1, <2>2
<1>2. SUBSET D \subseteq G
  <2> HIDE DEF G
  <2> QED
    BY <1>1, SubsetInduction
<1> QED
  BY <1>2

-----------------------------------------------------------------------------
(* What the proofs use of a sum: it is an integer, and changes as the one   *)
(* summand that changes.                                                    *)
LEMMA SumIsSummed ==
  ASSUME NEW D, IsFiniteSet(D), NEW f \in [D -> Int]
  PROVE  \E g : Summed(g, f, D) /\ SumFunctionOnSet(f, D) = g[D]
<1>1. \E g : Summed(g, f, D)
  BY SumExists
<1>2. Summed(CHOOSE g : Summed(g, f, D), f, D)
  BY <1>1, Zenon
<1> QED
  BY <1>2, SumUnfolds

LEMMA SumType ==
  ASSUME NEW D, IsFiniteSet(D), NEW f \in [D -> Int]
  PROVE  SumFunctionOnSet(f, D) \in Int
BY SumIsSummed, SummedIsInt

(* One summand changes, and the sum by as much. *)
LEMMA SumChanges ==
  ASSUME NEW D, IsFiniteSet(D), NEW e \in [D -> Int], NEW f \in [D -> Int], NEW w \in D,
         \A x \in D \ {w} : e[x] = f[x]
  PROVE  SumFunctionOnSet(f, D) = SumFunctionOnSet(e, D) - e[w] + f[w]
<1>1. PICK g : Summed(g, e, D) /\ SumFunctionOnSet(e, D) = g[D]
  BY SumIsSummed
<1>2. PICK h : Summed(h, f, D) /\ SumFunctionOnSet(f, D) = h[D]
  BY SumIsSummed
<1> D \in SUBSET D /\ D \ {w} \in SUBSET D
  OBVIOUS
<1>3. g[D] = e[w] + g[D \ {w}] /\ h[D] = f[w] + h[D \ {w}]
  <2>1. AnyOrder(g, e, D)
    BY <1>1, SummedAnyOrder
  <2>2. AnyOrder(h, f, D)
    BY <1>2, SummedAnyOrder
  <2> QED
    BY <2>1, <2>2 DEF AnyOrder
<1>4. g[D \ {w}] = h[D \ {w}]
  BY <1>1, <1>2, SummedAgree
<1>5. g[D \ {w}] \in Int /\ e[w] \in Int /\ f[w] \in Int
  BY <1>1, SummedIsInt
<1> QED
  BY <1>1, <1>2, <1>3, <1>4, <1>5

(* A sum of zeroes is zero. *)
LEMMA SumOfZeroes ==
  ASSUME NEW D, IsFiniteSet(D), NEW f \in [D -> Int], \A x \in D : f[x] = 0
  PROVE  SumFunctionOnSet(f, D) = 0
<1>1. PICK g : Summed(g, f, D) /\ SumFunctionOnSet(f, D) = g[D]
  BY SumIsSummed
<1> DEFINE G == {s \in SUBSET D : g[s] = 0}
<1>2. ASSUME NEW s \in SUBSET D, \A t \in SUBSET s : t # s => t \in G
      PROVE  s \in G
  <2>1. CASE s = {}
    BY <1>1, <2>1, SummedMeans
  <2>2. CASE s # {}
    <3>1. One(s) \in s
      BY <2>2 DEF One
    <3>2. g[s \ {One(s)}] = 0
      BY <1>2, <3>1
    <3>3. g[s] = f[One(s)] + g[s \ {One(s)}]
      BY <1>1, <2>2, SummedMeans
    <3> QED
      BY <3>1, <3>2, <3>3
  <2> QED
    BY <2>1, <2>2
<1>3. SUBSET D \subseteq G
  <2> HIDE DEF G
  <2> QED
    BY <1>2, SubsetInduction
<1> QED
  BY <1>1, <1>3

(* A sum grows with its summands.                                           *)
LEMMA SumMonotone ==
  ASSUME NEW D, IsFiniteSet(D), NEW e \in [D -> Int], NEW f \in [D -> Int],
         \A x \in D : e[x] <= f[x]
  PROVE  SumFunctionOnSet(e, D) <= SumFunctionOnSet(f, D)
<1>1. PICK g : Summed(g, e, D) /\ SumFunctionOnSet(e, D) = g[D]
  BY SumIsSummed
<1>2. PICK h : Summed(h, f, D) /\ SumFunctionOnSet(f, D) = h[D]
  BY SumIsSummed
<1> DEFINE G == {s \in SUBSET D : g[s] <= h[s]}
<1>3. ASSUME NEW s \in SUBSET D, \A t \in SUBSET s : t # s => t \in G
      PROVE  s \in G
  <2>1. CASE s = {}
    <3>1. g[{}] = 0 /\ h[{}] = 0
      BY <1>1, <1>2, <2>1, SummedMeans
    <3> QED
      BY <2>1, <3>1
  <2>2. CASE s # {}
    <3>1. One(s) \in s
      BY <2>2 DEF One
    <3>2. g[s \ {One(s)}] <= h[s \ {One(s)}]
      BY <1>3, <3>1
    <3>3. g[s] = e[One(s)] + g[s \ {One(s)}] /\ h[s] = f[One(s)] + h[s \ {One(s)}]
      BY <1>1, <1>2, <2>2, SummedMeans
    <3>4. /\ e[One(s)] \in Int /\ f[One(s)] \in Int /\ e[One(s)] <= f[One(s)]
          /\ g[s \ {One(s)}] \in Int /\ h[s \ {One(s)}] \in Int
      BY <1>1, <1>2, <3>1, SummedIsInt
    <3> QED
      BY <3>2, <3>3, <3>4
  <2> QED
    BY <2>1, <2>2
<1>4. SUBSET D \subseteq G
  <2> HIDE DEF G
  <2> QED
    BY <1>3, SubsetInduction
<1> QED
  BY <1>1, <1>2, <1>4

(* A sum of k's is as many times k as there are of them. *)
LEMMA SumOfEqual ==
  ASSUME NEW D, IsFiniteSet(D), NEW k \in Int, NEW f \in [D -> Int], \A x \in D : f[x] = k
  PROVE  SumFunctionOnSet(f, D) = Cardinality(D) * k
<1>1. PICK g : Summed(g, f, D) /\ SumFunctionOnSet(f, D) = g[D]
  BY SumIsSummed
<1> DEFINE G == {s \in SUBSET D : g[s] = Cardinality(s) * k}
<1>2. ASSUME NEW s \in SUBSET D, \A t \in SUBSET s : t # s => t \in G
      PROVE  s \in G
  <2>1. CASE s = {}
    <3>1. g[s] = 0 /\ Cardinality(s) = 0
      BY <1>1, <2>1, SummedMeans, FS_EmptySet
    <3> QED
      BY <3>1
  <2>2. CASE s # {}
    <3>1. One(s) \in s
      BY <2>2 DEF One
    <3>2. g[s \ {One(s)}] = Cardinality(s \ {One(s)}) * k
      BY <1>2, <3>1
    <3>3. g[s] = f[One(s)] + g[s \ {One(s)}] /\ f[One(s)] = k
      BY <1>1, <2>2, <3>1, SummedMeans
    <3>4. /\ Cardinality(s \ {One(s)}) \in Nat
          /\ Cardinality(s) = Cardinality(s \ {One(s)}) + 1
      <4>1. IsFiniteSet(s) /\ IsFiniteSet(s \ {One(s)})
        BY FS_Subset
      <4> QED
        BY <3>1, <4>1, FS_RemoveElement, FS_CardinalityType
    <3>5. \A n \in Nat : k + n * k = (n + 1) * k
      OBVIOUS
    <3> QED
      BY <3>2, <3>3, <3>4, <3>5
  <2> QED
    BY <2>1, <2>2
<1>3. SUBSET D \subseteq G
  <2> HIDE DEF G
  <2> QED
    BY <1>2, SubsetInduction
<1> QED
  BY <1>1, <1>3

(* What a quotient leaves is less than the divisor. *)
LEMMA Quotient ==
  ASSUME NEW a \in Nat, NEW q \in Nat, q > 0
  PROVE  a \div q \in Int /\ a < (a \div q) * q + q
<1>1. a \div q \in Int
  BY SMT
<1>2. a < (a \div q) * q + q
  BY SMT
<1> QED
  BY <1>1, <1>2

-----------------------------------------------------------------------------
Flag(b) == IF b THEN 1 ELSE 0

(* One element enters a set or leaves it, and its size follows. *)
LEMMA OneMoves ==
  ASSUME NEW D, IsFiniteSet(D), NEW S \in SUBSET D, NEW T \in SUBSET D, NEW w \in D,
         \A v \in D : v # w => (v \in S <=> v \in T)
  PROVE  /\ Cardinality(S) \in Nat /\ Cardinality(T) \in Nat
         /\ Cardinality(T) = Cardinality(S) - Flag(w \in S) + Flag(w \in T)
<1>1. S \ {w} = T \ {w}
  OBVIOUS
<1>2. IsFiniteSet(S) /\ IsFiniteSet(T)
  BY FS_Subset
<1>3. ASSUME NEW U \in SUBSET D
      PROVE  Cardinality(U) \in Nat /\ Cardinality(U \ {w}) = Cardinality(U) - Flag(w \in U)
  <2>1. IsFiniteSet(U) /\ Cardinality(U) \in Nat
    BY FS_Subset, FS_CardinalityType
  <2>2. Cardinality(U \ {w}) = IF w \in U THEN Cardinality(U) - 1 ELSE Cardinality(U)
    BY <2>1, FS_RemoveElement
  <2> QED
    BY <2>1, <2>2 DEF Flag
<1>4. Cardinality(S) \in Nat /\ Cardinality(S \ {w}) = Cardinality(S) - Flag(w \in S)
  BY <1>3
<1>5. Cardinality(T) \in Nat /\ Cardinality(T \ {w}) = Cardinality(T) - Flag(w \in T)
  BY <1>3
<1> QED
  BY <1>1, <1>4, <1>5 DEF Flag

LEMMA IntervalFinite ==
  ASSUME NEW n \in Int
  PROVE  IsFiniteSet(1..n)
<1>1. 1 \in Int /\ n \in Int
  OBVIOUS
<1> QED
  BY <1>1, FS_Interval, Zenon

(* Indexes are counted alike after entry k of a list is taken out. *)
LEMMA CountWithout ==
  ASSUME NEW n \in Nat, NEW k \in 1..n, NEW I \in SUBSET (1..n)
  PROVE  Cardinality({i \in 1..(n - 1) : (IF i < k THEN i ELSE i + 1) \in I}) = Cardinality(I \ {k})
<1> DEFINE J == {i \in 1..(n - 1) : (IF i < k THEN i ELSE i + 1) \in I}
           f == [i \in I \ {k} |-> IF i < k THEN i ELSE i - 1]
<1>1. IsFiniteSet(I \ {k})
  <2>2. IsFiniteSet(1..n)
    BY IntervalFinite
  <2> QED
    BY <2>2, FS_Subset
<1>2. f \in [I \ {k} -> J]
  OBVIOUS
<1>3. \A a, b \in I \ {k} : f[a] = f[b] => a = b
  OBVIOUS
<1>4. \A j \in J : \E i \in I \ {k} : f[i] = j
  <2> SUFFICES ASSUME NEW j \in J
               PROVE  \E i \in I \ {k} : f[i] = j
    OBVIOUS
  <2>1. CASE j < k
    BY <2>1
  <2>2. CASE j >= k
    <3>1. j + 1 \in I \ {k} /\ f[j + 1] = j
      BY <2>2
    <3> QED
      BY <3>1
  <2> QED
    BY <2>1, <2>2
<1>5. f \in Bijection(I \ {k}, J)
  BY <1>2, <1>3, <1>4, Fun_IsBij
<1> QED
  BY <1>1, <1>5, FS_Bijection DEF ExistsBijection

(* A sum grows by at least what one summand grows by, if none shrinks. *)
LEMMA SumGrows ==
  ASSUME NEW D, IsFiniteSet(D), NEW e \in [D -> Int], NEW f \in [D -> Int], NEW w \in D, NEW n \in Int,
         \A x \in D : e[x] <= f[x], e[w] + n <= f[w]
  PROVE  SumFunctionOnSet(e, D) + n <= SumFunctionOnSet(f, D)
<1> DEFINE m == [e EXCEPT ![w] = e[w] + n]
<1>1. m \in [D -> Int] /\ m[w] = e[w] + n /\ \A x \in D \ {w} : e[x] = m[x]
  OBVIOUS
<1> HIDE DEF m
<1>2. SumFunctionOnSet(m, D) = SumFunctionOnSet(e, D) - e[w] + m[w]
  BY <1>1, SumChanges
<1>3. \A x \in D : m[x] <= f[x]
  BY <1>1
<1>4. SumFunctionOnSet(m, D) <= SumFunctionOnSet(f, D)
  BY <1>1, <1>3, SumMonotone
<1>5. SumFunctionOnSet(e, D) \in Int /\ SumFunctionOnSet(m, D) \in Int /\ SumFunctionOnSet(f, D) \in Int
  BY <1>1, SumType
<1> QED
  BY <1>1, <1>2, <1>4, <1>5
=============================================================================
