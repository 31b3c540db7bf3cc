-------------------------------- MODULE Sums --------------------------------
(***************************************************************************)
(* Sums and maxima over finite sets, for the conservation invariants: what *)
(* the community operators compute, for every finite set.                  *)
(*                                                                         *)
(* The sum folds with a recursive CHOOSE.  Induction is first-order        *)
(* here: a set G that contains every subset of S all of whose proper       *)
(* subsets it contains, contains S (SetInduction), from the well-founded-  *)
(* ness of the strict subset order of a finite set.  With it the recursion *)
(* has one solution (SumFunUnique, SumFunExists), and the sum can be taken *)
(* apart at any element (SumRemove) and recomputed where one summand       *)
(* changed (SumChange), which is what the steps of a ledger need.          *)
(***************************************************************************)
EXTENDS Integers, FiniteSets, FiniteSetsExt, Functions, FiniteSetTheorems, WellFoundedInduction,
        TLAPS

(* The element the recursion of MapThenFoldSet takes first. *)
Pick(s) == CHOOSE x \in s : TRUE

(* One unfolding of that recursion, and its solution. *)
SumBody(f, S, g) ==
    [s \in SUBSET S |-> IF s = {} THEN 0 ELSE f[Pick(s)] + g[s \ {Pick(s)}]]

SumFun(f, S) == CHOOSE g : g = SumBody(f, S, g)

(* The sum is the value of the recursion at the whole set. *)
LEMMA SumUnfold ==
    ASSUME NEW f, NEW S
    PROVE  SumFunctionOnSet(f, S) = SumFun(f, S)[S]
  BY Zenon DEF SumFunctionOnSet, FoldFunctionOnSet, MapThenFoldSet, SumFun, SumBody, Pick

(* Induction over the subsets of a finite set. *)
LEMMA SetInduction ==
    ASSUME NEW S, IsFiniteSet(S), NEW G,
           \A T \in SUBSET S : (\A U \in SUBSET T : U # T => U \in G) => T \in G
    PROVE  S \in G
<1>1. SUFFICES ASSUME S \notin G PROVE FALSE
  OBVIOUS
<1> DEFINE Bad == {T \in SUBSET S : T \notin G}
           R   == StrictSubsetOrdering(S)
<1>2. IsWellFoundedOn(R, SUBSET S)
  BY FS_StrictSubsetOrderingWellFounded, FS_FiniteSubsetsOfFinite
<1>3. Bad \subseteq SUBSET S /\ Bad # {}
  BY <1>1
<1>4. PICK T \in Bad : \A U \in Bad : ~(<<U, T>> \in R)
  <2> HIDE DEF Bad, R
  <2> QED
    BY <1>2, <1>3, WFMin
<1>5. ASSUME NEW U \in SUBSET T, U # T PROVE U \in G
  <2>1. <<U, T>> \in R
    BY <1>5, <1>4 DEF StrictSubsetOrdering
  <2> QED
    BY <2>1, <1>4
<1> QED
  BY <1>4, <1>5

(* The chosen element is an element. *)
LEMMA PickIn == ASSUME NEW s, s # {} PROVE Pick(s) \in s
  BY DEF Pick

(* Two solutions of the recursion agree on a set both are defined on. *)
LEMMA SumFunUnique ==
    ASSUME NEW f, NEW S, NEW T, IsFiniteSet(T), T \subseteq S,
           NEW g, g = SumBody(f, S, g), NEW h, h = SumBody(f, T, h)
    PROVE  g[T] = h[T]
<1> DEFINE G == {U \in SUBSET T : g[U] = h[U]}
<1>1. ASSUME NEW V \in SUBSET T, \A U \in SUBSET V : U # V => U \in G
      PROVE  V \in G
  <2>1. CASE V = {}
    BY <2>1 DEF SumBody
  <2>2. CASE V # {}
    <3>1. Pick(V) \in V /\ V \ {Pick(V)} \in SUBSET V /\ V \ {Pick(V)} # V
      BY <2>2, PickIn
    <3>2. V \ {Pick(V)} \in G
      BY <3>1, <1>1
    <3>3. g[V] = f[Pick(V)] + g[V \ {Pick(V)}]
      BY <2>2 DEF SumBody
    <3>4. h[V] = f[Pick(V)] + h[V \ {Pick(V)}]
      BY <2>2 DEF SumBody
    <3> QED
      BY <3>2, <3>3, <3>4
  <2> QED
    BY <2>1, <2>2
<1>2. T \in G
  <2> HIDE DEF G
  <2> QED
    BY <1>1, SetInduction
<1> QED
  BY <1>2

(* On a finite set the recursion has a solution, so CHOOSE finds it. *)
LEMMA SumFunExists ==
    ASSUME NEW f, NEW S, IsFiniteSet(S)
    PROVE  SumFun(f, S) = SumBody(f, S, SumFun(f, S))
<1> DEFINE G == {T \in SUBSET S : \E g : g = SumBody(f, T, g)}
<1>1. ASSUME NEW T \in SUBSET S, \A U \in SUBSET T : U # T => U \in G
      PROVE  T \in G
  <2> DEFINE g(s) == SumFun(f, s)
             h == [s \in SUBSET T |-> IF s = {} THEN 0
                                      ELSE IF s = T THEN f[Pick(T)] + g(T \ {Pick(T)})[T \ {Pick(T)}]
                                      ELSE g(s)[s]]
  <2>1. ASSUME NEW U \in SUBSET T, U # T PROVE g(U) = SumBody(f, U, g(U))
    <3>1. \E x : x = SumBody(f, U, x)
      BY <2>1, <1>1
    <3> QED
      BY <3>1 DEF SumFun
  <2>2. ASSUME NEW U \in SUBSET T, U # T, U # {}
        PROVE  g(U)[U] = f[Pick(U)] + g(U \ {Pick(U)})[U \ {Pick(U)}]
    <3>1. Pick(U) \in U /\ U \ {Pick(U)} \in SUBSET U /\ U \ {Pick(U)} # T
      BY <2>2, PickIn
    <3>2. g(U)[U] = f[Pick(U)] + g(U)[U \ {Pick(U)}]
      <4>1. g(U) = SumBody(f, U, g(U))
        BY <2>1, <2>2
      <4> HIDE DEF g
      <4> QED
        BY <2>2, <4>1 DEF SumBody
    <3>3. IsFiniteSet(U \ {Pick(U)})
      BY FS_Subset
    <3>4. g(U)[U \ {Pick(U)}] = g(U \ {Pick(U)})[U \ {Pick(U)}]
      <4>1. g(U) = SumBody(f, U, g(U)) /\ g(U \ {Pick(U)}) = SumBody(f, U \ {Pick(U)}, g(U \ {Pick(U)}))
        BY <2>1, <2>2, <3>1
      <4> HIDE DEF g
      <4> QED
        BY <3>1, <3>3, <4>1, SumFunUnique
    <3> QED
      BY <3>2, <3>4
  <2>3. T # {} => Pick(T) \in T /\ T \ {Pick(T)} \in SUBSET T /\ T \ {Pick(T)} # T
    BY PickIn
  <2>4. g({})[{}] = 0
    <3>1. \E x : x = SumBody(f, {}, x)
      <4>1. [s \in SUBSET {} |-> 0] = SumBody(f, {}, [s \in SUBSET {} |-> 0])
        BY DEF SumBody
      <4> QED
        BY <4>1
    <3>2. g({}) = SumBody(f, {}, g({}))
      BY <3>1 DEF SumFun
    <3> HIDE DEF g
    <3> QED
      BY <3>2 DEF SumBody
  <2>5. ASSUME NEW s \in SUBSET T
        PROVE  h[s] = IF s = {} THEN 0 ELSE f[Pick(s)] + h[s \ {Pick(s)}]
    <3>1. s # {} => Pick(s) \in s /\ s \ {Pick(s)} \in SUBSET T /\ s \ {Pick(s)} # T
      BY PickIn
    <3>2. s # {} => h[s \ {Pick(s)}] = g(s \ {Pick(s)})[s \ {Pick(s)}]
      <4> HIDE DEF g
      <4> QED
        BY <3>1, <2>4 DEF g
    <3>3. CASE s = {}
      BY <3>3
    <3>4. CASE s = T /\ s # {}
      <4> HIDE DEF g
      <4> QED
        BY <3>4, <3>2
    <3>5. CASE s # T /\ s # {}
      <4>1. h[s] = g(s)[s]
        <5> HIDE DEF g
        <5> QED
          BY <3>5
      <4> HIDE DEF g, h
      <4> QED
        BY <4>1, <3>5, <3>2, <2>2
    <3> QED
      BY <3>3, <3>4, <3>5
  <2>6. h = SumBody(f, T, h)
    <3>1. h = [s \in SUBSET T |-> h[s]]
      <4> HIDE DEF g
      <4> QED
        OBVIOUS
    <3> HIDE DEF h
    <3> QED
      BY <2>5, <3>1 DEF SumBody
  <2> HIDE DEF h
  <2> QED
    BY <2>6
<1>2. S \in G
  <2> HIDE DEF G
  <2> QED
    BY <1>1, SetInduction
<1> QED
  BY <1>2 DEF SumFun

(* The empty sum is zero. *)
LEMMA SumEmpty == ASSUME NEW f PROVE SumFunctionOnSet(f, {}) = 0
<1>1. SumFun(f, {}) = SumBody(f, {}, SumFun(f, {}))
  BY SumFunExists, FS_EmptySet
<1> QED
  BY <1>1, SumUnfold DEF SumBody

(* The sum splits at the element the recursion takes first. *)
LEMMA SumPick ==
    ASSUME NEW f, NEW S, IsFiniteSet(S), S # {}
    PROVE  SumFunctionOnSet(f, S) = f[Pick(S)] + SumFunctionOnSet(f, S \ {Pick(S)})
<1> DEFINE U == S \ {Pick(S)}
<1>1. IsFiniteSet(U) /\ U \subseteq S
  BY FS_Subset
<1>2. SumFun(f, S) = SumBody(f, S, SumFun(f, S)) /\ SumFun(f, U) = SumBody(f, U, SumFun(f, U))
  BY <1>1, SumFunExists
<1>3. SumFun(f, S)[S] = f[Pick(S)] + SumFun(f, S)[U]
  BY <1>2 DEF SumBody
<1>4. SumFun(f, S)[U] = SumFun(f, U)[U]
  <2> HIDE DEF U
  <2> QED
    BY <1>1, <1>2, SumFunUnique
<1> QED
  BY <1>3, <1>4, SumUnfold

(* Sums of integers are integers. *)
LEMMA SumInt ==
    ASSUME NEW S, IsFiniteSet(S), NEW f, \A x \in S : f[x] \in Int
    PROVE  SumFunctionOnSet(f, S) \in Int
<1> DEFINE G == {T \in SUBSET S : SumFunctionOnSet(f, T) \in Int}
<1>1. ASSUME NEW T \in SUBSET S, \A U \in SUBSET T : U # T => U \in G
      PROVE  T \in G
  <2>1. CASE T = {}
    BY <2>1, SumEmpty
  <2>2. CASE T # {}
    <3>1. Pick(T) \in T /\ IsFiniteSet(T)
      BY <2>2, PickIn, FS_Subset
    <3>2. T \ {Pick(T)} \in G
      BY <3>1, <1>1
    <3> QED
      BY <2>2, <3>1, <3>2, SumPick
  <2> QED
    BY <2>1, <2>2
<1>2. S \in G
  <2> HIDE DEF G
  <2> QED
    BY <1>1, SetInduction
<1> QED
  BY <1>2

(* Functions that agree on the set have the same sum. *)
LEMMA SumAgree ==
    ASSUME NEW S, IsFiniteSet(S), NEW f, NEW g, \A x \in S : f[x] = g[x]
    PROVE  SumFunctionOnSet(f, S) = SumFunctionOnSet(g, S)
<1> DEFINE G == {T \in SUBSET S : SumFunctionOnSet(f, T) = SumFunctionOnSet(g, T)}
<1>1. ASSUME NEW T \in SUBSET S, \A U \in SUBSET T : U # T => U \in G
      PROVE  T \in G
  <2>1. CASE T = {}
    BY <2>1, SumEmpty
  <2>2. CASE T # {}
    <3>1. Pick(T) \in T /\ IsFiniteSet(T)
      BY <2>2, PickIn, FS_Subset
    <3>2. T \ {Pick(T)} \in G
      BY <3>1, <1>1
    <3> QED
      BY <2>2, <3>1, <3>2, SumPick
  <2> QED
    BY <2>1, <2>2
<1>2. S \in G
  <2> HIDE DEF G
  <2> QED
    BY <1>1, SetInduction
<1> QED
  BY <1>2

(* The sum splits at any element. *)
LEMMA SumRemove ==
    ASSUME NEW S, IsFiniteSet(S), NEW f, \A x \in S : f[x] \in Int, NEW a \in S
    PROVE  SumFunctionOnSet(f, S) = f[a] + SumFunctionOnSet(f, S \ {a})
<1> DEFINE Sum(T) == SumFunctionOnSet(f, T)
           G == {T \in SUBSET S : \A x \in T : Sum(T) = f[x] + Sum(T \ {x})}
<1>0. \A T \in SUBSET S : IsFiniteSet(T) /\ Sum(T) \in Int
  BY FS_Subset, SumInt
<1>1. ASSUME NEW T \in SUBSET S, \A U \in SUBSET T : U # T => U \in G
      PROVE  T \in G
  <2>1. ASSUME NEW x \in T
        PROVE  Sum(T) = f[x] + Sum(T \ {x})
    <3> DEFINE p == Pick(T)
    <3>1. p \in T /\ Sum(T) = f[p] + Sum(T \ {p})
      BY <2>1, <1>0, PickIn, SumPick
    <3>2. CASE x = p
      BY <3>1, <3>2
    <3>3. CASE x # p
      <4>1. T \ {p} \in G /\ x \in T \ {p} /\ T \ {x} \in G /\ p \in T \ {x}
        BY <3>1, <3>3, <1>1
      <4>2. Sum(T \ {p}) = f[x] + Sum((T \ {p}) \ {x})
        BY <4>1
      <4>3. Sum(T \ {x}) = f[p] + Sum((T \ {x}) \ {p})
        BY <4>1
      <4>4. (T \ {p}) \ {x} = (T \ {x}) \ {p} /\ (T \ {x}) \ {p} \in SUBSET S
        OBVIOUS
      <4>5. PICK w \in Int : Sum((T \ {p}) \ {x}) = w /\ Sum((T \ {x}) \ {p}) = w
        BY <4>4, <1>0
      <4>6. Sum(T \ {p}) = f[x] + w /\ Sum(T \ {x}) = f[p] + w
        BY <4>2, <4>3, <4>5
      <4>7. f[x] \in Int /\ f[p] \in Int
        BY <3>1
      <4> QED
        BY <3>1, <4>6, <4>7
    <3> QED
      BY <3>2, <3>3
  <2> QED
    BY <2>1
<1>2. S \in G
  <2> HIDE DEF G
  <2> QED
    BY <1>1, SetInduction
<1> QED
  BY <1>2

(* Changing one summand changes the sum by the same amount. *)
LEMMA SumChange ==
    ASSUME NEW S, IsFiniteSet(S), NEW f, NEW g, NEW a \in S,
           \A x \in S : f[x] \in Int /\ g[x] \in Int,
           \A x \in S \ {a} : g[x] = f[x]
    PROVE  SumFunctionOnSet(g, S) = SumFunctionOnSet(f, S) - f[a] + g[a]
<1>1. SumFunctionOnSet(f, S) = f[a] + SumFunctionOnSet(f, S \ {a})
  BY SumRemove
<1>2. SumFunctionOnSet(g, S) = g[a] + SumFunctionOnSet(g, S \ {a})
  BY SumRemove
<1>3. IsFiniteSet(S \ {a})
  BY FS_RemoveElement
<1>4. SumFunctionOnSet(f, S \ {a}) = SumFunctionOnSet(g, S \ {a})
  BY <1>3, SumAgree
<1>5. SumFunctionOnSet(f, S \ {a}) \in Int
  BY <1>3, SumInt
<1> QED
  BY <1>1, <1>2, <1>4, <1>5

(* Sums of naturals are naturals, and none of their summands exceeds them. *)
LEMMA SumNat ==
    ASSUME NEW S, IsFiniteSet(S), NEW f, \A x \in S : f[x] \in Nat
    PROVE  /\ SumFunctionOnSet(f, S) \in Nat
           /\ \A x \in S : f[x] <= SumFunctionOnSet(f, S)
<1> DEFINE G == {T \in SUBSET S : SumFunctionOnSet(f, T) \in Nat}
<1>1. ASSUME NEW T \in SUBSET S, \A U \in SUBSET T : U # T => U \in G
      PROVE  T \in G
  <2>1. CASE T = {}
    BY <2>1, SumEmpty
  <2>2. CASE T # {}
    <3>1. Pick(T) \in T /\ IsFiniteSet(T)
      BY <2>2, PickIn, FS_Subset
    <3>2. T \ {Pick(T)} \in G
      BY <3>1, <1>1
    <3> QED
      BY <2>2, <3>1, <3>2, SumPick
  <2> QED
    BY <2>1, <2>2
<1>2. ASSUME NEW T \in SUBSET S PROVE T \in G
  <2>1. IsFiniteSet(T)
    BY FS_Subset
  <2> HIDE DEF G
  <2> QED
    BY <1>1, <2>1, SetInduction
<1>3. ASSUME NEW x \in S PROVE f[x] <= SumFunctionOnSet(f, S)
  <2>1. SumFunctionOnSet(f, S) = f[x] + SumFunctionOnSet(f, S \ {x})
    BY SumRemove
  <2>2. SumFunctionOnSet(f, S \ {x}) \in Nat
    BY <1>2
  <2> QED
    BY <2>1, <2>2
<1> QED
  BY <1>2, <1>3

(* A sum of zeros is zero. *)
LEMMA SumZero ==
    ASSUME NEW S, IsFiniteSet(S)
    PROVE  SumFunctionOnSet([x \in S |-> 0], S) = 0
<1> DEFINE z == [x \in S |-> 0]
           G == {T \in SUBSET S : SumFunctionOnSet(z, T) = 0}
<1>1. ASSUME NEW T \in SUBSET S, \A U \in SUBSET T : U # T => U \in G
      PROVE  T \in G
  <2>1. CASE T = {}
    BY <2>1, SumEmpty
  <2>2. CASE T # {}
    <3>1. Pick(T) \in T /\ IsFiniteSet(T)
      BY <2>2, PickIn, FS_Subset
    <3>2. SumFunctionOnSet(z, T \ {Pick(T)}) = 0
      BY <1>1, <3>1
    <3>3. SumFunctionOnSet(z, T) = z[Pick(T)] + SumFunctionOnSet(z, T \ {Pick(T)}) /\ z[Pick(T)] = 0
      BY <2>2, <3>1, SumPick
    <3> QED
      BY <3>2, <3>3
  <2> QED
    BY <2>1, <2>2
<1>2. S \in G
  <2> HIDE DEF G
  <2> QED
    BY <1>1, SetInduction
<1> QED
  BY <1>2

(* Equal summands multiply. *)
LEMMA SumConst ==
    ASSUME NEW S, IsFiniteSet(S), NEW c \in Int
    PROVE  SumFunctionOnSet([x \in S |-> c], S) = c * Cardinality(S)
<1> DEFINE z == [x \in S |-> c]
           G == {T \in SUBSET S : SumFunctionOnSet(z, T) = c * Cardinality(T)}
<1>1. ASSUME NEW T \in SUBSET S, \A U \in SUBSET T : U # T => U \in G
      PROVE  T \in G
  <2>1. CASE T = {}
    <3>1. SumFunctionOnSet(z, T) = 0 /\ Cardinality(T) = 0
      BY <2>1, SumEmpty, FS_EmptySet
    <3> QED
      BY <3>1
  <2>2. CASE T # {}
    <3>1. Pick(T) \in T /\ IsFiniteSet(T)
      BY <2>2, PickIn, FS_Subset
    <3>2. PICK n \in Nat : n = Cardinality(T \ {Pick(T)}) /\ Cardinality(T) = n + 1
      <4>1. IsFiniteSet(T \ {Pick(T)})
        BY <3>1, FS_RemoveElement
      <4>2. Cardinality(T \ {Pick(T)}) \in Nat
        BY <4>1, FS_CardinalityType
      <4>3. Cardinality((T \ {Pick(T)}) \union {Pick(T)}) = Cardinality(T \ {Pick(T)}) + 1
        BY <4>1, FS_AddElement
      <4>4. (T \ {Pick(T)}) \union {Pick(T)} = T
        BY <3>1
      <4> QED
        BY <4>2, <4>3, <4>4
    <3>3. SumFunctionOnSet(z, T \ {Pick(T)}) = c * n
      BY <1>1, <3>1, <3>2
    <3>4. SumFunctionOnSet(z, T) = z[Pick(T)] + SumFunctionOnSet(z, T \ {Pick(T)}) /\ z[Pick(T)] = c
      BY <2>2, <3>1, SumPick
    <3>5. c + c * n = c * (n + 1)
      OBVIOUS
    <3> QED
      BY <3>2, <3>3, <3>4, <3>5
  <2> QED
    BY <2>1, <2>2
<1>2. S \in G
  <2> HIDE DEF G
  <2> QED
    BY <1>1, SetInduction
<1> QED
  BY <1>2

(* Summands outside a set that are zero may be left out. *)
LEMMA SumSupport ==
    ASSUME NEW S, IsFiniteSet(S), NEW f, \A x \in S : f[x] \in Int,
           NEW M, \A x \in S \ M : f[x] = 0
    PROVE  SumFunctionOnSet(f, S) = SumFunctionOnSet(f, S \intersect M)
<1> DEFINE G == {T \in SUBSET S : SumFunctionOnSet(f, T) = SumFunctionOnSet(f, T \intersect M)}
<1>1. ASSUME NEW T \in SUBSET S, \A U \in SUBSET T : U # T => U \in G
      PROVE  T \in G
  <2>0. IsFiniteSet(T) /\ \A x \in T : f[x] \in Int
    BY FS_Subset
  <2>1. CASE T \subseteq M
    <3>1. T \intersect M = T
      BY <2>1
    <3> QED
      BY <3>1
  <2>2. CASE ~(T \subseteq M)
    <3>1. PICK a \in T : a \notin M
      BY <2>2
    <3>2. SumFunctionOnSet(f, T) = f[a] + SumFunctionOnSet(f, T \ {a}) /\ f[a] = 0
      BY <2>0, <3>1, SumRemove
    <3>3. T \ {a} \in G /\ (T \ {a}) \intersect M = T \intersect M
      BY <1>1, <3>1
    <3>4. SumFunctionOnSet(f, T \ {a}) \in Int
      <4>1. IsFiniteSet(T \ {a}) /\ \A x \in T \ {a} : f[x] \in Int
        BY <2>0, FS_RemoveElement
      <4> QED
        BY <4>1, SumInt
    <3> QED
      <4>1. SumFunctionOnSet(f, T) = SumFunctionOnSet(f, T \ {a})
        BY <3>2, <3>4
      <4>2. SumFunctionOnSet(f, T \ {a}) = SumFunctionOnSet(f, T \intersect M)
        BY <3>3
      <4> QED
        BY <4>1, <4>2
  <2> QED
    BY <2>1, <2>2
<1>2. S \in G
  <2> HIDE DEF G
  <2> QED
    BY <1>1, SetInduction
<1> QED
  BY <1>2

(* A sum may be taken along an enumeration without repeats of the elements  *)
(* whose summands are not zero.                                             *)
LEMMA SumAlong ==
    ASSUME NEW S, IsFiniteSet(S), NEW m, \A x, y \in S : m[x] = m[y] => x = y,
           NEW T, IsFiniteSet(T), \A x \in S : m[x] \in T,
           NEW f, \A y \in T : f[y] \in Int,
           \A y \in T : (\A x \in S : m[x] # y) => f[y] = 0
    PROVE  SumFunctionOnSet([x \in S |-> f[m[x]]], S) = SumFunctionOnSet(f, T)
<1> DEFINE h == [x \in S |-> f[m[x]]]
           Of(U) == {m[x] : x \in U}
           G == {U \in SUBSET S : SumFunctionOnSet(h, U) = SumFunctionOnSet(f, Of(U))}
<1>1. ASSUME NEW U \in SUBSET S, \A V \in SUBSET U : V # U => V \in G
      PROVE  U \in G
  <2>0. IsFiniteSet(U) /\ (\A x \in U : h[x] \in Int) /\ IsFiniteSet(Of(U)) /\ (\A y \in Of(U) : f[y] \in Int)
    <3>1. IsFiniteSet(U)
      BY FS_Subset
    <3>2. Of(U) \in SUBSET T
      OBVIOUS
    <3>3. IsFiniteSet(Of(U))
      <4> HIDE DEF Of
      <4> QED
        BY <3>2, FS_Subset
    <3> QED
      BY <3>1, <3>2, <3>3
  <2>1. CASE U = {}
    <3>1. Of(U) = {}
      BY <2>1
    <3> QED
      BY <2>1, <3>1, SumEmpty
  <2>2. CASE U # {}
    <3>1. PICK a \in U : TRUE
      BY <2>2
    <3>2. SumFunctionOnSet(h, U) = h[a] + SumFunctionOnSet(h, U \ {a})
      <4> HIDE DEF h
      <4> QED
        BY <2>0, SumRemove
    <3>3. SumFunctionOnSet(f, Of(U)) = f[m[a]] + SumFunctionOnSet(f, Of(U) \ {m[a]})
      <4>1. m[a] \in Of(U)
        OBVIOUS
      <4> HIDE DEF Of
      <4> QED
        BY <2>0, <4>1, SumRemove
    <3>4. Of(U) \ {m[a]} = Of(U \ {a})
      OBVIOUS
    <3>5. U \ {a} \in G /\ h[a] = f[m[a]]
      BY <1>1
    <3> QED
      BY <3>2, <3>3, <3>4, <3>5
  <2> QED
    BY <2>1, <2>2
<1>2. S \in G
  <2> HIDE DEF G
  <2> QED
    BY <1>1, SetInduction
<1>3. T \intersect Of(S) = Of(S) /\ \A y \in T \ Of(S) : f[y] = 0
  OBVIOUS
<1>4. SumFunctionOnSet(f, T) = SumFunctionOnSet(f, T \intersect Of(S))
  <2> HIDE DEF Of
  <2> QED
    BY <1>3, SumSupport
<1> QED
  BY <1>2, <1>3, <1>4

-----------------------------------------------------------------------------
(* Maxima *)

(* A sum grows with its summands. *)
LEMMA SumLeq ==
    ASSUME NEW S, IsFiniteSet(S), NEW f, NEW g,
           \A x \in S : f[x] \in Int /\ g[x] \in Int /\ f[x] <= g[x]
    PROVE  SumFunctionOnSet(f, S) <= SumFunctionOnSet(g, S)
<1> DEFINE G == {T \in SUBSET S : SumFunctionOnSet(f, T) <= SumFunctionOnSet(g, T)}
<1>1. ASSUME NEW T \in SUBSET S, \A U \in SUBSET T : U # T => U \in G
      PROVE  T \in G
  <2>1. CASE T = {}
    <3>1. SumFunctionOnSet(f, T) = 0 /\ SumFunctionOnSet(g, T) = 0
      BY <2>1, SumEmpty
    <3> QED
      BY <3>1
  <2>2. CASE T # {}
    <3>1. PICK a \in T : a = Pick(T) /\ IsFiniteSet(T) /\ IsFiniteSet(T \ {a})
      BY <2>2, PickIn, FS_Subset
    <3>2. SumFunctionOnSet(f, T \ {a}) <= SumFunctionOnSet(g, T \ {a})
      BY <1>1, <3>1
    <3>3. /\ SumFunctionOnSet(f, T) = f[a] + SumFunctionOnSet(f, T \ {a})
          /\ SumFunctionOnSet(g, T) = g[a] + SumFunctionOnSet(g, T \ {a})
      BY <2>2, <3>1, SumPick
    <3>4. /\ SumFunctionOnSet(f, T \ {a}) \in Int /\ SumFunctionOnSet(g, T \ {a}) \in Int
      BY <3>1, SumInt
    <3>5. f[a] \in Int /\ g[a] \in Int /\ f[a] <= g[a]
      BY <3>1
    <3> QED
      BY <3>2, <3>3, <3>4, <3>5
  <2> QED
    BY <2>1, <2>2
<1>2. S \in G
  <2> HIDE DEF G
  <2> QED
    BY <1>1, SetInduction
<1> QED
  BY <1>2

(* The sum of differences is the difference of the sums. *)
LEMMA SumMinus ==
    ASSUME NEW S, IsFiniteSet(S), NEW f, NEW g, NEW h,
           \A x \in S : f[x] \in Int /\ g[x] \in Int /\ h[x] = f[x] - g[x]
    PROVE  SumFunctionOnSet(h, S) = SumFunctionOnSet(f, S) - SumFunctionOnSet(g, S)
<1> DEFINE G == {T \in SUBSET S :
                   SumFunctionOnSet(h, T) = SumFunctionOnSet(f, T) - SumFunctionOnSet(g, T)}
<1>1. ASSUME NEW T \in SUBSET S, \A U \in SUBSET T : U # T => U \in G
      PROVE  T \in G
  <2>1. CASE T = {}
    <3>1. SumFunctionOnSet(f, T) = 0 /\ SumFunctionOnSet(g, T) = 0 /\ SumFunctionOnSet(h, T) = 0
      BY <2>1, SumEmpty
    <3> QED
      BY <3>1
  <2>2. CASE T # {}
    <3>1. PICK a \in T : a = Pick(T) /\ IsFiniteSet(T) /\ IsFiniteSet(T \ {a})
      BY <2>2, PickIn, FS_Subset
    <3>2. SumFunctionOnSet(h, T \ {a}) = SumFunctionOnSet(f, T \ {a}) - SumFunctionOnSet(g, T \ {a})
      BY <1>1, <3>1
    <3>3. /\ SumFunctionOnSet(f, T) = f[a] + SumFunctionOnSet(f, T \ {a})
          /\ SumFunctionOnSet(g, T) = g[a] + SumFunctionOnSet(g, T \ {a})
          /\ SumFunctionOnSet(h, T) = h[a] + SumFunctionOnSet(h, T \ {a})
      BY <2>2, <3>1, SumPick
    <3>4. /\ SumFunctionOnSet(f, T \ {a}) \in Int /\ SumFunctionOnSet(g, T \ {a}) \in Int
      BY <3>1, SumInt
    <3>5. f[a] \in Int /\ g[a] \in Int /\ h[a] = f[a] - g[a]
      BY <3>1
    <3> QED
      BY <3>2, <3>3, <3>4, <3>5
  <2> QED
    BY <2>1, <2>2
<1>2. S \in G
  <2> HIDE DEF G
  <2> QED
    BY <1>1, SetInduction
<1> QED
  BY <1>2

(* A common factor comes out of a sum. *)
LEMMA SumTimes ==
    ASSUME NEW S, IsFiniteSet(S), NEW c \in Int, NEW f, NEW h,
           \A x \in S : f[x] \in Int /\ h[x] = c * f[x]
    PROVE  SumFunctionOnSet(h, S) = c * SumFunctionOnSet(f, S)
<1> DEFINE G == {T \in SUBSET S : SumFunctionOnSet(h, T) = c * SumFunctionOnSet(f, T)}
<1>1. ASSUME NEW T \in SUBSET S, \A U \in SUBSET T : U # T => U \in G
      PROVE  T \in G
  <2>1. CASE T = {}
    <3>1. SumFunctionOnSet(f, T) = 0 /\ SumFunctionOnSet(h, T) = 0
      BY <2>1, SumEmpty
    <3> QED
      BY <3>1
  <2>2. CASE T # {}
    <3>1. PICK a \in T : a = Pick(T) /\ IsFiniteSet(T) /\ IsFiniteSet(T \ {a})
      BY <2>2, PickIn, FS_Subset
    <3>2. SumFunctionOnSet(h, T \ {a}) = c * SumFunctionOnSet(f, T \ {a})
      BY <1>1, <3>1
    <3>3. /\ SumFunctionOnSet(f, T) = f[a] + SumFunctionOnSet(f, T \ {a})
          /\ SumFunctionOnSet(h, T) = h[a] + SumFunctionOnSet(h, T \ {a})
      BY <2>2, <3>1, SumPick
    <3>4. PICK m \in Int : m = SumFunctionOnSet(f, T \ {a})
      BY <3>1, SumInt
    <3>5. PICK n \in Int : n = f[a] /\ h[a] = c * n
      BY <3>1
    <3>6. c * n + c * m = c * (n + m)
      OBVIOUS
    <3> QED
      BY <3>2, <3>3, <3>4, <3>5, <3>6
  <2> QED
    BY <2>1, <2>2
<1>2. S \in G
  <2> HIDE DEF G
  <2> QED
    BY <1>1, SetInduction
<1> QED
  BY <1>2

(* One more summand. *)
LEMMA SumExtend ==
    ASSUME NEW S, IsFiniteSet(S), NEW a, a \notin S, NEW f, NEW g,
           \A x \in S : f[x] \in Int /\ g[x] = f[x], g[a] \in Int
    PROVE  SumFunctionOnSet(g, S \union {a}) = SumFunctionOnSet(f, S) + g[a]
<1> DEFINE T == S \union {a}
<1>1. IsFiniteSet(T) /\ a \in T /\ T \ {a} = S /\ \A x \in T : g[x] \in Int
  BY FS_AddElement
<1> HIDE DEF T
<1>2. SumFunctionOnSet(g, T) = g[a] + SumFunctionOnSet(g, S)
  <2>1. SumFunctionOnSet(g, T) = g[a] + SumFunctionOnSet(g, T \ {a})
    BY <1>1, SumRemove
  <2>2. T \ {a} = S
    BY <1>1
  <2> QED
    BY <2>1, <2>2, Zenon
<1>3. SumFunctionOnSet(g, S) = SumFunctionOnSet(f, S)
  BY SumAgree
<1>5. SumFunctionOnSet(f, S) \in Int
  BY SumInt
<1>4. SumFunctionOnSet(g, T) = SumFunctionOnSet(f, S) + g[a]
  BY <1>2, <1>3, <1>5
<1> QED
  BY <1>4, Zenon DEF T

(* The same, its hypotheses as one fact. *)
OneMore(S, a, f, g) ==
    /\ IsFiniteSet(S) /\ a \notin S
    /\ \A x \in S : f[x] \in Int /\ g[x] = f[x]
    /\ g[a] \in Int

LEMMA SumOneMore ==
    ASSUME NEW S, NEW a, NEW f, NEW g, OneMore(S, a, f, g)
    PROVE  SumFunctionOnSet(g, S \union {a}) = SumFunctionOnSet(f, S) + g[a]
<1>1. /\ IsFiniteSet(S) /\ a \notin S /\ g[a] \in Int
      /\ \A x \in S : f[x] \in Int /\ g[x] = f[x]
  BY DEF OneMore
<1> QED
  BY <1>1, SumExtend

(* A finite nonempty set of integers has a maximum. *)
LEMMA MaxExists ==
    ASSUME NEW S \in SUBSET Int, IsFiniteSet(S), S # {}
    PROVE  Max(S) \in S /\ \A y \in S : Max(S) >= y
<1> DEFINE G == {T \in SUBSET S : T = {} \/ \E x \in T : \A y \in T : x >= y}
<1>1. ASSUME NEW T \in SUBSET S, \A U \in SUBSET T : U # T => U \in G
      PROVE  T \in G
  <2> SUFFICES ASSUME T # {}
               PROVE  \E x \in T : \A y \in T : x >= y
    OBVIOUS
  <2>1. PICK a \in T : TRUE
    OBVIOUS
  <2>2. T \ {a} \in G
    BY <1>1
  <2>3. CASE T \ {a} = {}
    BY <2>3
  <2>4. CASE \E x \in T \ {a} : \A y \in T \ {a} : x >= y
    <3>1. PICK x \in T \ {a} : \A y \in T \ {a} : x >= y
      BY <2>4
    <3>2. CASE x >= a
      BY <3>1, <3>2
    <3>3. CASE a > x
      <4>1. \A y \in T : a >= y
        BY <3>1, <3>3
      <4> QED
        BY <4>1
    <3> QED
      BY <3>2, <3>3
  <2> QED
    BY <2>2, <2>3, <2>4
<1>2. S \in G
  <2> HIDE DEF G
  <2> QED
    BY <1>1, SetInduction
<1> QED
  BY <1>2 DEF Max

(* A bound of a set of integers that is in the set is its maximum. *)
LEMMA MaxIs ==
    ASSUME NEW S \in SUBSET Int, NEW m \in S, \A y \in S : m >= y
    PROVE  Max(S) = m
<1>1. Max(S) \in S /\ \A y \in S : Max(S) >= y
  BY DEF Max
<1>2. Max(S) >= m /\ m >= Max(S) /\ Max(S) \in Int /\ m \in Int
  BY <1>1
<1> QED
  BY <1>2

(* A nonempty set of natural numbers has a minimum. *)
LEMMA MinNat ==
    ASSUME NEW S \in SUBSET Nat, S # {}
    PROVE  Min(S) \in S /\ \A y \in S : Min(S) <= y
<1> DEFINE R == OpToRel(<, Nat)
<1>1. \A x, y \in Nat : x < y => <<x, y>> \in R
  BY DEF OpToRel
<1>2. PICK x \in S : \A y \in S : ~(<<y, x>> \in R)
  <2>1. IsWellFoundedOn(R, Nat)
    BY NatLessThanWellFounded
  <2> HIDE DEF R
  <2> QED
    BY <2>1, WFMin
<1> HIDE DEF R
<1>3. ASSUME NEW y \in S PROVE x <= y
  <2>1. x \in Nat /\ y \in Nat
    OBVIOUS
  <2>2. ~(y < x)
    BY <1>1, <1>2, <2>1, Zenon
  <2> QED
    BY <2>1, <2>2
<1> QED
  BY <1>3 DEF Min
=============================================================================
