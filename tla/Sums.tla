--------------------------------- MODULE Sums ---------------------------------
(***************************************************************************)
(* SumFunctionOnSet of the community modules adds up a function over a     *)
(* finite set (units of stock, credit notes, lines of a document), and     *)
(* folds go over a sequence.  What the proofs need to know of them is      *)
(* proved here from their definitions, recursions over the subsets of a    *)
(* set and over the length of a sequence.                                  *)
(***************************************************************************)
EXTENDS Integers, Functions, FiniteSetTheorems, TLAPS

(***************************************************************************)
(* Induction over the subsets of a finite set, for a property given as a   *)
(* set G: what holds of a set when it holds of all smaller ones holds.     *)
(***************************************************************************)
LEMMA BySubsets ==
  ASSUME NEW S, IsFiniteSet(S), NEW G,
         \A T \in SUBSET S : (\A U \in SUBSET T : U # T => U \in G) => T \in G
  PROVE  \A T \in SUBSET S : T \in G
<1> DEFINE Bad == {T \in SUBSET S : T \notin G}
<1> SUFFICES ASSUME Bad # {} PROVE FALSE
  OBVIOUS
<1>1. IsWellFoundedOn(StrictSubsetOrdering(S), SUBSET S)
  <2>1. FiniteSubsetsOf(S) = SUBSET S
    BY FS_FiniteSubsetsOfFinite
  <2>2. IsWellFoundedOn(StrictSubsetOrdering(S), FiniteSubsetsOf(S))
    BY FS_StrictSubsetOrderingWellFounded, Zenon
  <2> QED BY <2>1, <2>2
<1>2. PICK T \in Bad : \A U \in Bad : ~(<<U, T>> \in StrictSubsetOrdering(S))
  <2>1. Bad \subseteq SUBSET S
    OBVIOUS
  <2>2. \E T \in Bad : \A U \in Bad : ~(<<U, T>> \in StrictSubsetOrdering(S))
    <3> HIDE DEF Bad
    <3> QED BY <1>1, <2>1, WFMin
  <2> QED BY <2>2
<1>3. \A U \in SUBSET T : U # T => U \in G
  BY <1>2 DEF StrictSubsetOrdering
<1> QED BY <1>3

-----------------------------------------------------------------------------
(* The recursion: an element is taken out of the set, and added.           *)
AnyOf(s) == CHOOSE x \in s : TRUE

IsSumUpTo(g, f, T) ==
  g = [s \in SUBSET T |-> IF s = {} THEN 0 ELSE f[AnyOf(s)] + g[s \ {AnyOf(s)}]]

SumUpTo(f, T) == CHOOSE g : IsSumUpTo(g, f, T)

LEMMA AnyOfIsIn == \A s : s # {} => AnyOf(s) \in s
BY DEF AnyOf

LEMMA SumIsSumUpTo == \A f, S : SumFunctionOnSet(f, S) = SumUpTo(f, S)[S]
BY DEF SumFunctionOnSet, FoldFunctionOnSet, MapThenFoldSet, SumUpTo, IsSumUpTo, AnyOf

(* Two such functions agree where both are defined. *)
LEMMA SumsUpToAgree ==
  ASSUME NEW f, NEW T, IsFiniteSet(T), NEW U \in SUBSET T, NEW g, NEW h,
         IsSumUpTo(g, f, T), IsSumUpTo(h, f, U)
  PROVE  \A s \in SUBSET U : g[s] = h[s]
<1> DEFINE G == {s \in SUBSET U : g[s] = h[s]}
<1>1. IsFiniteSet(U)
  BY FS_Subset
<1>2. ASSUME NEW s \in SUBSET U, \A u \in SUBSET s : u # s => u \in G
      PROVE  s \in G
  <2>1. /\ g[s] = IF s = {} THEN 0 ELSE f[AnyOf(s)] + g[s \ {AnyOf(s)}]
        /\ h[s] = IF s = {} THEN 0 ELSE f[AnyOf(s)] + h[s \ {AnyOf(s)}]
    BY DEF IsSumUpTo
  <2>2. CASE s = {}
    BY <2>1, <2>2
  <2>3. CASE s # {}
    <3>1. s \ {AnyOf(s)} \in SUBSET s /\ s \ {AnyOf(s)} # s
      BY <2>3, AnyOfIsIn
    <3>2. g[s \ {AnyOf(s)}] = h[s \ {AnyOf(s)}]
      BY <1>2, <3>1
    <3> QED BY <2>1, <2>3, <3>2
  <2> QED BY <2>2, <2>3
<1>3. \A s \in SUBSET U : s \in G
  <2> HIDE DEF G
  <2> QED BY <1>1, <1>2, BySubsets
<1> QED BY <1>3

LEMMA SumUpToExists == ASSUME NEW f, NEW S, IsFiniteSet(S) PROVE \E g : IsSumUpTo(g, f, S)
<1> DEFINE G == {T \in SUBSET S : \E g : IsSumUpTo(g, f, T)}
<1>1. ASSUME NEW T \in SUBSET S, \A U \in SUBSET T : U # T => U \in G
      PROVE  T \in G
  <2> DEFINE w == [U \in SUBSET T |-> SumUpTo(f, U)[U]]
             g == [s \in SUBSET T |-> IF s = {} THEN 0 ELSE f[AnyOf(s)] + w[s \ {AnyOf(s)}]]
  <2>1. ASSUME NEW U \in SUBSET T, U # T
        PROVE  IsSumUpTo(SumUpTo(f, U), f, U) /\ IsFiniteSet(U)
    <3>1. \E h : IsSumUpTo(h, f, U)
      BY <1>1, <2>1
    <3> QED BY <3>1, FS_Subset DEF SumUpTo
  <2>2. ASSUME NEW U \in SUBSET T, U # T PROVE g[U] = w[U]
    <3>1. CASE U = {}
      BY <2>1, <2>2, <3>1 DEF IsSumUpTo
    <3>2. CASE U # {}
      <4> DEFINE V == U \ {AnyOf(U)}
      <4>1. V \in SUBSET U /\ V # T /\ V \in SUBSET T
        BY <2>2
      <4>2. IsSumUpTo(SumUpTo(f, U), f, U) /\ IsSumUpTo(SumUpTo(f, V), f, V) /\ IsFiniteSet(U)
        BY <2>1, <2>2, <4>1
      <4>3. SumUpTo(f, U)[V] = SumUpTo(f, V)[V]
        <5> HIDE DEF V
        <5> QED BY <4>1, <4>2, SumsUpToAgree
      <4>4. SumUpTo(f, U)[U] = f[AnyOf(U)] + SumUpTo(f, U)[V]
        BY <3>2, <4>2 DEF IsSumUpTo
      <4>5. w[U] = SumUpTo(f, U)[U] /\ w[V] = SumUpTo(f, V)[V]
        BY <4>1
      <4>6. g[U] = f[AnyOf(U)] + w[V]
        BY <3>2
      <4> QED BY <4>3, <4>4, <4>5, <4>6
    <3> QED BY <3>1, <3>2
  <2>3. ASSUME NEW s \in SUBSET T, s # {} PROVE w[s \ {AnyOf(s)}] = g[s \ {AnyOf(s)}]
    <3>1. s \ {AnyOf(s)} \in SUBSET T /\ s \ {AnyOf(s)} # T
      BY <2>3, AnyOfIsIn
    <3> QED BY <2>2, <3>1
  <2>4. g = [s \in SUBSET T |-> IF s = {} THEN 0 ELSE f[AnyOf(s)] + g[s \ {AnyOf(s)}]]
    <3>1. \A s \in SUBSET T : g[s] = IF s = {} THEN 0 ELSE f[AnyOf(s)] + g[s \ {AnyOf(s)}]
      BY <2>3
    <3>2. \E e : e = g
      OBVIOUS
    <3> HIDE DEF w
    <3> QED BY <2>3
  <2>5. IsSumUpTo(g, f, T)
    BY <2>4 DEF IsSumUpTo
  <2> QED BY <2>5
<1>2. S \in G
  <2> HIDE DEF G
  <2> QED BY <1>1, BySubsets
<1> QED BY <1>2

(* So the sum is what its definition says. *)
LEMMA SumByAny ==
  ASSUME NEW f, NEW S, IsFiniteSet(S)
  PROVE  SumFunctionOnSet(f, S) =
           IF S = {} THEN 0 ELSE f[AnyOf(S)] + SumFunctionOnSet(f, S \ {AnyOf(S)})
<1> DEFINE T == S \ {AnyOf(S)}
<1>1. IsFiniteSet(T) /\ T \in SUBSET S
  BY FS_Subset
<1> HIDE DEF T
<1>2. IsSumUpTo(SumUpTo(f, S), f, S) /\ IsSumUpTo(SumUpTo(f, T), f, T)
  BY <1>1, SumUpToExists DEF SumUpTo
<1>3. SumUpTo(f, S)[T] = SumUpTo(f, T)[T]
  BY <1>1, <1>2, SumsUpToAgree
<1>4. SumUpTo(f, S)[S] = IF S = {} THEN 0 ELSE f[AnyOf(S)] + SumUpTo(f, S)[T]
  BY <1>2 DEF IsSumUpTo, T
<1> QED BY <1>3, <1>4, SumIsSumUpTo DEF T

-----------------------------------------------------------------------------
LEMMA SumOfNone == \A f : SumFunctionOnSet(f, {}) = 0
BY SumByAny, FS_EmptySet

(* Values are numbers, and so is their sum. *)
LEMMA SumIsInt ==
  ASSUME NEW f, NEW S, IsFiniteSet(S), \A x \in S : f[x] \in Int
  PROVE  SumFunctionOnSet(f, S) \in Int
<1> DEFINE G == {T \in SUBSET S : SumFunctionOnSet(f, T) \in Int}
<1>1. ASSUME NEW T \in SUBSET S, \A U \in SUBSET T : U # T => U \in G
      PROVE  T \in G
  <2>1. IsFiniteSet(T)
    BY FS_Subset
  <2>2. CASE T = {}
    BY <2>2, SumOfNone
  <2>3. CASE T # {}
    <3>1. AnyOf(T) \in T
      BY <2>3, AnyOfIsIn
    <3>2. T \ {AnyOf(T)} \in G
      BY <1>1, <3>1
    <3>3. SumFunctionOnSet(f, T) = f[AnyOf(T)] + SumFunctionOnSet(f, T \ {AnyOf(T)})
      BY <2>1, <2>3, SumByAny
    <3> QED BY <3>1, <3>2, <3>3
  <2> QED BY <2>2, <2>3
<1>2. S \in G
  <2> HIDE DEF G
  <2> QED BY <1>1, BySubsets
<1> QED BY <1>2

(***************************************************************************)
(* Whichever element is taken out: addition does not mind the order.       *)
(***************************************************************************)
LEMMA SumTakesOut ==
  ASSUME NEW f, NEW S, IsFiniteSet(S), \A x \in S : f[x] \in Int, NEW a \in S
  PROVE  SumFunctionOnSet(f, S) = f[a] + SumFunctionOnSet(f, S \ {a})
<1> DEFINE G == {T \in SUBSET S :
                   \A x \in T : SumFunctionOnSet(f, T) = f[x] + SumFunctionOnSet(f, T \ {x})}
<1>1. ASSUME NEW T \in SUBSET S, \A U \in SUBSET T : U # T => U \in G, NEW x \in T
      PROVE  SumFunctionOnSet(f, T) = f[x] + SumFunctionOnSet(f, T \ {x})
  <2>1. \A U \in SUBSET S : IsFiniteSet(U) /\ SumFunctionOnSet(f, U) \in Int
    BY FS_Subset, SumIsInt
  <2> PICK y \in T : y = AnyOf(T)
    BY AnyOfIsIn
  <2>2. SumFunctionOnSet(f, T) = f[y] + SumFunctionOnSet(f, T \ {y})
    BY <2>1, SumByAny
  <2>3. CASE x = y
    BY <2>2, <2>3
  <2>4. CASE x # y
    <3> DEFINE both == (T \ {x}) \ {y}
    <3>1. both \in SUBSET S /\ both = (T \ {y}) \ {x}
      OBVIOUS
    <3>2. SumFunctionOnSet(f, T \ {y}) = f[x] + SumFunctionOnSet(f, both)
      BY <1>1, <2>4
    <3>3. SumFunctionOnSet(f, T \ {x}) = f[y] + SumFunctionOnSet(f, both)
      BY <1>1, <2>4
    <3>4. SumFunctionOnSet(f, both) \in Int /\ f[x] \in Int /\ f[y] \in Int
      BY <2>1, <3>1
    <3> HIDE DEF both
    <3> QED BY <2>2, <3>2, <3>3, <3>4
  <2> QED BY <2>3, <2>4
<1>2. S \in G
  <2>1. ASSUME NEW T \in SUBSET S, \A U \in SUBSET T : U # T => U \in G PROVE T \in G
    BY <1>1, <2>1
  <2> HIDE DEF G
  <2> QED BY <2>1, BySubsets
<1> QED BY <1>2

LEMMA SumTakesIn ==
  ASSUME NEW f, NEW S, IsFiniteSet(S), \A x \in S : f[x] \in Int, NEW a, a \notin S, f[a] \in Int
  PROVE  SumFunctionOnSet(f, S \cup {a}) = SumFunctionOnSet(f, S) + f[a]
<1> DEFINE T == S \cup {a}
<1>1. IsFiniteSet(T) /\ a \in T /\ \A x \in T : f[x] \in Int
  BY FS_AddElement
<1>2. T \ {a} = S
  OBVIOUS
<1>3. SumFunctionOnSet(f, S) \in Int
  BY SumIsInt
<1> HIDE DEF T
<1>4. SumFunctionOnSet(f, T) = f[a] + SumFunctionOnSet(f, T \ {a})
  BY <1>1, SumTakesOut
<1>5. SumFunctionOnSet(f, T \ {a}) = SumFunctionOnSet(f, S)
  BY <1>2, Zenon
<1>6. SumFunctionOnSet(f, T) = SumFunctionOnSet(f, S) + f[a]
  BY <1>3, <1>4, <1>5
<1> QED BY <1>6 DEF T

(* Only the values in the set matter. *)
LEMMA SumOfSame ==
  ASSUME NEW f, NEW g, NEW S, IsFiniteSet(S), \A x \in S : f[x] = g[x]
  PROVE  SumFunctionOnSet(f, S) = SumFunctionOnSet(g, S)
<1> DEFINE G == {T \in SUBSET S : SumFunctionOnSet(f, T) = SumFunctionOnSet(g, T)}
<1>1. ASSUME NEW T \in SUBSET S, \A U \in SUBSET T : U # T => U \in G
      PROVE  T \in G
  <2>1. IsFiniteSet(T)
    BY FS_Subset
  <2>2. CASE T = {}
    BY <2>2, SumOfNone
  <2>3. CASE T # {}
    <3> PICK x \in T : x = AnyOf(T)
      BY <2>3, AnyOfIsIn
    <3>1. T \ {x} \in G
      BY <1>1
    <3>2. /\ SumFunctionOnSet(f, T) = f[x] + SumFunctionOnSet(f, T \ {x})
          /\ SumFunctionOnSet(g, T) = g[x] + SumFunctionOnSet(g, T \ {x})
      BY <2>1, <2>3, SumByAny
    <3> QED BY <3>1, <3>2
  <2> QED BY <2>2, <2>3
<1>2. S \in G
  <2> HIDE DEF G
  <2> QED BY <1>1, BySubsets
<1> QED BY <1>2

LEMMA SumOfOpposites ==
  ASSUME NEW f, NEW g, NEW S, IsFiniteSet(S), \A x \in S : f[x] \in Int /\ g[x] = -f[x]
  PROVE  SumFunctionOnSet(g, S) = -SumFunctionOnSet(f, S)
<1> DEFINE G == {T \in SUBSET S : SumFunctionOnSet(g, T) = -SumFunctionOnSet(f, T)}
<1>1. ASSUME NEW T \in SUBSET S, \A U \in SUBSET T : U # T => U \in G
      PROVE  T \in G
  <2>1. IsFiniteSet(T) /\ SumFunctionOnSet(f, T) \in Int
    BY FS_Subset, SumIsInt
  <2>2. CASE T = {}
    BY <2>2, SumOfNone
  <2>3. CASE T # {}
    <3> PICK x \in T : x = AnyOf(T)
      BY <2>3, AnyOfIsIn
    <3>1. T \ {x} \in G /\ SumFunctionOnSet(f, T \ {x}) \in Int
      BY <1>1, <2>1, FS_Subset, SumIsInt
    <3>2. /\ SumFunctionOnSet(f, T) = f[x] + SumFunctionOnSet(f, T \ {x})
          /\ SumFunctionOnSet(g, T) = g[x] + SumFunctionOnSet(g, T \ {x})
      BY <2>1, <2>3, SumByAny
    <3> QED BY <3>1, <3>2
  <2> QED BY <2>2, <2>3
<1>2. S \in G
  <2> HIDE DEF G
  <2> QED BY <1>1, BySubsets
<1> QED BY <1>2

LEMMA SumOfOne ==
  ASSUME NEW f, NEW a, f[a] \in Int
  PROVE  SumFunctionOnSet(f, {a}) = f[a]
<1>1. SumFunctionOnSet(f, {a}) = f[a] + SumFunctionOnSet(f, {a} \ {a})
  BY FS_Singleton, SumTakesOut
<1> QED BY <1>1, SumOfNone

(* Of numbers not below zero, no part adds up to more than the whole. *)
LEMMA SumOfPart ==
  ASSUME NEW f, NEW S, IsFiniteSet(S), \A x \in S : f[x] \in Nat, NEW U \in SUBSET S
  PROVE  SumFunctionOnSet(f, U) \in 0..SumFunctionOnSet(f, S)
<1> DEFINE G == {T \in SUBSET S : \A V \in SUBSET T : SumFunctionOnSet(f, V) \in 0..SumFunctionOnSet(f, T)}
<1>0. \A T \in SUBSET S : IsFiniteSet(T) /\ SumFunctionOnSet(f, T) \in Int
  BY FS_Subset, SumIsInt
<1>1. ASSUME NEW T \in SUBSET S, \A W \in SUBSET T : W # T => W \in G, NEW V \in SUBSET T
      PROVE  SumFunctionOnSet(f, V) \in 0..SumFunctionOnSet(f, T)
  <2>1. CASE T = {}
    BY <2>1, SumOfNone
  <2>2. CASE T # {} /\ V # T
    <3> PICK x \in T : x \notin V
      BY <2>2
    <3>1. SumFunctionOnSet(f, V) \in 0..SumFunctionOnSet(f, T \ {x})
      BY <1>1
    <3>2. SumFunctionOnSet(f, T) = f[x] + SumFunctionOnSet(f, T \ {x})
      BY <1>0, SumTakesOut
    <3> QED BY <1>0, <3>1, <3>2
  <2>3. CASE T # {} /\ V = T
    <3> PICK x \in T : TRUE
      BY <2>3
    <3>1. SumFunctionOnSet(f, T \ {x}) \in 0..SumFunctionOnSet(f, T \ {x})
      BY <1>1
    <3>2. SumFunctionOnSet(f, T) = f[x] + SumFunctionOnSet(f, T \ {x})
      BY <1>0, SumTakesOut
    <3> QED BY <1>0, <2>3, <3>1, <3>2
  <2> QED BY <2>1, <2>2, <2>3
<1>2. S \in G
  <2>1. ASSUME NEW T \in SUBSET S, \A W \in SUBSET T : W # T => W \in G PROVE T \in G
    BY <1>1, <2>1
  <2> HIDE DEF G
  <2> QED BY <2>1, BySubsets
<1> QED BY <1>2

(***************************************************************************)
(* A bound on weighed values at each element bounds the weighed sums.      *)
(***************************************************************************)
WeighedAt(w, f, g, h, k, x) ==
  w[1] * f[x] + w[2] * g[x] + w[3] * h[x] + w[4] * k[x] <= w[5]

Weighed(w, f, g, h, k, S) ==
  w[1] * SumFunctionOnSet(f, S) + w[2] * SumFunctionOnSet(g, S) + w[3] * SumFunctionOnSet(h, S)
    + w[4] * SumFunctionOnSet(k, S) <= w[5] * Cardinality(S)

LEMMA SumsAreWeighed ==
  ASSUME NEW S, IsFiniteSet(S), NEW f, NEW g, NEW h, NEW k,
         \A x \in S : f[x] \in Int /\ g[x] \in Int /\ h[x] \in Int /\ k[x] \in Int,
         NEW w, \A i \in 1..5 : w[i] \in Int,
         \A x \in S : WeighedAt(w, f, g, h, k, x)
  PROVE  Weighed(w, f, g, h, k, S)
<1> DEFINE a == w[1]
           b == w[2]
           c == w[3]
           d == w[4]
           e == w[5]
<1>0. /\ a \in Int /\ b \in Int /\ c \in Int /\ d \in Int /\ e \in Int
      /\ \A x \in S : a * f[x] + b * g[x] + c * h[x] + d * k[x] <= e
  BY DEF WeighedAt
<1> HIDE DEF a, b, c, d, e
<1> DEFINE G == {T \in SUBSET S :
                   a * SumFunctionOnSet(f, T) + b * SumFunctionOnSet(g, T) + c * SumFunctionOnSet(h, T)
                     + d * SumFunctionOnSet(k, T) <= e * Cardinality(T)}
<1>1. ASSUME NEW T \in SUBSET S, \A U \in SUBSET T : U # T => U \in G
      PROVE  T \in G
  <2>1. CASE T = {}
    <3>1. SumFunctionOnSet(f, T) = 0 /\ SumFunctionOnSet(g, T) = 0
          /\ SumFunctionOnSet(h, T) = 0 /\ SumFunctionOnSet(k, T) = 0 /\ Cardinality(T) = 0
      BY <2>1, SumOfNone, FS_EmptySet
    <3> QED BY <1>0, <3>1
  <2>2. CASE T # {}
    <3>1. PICK x \in T : TRUE
      BY <2>2
    <3> DEFINE U == T \ {x}
    <3>2. U \in SUBSET T /\ U # T /\ x \in S
      BY <3>1
    <3>3. U \in G
      BY <1>1, <3>2
    <3>4. IsFiniteSet(T) /\ IsFiniteSet(U)
      BY <3>2, FS_Subset
    <3> HIDE DEF U
    <3>5. /\ SumFunctionOnSet(f, T) = f[x] + SumFunctionOnSet(f, U)
          /\ SumFunctionOnSet(g, T) = g[x] + SumFunctionOnSet(g, U)
          /\ SumFunctionOnSet(h, T) = h[x] + SumFunctionOnSet(h, U)
          /\ SumFunctionOnSet(k, T) = k[x] + SumFunctionOnSet(k, U)
      <4>1. \A y \in T : f[y] \in Int /\ g[y] \in Int /\ h[y] \in Int /\ k[y] \in Int
        OBVIOUS
      <4> QED BY <3>1, <3>4, <4>1, SumTakesOut DEF U
    <3>6. SumFunctionOnSet(f, U) \in Int /\ SumFunctionOnSet(g, U) \in Int
          /\ SumFunctionOnSet(h, U) \in Int /\ SumFunctionOnSet(k, U) \in Int
      <4>1. \A y \in U : f[y] \in Int /\ g[y] \in Int /\ h[y] \in Int /\ k[y] \in Int
        BY <3>2
      <4> QED BY <3>4, <4>1, SumIsInt
    <3>7. Cardinality(T) = Cardinality(U) + 1 /\ Cardinality(U) \in Int
      <4>1. x \notin U /\ T = U \cup {x}
        BY <3>1 DEF U
      <4>2. Cardinality(U \cup {x}) = Cardinality(U) + 1 /\ Cardinality(U) \in Nat
        BY <3>4, <4>1, FS_AddElement, FS_CardinalityType
      <4> QED BY <4>1, <4>2
    <3>8. /\ f[x] \in Int /\ g[x] \in Int /\ h[x] \in Int /\ k[x] \in Int
          /\ a * f[x] + b * g[x] + c * h[x] + d * k[x] <= e
      BY <1>0, <3>2
    <3>9. a * SumFunctionOnSet(f, U) + b * SumFunctionOnSet(g, U) + c * SumFunctionOnSet(h, U)
            + d * SumFunctionOnSet(k, U) <= e * Cardinality(U)
      BY <3>3
    <3>10. a * (f[x] + SumFunctionOnSet(f, U)) + b * (g[x] + SumFunctionOnSet(g, U))
             + c * (h[x] + SumFunctionOnSet(h, U)) + d * (k[x] + SumFunctionOnSet(k, U))
             <= e * (Cardinality(U) + 1)
      <4> DEFINE SF == SumFunctionOnSet(f, U)
                 SG == SumFunctionOnSet(g, U)
                 SH == SumFunctionOnSet(h, U)
                 SK == SumFunctionOnSet(k, U)
                 n  == Cardinality(U)
                 sf == f[x]
                 sg == g[x]
                 sh == h[x]
                 sk == k[x]
      <4>1. SF \in Int /\ SG \in Int /\ SH \in Int /\ SK \in Int /\ n \in Int
            /\ a * SF + b * SG + c * SH + d * SK <= e * n
            /\ sf \in Int /\ sg \in Int /\ sh \in Int /\ sk \in Int
            /\ a * sf + b * sg + c * sh + d * sk <= e
        BY <3>6, <3>7, <3>8, <3>9
      <4> HIDE DEF SF, SG, SH, SK, n, sf, sg, sh, sk
      <4>2. a * (sf + SF) + b * (sg + SG) + c * (sh + SH) + d * (sk + SK) <= e * (n + 1)
        BY <1>0, <4>1
      <4> QED BY <4>2 DEF SF, SG, SH, SK, n, sf, sg, sh, sk
    <3>11. a * SumFunctionOnSet(f, T) + b * SumFunctionOnSet(g, T) + c * SumFunctionOnSet(h, T)
             + d * SumFunctionOnSet(k, T) <= e * Cardinality(T)
      BY <3>5, <3>7, <3>10, Zenon
    <3> QED BY <3>11
  <2> QED BY <2>1, <2>2
<1>2. S \in G
  <2> HIDE DEF G
  <2> QED BY <1>1, BySubsets
<1> QED BY <1>2 DEF Weighed, a, b, c, d, e

(* Ones and noughts count. *)
LEMMA SumCounts ==
  ASSUME NEW S, IsFiniteSet(S), NEW f, \A x \in S : f[x] \in {0, 1}
  PROVE  SumFunctionOnSet(f, S) = Cardinality({x \in S : f[x] = 1})
<1> DEFINE Ones(T) == {x \in T : f[x] = 1}
           G == {T \in SUBSET S : SumFunctionOnSet(f, T) = Cardinality(Ones(T))}
<1>1. ASSUME NEW T \in SUBSET S, \A U \in SUBSET T : U # T => U \in G
      PROVE  T \in G
  <2>1. CASE T = {}
    <3>1. Ones(T) = {}
      BY <2>1
    <3> QED BY <2>1, <3>1, SumOfNone, FS_EmptySet
  <2>2. CASE T # {}
    <3>1. PICK x \in T : TRUE
      BY <2>2
    <3> DEFINE U == T \ {x}
    <3>2. U \in SUBSET T /\ U # T /\ x \in S /\ U \in G
      BY <1>1, <3>1
    <3>3. IsFiniteSet(T) /\ IsFiniteSet(U) /\ IsFiniteSet(Ones(U))
      BY <3>2, FS_Subset
    <3>4. SumFunctionOnSet(f, T) = f[x] + Cardinality(Ones(U)) /\ Cardinality(Ones(U)) \in Nat
      <4>1. \A y \in T : f[y] \in Int
        OBVIOUS
      <4>2. SumFunctionOnSet(f, T) = f[x] + SumFunctionOnSet(f, U)
        BY <3>1, <3>3, <4>1, SumTakesOut
      <4> QED BY <3>2, <3>3, <4>2, FS_CardinalityType
    <3>5. CASE f[x] = 1
      <4>1. Ones(T) = Ones(U) \cup {x} /\ x \notin Ones(U)
        BY <3>1, <3>5
      <4>2. Cardinality(Ones(T)) = Cardinality(Ones(U)) + 1
        BY <3>3, <4>1, FS_AddElement
      <4> QED BY <3>4, <3>5, <4>2
    <3>6. CASE f[x] = 0
      <4>1. Ones(T) = Ones(U)
        BY <3>1, <3>6
      <4> HIDE DEF Ones
      <4> QED BY <3>4, <3>6, <4>1
    <3> QED BY <3>2, <3>5, <3>6
  <2> QED BY <2>1, <2>2
<1>2. S \in G
  <2> HIDE DEF G
  <2> QED BY <1>1, BySubsets
<1> QED BY <1>2

-----------------------------------------------------------------------------
(***************************************************************************)
(* Any other fold: next takes a set and what the fold over the set without *)
(* the element that was picked comes to.                                   *)
(***************************************************************************)
IsFoldUpTo(g, next, pick, base, T) ==
  g = [s \in SUBSET T |-> IF s = {} THEN base ELSE next[<<s, g[s \ {pick[s]}]>>]]

FoldUpTo(next, pick, base, T) == CHOOSE g : IsFoldUpTo(g, next, pick, base, T)

LEMMA FoldsUpToAgree ==
  ASSUME NEW next, NEW pick, NEW base, NEW T, IsFiniteSet(T), NEW U \in SUBSET T, NEW g, NEW h,
         \A s \in SUBSET T : s # {} => pick[s] \in s,
         IsFoldUpTo(g, next, pick, base, T), IsFoldUpTo(h, next, pick, base, U)
  PROVE  \A s \in SUBSET U : g[s] = h[s]
<1> DEFINE G == {s \in SUBSET U : g[s] = h[s]}
<1>1. IsFiniteSet(U)
  BY FS_Subset
<1>2. ASSUME NEW s \in SUBSET U, \A u \in SUBSET s : u # s => u \in G
      PROVE  s \in G
  <2>1. /\ g[s] = IF s = {} THEN base ELSE next[<<s, g[s \ {pick[s]}]>>]
        /\ h[s] = IF s = {} THEN base ELSE next[<<s, h[s \ {pick[s]}]>>]
    BY DEF IsFoldUpTo
  <2>2. CASE s = {}
    BY <2>1, <2>2
  <2>3. CASE s # {}
    <3>1. s \ {pick[s]} \in SUBSET s /\ s \ {pick[s]} # s
      BY <2>3
    <3>2. g[s \ {pick[s]}] = h[s \ {pick[s]}]
      BY <1>2, <3>1
    <3> QED BY <2>1, <2>3, <3>2
  <2> QED BY <2>2, <2>3
<1>3. \A s \in SUBSET U : s \in G
  <2> HIDE DEF G
  <2> QED BY <1>1, <1>2, BySubsets
<1> QED BY <1>3

LEMMA FoldUpToExists ==
  ASSUME NEW next, NEW pick, NEW base, NEW S, IsFiniteSet(S),
         \A s \in SUBSET S : s # {} => pick[s] \in s
  PROVE  \E g : IsFoldUpTo(g, next, pick, base, S)
<1> DEFINE Fold(T) == FoldUpTo(next, pick, base, T)
           G == {T \in SUBSET S : \E g : IsFoldUpTo(g, next, pick, base, T)}
<1>1. ASSUME NEW T \in SUBSET S, \A U \in SUBSET T : U # T => U \in G
      PROVE  T \in G
  <2> DEFINE w == [U \in SUBSET T |-> Fold(U)[U]]
             g == [s \in SUBSET T |-> IF s = {} THEN base ELSE next[<<s, w[s \ {pick[s]}]>>]]
  <2>1. ASSUME NEW U \in SUBSET T, U # T
        PROVE  IsFoldUpTo(Fold(U), next, pick, base, U) /\ IsFiniteSet(U)
    <3>1. \E h : IsFoldUpTo(h, next, pick, base, U)
      BY <1>1, <2>1
    <3> QED BY <3>1, FS_Subset DEF FoldUpTo
  <2>2. ASSUME NEW U \in SUBSET T, U # T PROVE g[U] = w[U]
    <3>1. CASE U = {}
      BY <2>1, <2>2, <3>1 DEF IsFoldUpTo
    <3>2. CASE U # {}
      <4> DEFINE V == U \ {pick[U]}
      <4>1. V \in SUBSET U /\ V # T /\ V \in SUBSET T
        BY <2>2
      <4>2. IsFoldUpTo(Fold(U), next, pick, base, U) /\ IsFoldUpTo(Fold(V), next, pick, base, V)
            /\ IsFiniteSet(U) /\ \A s \in SUBSET U : s # {} => pick[s] \in s
        BY <2>1, <2>2, <4>1
      <4>3. Fold(U)[V] = Fold(V)[V]
        <5> HIDE DEF V, Fold
        <5> QED BY <4>1, <4>2, FoldsUpToAgree
      <4>4. Fold(U)[U] = next[<<U, Fold(U)[V]>>]
        <5> HIDE DEF Fold
        <5> QED BY <3>2, <4>2 DEF IsFoldUpTo
      <4>5. w[U] = Fold(U)[U] /\ w[V] = Fold(V)[V]
        BY <4>1
      <4>6. g[U] = next[<<U, w[V]>>]
        BY <3>2
      <4> HIDE DEF Fold, w, g, V
      <4> QED BY <4>3, <4>4, <4>5, <4>6
    <3> QED BY <3>1, <3>2
  <2>3. ASSUME NEW s \in SUBSET T, s # {} PROVE w[s \ {pick[s]}] = g[s \ {pick[s]}]
    <3>1. s \ {pick[s]} \in SUBSET T /\ s \ {pick[s]} # T
      BY <2>3
    <3> HIDE DEF w, g
    <3> QED BY <2>2, <3>1
  <2>4. g = [s \in SUBSET T |-> IF s = {} THEN base ELSE next[<<s, g[s \ {pick[s]}]>>]]
    <3> HIDE DEF w
    <3> QED BY <2>3
  <2>5. IsFoldUpTo(g, next, pick, base, T)
    <3> HIDE DEF g
    <3> QED BY <2>4 DEF IsFoldUpTo
  <2> QED BY <2>5
<1>2. S \in G
  <2> HIDE DEF G
  <2> QED BY <1>1, BySubsets
<1> QED BY <1>2
=============================================================================
