---------------------------- MODULE SumTheorems ----------------------------
(***************************************************************************)
(* Laws of SumFunctionOnSet, which the models use to add up money: the     *)
(* sum over a finite set splits at any element, depends only on the values *)
(* at the set, and is bounded by the sum over a larger range.              *)
(*                                                                         *)
(* The sum is defined by a recursive function over the subsets of a set    *)
(* that takes elements in an order fixed by CHOOSE.  Induction is over the *)
(* naturals and over the subsets of a finite set, both stated for a set of *)
(* the values that satisfy the claim.                                      *)
(***************************************************************************)
EXTENDS Integers, Sequences, FiniteSets, Functions, FiniteSetTheorems, WellFoundedInduction, TLAPS

-----------------------------------------------------------------------------
(* Induction.                                                              *)

\* A set of naturals that holds 0 and every successor holds all naturals.
LEMMA NatSetInduction ==
  ASSUME NEW G \in SUBSET Nat, 0 \in G, \A n \in G : n + 1 \in G
  PROVE  G = Nat
<1>1. SUFFICES ASSUME Nat \ G # {} PROVE FALSE
  OBVIOUS
<1>. DEFINE B == Nat \ G
            R == OpToRel(<, Nat)
<1>2. PICK n \in B : \A m \in B : <<m, n>> \notin R
  <2>1. B \subseteq Nat /\ B # {}
    BY <1>1
  <2>. HIDE DEF B
  <2>. QED  BY <2>1, NatLessThanWellFounded, WFMin
<1>3. n \in Nat /\ n \notin G
  BY <1>2
<1>4. n # 0
  BY <1>3
<1>5. n - 1 \in Nat /\ n - 1 < n /\ (n - 1) + 1 = n
  BY <1>3, <1>4
<1>6. n - 1 \in G
  <2>1. <<n - 1, n>> \in R
    BY <1>3, <1>5 DEF OpToRel
  <2>. QED  BY <1>2, <1>5, <2>1
<1>. QED  BY <1>3, <1>5, <1>6

\* A collection of subsets of a finite set that holds every subset whose
\* one-element reductions it holds, holds all of them.
LEMMA SubsetInduction ==
  ASSUME NEW S, IsFiniteSet(S), NEW G,
         \A U \in SUBSET S : (\A x \in U : U \ {x} \in G) => U \in G
  PROVE  \A U \in SUBSET S : U \in G
<1>1. SUFFICES ASSUME NEW W \in SUBSET S, W \notin G PROVE FALSE
  OBVIOUS
<1>. DEFINE B == {U \in SUBSET S : U \notin G}
            R == StrictSubsetOrdering(S)
<1>2. PICK U \in B : \A V \in B : <<V, U>> \notin R
  <2>1. B \subseteq FiniteSubsetsOf(S) /\ B # {}
    BY <1>1, FS_Subset DEF FiniteSubsetsOf
  <2>. HIDE DEF B
  <2>. QED  BY <2>1, FS_StrictSubsetOrderingWellFounded, WFMin
<1>3. ASSUME NEW x \in U PROVE U \ {x} \in G
  <2>1. U \ {x} \in SUBSET S /\ U \ {x} \subseteq U /\ U \ {x} # U
    BY <1>2, <1>3
  <2>2. <<U \ {x}, U>> \in R
    BY <2>1, <1>2 DEF StrictSubsetOrdering
  <2>. QED  BY <1>2, <2>1, <2>2
<1>. QED  BY <1>2, <1>3

-----------------------------------------------------------------------------
(* The recursion behind the sum.                                           *)

Pick(s) == CHOOSE x \in s : TRUE

SumStep(f, g, s) == IF s = {} THEN 0 ELSE f[Pick(s)] + g[s \ {Pick(s)}]

\* g holds the sums of f over the sets of D.
IsSumTable(f, D, g) == g = [s \in D |-> SumStep(f, g, s)]

SumTable(f, S) == CHOOSE g : IsSumTable(f, SUBSET S, g)

\* The sum is an entry of the table.
LEMMA SumUnfold ==
  ASSUME NEW f, NEW S
  PROVE  SumFunctionOnSet(f, S) = SumTable(f, S)[S]
BY DEF SumFunctionOnSet, FoldFunctionOnSet, MapThenFoldSet, SumTable, IsSumTable,
       SumStep, Pick

\* CHOOSE takes an element of a set that has one.
LEMMA PickIn == ASSUME NEW s, s # {} PROVE Pick(s) \in s
BY DEF Pick

\* The table exists: it is built for subsets of growing cardinality.
LEMMA SumTableExists ==
  ASSUME NEW f, NEW S, IsFiniteSet(S)
  PROVE  IsSumTable(f, SUBSET S, SumTable(f, S))
<1>. DEFINE D(n) == {s \in SUBSET S : Cardinality(s) <= n}
            G == {n \in Nat : \E g : IsSumTable(f, D(n), g)}
<1>1. \A s \in SUBSET S : IsFiniteSet(s) /\ Cardinality(s) \in Nat
  BY FS_Subset, FS_CardinalityType
<1>2. 0 \in G
  <2>. DEFINE g == [s \in D(0) |-> 0]
  <2>1. \A s \in D(0) : s = {}
    BY <1>1, FS_EmptySet
  <2>2. IsSumTable(f, D(0), g)
    BY <2>1 DEF IsSumTable, SumStep
  <2>. QED  BY <2>2
<1>3. ASSUME NEW n \in G PROVE n + 1 \in G
  <2>1. PICK g : IsSumTable(f, D(n), g)
    BY <1>3
  <2>. DEFINE h == [s \in D(n + 1) |-> SumStep(f, g, s)]
  <2>2. ASSUME NEW s \in D(n + 1), s # {} PROVE s \ {Pick(s)} \in D(n)
    <3>1. Pick(s) \in s /\ s \in SUBSET S
      BY <2>2, PickIn
    <3>2. Cardinality(s \ {Pick(s)}) = Cardinality(s) - 1
      BY <1>1, <3>1, FS_RemoveElement
    <3>. QED  BY <1>1, <1>3, <2>2, <3>1, <3>2
  <2>3. ASSUME NEW t \in D(n) PROVE h[t] = g[t]
    <3>1. t \in D(n + 1)
      BY <1>1, <1>3
    <3>2. g[t] = SumStep(f, g, t)
      BY <2>1 DEF IsSumTable
    <3>. QED  BY <3>1, <3>2
  <2>4. ASSUME NEW s \in D(n + 1) PROVE SumStep(f, g, s) = SumStep(f, h, s)
    <3>. HIDE DEF D, h
    <3>. QED  BY <2>2, <2>3 DEF SumStep
  <2>5. IsSumTable(f, D(n + 1), h)
    BY <2>4, Zenon DEF IsSumTable
  <2>6. n + 1 \in Nat
    BY <1>3
  <2>. QED  BY <2>5, <2>6
<1>4. Cardinality(S) \in G
  <2>1. G \in SUBSET Nat
    OBVIOUS
  <2>2. G = Nat
    <3>. HIDE DEF G
    <3>. QED  BY <1>2, <1>3, <2>1, NatSetInduction
  <2>. QED  BY <2>2, <1>1
<1>5. D(Cardinality(S)) = SUBSET S
  BY FS_Subset
<1>6. PICK g : IsSumTable(f, SUBSET S, g)
  BY <1>4, <1>5, Zenon
<1>. QED  BY <1>6 DEF SumTable

\* Sums of functions that agree on a set, taken from tables over larger sets.
LEMMA SumTablesAgree ==
  ASSUME NEW f, NEW g, NEW A, NEW B, IsFiniteSet(A), IsFiniteSet(B),
         NEW S \in SUBSET (A \cap B), \A x \in S : f[x] = g[x]
  PROVE  SumTable(f, A)[S] = SumTable(g, B)[S]
<1>. DEFINE F == SumTable(f, A)
            H == SumTable(g, B)
            G == {U \in SUBSET S : F[U] = H[U]}
<1>1. IsFiniteSet(S)
  BY FS_Subset
<1>2. ASSUME NEW U \in SUBSET S, \A x \in U : U \ {x} \in G PROVE U \in G
  <2>1. U \in SUBSET A /\ U \in SUBSET B
    BY <1>2
  <2>2. F[U] = SumStep(f, F, U) /\ H[U] = SumStep(g, H, U)
    <3>1. IsSumTable(f, SUBSET A, F) /\ IsSumTable(g, SUBSET B, H)
      BY SumTableExists
    <3>. HIDE DEF F, H
    <3>. QED  BY <2>1, <3>1 DEF IsSumTable
  <2>3. SumStep(f, F, U) = SumStep(g, H, U)
    <3>1. CASE U = {}
      BY <3>1 DEF SumStep
    <3>2. CASE U # {}
      <4>1. Pick(U) \in U /\ Pick(U) \in S
        BY <1>2, <3>2, PickIn
      <4>2. F[U \ {Pick(U)}] = H[U \ {Pick(U)}]
        BY <1>2, <4>1
      <4>. HIDE DEF F, H
      <4>. QED  BY <3>2, <4>1, <4>2 DEF SumStep
    <3>. QED  BY <3>1, <3>2
  <2>. QED  BY <2>2, <2>3
<1>3. \A U \in SUBSET S : U \in G
  <2>. HIDE DEF G
  <2>. QED  BY <1>1, <1>2, SubsetInduction
<1>. QED  BY <1>3

-----------------------------------------------------------------------------
(* Laws of the sum.                                                        *)

\* The sum over a set depends only on the values there.
LEMMA SumCongruence ==
  ASSUME NEW f, NEW g, NEW S, IsFiniteSet(S), \A x \in S : f[x] = g[x]
  PROVE  SumFunctionOnSet(f, S) = SumFunctionOnSet(g, S)
BY SumTablesAgree, SumUnfold

\* The sum over no elements.
LEMMA SumEmpty ==
  ASSUME NEW f
  PROVE  SumFunctionOnSet(f, {}) = 0
<1>1. IsSumTable(f, SUBSET {}, SumTable(f, {}))
  BY SumTableExists, FS_EmptySet
<1>. QED  BY <1>1, SumUnfold DEF IsSumTable, SumStep

\* The sum takes the element CHOOSE picks first.
LEMMA SumPick ==
  ASSUME NEW f, NEW S, IsFiniteSet(S), S # {}
  PROVE  SumFunctionOnSet(f, S) = f[Pick(S)] + SumFunctionOnSet(f, S \ {Pick(S)})
<1>. DEFINE rest == S \ {Pick(S)}
<1>1. rest \in SUBSET (S \cap rest) /\ IsFiniteSet(rest)
  BY FS_Subset
<1>2. SumTable(f, S)[rest] = SumTable(f, rest)[rest]
  BY <1>1, SumTablesAgree
<1>3. SumTable(f, S)[S] = f[Pick(S)] + SumTable(f, S)[rest]
  <2>1. IsSumTable(f, SUBSET S, SumTable(f, S))
    BY SumTableExists
  <2>. QED  BY <2>1 DEF IsSumTable, SumStep
<1>. QED  BY <1>2, <1>3, SumUnfold

\* A sum of integers is an integer.
LEMMA SumInt ==
  ASSUME NEW f, NEW S, IsFiniteSet(S), \A x \in S : f[x] \in Int
  PROVE  SumFunctionOnSet(f, S) \in Int
<1>. DEFINE G == {U \in SUBSET S : SumFunctionOnSet(f, U) \in Int}
<1>1. ASSUME NEW U \in SUBSET S, \A x \in U : U \ {x} \in G PROVE U \in G
  <2>1. CASE U = {}
    BY <2>1, SumEmpty
  <2>2. CASE U # {}
    <3>1. IsFiniteSet(U) /\ Pick(U) \in U /\ Pick(U) \in S
      BY <1>1, <2>2, PickIn, FS_Subset
    <3>2. SumFunctionOnSet(f, U \ {Pick(U)}) \in Int
      BY <1>1, <3>1
    <3>3. SumFunctionOnSet(f, U) = f[Pick(U)] + SumFunctionOnSet(f, U \ {Pick(U)})
      BY <2>2, <3>1, SumPick
    <3>. QED  BY <3>1, <3>2, <3>3
  <2>. QED  BY <2>1, <2>2
<1>2. \A U \in SUBSET S : U \in G
  <2>. HIDE DEF G
  <2>. QED  BY <1>1, SubsetInduction
<1>. QED  BY <1>2

\* The sum splits at any element, whatever order it is taken in.
LEMMA SumRemove ==
  ASSUME NEW f, NEW S, IsFiniteSet(S), \A x \in S : f[x] \in Int, NEW e \in S
  PROVE  SumFunctionOnSet(f, S) = f[e] + SumFunctionOnSet(f, S \ {e})
<1>. DEFINE Sum(U) == SumFunctionOnSet(f, U)
            Splits(U) == \A x \in U : Sum(U) = f[x] + Sum(U \ {x})
            G == {U \in SUBSET S : Splits(U)}
<1>0. \A U \in SUBSET S : IsFiniteSet(U) /\ Sum(U) \in Int
  BY FS_Subset, SumInt
<1>1. ASSUME NEW U \in SUBSET S, \A x \in U : U \ {x} \in G PROVE U \in G
  <2>1. SUFFICES ASSUME NEW x \in U PROVE Sum(U) = f[x] + Sum(U \ {x})
    OBVIOUS
  <2>. DEFINE y == Pick(U)
  <2>2. y \in U /\ Sum(U) = f[y] + Sum(U \ {y})
    BY <1>0, <1>1, <2>1, PickIn, SumPick
  <2>3. CASE x = y
    BY <2>2, <2>3
  <2>4. CASE x # y
    <3>1. x \in U \ {y} /\ y \in U \ {x} /\ (U \ {y}) \ {x} = (U \ {x}) \ {y}
      BY <2>1, <2>2, <2>4
    <3>2. Splits(U \ {y}) /\ Splits(U \ {x})
      BY <1>1, <2>1, <2>2
    <3>3. Sum(U \ {y}) = f[x] + Sum((U \ {x}) \ {y})
      BY <3>1, <3>2
    <3>4. Sum(U \ {x}) = f[y] + Sum((U \ {x}) \ {y})
      BY <3>1, <3>2
    <3>5. f[x] \in Int /\ f[y] \in Int /\ Sum((U \ {x}) \ {y}) \in Int
      BY <1>0, <1>1, <2>1, <2>2
    <3>. HIDE DEF Sum, y
    <3>. QED  BY <2>2, <3>3, <3>4, <3>5
  <2>. QED  BY <2>3, <2>4
<1>2. \A U \in SUBSET S : U \in G
  <2>. HIDE DEF G
  <2>. QED  BY <1>1, SubsetInduction
<1>. QED  BY <1>2

\* Changing one value changes the sum by the difference.
LEMMA SumUpdate ==
  ASSUME NEW f, NEW g, NEW S, IsFiniteSet(S), NEW e \in S,
         \A x \in S : f[x] \in Int, g[e] \in Int, \A x \in S \ {e} : g[x] = f[x]
  PROVE  SumFunctionOnSet(g, S) = SumFunctionOnSet(f, S) - f[e] + g[e]
<1>1. IsFiniteSet(S \ {e})
  BY FS_RemoveElement
<1>2. SumFunctionOnSet(g, S) = g[e] + SumFunctionOnSet(g, S \ {e})
  <2>1. \A x \in S : g[x] \in Int
    OBVIOUS
  <2>. QED  BY <2>1, SumRemove
<1>3. SumFunctionOnSet(f, S) = f[e] + SumFunctionOnSet(f, S \ {e})
  BY SumRemove
<1>4. SumFunctionOnSet(g, S \ {e}) = SumFunctionOnSet(f, S \ {e})
  BY <1>1, SumCongruence
<1>5. SumFunctionOnSet(f, S \ {e}) \in Int
  BY <1>1, SumInt
<1>. QED  BY <1>2, <1>3, <1>4, <1>5

\* A value that is the same everywhere is counted once per element.
LEMMA SumConstant ==
  ASSUME NEW f, NEW S, IsFiniteSet(S), NEW c \in Nat, \A x \in S : f[x] = c
  PROVE  SumFunctionOnSet(f, S) = c * Cardinality(S)
<1>. DEFINE G == {U \in SUBSET S : SumFunctionOnSet(f, U) = c * Cardinality(U)}
<1>1. ASSUME NEW U \in SUBSET S, \A x \in U : U \ {x} \in G PROVE U \in G
  <2>1. CASE U = {}
    BY <2>1, SumEmpty, FS_EmptySet
  <2>2. CASE U # {}
    <3>1. PICK x \in U : TRUE
      BY <2>2
    <3>2. IsFiniteSet(U) /\ Cardinality(U \ {x}) \in Nat
          /\ Cardinality(U) \in Nat /\ Cardinality(U \ {x}) = Cardinality(U) - 1
      BY <3>1, FS_Subset, FS_RemoveElement, FS_CardinalityType
    <3>3. SumFunctionOnSet(f, U) = c + SumFunctionOnSet(f, U \ {x})
      <4>1. \A y \in U : f[y] \in Int
        OBVIOUS
      <4>2. f[x] = c
        BY <3>1
      <4>. QED  BY <3>1, <3>2, <4>1, <4>2, SumRemove
    <3>4. SumFunctionOnSet(f, U \ {x}) = c * Cardinality(U \ {x})
      BY <1>1, <3>1
    <3>5. ASSUME NEW n \in Nat PROVE c + c * (n - 1) = c * n
      BY <3>5
    <3>. QED  BY <3>2, <3>3, <3>4, <3>5
  <2>. QED  BY <2>1, <2>2
<1>2. \A U \in SUBSET S : U \in G
  <2>. HIDE DEF G
  <2>. QED  BY <1>1, SubsetInduction
<1>. QED  BY <1>2

\* A sum of naturals is a natural.
LEMMA SumNat ==
  ASSUME NEW f, NEW S, IsFiniteSet(S), \A x \in S : f[x] \in Nat
  PROVE  SumFunctionOnSet(f, S) \in Nat
<1>. DEFINE G == {U \in SUBSET S : SumFunctionOnSet(f, U) \in Nat}
<1>1. ASSUME NEW U \in SUBSET S, \A x \in U : U \ {x} \in G PROVE U \in G
  <2>1. CASE U = {}
    BY <2>1, SumEmpty
  <2>2. CASE U # {}
    <3>1. PICK x \in U : TRUE
      BY <2>2
    <3>2. SumFunctionOnSet(f, U) = f[x] + SumFunctionOnSet(f, U \ {x})
      BY <3>1, FS_Subset, SumRemove
    <3>3. f[x] \in Nat /\ SumFunctionOnSet(f, U \ {x}) \in Nat
      BY <1>1, <3>1
    <3>. QED  BY <3>2, <3>3
  <2>. QED  BY <2>1, <2>2
<1>2. \A U \in SUBSET S : U \in G
  <2>. HIDE DEF G
  <2>. QED  BY <1>1, SubsetInduction
<1>. QED  BY <1>2

\* Distinct entries of a table of naturals add up to at most the whole table.
LEMMA SumSelected ==
  ASSUME NEW h, NEW S, IsFiniteSet(S), NEW f, NEW D, IsFiniteSet(D),
         \A d \in D : f[d] \in Nat,
         NEW k, \A x \in S : k[x] \in D /\ h[x] = f[k[x]],
         \A x, y \in S : k[x] = k[y] => x = y
  PROVE  SumFunctionOnSet(h, S) <= SumFunctionOnSet(f, D)
<1>. DEFINE Bounded(U) == \A E \in SUBSET D : (\A x \in U : k[x] \in E) =>
                              SumFunctionOnSet(h, U) <= SumFunctionOnSet(f, E)
            G == {U \in SUBSET S : Bounded(U)}
<1>1. ASSUME NEW U \in SUBSET S, \A x \in U : U \ {x} \in G PROVE U \in G
  <2>1. SUFFICES ASSUME NEW E \in SUBSET D, \A x \in U : k[x] \in E
                 PROVE  SumFunctionOnSet(h, U) <= SumFunctionOnSet(f, E)
    OBVIOUS
  <2>2. IsFiniteSet(U) /\ IsFiniteSet(E) /\ SumFunctionOnSet(f, E) \in Nat
    BY FS_Subset, SumNat
  <2>3. CASE U = {}
    BY <2>2, <2>3, SumEmpty
  <2>4. CASE U # {}
    <3>1. PICK x \in U : TRUE
      BY <2>4
    <3>. DEFINE F == E \ {k[x]}
                V == U \ {x}
    <3>2. \A y \in V : k[y] \in F
      BY <2>1, <3>1
    <3>3. SumFunctionOnSet(h, V) <= SumFunctionOnSet(f, F)
      <4>1. F \in SUBSET D /\ V \in G
        BY <1>1, <3>1
      <4>. QED  BY <3>2, <4>1
    <3>4. \A y \in U : h[y] \in Int
      OBVIOUS
    <3>5. \A d \in E : f[d] \in Int
      OBVIOUS
    <3>6. SumFunctionOnSet(h, U) = h[x] + SumFunctionOnSet(h, V)
      BY <2>2, <3>1, <3>4, SumRemove
    <3>7. SumFunctionOnSet(f, E) = f[k[x]] + SumFunctionOnSet(f, F)
      BY <2>1, <2>2, <3>1, <3>5, SumRemove
    <3>8. IsFiniteSet(V) /\ IsFiniteSet(F)
      BY <2>2, FS_Subset
    <3>9. SumFunctionOnSet(h, V) \in Int /\ SumFunctionOnSet(f, F) \in Int
          /\ h[x] \in Int /\ h[x] = f[k[x]]
      BY <3>1, <3>4, <3>5, <3>8, SumInt
    <3>. HIDE DEF F, V
    <3>. QED  BY <3>3, <3>6, <3>7, <3>9
  <2>. QED  BY <2>3, <2>4
<1>2. \A U \in SUBSET S : U \in G
  <2>. HIDE DEF G
  <2>. QED  BY <1>1, SubsetInduction
<1>3. S \in G
  BY <1>2
<1>. QED  BY <1>3

-----------------------------------------------------------------------------
(* Sums over parts.                                                        *)

\* The sum over two disjoint sets.
LEMMA SumUnion ==
  ASSUME NEW f, NEW S, NEW T, IsFiniteSet(S), IsFiniteSet(T), S \cap T = {},
         \A x \in S \cup T : f[x] \in Int
  PROVE  SumFunctionOnSet(f, S \cup T) = SumFunctionOnSet(f, S) + SumFunctionOnSet(f, T)
<1>. DEFINE Total(U) == SumFunctionOnSet(f, U)
            G == {U \in SUBSET S : Total(U \cup T) = Total(U) + Total(T)}
<1>0. Total(T) \in Int
  BY SumInt
<1>1. ASSUME NEW U \in SUBSET S, \A x \in U : U \ {x} \in G PROVE U \in G
  <2>0. IsFiniteSet(U) /\ IsFiniteSet(U \cup T) /\ Total(U) \in Int
    BY FS_Subset, FS_Union, SumInt
  <2>1. CASE U = {}
    <3>1. U \cup T = T /\ Total(U) = 0
      BY <2>1, SumEmpty
    <3>2. Total(U \cup T) = Total(U) + Total(T)
      <4>1. Total(U \cup T) = Total(T)
        BY <3>1
      <4>. HIDE DEF Total
      <4>. QED  BY <1>0, <3>1, <4>1
    <3>. QED  BY <3>2
  <2>2. CASE U # {}
    <3>1. PICK x \in U : TRUE
      BY <2>2
    <3>. DEFINE V == U \ {x}
    <3>2. V \cup T = (U \cup T) \ {x} /\ x \in U \cup T /\ IsFiniteSet(V)
      BY <2>0, <3>1, FS_Subset
    <3>3. Total(U \cup T) = f[x] + Total(V \cup T)
      BY <2>0, <3>2, SumRemove
    <3>4. Total(U) = f[x] + Total(V)
      BY <2>0, <3>1, SumRemove
    <3>5. Total(V \cup T) = Total(V) + Total(T)
      BY <1>1, <3>1
    <3>6. f[x] \in Int /\ Total(V) \in Int
      BY <3>1, <3>2, SumInt
    <3>. HIDE DEF Total, V
    <3>7. Total(U \cup T) = Total(U) + Total(T)
      BY <1>0, <3>3, <3>4, <3>5, <3>6
    <3>. QED  BY <3>7
  <2>. QED  BY <2>1, <2>2
<1>2. \A U \in SUBSET S : U \in G
  <2>. HIDE DEF G
  <2>. QED  BY <1>1, SubsetInduction
<1>. QED  BY <1>2

\* key gives every element of S its part, and part the sum of f over each.
PartSums(f, S, key, K, part) ==
    /\ IsFiniteSet(S) /\ IsFiniteSet(K)
    /\ \A x \in S : f[x] \in Int /\ key[x] \in K
    /\ \A c \in K : part[c] = SumFunctionOnSet(f, {x \in S : key[x] = c})

\* The sum over a set is the sum of the sums over its parts.
LEMMA SumPartition ==
  ASSUME NEW f, NEW S, NEW key, NEW K, NEW part, PartSums(f, S, key, K, part)
  PROVE  SumFunctionOnSet(f, S) = SumFunctionOnSet(part, K)
<1>. USE DEF PartSums
<1>. DEFINE In(C) == {x \in S : key[x] \in C}
            G == {C \in SUBSET K : SumFunctionOnSet(f, In(C)) = SumFunctionOnSet(part, C)}
<1>0. \A c \in K : part[c] \in Int
  <2>. SUFFICES ASSUME NEW c \in K PROVE part[c] \in Int
    OBVIOUS
  <2>1. IsFiniteSet({x \in S : key[x] = c})
    BY FS_Subset
  <2>. QED  BY <2>1, SumInt
<1>1. ASSUME NEW C \in SUBSET K, \A c \in C : C \ {c} \in G PROVE C \in G
  <2>1. CASE C = {}
    <3>1. In(C) = {}
      BY <2>1
    <3>. QED  BY <2>1, <3>1, SumEmpty
  <2>2. CASE C # {}
    <3>1. PICK c \in C : TRUE
      BY <2>2
    <3>. DEFINE D == C \ {c}
                P == {x \in S : key[x] = c}
    <3>2. In(C) = P \cup In(D) /\ P \cap In(D) = {}
      BY <3>1
    <3>3. IsFiniteSet(P) /\ IsFiniteSet(In(D)) /\ IsFiniteSet(C)
      BY FS_Subset
    <3>4. SumFunctionOnSet(f, In(C)) = SumFunctionOnSet(f, P) + SumFunctionOnSet(f, In(D))
      <4>1. \A x \in P \cup In(D) : f[x] \in Int
        OBVIOUS
      <4>2. SumFunctionOnSet(f, P \cup In(D)) = SumFunctionOnSet(f, P) + SumFunctionOnSet(f, In(D))
        <5>. DEFINE Q == In(D)
        <5>1. IsFiniteSet(Q) /\ P \cap Q = {} /\ \A x \in P \cup Q : f[x] \in Int
          BY <3>2, <3>3, <4>1
        <5>. HIDE DEF P, Q
        <5>2. SumFunctionOnSet(f, P \cup Q) = SumFunctionOnSet(f, P) + SumFunctionOnSet(f, Q)
          BY <3>3, <5>1, SumUnion
        <5>. QED  BY <5>2 DEF Q
      <4>. QED  BY <3>2, <4>2
    <3>5. SumFunctionOnSet(f, P) = part[c] /\ c \in K
      BY <3>1
    <3>6. SumFunctionOnSet(f, In(D)) = SumFunctionOnSet(part, D)
      BY <1>1, <3>1
    <3>7. SumFunctionOnSet(part, C) = part[c] + SumFunctionOnSet(part, D)
      BY <1>0, <3>1, <3>3, SumRemove
    <3>8. SumFunctionOnSet(f, In(C)) = SumFunctionOnSet(part, C)
      BY <3>4, <3>5, <3>6, <3>7
    <3>. QED  BY <3>8
  <2>. QED  BY <2>1, <2>2
<1>2. \A C \in SUBSET K : C \in G
  <2>. HIDE DEF G
  <2>. QED  BY <1>1, SubsetInduction
<1>3. In(K) = S
  OBVIOUS
<1>. QED  BY <1>2, <1>3

\* g is f times c on S.
ScaledBy(g, f, S, c) == \A x \in S : f[x] \in Int /\ g[x] = f[x] * c

\* A common factor comes out of a sum.
LEMMA SumScale ==
  ASSUME NEW f, NEW g, NEW S, IsFiniteSet(S), NEW c \in Int, ScaledBy(g, f, S, c)
  PROVE  SumFunctionOnSet(g, S) = SumFunctionOnSet(f, S) * c
<1>. USE DEF ScaledBy
<1>. DEFINE G == {U \in SUBSET S : SumFunctionOnSet(g, U) = SumFunctionOnSet(f, U) * c}
<1>1. ASSUME NEW U \in SUBSET S, \A x \in U : U \ {x} \in G PROVE U \in G
  <2>1. CASE U = {}
    BY <2>1, SumEmpty
  <2>2. CASE U # {}
    <3>1. PICK x \in U : TRUE
      BY <2>2
    <3>. DEFINE a == SumFunctionOnSet(f, U \ {x})
    <3>2. IsFiniteSet(U) /\ IsFiniteSet(U \ {x}) /\ (\A y \in U : g[y] \in Int)
      BY FS_Subset
    <3>3. SumFunctionOnSet(g, U) = g[x] + SumFunctionOnSet(g, U \ {x})
      BY <3>1, <3>2, SumRemove
    <3>4. SumFunctionOnSet(f, U) = f[x] + a
      BY <3>1, <3>2, SumRemove
    <3>5. SumFunctionOnSet(g, U \ {x}) = a * c
      BY <1>1, <3>1
    <3>6. a \in Int /\ f[x] \in Int /\ g[x] = f[x] * c
      BY <3>1, <3>2, SumInt
    <3>. HIDE DEF a
    <3>7. f[x] * c + a * c = (f[x] + a) * c
      BY <3>6
    <3>. QED  BY <3>3, <3>4, <3>5, <3>6, <3>7
  <2>. QED  BY <2>1, <2>2
<1>2. \A U \in SUBSET S : U \in G
  <2>. HIDE DEF G
  <2>. QED  BY <1>1, SubsetInduction
<1>. QED  BY <1>2

\* Shares rounded down add up to no more than the whole share.
LEMMA SumRoundedDown ==
  ASSUME NEW f, NEW g, NEW S, IsFiniteSet(S), NEW c \in Nat, NEW d \in Nat \ {0},
         \A x \in S : f[x] \in Nat /\ g[x] = (f[x] * c) \div d
  PROVE  /\ SumFunctionOnSet(g, S) \in Nat
         /\ SumFunctionOnSet(g, S) * d <= SumFunctionOnSet(f, S) * c
<1>. DEFINE G == {U \in SUBSET S : SumFunctionOnSet(g, U) * d <= SumFunctionOnSet(f, U) * c}
<1>0. ASSUME NEW x \in S PROVE g[x] \in Nat /\ g[x] * d <= f[x] * c
  <2>1. f[x] * c \in Nat
    OBVIOUS
  <2>2. ASSUME NEW k \in Nat PROVE k \div d \in Nat /\ (k \div d) * d <= k
    BY Z3
  <2>. QED  BY <2>1, <2>2
<1>1. ASSUME NEW U \in SUBSET S, \A x \in U : U \ {x} \in G PROVE U \in G
  <2>1. CASE U = {}
    BY <2>1, SumEmpty
  <2>2. CASE U # {}
    <3>1. PICK x \in U : TRUE
      BY <2>2
    <3>. DEFINE a == SumFunctionOnSet(f, U \ {x})
                b == SumFunctionOnSet(g, U \ {x})
    <3>2. IsFiniteSet(U) /\ IsFiniteSet(U \ {x}) /\ \A y \in U : g[y] \in Int /\ f[y] \in Int
      BY <1>0, FS_Subset
    <3>3. SumFunctionOnSet(g, U) = g[x] + b
      BY <3>1, <3>2, SumRemove
    <3>4. SumFunctionOnSet(f, U) = f[x] + a
      BY <3>1, <3>2, SumRemove
    <3>5. b * d <= a * c
      BY <1>1, <3>1
    <3>6. a \in Int /\ b \in Int
      BY <3>2, SumInt
    <3>7. f[x] \in Int /\ g[x] \in Int /\ g[x] * d <= f[x] * c
      BY <1>0, <3>1, <3>2
    <3>. HIDE DEF a, b
    <3>8. (g[x] + b) * d = g[x] * d + b * d /\ (f[x] + a) * c = f[x] * c + a * c
      <4>1. ASSUME NEW i \in Int, NEW j \in Int, NEW k \in Int PROVE (i + j) * k = i * k + j * k
        OBVIOUS
      <4>2. c \in Int /\ d \in Int
        OBVIOUS
      <4>3. (g[x] + b) * d = g[x] * d + b * d
        BY <3>6, <3>7, <4>1, <4>2
      <4>4. (f[x] + a) * c = f[x] * c + a * c
        BY <3>6, <3>7, <4>1, <4>2
      <4>. QED  BY <4>3, <4>4
    <3>9. g[x] * d \in Int /\ b * d \in Int /\ f[x] * c \in Int /\ a * c \in Int
      BY <3>6, <3>7
    <3>10. (g[x] + b) * d <= (f[x] + a) * c
      BY <3>5, <3>7, <3>8, <3>9
    <3>. QED  BY <3>3, <3>4, <3>10
  <2>. QED  BY <2>1, <2>2
<1>2. \A U \in SUBSET S : U \in G
  <2>. HIDE DEF G
  <2>. QED  BY <1>1, SubsetInduction
<1>3. SumFunctionOnSet(g, S) \in Nat
  BY <1>0, SumNat
<1>. QED  BY <1>2, <1>3

\* A term of a sum of naturals is at most the sum.
LEMMA SumBounds ==
  ASSUME NEW f, NEW S, IsFiniteSet(S), \A x \in S : f[x] \in Nat, NEW e \in S
  PROVE  f[e] <= SumFunctionOnSet(f, S)
<1>1. SumFunctionOnSet(f, S) = f[e] + SumFunctionOnSet(f, S \ {e})
  BY SumRemove
<1>2. SumFunctionOnSet(f, S \ {e}) \in Nat
  BY FS_Subset, SumNat
<1>. QED  BY <1>1, <1>2

\* Where all terms are 0 the sum is.
LEMMA SumZero ==
  ASSUME NEW f, NEW S, IsFiniteSet(S), \A x \in S : f[x] = 0
  PROVE  SumFunctionOnSet(f, S) = 0
<1>1. SumFunctionOnSet(f, S) = 0 * Cardinality(S) /\ Cardinality(S) \in Nat
  BY SumConstant, FS_CardinalityType
<1>. QED  BY <1>1

-----------------------------------------------------------------------------
(* Sequences of amounts.                                                   *)

\* A function on the ranks up to n is a sequence.
LEMMA RankSequence ==
  ASSUME NEW n \in Nat, NEW T, NEW s \in [1..n -> T]
  PROVE  s \in Seq(T) /\ Len(s) = n /\ DOMAIN s = 1..n
OBVIOUS

\* The quotient of naturals is a natural.
LEMMA DivNat ==
  ASSUME NEW m \in Nat, NEW d \in Nat \ {0}
  PROVE  m \div d \in Nat
BY Z3

\* The ranks up to n + 1 are n + 1 and the ranks up to n.
LEMMA IntervalSplit ==
  ASSUME NEW n \in Nat
  PROVE  /\ IsFiniteSet(1..n) /\ IsFiniteSet(1..(n + 1))
         /\ n + 1 \in 1..(n + 1) /\ (1..(n + 1)) \ {n + 1} = 1..n
<1>1. IsFiniteSet(1..n)
  BY FS_Interval
<1>2. IsFiniteSet(1..(n + 1))
  <2>1. 1 \in Int /\ n + 1 \in Int
    OBVIOUS
  <2>. QED  BY <2>1, FS_Interval
<1>3. n + 1 \in 1..(n + 1)
  OBVIOUS
<1>4. (1..(n + 1)) \ {n + 1} = 1..n
  OBVIOUS
<1>. QED  BY <1>1, <1>2, <1>3, <1>4

\* What is added up over n + 1 ranks.
LEMMA SumLast ==
  ASSUME NEW n \in Nat, NEW f, \A i \in 1..(n + 1) : f[i] \in Int
  PROVE  /\ SumFunctionOnSet(f, 1..(n + 1)) = f[n + 1] + SumFunctionOnSet(f, 1..n)
         /\ SumFunctionOnSet(f, 1..n) \in Int
<1>. DEFINE S == 1..(n + 1)
<1>1. IsFiniteSet(S) /\ n + 1 \in S /\ S \ {n + 1} = 1..n /\ IsFiniteSet(1..n)
  BY IntervalSplit
<1>2. \A i \in S : f[i] \in Int
  OBVIOUS
<1>3. \A i \in 1..n : f[i] \in Int
  OBVIOUS
<1>. HIDE DEF S
<1>4. SumFunctionOnSet(f, S) = f[n + 1] + SumFunctionOnSet(f, S \ {n + 1})
  BY <1>1, <1>2, SumRemove
<1>5. SumFunctionOnSet(f, 1..n) \in Int
  BY <1>1, <1>3, SumInt
<1>. QED  BY <1>1, <1>4, <1>5 DEF S

\* What is added up for a sequence and one more amount.
LEMMA SumAppend ==
  ASSUME NEW s \in Seq(Int), NEW x \in Int
  PROVE  SumFunction(Append(s, x)) = SumFunction(s) + x
<1>. DEFINE t == Append(s, x)
<1>0. PICK n \in Nat : n = Len(s)
  OBVIOUS
<1>1. DOMAIN t = 1..(n + 1) /\ DOMAIN s = 1..n /\ t[n + 1] = x
  BY <1>0
<1>2. \A i \in 1..n : t[i] = s[i] /\ s[i] \in Int
  BY <1>0
<1>3. \A i \in 1..(n + 1) : t[i] \in Int
  <2>1. \A i \in 1..(n + 1) : i = n + 1 \/ i \in 1..n
    OBVIOUS
  <2>. QED  BY <1>1, <1>2, <2>1
<1>. HIDE DEF t
<1>4. SumFunctionOnSet(t, 1..(n + 1)) = t[n + 1] + SumFunctionOnSet(t, 1..n)
      /\ SumFunctionOnSet(t, 1..n) \in Int
  BY <1>3, SumLast
<1>5. SumFunctionOnSet(t, 1..n) = SumFunctionOnSet(s, 1..n)
  <2>1. IsFiniteSet(1..n)
    BY IntervalSplit
  <2>. QED  BY <1>2, <2>1, SumCongruence
<1>6. SumFunction(t) = SumFunctionOnSet(t, 1..(n + 1)) /\ SumFunction(s) = SumFunctionOnSet(s, 1..n)
  BY <1>1 DEF SumFunction
<1>7. SumFunction(t) = SumFunction(s) + x
  BY <1>1, <1>4, <1>5, <1>6
<1>. QED  BY <1>7 DEF t

\* A sequence of amounts adds up to the last one and what the others do.
LEMMA SumRest ==
  ASSUME NEW n \in Nat \ {0}, NEW s, DOMAIN s = 1..n, \A i \in 1..n : s[i] \in Int
  PROVE  /\ SumFunction(s) = s[n] + SumFunctionOnSet(s, 1..(n - 1))
         /\ SumFunctionOnSet(s, 1..(n - 1)) \in Int
         /\ s[n] \in Int
<1>0. n - 1 \in Nat /\ n \in 1..n /\ (n - 1) + 1 = n
  OBVIOUS
<1>1. \A i \in 1..((n - 1) + 1) : s[i] \in Int
  BY <1>0
<1>2. /\ SumFunctionOnSet(s, 1..((n - 1) + 1)) = s[(n - 1) + 1] + SumFunctionOnSet(s, 1..(n - 1))
      /\ SumFunctionOnSet(s, 1..(n - 1)) \in Int
  BY <1>0, <1>1, SumLast
<1>. QED  BY <1>0, <1>2 DEF SumFunction

\* s shares out c in proportion to the n weights f: each share but the last
\* is rounded down, and the last is the rest.
SharesOut(s, n, f, c, share) ==
    /\ \A i \in 1..n : f[i] \in Nat
    /\ SumFunctionOnSet(f, 1..n) # 0
    /\ DOMAIN share = 1..(n - 1) /\ DOMAIN s = 1..n
    /\ \A j \in 1..(n - 1) : share[j] = (f[j] * c) \div SumFunctionOnSet(f, 1..n) /\ s[j] = share[j]
    /\ s[n] = c - SumFunction(share)

\* Amounts shared out are natural and add up to the whole: the scaling of
\* the tiers and the payouts of calculatePrizeDistribution.
LEMMA RoundedShares ==
  ASSUME NEW n \in Nat \ {0}, NEW f, NEW c \in Nat, NEW share, NEW s, SharesOut(s, n, f, c, share)
  PROVE  SumFunction(s) = c /\ \A i \in 1..n : s[i] \in Nat
<1>. DEFINE d == SumFunctionOnSet(f, 1..n)
<1>0. n - 1 \in Nat /\ (n - 1) + 1 = n /\ \A i \in 1..(n - 1) : i \in 1..n
  OBVIOUS
<1>a. /\ \A i \in 1..n : f[i] \in Nat
      /\ DOMAIN share = 1..(n - 1) /\ DOMAIN s = 1..n
      /\ s[n] = c - SumFunction(share)
      /\ \A j \in 1..(n - 1) : share[j] = (f[j] * c) \div d /\ s[j] = share[j]
  BY DEF SharesOut
<1>b. d \in Nat \ {0} /\ SumFunctionOnSet(f, 1..n) = d
  <2>1. (n - 1) + 1 \in Nat /\ n \in Nat
    BY <1>0
  <2>2. IsFiniteSet(1..n)
    BY <2>1, IntervalSplit
  <2>. QED  BY <1>a, <2>2, SumNat DEF SharesOut
<1>. HIDE DEF d
<1>1. IsFiniteSet(1..(n - 1))
  BY <1>0, IntervalSplit
<1>2. \A i \in 1..(n - 1) : f[i] \in Nat /\ share[i] = (f[i] * c) \div d
  BY <1>0, <1>a
<1>7. \A i \in 1..(n - 1) : share[i] \in Nat
  <2>1. ASSUME NEW k \in Nat PROVE (k * c) \div d \in Nat
    <3>1. k * c \in Nat
      BY <2>1
    <3>. QED  BY <1>b, <3>1, DivNat
  <2>. QED  BY <1>2, <2>1
<1>. DEFINE a == SumFunctionOnSet(share, 1..(n - 1))
            b == SumFunctionOnSet(f, 1..(n - 1))
<1>3. a \in Nat /\ a * d <= b * c
  <2>. DEFINE S == 1..(n - 1)
  <2>1. IsFiniteSet(S) /\ \A i \in S : f[i] \in Nat /\ share[i] = (f[i] * c) \div d
    BY <1>1, <1>2
  <2>. HIDE DEF S
  <2>2. SumFunctionOnSet(share, S) * d <= SumFunctionOnSet(f, S) * c
    BY <1>b, <2>1, SumRoundedDown, Zenon
  <2>3. SumFunctionOnSet(share, S) \in Nat
    BY <1>7, <2>1, SumNat DEF S
  <2>. QED  BY <2>2, <2>3 DEF S
<1>4. d = f[n] + b /\ b \in Nat /\ f[n] \in Nat
  <2>1. \A i \in 1..((n - 1) + 1) : f[i] \in Int
    BY <1>0, <1>a
  <2>2. SumFunctionOnSet(f, 1..((n - 1) + 1)) = f[(n - 1) + 1] + SumFunctionOnSet(f, 1..(n - 1))
    BY <1>0, <2>1, SumLast
  <2>3. b \in Nat
    BY <1>1, <1>2, SumNat
  <2>4. f[n] \in Nat
    BY <1>0, <1>a
  <2>. QED  BY <1>0, <1>b, <2>2, <2>3, <2>4
<1>5. a <= c
  <2>. HIDE DEF a, b
  <2>1. b <= d
    BY <1>4
  <2>2. b * c <= d * c
    <3>1. ASSUME NEW k \in Nat PROVE b * k <= d * k
      BY <1>4, <2>1, <3>1
    <3>. QED  BY <3>1
  <2>3. a * d <= c * d
    <3>1. a * d \in Int /\ b * c \in Int /\ d * c \in Int /\ d * c = c * d
      BY <1>3, <1>4
    <3>2. ASSUME NEW p \in Int, NEW q \in Int, NEW r \in Int, p <= q, q <= r PROVE p <= r
      BY <3>2
    <3>3. a * d <= d * c
      BY <1>3, <2>2, <3>1, <3>2
    <3>. QED  BY <3>1, <3>3
  <2>4. ASSUME a >= c + 1 PROVE FALSE
    <3>1. a * d >= (c + 1) * d
      BY <1>3, <1>b, <2>4
    <3>2. (c + 1) * d = c * d + d /\ c * d \in Int /\ a * d \in Int /\ (c + 1) * d \in Int
      BY <1>3, <1>b
    <3>. QED  BY <1>b, <2>3, <3>1, <3>2
  <2>. QED  BY <1>3, <2>4
<1>6. SumFunction(share) = a
  BY <1>a DEF SumFunction
<1>8. DOMAIN s = 1..n /\ s[n] = c - a /\ \A i \in 1..(n - 1) : share[i] \in Int /\ s[i] = share[i]
  BY <1>6, <1>7, <1>a
<1>9. \A i \in 1..n : s[i] \in Nat
  <2>. HIDE DEF a
  <2>1. c - a \in Nat
    BY <1>3, <1>5
  <2>2. \A i \in 1..n : i = n \/ i \in 1..(n - 1)
    OBVIOUS
  <2>. QED  BY <1>7, <1>8, <2>1, <2>2
<1>10. SumFunction(s) = c
  <2>1. \A i \in 1..n : s[i] \in Int
    BY <1>9
  <2>2. SumFunction(s) = s[n] + SumFunctionOnSet(s, 1..(n - 1))
    BY <1>8, <2>1, SumRest
  <2>3. SumFunctionOnSet(s, 1..(n - 1)) = a
    BY <1>1, <1>8, SumCongruence
  <2>. HIDE DEF a
  <2>. QED  BY <1>3, <1>8, <2>2, <2>3
<1>. QED  BY <1>9, <1>10
=============================================================================
