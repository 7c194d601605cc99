--------------------------- MODULE LedgerLemmas ---------------------------
(***************************************************************************)
(* What the operators of FundTokenOps preserve, for every ledger: each     *)
(* function of the contract leaves a well-typed ledger well typed.  The    *)
(* proofs about one token and about the fund's four cite these facts, and  *)
(* those about sums over accounts that come first.                         *)
(***************************************************************************)
EXTENDS FundTokenOps, FiniteSetTheorems, WellFoundedInduction, TLAPS

\* Dividing natural numbers yields one.
LEMMA QuotientIsNat ==
    ASSUME NEW m \in Nat, NEW n \in Nat \ {0}
    PROVE  m \div n \in Nat
  OBVIOUS

LEMMA ProductIsNat ==
    ASSUME NEW m \in Nat, NEW n \in Nat
    PROVE  m * n \in Nat
  OBVIOUS

-----------------------------------------------------------------------------
(* Sums.  SumFunctionOnSet of the community modules is a fold by a CHOOSE  *)
(* of a recursive function; these lemmas are what proofs use of it.        *)

\* The element a fold over a set takes first.
Chosen(S) == CHOOSE x \in S : TRUE

\* The equation of the fold that SumFunctionOnSet(f, S) is, on a family of sets.
Folds(f, g, F) ==
    g = [s \in F |-> IF s = {} THEN 0 ELSE f[Chosen(s)] + g[s \ {Chosen(s)}]]

LEMMA ChosenIn == ASSUME NEW S, S # {} PROVE Chosen(S) \in S
  BY DEF Chosen

LEMMA SumIsFold ==
    ASSUME NEW f, NEW S
    PROVE  SumFunctionOnSet(f, S) = (CHOOSE g : Folds(f, g, SUBSET S))[S]
  BY DEF SumFunctionOnSet, FoldFunctionOnSet, MapThenFoldSet, Folds, Chosen

UpTo(S, n) == {s \in SUBSET S : Cardinality(s) <= n}

LEMMA FoldStep ==
    ASSUME NEW f, NEW S, IsFiniteSet(S), NEW n \in Nat, NEW g, Folds(f, g, UpTo(S, n))
    PROVE  \E h : Folds(f, h, UpTo(S, n + 1))
  <1> DEFINE h == [s \in UpTo(S, n + 1) |-> IF s = {} THEN 0 ELSE f[Chosen(s)] + g[s \ {Chosen(s)}]]
  <1>1. ASSUME NEW s \in UpTo(S, n + 1), s # {}
        PROVE  s \ {Chosen(s)} \in UpTo(S, n)
    <2>1. Chosen(s) \in s
      BY <1>1, ChosenIn
    <2>2. IsFiniteSet(s) /\ s \in SUBSET S /\ Cardinality(s) <= n + 1
      BY FS_Subset DEF UpTo
    <2>3. Cardinality(s \ {Chosen(s)}) = Cardinality(s) - 1 /\ Cardinality(s) \in Nat
      BY <2>1, <2>2, FS_RemoveElement, FS_CardinalityType
    <2> QED BY <2>2, <2>3 DEF UpTo
  <1>2. ASSUME NEW s \in UpTo(S, n)
        PROVE  g[s] = IF s = {} THEN 0 ELSE f[Chosen(s)] + g[s \ {Chosen(s)}]
    BY DEF Folds
  <1>3. UpTo(S, n) \subseteq UpTo(S, n + 1)
    <2> SUFFICES ASSUME NEW s \in UpTo(S, n) PROVE s \in UpTo(S, n + 1)
      OBVIOUS
    <2>1. Cardinality(s) \in Nat
      BY FS_Subset, FS_CardinalityType DEF UpTo
    <2> QED BY <2>1 DEF UpTo
  <1>4. ASSUME NEW s \in UpTo(S, n)
        PROVE  h[s] = g[s]
    BY <1>2, <1>3
  <1>5. h = [s \in UpTo(S, n + 1) |-> IF s = {} THEN 0 ELSE f[Chosen(s)] + h[s \ {Chosen(s)}]]
    BY <1>1, <1>4
  <1>6. Folds(f, h, UpTo(S, n + 1))
    BY <1>5 DEF Folds
  <1> QED BY <1>6

LEMMA FoldExists ==
    ASSUME NEW f, NEW S, IsFiniteSet(S)
    PROVE  \E g : Folds(f, g, SUBSET S)
  <1> DEFINE P == {n \in Nat : \E g : Folds(f, g, UpTo(S, n))}
  <1>1. 0 \in P
    <2> DEFINE g == [s \in {{}} |-> 0]
    <2>1. UpTo(S, 0) = {{}}
      <3>1. ASSUME NEW s \in UpTo(S, 0) PROVE s = {}
        <4>1. IsFiniteSet(s) /\ Cardinality(s) <= 0 /\ Cardinality(s) \in Nat
          BY FS_Subset, FS_CardinalityType DEF UpTo
        <4> QED BY <4>1, FS_EmptySet
      <3>2. {} \in UpTo(S, 0)
        BY FS_EmptySet DEF UpTo
      <3> QED BY <3>1, <3>2
    <2>2. Folds(f, g, UpTo(S, 0))
      BY <2>1 DEF Folds
    <2> QED BY <2>2
  <1>2. \A n \in Nat : n \in P => n + 1 \in P
    BY FoldStep
  <1>3. Cardinality(S) \in P
    <2> SUFFICES ASSUME Cardinality(S) \notin P PROVE FALSE
      OBVIOUS
    <2> HIDE DEF P
    <2> DEFINE R == OpToRel(<, Nat)
               T == Nat \ P
    <2>1. IsWellFoundedOn(R, Nat) /\ T # {}
      BY NatLessThanWellFounded, FS_CardinalityType
    <2> HIDE DEF R
    <2>m. \E m \in T : \A n \in T : ~ (<<n, m>> \in R)
      BY <2>1, WFMin
    <2>2. PICK m \in T : \A n \in T : ~ (<<n, m>> \in R)
      BY <2>m
    <2>3. \A n \in T : ~ (n < m)
      BY <2>2 DEF R, OpToRel
    <2>4. m - 1 \in Nat /\ m - 1 \in P
      BY <1>1, <2>3
    <2> QED BY <1>2, <2>4
  <1>4. UpTo(S, Cardinality(S)) = SUBSET S
    BY FS_Subset DEF UpTo
  <1> QED BY <1>3, <1>4

\* Induction over the subsets of a finite set.
LEMMA SubsetInduction ==
    ASSUME NEW S, IsFiniteSet(S), NEW P,
           \A s \in SUBSET S : (\A x \in s : s \ {x} \in P) => s \in P
    PROVE  SUBSET S \subseteq P
  <1> DEFINE R == StrictSubsetOrdering(S)
             T == (SUBSET S) \ P
  <1> SUFFICES ASSUME T # {} PROVE FALSE
    OBVIOUS
  <1>a. IsWellFoundedOn(R, FiniteSubsetsOf(S))
    BY FS_StrictSubsetOrderingWellFounded
  <1>1. IsWellFoundedOn(R, SUBSET S)
    BY <1>a, FS_FiniteSubsetsOfFinite
  <1> HIDE DEF R
  <1>2. \E s \in T : \A u \in T : ~ (<<u, s>> \in R)
    BY <1>1, WFMin
  <1>3. PICK s \in T : \A u \in T : ~ (<<u, s>> \in R)
    BY <1>2
  <1>4. \A x \in s : s \ {x} \in P
    <2> SUFFICES ASSUME NEW x \in s PROVE s \ {x} \in P
      OBVIOUS
    <2>1. <<s \ {x}, s>> \in R
      BY DEF R, StrictSubsetOrdering
    <2> QED BY <1>3, <2>1
  <1> QED BY <1>4

LEMMA FoldUnique ==
    ASSUME NEW f, NEW S, IsFiniteSet(S), NEW A, NEW B, S \subseteq A, S \subseteq B,
           NEW g, NEW h, Folds(f, g, SUBSET A), Folds(f, h, SUBSET B)
    PROVE  g[S] = h[S]
  <1> DEFINE P == {s \in SUBSET S : g[s] = h[s]}
  <1>1. ASSUME NEW s \in SUBSET S, \A x \in s : s \ {x} \in P
        PROVE  s \in P
    <2>1. /\ g[s] = IF s = {} THEN 0 ELSE f[Chosen(s)] + g[s \ {Chosen(s)}]
          /\ h[s] = IF s = {} THEN 0 ELSE f[Chosen(s)] + h[s \ {Chosen(s)}]
      BY DEF Folds
    <2>2. s # {} => Chosen(s) \in s
      BY ChosenIn
    <2>3. s # {} => g[s \ {Chosen(s)}] = h[s \ {Chosen(s)}]
      BY <1>1, <2>2
    <2> QED BY <2>1, <2>3
  <1> HIDE DEF P
  <1>2. SUBSET S \subseteq P
    BY <1>1, SubsetInduction
  <1>3. S \in P
    BY <1>2
  <1> QED BY <1>3 DEF P

LEMMA SumFold ==
    ASSUME NEW f, NEW S, IsFiniteSet(S), NEW g, Folds(f, g, SUBSET S)
    PROVE  SumFunctionOnSet(f, S) = g[S]
  <1> DEFINE iter == CHOOSE h : Folds(f, h, SUBSET S)
  <1>1. Folds(f, iter, SUBSET S)
    BY FoldExists
  <1>2. SumFunctionOnSet(f, S) = iter[S]
    BY SumIsFold
  <1> HIDE DEF iter
  <1> QED BY <1>1, <1>2, FoldUnique

\* The sum over nothing, and what choosing one element first makes of a sum.
LEMMA SumEmpty ==
    ASSUME NEW f
    PROVE  SumFunctionOnSet(f, {}) = 0
  <1>1. PICK g : Folds(f, g, SUBSET {})
    BY FoldExists, FS_EmptySet
  <1>2. g[{}] = 0
    BY <1>1 DEF Folds
  <1> QED BY <1>1, <1>2, SumFold, FS_EmptySet

LEMMA SumChosen ==
    ASSUME NEW f, NEW S, IsFiniteSet(S), S # {}
    PROVE  SumFunctionOnSet(f, S) = f[Chosen(S)] + SumFunctionOnSet(f, S \ {Chosen(S)})
  <1> DEFINE c == Chosen(S)
  <1>1. IsFiniteSet(S \ {c})
    BY FS_RemoveElement
  <1>2. PICK g : Folds(f, g, SUBSET S)
    BY FoldExists
  <1>3. PICK h : Folds(f, h, SUBSET (S \ {c}))
    BY <1>1, FoldExists
  <1>4. g[S] = f[c] + g[S \ {c}]
    BY <1>2 DEF Folds
  <1> HIDE DEF c
  <1>5. g[S \ {c}] = h[S \ {c}]
    <2> DEFINE D == S \ {c}
    <2>1. IsFiniteSet(D) /\ D \subseteq S /\ D \subseteq D /\ Folds(f, h, SUBSET D)
      BY <1>1, <1>3
    <2> HIDE DEF D
    <2>2. g[D] = h[D]
      BY <1>2, <2>1, FoldUnique
    <2> QED BY <2>2 DEF D
  <1>6. SumFunctionOnSet(f, S) = g[S]
    BY <1>2, SumFold
  <1>7. SumFunctionOnSet(f, S \ {c}) = h[S \ {c}]
    BY <1>1, <1>3, SumFold
  <1>8. SumFunctionOnSet(f, S) = f[c] + SumFunctionOnSet(f, S \ {c})
    BY <1>4, <1>5, <1>6, <1>7
  <1> QED BY <1>8 DEF c

-----------------------------------------------------------------------------
(* Sums of natural numbers.                                                *)

\* A sum of natural numbers is one.
LEMMA SumType ==
    ASSUME NEW S, IsFiniteSet(S), NEW f, \A x \in S : f[x] \in Nat
    PROVE  SumFunctionOnSet(f, S) \in Nat
  <1> DEFINE P == {s \in SUBSET S : SumFunctionOnSet(f, s) \in Nat}
  <1>1. ASSUME NEW s \in SUBSET S, \A x \in s : s \ {x} \in P
        PROVE  s \in P
    <2>1. CASE s = {}
      BY <2>1, SumEmpty
    <2>2. CASE s # {}
      <3>1. IsFiniteSet(s) /\ Chosen(s) \in s
        BY <2>2, ChosenIn, FS_Subset
      <3>2. SumFunctionOnSet(f, s) = f[Chosen(s)] + SumFunctionOnSet(f, s \ {Chosen(s)})
        BY <2>2, <3>1, SumChosen
      <3>3. SumFunctionOnSet(f, s \ {Chosen(s)}) \in Nat /\ f[Chosen(s)] \in Nat
        BY <1>1, <3>1
      <3> QED BY <3>2, <3>3
    <2> QED BY <2>1, <2>2
  <1> HIDE DEF P
  <1>2. S \in P
    BY <1>1, SubsetInduction
  <1> QED BY <1>2 DEF P

\* Any element may be taken first.
LEMMA SumRemove ==
    ASSUME NEW S, IsFiniteSet(S), NEW f, \A x \in S : f[x] \in Nat, NEW e \in S
    PROVE  SumFunctionOnSet(f, S) = f[e] + SumFunctionOnSet(f, S \ {e})
  <1> DEFINE Sum(s) == SumFunctionOnSet(f, s)
             P == {s \in SUBSET S : \A x \in s : Sum(s) = f[x] + Sum(s \ {x})}
  <1>1. ASSUME NEW s \in SUBSET S, \A x \in s : s \ {x} \in P
        PROVE  s \in P
    <2> SUFFICES ASSUME NEW x \in s PROVE Sum(s) = f[x] + Sum(s \ {x})
      OBVIOUS
    <2> DEFINE c == Chosen(s)
    <2>1. IsFiniteSet(s) /\ c \in s
      BY ChosenIn, FS_Subset
    <2>2. Sum(s) = f[c] + Sum(s \ {c})
      BY <2>1, SumChosen
    <2> HIDE DEF c
    <2>3. CASE x = c
      BY <2>2, <2>3
    <2>4. CASE x # c
      <3>1. Sum(s \ {c}) = f[x] + Sum((s \ {c}) \ {x})
        BY <1>1, <2>1, <2>4
      <3>2. Sum(s \ {x}) = f[c] + Sum((s \ {x}) \ {c})
        BY <1>1, <2>1, <2>4
      <3>3. (s \ {c}) \ {x} = (s \ {x}) \ {c}
        OBVIOUS
      <3>4. Sum((s \ {c}) \ {x}) \in Nat
        <4>1. IsFiniteSet((s \ {c}) \ {x})
          BY <2>1, FS_RemoveElement
        <4> QED BY <4>1, SumType
      <3>5. f[x] \in Nat /\ f[c] \in Nat
        BY <2>1
      <3> HIDE DEF Sum
      <3> QED BY <2>2, <3>1, <3>2, <3>3, <3>4, <3>5
    <2> QED BY <2>3, <2>4
  <1> HIDE DEF P
  <1>2. S \in P
    BY <1>1, SubsetInduction
  <1> QED BY <1>2 DEF P

\* Sums of functions that agree on the set agree.
LEMMA SumSame ==
    ASSUME NEW S, IsFiniteSet(S), NEW f, NEW g, \A x \in S : f[x] = g[x]
    PROVE  SumFunctionOnSet(f, S) = SumFunctionOnSet(g, S)
  <1> DEFINE P == {s \in SUBSET S : SumFunctionOnSet(f, s) = SumFunctionOnSet(g, s)}
  <1>1. ASSUME NEW s \in SUBSET S, \A x \in s : s \ {x} \in P
        PROVE  s \in P
    <2>1. CASE s = {}
      BY <2>1, SumEmpty
    <2>2. CASE s # {}
      <3>1. IsFiniteSet(s) /\ Chosen(s) \in s
        BY <2>2, ChosenIn, FS_Subset
      <3>2. /\ SumFunctionOnSet(f, s) = f[Chosen(s)] + SumFunctionOnSet(f, s \ {Chosen(s)})
            /\ SumFunctionOnSet(g, s) = g[Chosen(s)] + SumFunctionOnSet(g, s \ {Chosen(s)})
        BY <2>2, <3>1, SumChosen
      <3>3. s \ {Chosen(s)} \in P
        BY <1>1, <3>1
      <3> QED BY <3>1, <3>2, <3>3
    <2> QED BY <2>1, <2>2
  <1> HIDE DEF P
  <1>2. S \in P
    BY <1>1, SubsetInduction
  <1> QED BY <1>2 DEF P

\* A sum over a set is the sum over a part of it and over the rest.
LEMMA SumSplit ==
    ASSUME NEW S, IsFiniteSet(S), NEW f, \A x \in S : f[x] \in Nat, NEW T \in SUBSET S
    PROVE  SumFunctionOnSet(f, S) = SumFunctionOnSet(f, T) + SumFunctionOnSet(f, S \ T)
  <1> DEFINE Sum(s) == SumFunctionOnSet(f, s)
             P == {s \in SUBSET S : Sum(S) = Sum(s) + Sum(S \ s)}
  <1>1. ASSUME NEW s \in SUBSET S, \A x \in s : s \ {x} \in P
        PROVE  s \in P
    <2>0. \A u \in SUBSET S : Sum(u) \in Nat
      BY FS_Subset, SumType
    <2>1. CASE s = {}
      <3>1. Sum({}) = 0 /\ S \ {} = S /\ Sum(S) \in Nat
        BY <2>0, SumEmpty
      <3> QED BY <2>1, <3>1
    <2>2. CASE s # {}
      <3>1. PICK x \in s : s \ {x} \in P
        BY <1>1, <2>2
      <3>2. Sum(s) = f[x] + Sum(s \ {x})
        BY FS_Subset, SumRemove
      <3>3. Sum(S \ (s \ {x})) = f[x] + Sum((S \ (s \ {x})) \ {x})
        BY FS_Subset, SumRemove
      <3>4. Sum(S \ (s \ {x})) = f[x] + Sum(S \ s)
        <4>1. (S \ (s \ {x})) \ {x} = S \ s
          OBVIOUS
        <4> QED BY <3>3, <4>1
      <3>5. Sum(S) = Sum(s \ {x}) + Sum(S \ (s \ {x}))
        BY <3>1
      <3>6. Sum(s \ {x}) \in Nat /\ Sum(S \ s) \in Nat /\ f[x] \in Nat
        BY <2>0
      <3> HIDE DEF Sum
      <3>7. Sum(S) = Sum(s) + Sum(S \ s)
        BY <3>2, <3>4, <3>5, <3>6
      <3> QED BY <3>7
    <2> QED BY <2>1, <2>2
  <1> HIDE DEF P
  <1>2. SUBSET S \subseteq P
    BY <1>1, SubsetInduction
  <1>3. T \in P
    BY <1>2
  <1> QED BY <1>3 DEF P

\* A term, or a part of a sum, is at most the sum.
LEMMA SumSubset ==
    ASSUME NEW S, IsFiniteSet(S), NEW f, \A x \in S : f[x] \in Nat, NEW T \in SUBSET S
    PROVE  SumFunctionOnSet(f, T) <= SumFunctionOnSet(f, S)
  <1>1. SumFunctionOnSet(f, T) \in Nat /\ SumFunctionOnSet(f, S \ T) \in Nat
    BY FS_Subset, SumType
  <1>2. SumFunctionOnSet(f, S) = SumFunctionOnSet(f, T) + SumFunctionOnSet(f, S \ T)
    BY SumSplit
  <1> QED BY <1>1, <1>2

LEMMA SumMember ==
    ASSUME NEW S, IsFiniteSet(S), NEW f, \A x \in S : f[x] \in Nat, NEW e \in S
    PROVE  f[e] <= SumFunctionOnSet(f, S)
  <1>1. SumFunctionOnSet(f, S \ {e}) \in Nat
    BY FS_Subset, SumType
  <1>2. SumFunctionOnSet(f, S) = f[e] + SumFunctionOnSet(f, S \ {e})
    BY SumRemove
  <1>3. f[e] \in Nat
    OBVIOUS
  <1> QED BY <1>1, <1>2, <1>3

LEMMA ProductType == \A m, n \in Nat : m * n \in Nat
  OBVIOUS

LEMMA Distributes == \A k, m, n \in Nat : k * (m + n) = k * m + k * n
  OBVIOUS

\* An inequality between terms, each side scaled, is one between the sums.
LEMMA SumScaled ==
    ASSUME NEW S, IsFiniteSet(S), NEW f, NEW g, NEW m \in Nat, NEW k \in Nat,
           \A x \in S : f[x] \in Nat /\ g[x] \in Nat /\ m * f[x] <= k * g[x]
    PROVE  m * SumFunctionOnSet(f, S) <= k * SumFunctionOnSet(g, S)
  <1> DEFINE F(s) == SumFunctionOnSet(f, s)
             G(s) == SumFunctionOnSet(g, s)
             P == {s \in SUBSET S : m * F(s) <= k * G(s)}
  <1>1. ASSUME NEW s \in SUBSET S, \A x \in s : s \ {x} \in P
        PROVE  s \in P
    <2>1. CASE s = {}
      BY <2>1, SumEmpty
    <2>2. CASE s # {}
      <3>1. PICK x \in s : s \ {x} \in P
        BY <1>1, <2>2
      <3>2. F(s) = f[x] + F(s \ {x}) /\ G(s) = g[x] + G(s \ {x})
        BY FS_Subset, SumRemove
      <3>3. F(s \ {x}) \in Nat /\ G(s \ {x}) \in Nat
        BY FS_Subset, SumType
      <3>4. m * F(s \ {x}) <= k * G(s \ {x}) /\ m * f[x] <= k * g[x]
        BY <3>1
      <3>5. f[x] \in Nat /\ g[x] \in Nat
        OBVIOUS
      <3> HIDE DEF F, G
      <3> DEFINE a == m * f[x]
                 b == m * F(s \ {x})
                 c == k * g[x]
                 d == k * G(s \ {x})
      <3>a. a \in Nat /\ b \in Nat /\ c \in Nat /\ d \in Nat
        BY <3>3, <3>5, ProductType
      <3>b. a <= c /\ b <= d
        BY <3>4
      <3>c. m * F(s) = a + b /\ k * G(s) = c + d
        BY <3>2, <3>3, <3>5, Distributes
      <3> HIDE DEF a, b, c, d
      <3>7. m * F(s) <= k * G(s)
        BY <3>a, <3>b, <3>c
      <3> QED BY <3>7
    <2> QED BY <2>1, <2>2
  <1> HIDE DEF P
  <1>2. SUBSET S \subseteq P
    BY <1>1, SubsetInduction
  <1>3. S \in P
    BY <1>2
  <1> QED BY <1>3 DEF P

LEMMA SumMonotone ==
    ASSUME NEW S, IsFiniteSet(S), NEW f, NEW g,
           \A x \in S : f[x] \in Nat /\ g[x] \in Nat /\ f[x] <= g[x]
    PROVE  SumFunctionOnSet(f, S) <= SumFunctionOnSet(g, S)
  <1>1. \A x \in S : f[x] \in Nat /\ g[x] \in Nat /\ 1 * f[x] <= 1 * g[x]
    OBVIOUS
  <1>2. 1 * SumFunctionOnSet(f, S) <= 1 * SumFunctionOnSet(g, S)
    BY <1>1, SumScaled
  <1>3. SumFunctionOnSet(f, S) \in Nat /\ SumFunctionOnSet(g, S) \in Nat
    BY SumType
  <1> QED BY <1>2, <1>3

\* What changing one term does to a sum.
LEMMA SumUpdate ==
    ASSUME NEW S, IsFiniteSet(S), NEW f, NEW g, NEW e \in S,
           \A x \in S : f[x] \in Nat /\ g[x] \in Nat,
           \A x \in S \ {e} : f[x] = g[x]
    PROVE  SumFunctionOnSet(g, S) + f[e] = SumFunctionOnSet(f, S) + g[e]
  <1>1. /\ SumFunctionOnSet(f, S) = f[e] + SumFunctionOnSet(f, S \ {e})
        /\ SumFunctionOnSet(g, S) = g[e] + SumFunctionOnSet(g, S \ {e})
    BY SumRemove
  <1>2. IsFiniteSet(S \ {e})
    BY FS_Subset
  <1>3. SumFunctionOnSet(f, S \ {e}) = SumFunctionOnSet(g, S \ {e})
    BY <1>2, SumSame
  <1>4. SumFunctionOnSet(f, S \ {e}) \in Nat /\ f[e] \in Nat /\ g[e] \in Nat
    BY <1>2, SumType
  <1> QED BY <1>1, <1>3, <1>4

\* The sum of equal functions with nothing in them.
LEMMA SumAllZero ==
    ASSUME NEW S, IsFiniteSet(S), NEW f, \A x \in S : f[x] = 0
    PROVE  SumFunctionOnSet(f, S) = 0
  <1>1. \A x \in S : f[x] \in Nat /\ f[x] \in Nat /\ 1 * f[x] <= 0 * f[x]
    OBVIOUS
  <1>2. 1 * SumFunctionOnSet(f, S) <= 0 * SumFunctionOnSet(f, S)
    BY <1>1, SumScaled
  <1>3. SumFunctionOnSet(f, S) \in Nat
    BY SumType
  <1> QED BY <1>2, <1>3

-----------------------------------------------------------------------------
(* The ledger.                                                             *)

\* The constructor's ledger is well typed.
LEMMA DeployedType ==
    ASSUME NEW isCommit \in BOOLEAN
    PROVE  Deployed(isCommit) \in Ledger
  BY DEF Deployed, Ledger, Fee, Distribution

\* _updateSnapshot writes balances and counts.
LEMMA TouchedType ==
    ASSUME NEW t \in Ledger, NEW parties
    PROVE  Touched(t, parties) \in Ledger
  <1> DEFINE snap == [a \in Accounts |-> [i \in Indices |->
                        IF a \in parties /\ i \in StaleKeys(t, a)
                        THEN t.balances[a] ELSE t.snapshotBalances[a][i]]]
             dist == [a \in Accounts |->
                        IF a \in parties THEN Len(t.distributions)
                        ELSE t.lastDistributionIndex[a]]
             fee  == [a \in Accounts |->
                        IF a \in parties THEN Len(t.fees) ELSE t.lastFeeIndex[a]]
  <1>1. snap \in [Accounts -> [Indices -> Nat]]
    BY DEF Ledger
  <1>2. Len(t.distributions) \in Nat /\ Len(t.fees) \in Nat
    BY DEF Ledger
  <1>3. dist \in [Accounts -> Nat] /\ fee \in [Accounts -> Nat]
    BY <1>2 DEF Ledger
  <1>4. Touched(t, parties) =
          [t EXCEPT !.snapshotBalances = snap, !.lastDistributionIndex = dist,
                    !.lastFeeIndex = fee]
    BY DEF Touched, Ledger
  <1> HIDE DEF snap, dist, fee
  <1> QED BY <1>1, <1>3, <1>4 DEF Ledger

\* _updateSnapshot changes snapshots and indices only.
LEMMA TouchedKeeps ==
    ASSUME NEW t \in Ledger, NEW parties
    PROVE  /\ Touched(t, parties).balances = t.balances
           /\ Touched(t, parties).totalSupply = t.totalSupply
           /\ Touched(t, parties).fees = t.fees
           /\ Touched(t, parties).distributions = t.distributions
           /\ Touched(t, parties).confirmedDistributions = t.confirmedDistributions
           /\ Touched(t, parties).totalDistributionAmount = t.totalDistributionAmount
           /\ Touched(t, parties).feesPaid = t.feesPaid
           /\ Touched(t, parties).isCommitToken = t.isCommitToken
           /\ Touched(t, parties).paused = t.paused
           /\ Touched(t, parties).lastDistributionIndex =
                 [a \in Accounts |-> IF a \in parties THEN Len(t.distributions)
                                     ELSE t.lastDistributionIndex[a]]
  BY DEF Touched, Ledger

-----------------------------------------------------------------------------
(* Moving tokens.                                                          *)

LEMMA MintedType ==
    ASSUME NEW t \in Ledger, NEW to \in Accounts, NEW amount \in Nat
    PROVE  Minted(t, to, amount) \in Ledger
  <1> DEFINE u == Touched(t, {to})
             b == [u.balances EXCEPT ![to] = t.balances[to] + amount]
             n == t.totalSupply + amount
  <1>1. u \in Ledger
    BY TouchedType
  <1>2. t.balances[to] + amount \in Nat /\ n \in Nat
    BY DEF Ledger
  <1>3. b \in [Accounts -> Nat]
    BY <1>1, <1>2 DEF Ledger
  <1>4. Minted(t, to, amount) = [u EXCEPT !.balances = b, !.totalSupply = n]
    BY DEF Minted
  <1> HIDE DEF u, b, n
  <1> QED BY <1>1, <1>2, <1>3, <1>4 DEF Ledger

\* Several mints at once, as long as the supply stays a number.
LEMMA MintedToEachType ==
    ASSUME NEW t \in Ledger, NEW S \in SUBSET Accounts, NEW amounts \in [S -> Nat],
           IsUint(MintedToEach(t, S, amounts).totalSupply)
    PROVE  MintedToEach(t, S, amounts) \in Ledger
  <1> DEFINE u == Touched(t, S)
             n == t.totalSupply + SumFunctionOnSet(amounts, S)
             b == [a \in Accounts |->
                     IF a \in S THEN t.balances[a] + amounts[a] ELSE t.balances[a]]
             m == MintedToEach(t, S, amounts)
  <1>1. u \in Ledger
    BY TouchedType
  <1>2. b \in [Accounts -> Nat]
    BY DEF Ledger
  <1>3. m = [u EXCEPT !.balances = b, !.totalSupply = n]
    BY DEF MintedToEach
  <1> HIDE DEF u, b, n
  <1>4. m.totalSupply = n
    BY <1>1, <1>3 DEF Ledger
  <1>5. n \in Nat
    BY <1>4 DEF IsUint
  <1> HIDE DEF m
  <1>6. m \in Ledger
    BY <1>1, <1>2, <1>3, <1>5 DEF Ledger
  <1> QED BY <1>6 DEF m

LEMMA BurnedType ==
    ASSUME NEW t \in Ledger, NEW from \in Accounts, NEW amount \in Nat,
           IsUint(t.balances[from] - amount), IsUint(t.totalSupply - amount)
    PROVE  Burned(t, from, amount) \in Ledger
  <1> DEFINE u == Touched(t, {from})
             b == [u.balances EXCEPT ![from] = t.balances[from] - amount]
             n == t.totalSupply - amount
  <1>1. u \in Ledger
    BY TouchedType
  <1>2. t.balances[from] - amount \in Nat /\ n \in Nat
    BY DEF IsUint
  <1>3. b \in [Accounts -> Nat]
    BY <1>1, <1>2 DEF Ledger
  <1>4. Burned(t, from, amount) = [u EXCEPT !.balances = b, !.totalSupply = n]
    BY DEF Burned
  <1> HIDE DEF u, b, n
  <1> QED BY <1>1, <1>2, <1>3, <1>4 DEF Ledger

LEMMA TransferredType ==
    ASSUME NEW t \in Ledger, NEW from \in Accounts, NEW to \in Accounts,
           NEW amount \in Nat, IsUint(t.balances[from] - amount)
    PROVE  Transferred(t, from, to, amount) \in Ledger
  <1> DEFINE u == Touched(t, {from, to})
             b == IF from = to THEN t.balances
                  ELSE [t.balances EXCEPT ![from] = @ - amount, ![to] = @ + amount]
  <1>1. u \in Ledger
    BY TouchedType
  <1>2. b \in [Accounts -> Nat]
    <2> DEFINE c == [t.balances EXCEPT ![from] = t.balances[from] - amount]
    <2>1. c \in [Accounts -> Nat]
      BY DEF Ledger, IsUint
    <2>2. CASE from = to
      BY <2>2 DEF Ledger
    <2>3. CASE from # to
      <3>1. b = [c EXCEPT ![to] = c[to] + amount]
        BY <2>3
      <3> HIDE DEF b, c
      <3>2. c[to] + amount \in Nat
        BY <2>1
      <3> QED BY <2>1, <3>1, <3>2
    <2> QED BY <2>2, <2>3
  <1>3. Transferred(t, from, to, amount) = [u EXCEPT !.balances = b]
    BY DEF Transferred
  <1> HIDE DEF u, b
  <1> QED BY <1>1, <1>2, <1>3 DEF Ledger

\* u differs from t by a movement of tokens: the flags, the event lists, the
\* books and the confirmations are t's, and an index is t's or the count of
\* its events.
Moved(t, u) ==
    /\ u.isCommitToken = t.isCommitToken
    /\ u.paused = t.paused
    /\ u.fees = t.fees
    /\ u.distributions = t.distributions
    /\ u.confirmedDistributions = t.confirmedDistributions
    /\ u.totalDistributionAmount = t.totalDistributionAmount
    /\ u.feesPaid = t.feesPaid
    /\ \A a \in Accounts :
          u.lastDistributionIndex[a] \in {t.lastDistributionIndex[a], Len(t.distributions)}

LEMMA TouchedMoved ==
    ASSUME NEW t \in Ledger, NEW parties
    PROVE  Moved(t, Touched(t, parties))
  <1> DEFINE u == Touched(t, parties)
  <1>1. ASSUME NEW a \in Accounts
        PROVE  u.lastDistributionIndex[a]
                 \in {t.lastDistributionIndex[a], Len(t.distributions)}
    <2>1. u.lastDistributionIndex =
            [x \in Accounts |-> IF x \in parties THEN Len(t.distributions)
                                ELSE t.lastDistributionIndex[x]]
      BY TouchedKeeps
    <2> HIDE DEF u
    <2> QED BY <2>1
  <1>2. /\ u.isCommitToken = t.isCommitToken
        /\ u.paused = t.paused
        /\ u.fees = t.fees
        /\ u.distributions = t.distributions
        /\ u.confirmedDistributions = t.confirmedDistributions
        /\ u.totalDistributionAmount = t.totalDistributionAmount
        /\ u.feesPaid = t.feesPaid
    BY TouchedKeeps
  <1> HIDE DEF u
  <1>3. Moved(t, u)
    BY <1>1, <1>2 DEF Moved
  <1> QED BY <1>3 DEF u

\* A mint, a burn and a transfer are movements.
LEMMA MintedMoved ==
    ASSUME NEW t \in Ledger, NEW to \in Accounts, NEW amount
    PROVE  /\ Moved(t, Minted(t, to, amount))
           /\ Minted(t, to, amount).totalSupply = t.totalSupply + amount
  <1> DEFINE u == Touched(t, {to})
  <1>1. u \in Ledger /\ Moved(t, u)
    BY TouchedType, TouchedMoved
  <1>2. Minted(t, to, amount) =
          [u EXCEPT !.balances = [u.balances EXCEPT ![to] = t.balances[to] + amount],
                    !.totalSupply = t.totalSupply + amount]
    BY DEF Minted
  <1> HIDE DEF u
  <1> QED BY <1>1, <1>2 DEF Moved, Ledger

LEMMA BurnedMoved ==
    ASSUME NEW t \in Ledger, NEW from \in Accounts, NEW amount
    PROVE  /\ Moved(t, Burned(t, from, amount))
           /\ Burned(t, from, amount).totalSupply = t.totalSupply - amount
  <1> DEFINE u == Touched(t, {from})
  <1>1. u \in Ledger /\ Moved(t, u)
    BY TouchedType, TouchedMoved
  <1>2. Burned(t, from, amount) =
          [u EXCEPT !.balances = [u.balances EXCEPT ![from] = t.balances[from] - amount],
                    !.totalSupply = t.totalSupply - amount]
    BY DEF Burned
  <1> HIDE DEF u
  <1> QED BY <1>1, <1>2 DEF Moved, Ledger

LEMMA TransferredMoved ==
    ASSUME NEW t \in Ledger, NEW from \in Accounts, NEW to \in Accounts, NEW amount
    PROVE  /\ Moved(t, Transferred(t, from, to, amount))
           /\ Transferred(t, from, to, amount).totalSupply = t.totalSupply
  <1> DEFINE u == Touched(t, {from, to})
             b == IF from = to THEN t.balances
                  ELSE [t.balances EXCEPT ![from] = @ - amount, ![to] = @ + amount]
  <1>1. u \in Ledger /\ Moved(t, u) /\ u.totalSupply = t.totalSupply
    BY TouchedType, TouchedMoved, TouchedKeeps
  <1>2. Transferred(t, from, to, amount) = [u EXCEPT !.balances = b]
    BY DEF Transferred
  <1> HIDE DEF u, b
  <1> QED BY <1>1, <1>2 DEF Moved, Ledger

\* Besides, it brings its parties' indices to the counts of events, rewrites
\* no snapshot below both counts and leaves every other account alone.
Movement(t, u, parties) ==
    /\ Moved(t, u)
    /\ \A a \in parties :
          /\ u.lastFeeIndex[a] = Len(t.fees)
          /\ u.lastDistributionIndex[a] = Len(t.distributions)
    /\ \A a \in Accounts \ parties :
          /\ u.balances[a] = t.balances[a]
          /\ u.lastFeeIndex[a] = t.lastFeeIndex[a]
          /\ u.lastDistributionIndex[a] = t.lastDistributionIndex[a]
          /\ u.snapshotBalances[a] = t.snapshotBalances[a]
    /\ \A a \in Accounts, i \in Indices :
          i < Len(t.fees) /\ i < Len(t.distributions)
              => u.snapshotBalances[a][i] = t.snapshotBalances[a][i]

LEMMA TouchedMovement ==
    ASSUME NEW t \in Ledger, NEW parties \in SUBSET Accounts
    PROVE  Movement(t, Touched(t, parties), parties)
  <1> DEFINE u == Touched(t, parties)
  <1>1. Moved(t, u) /\ u.balances = t.balances
    BY TouchedMoved, TouchedKeeps
  <1>2. /\ u.lastFeeIndex = [a \in Accounts |->
               IF a \in parties THEN Len(t.fees) ELSE t.lastFeeIndex[a]]
        /\ u.lastDistributionIndex = [a \in Accounts |->
               IF a \in parties THEN Len(t.distributions) ELSE t.lastDistributionIndex[a]]
        /\ u.snapshotBalances = [a \in Accounts |-> [i \in Indices |->
               IF a \in parties /\ i \in StaleKeys(t, a)
               THEN t.balances[a] ELSE t.snapshotBalances[a][i]]]
    BY DEF Touched, Ledger
  <1>3. t.snapshotBalances \in [Accounts -> [Indices -> Nat]]
    BY DEF Ledger
  <1> HIDE DEF u
  <1>4. ASSUME NEW a \in Accounts \ parties
        PROVE  u.snapshotBalances[a] = t.snapshotBalances[a]
    <2>1. u.snapshotBalances[a] = [i \in Indices |-> t.snapshotBalances[a][i]]
      BY <1>2
    <2> QED BY <1>3, <2>1
  <1>5. ASSUME NEW a \in Accounts, NEW i \in Indices,
               i < Len(t.fees), i < Len(t.distributions)
        PROVE  u.snapshotBalances[a][i] = t.snapshotBalances[a][i]
    <2>1. i \in Int /\ Len(t.fees) \in Int /\ Len(t.distributions) \in Int
      BY DEF Ledger, Indices
    <2>2. i \notin StaleKeys(t, a)
      BY <1>5, <2>1 DEF StaleKeys
    <2> QED BY <1>2, <2>2
  <1>6. Movement(t, u, parties)
    BY <1>1, <1>2, <1>4, <1>5 DEF Movement
  <1> QED BY <1>6 DEF u

\* Changing the balances of the parties and the supply keeps it a movement.
LEMMA BalancesMovement ==
    ASSUME NEW t \in Ledger, NEW parties, NEW u, NEW v, Movement(t, u, parties),
           Moved(t, v), v.lastFeeIndex = u.lastFeeIndex,
           v.lastDistributionIndex = u.lastDistributionIndex,
           v.snapshotBalances = u.snapshotBalances,
           \A a \in Accounts \ parties : v.balances[a] = u.balances[a]
    PROVE  Movement(t, v, parties)
  BY DEF Movement

LEMMA MintedMovement ==
    ASSUME NEW t \in Ledger, NEW to \in Accounts, NEW amount
    PROVE  Movement(t, Minted(t, to, amount), {to})
  <1> DEFINE u == Touched(t, {to})
             v == Minted(t, to, amount)
  <1>1. u \in Ledger /\ Movement(t, u, {to}) /\ Moved(t, v)
    BY TouchedType, TouchedMovement, MintedMoved
  <1>2. v = [u EXCEPT !.balances = [u.balances EXCEPT ![to] = t.balances[to] + amount],
                      !.totalSupply = t.totalSupply + amount]
    BY DEF Minted
  <1> HIDE DEF u, v
  <1>3. /\ v.lastFeeIndex = u.lastFeeIndex
        /\ v.lastDistributionIndex = u.lastDistributionIndex
        /\ v.snapshotBalances = u.snapshotBalances
        /\ \A a \in Accounts \ {to} : v.balances[a] = u.balances[a]
    BY <1>1, <1>2 DEF Ledger
  <1>4. Movement(t, v, {to})
    BY <1>1, <1>3, BalancesMovement
  <1> QED BY <1>4 DEF v

LEMMA BurnedMovement ==
    ASSUME NEW t \in Ledger, NEW from \in Accounts, NEW amount
    PROVE  Movement(t, Burned(t, from, amount), {from})
  <1> DEFINE u == Touched(t, {from})
             v == Burned(t, from, amount)
  <1>1. u \in Ledger /\ Movement(t, u, {from}) /\ Moved(t, v)
    BY TouchedType, TouchedMovement, BurnedMoved
  <1>2. v = [u EXCEPT !.balances = [u.balances EXCEPT ![from] = t.balances[from] - amount],
                      !.totalSupply = t.totalSupply - amount]
    BY DEF Burned
  <1> HIDE DEF u, v
  <1>3. /\ v.lastFeeIndex = u.lastFeeIndex
        /\ v.lastDistributionIndex = u.lastDistributionIndex
        /\ v.snapshotBalances = u.snapshotBalances
        /\ \A a \in Accounts \ {from} : v.balances[a] = u.balances[a]
    BY <1>1, <1>2 DEF Ledger
  <1>4. Movement(t, v, {from})
    BY <1>1, <1>3, BalancesMovement
  <1> QED BY <1>4 DEF v

LEMMA TransferredMovement ==
    ASSUME NEW t \in Ledger, NEW from \in Accounts, NEW to \in Accounts, NEW amount
    PROVE  Movement(t, Transferred(t, from, to, amount), {from, to})
  <1> DEFINE u == Touched(t, {from, to})
             b == IF from = to THEN t.balances
                  ELSE [t.balances EXCEPT ![from] = @ - amount, ![to] = @ + amount]
             v == Transferred(t, from, to, amount)
  <1>1. /\ u \in Ledger /\ Movement(t, u, {from, to}) /\ Moved(t, v)
        /\ u.balances = t.balances
    BY TouchedType, TouchedMovement, TransferredMoved, TouchedKeeps
  <1>2. v = [u EXCEPT !.balances = b]
    BY DEF Transferred
  <1>3. \A a \in Accounts \ {from, to} : b[a] = t.balances[a]
    BY DEF Ledger
  <1> HIDE DEF u, v, b
  <1>4. /\ v.lastFeeIndex = u.lastFeeIndex
        /\ v.lastDistributionIndex = u.lastDistributionIndex
        /\ v.snapshotBalances = u.snapshotBalances
        /\ \A a \in Accounts \ {from, to} : v.balances[a] = u.balances[a]
    BY <1>1, <1>2, <1>3 DEF Ledger
  <1>5. Movement(t, v, {from, to})
    BY <1>1, <1>4, BalancesMovement
  <1> QED BY <1>5 DEF v

\* Whose balance they change, and by how much.
LEMMA MintedBalances ==
    ASSUME NEW t \in Ledger, NEW a \in Accounts, NEW n \in Nat, NEW c \in Accounts
    PROVE  Minted(t, a, n).balances[c] = IF c = a THEN t.balances[c] + n ELSE t.balances[c]
  <1> DEFINE u == Touched(t, {a})
             b == [t.balances EXCEPT ![a] = t.balances[a] + n]
  <1>1. u \in Ledger /\ u.balances = t.balances
    BY TouchedType, TouchedKeeps
  <1>2. Minted(t, a, n) = [u EXCEPT !.balances = [u.balances EXCEPT ![a] = t.balances[a] + n],
                                   !.totalSupply = t.totalSupply + n]
    BY DEF Minted
  <1>3. b[c] = IF c = a THEN t.balances[c] + n ELSE t.balances[c]
    BY DEF Ledger
  <1> HIDE DEF u
  <1>4. Minted(t, a, n).balances = b
    BY <1>1, <1>2 DEF Ledger
  <1> QED BY <1>3, <1>4

LEMMA BurnedBalances ==
    ASSUME NEW t \in Ledger, NEW a \in Accounts, NEW n \in Nat, NEW c \in Accounts
    PROVE  Burned(t, a, n).balances[c] = IF c = a THEN t.balances[c] - n ELSE t.balances[c]
  <1> DEFINE u == Touched(t, {a})
             b == [t.balances EXCEPT ![a] = t.balances[a] - n]
  <1>1. u \in Ledger /\ u.balances = t.balances
    BY TouchedType, TouchedKeeps
  <1>2. Burned(t, a, n) = [u EXCEPT !.balances = [u.balances EXCEPT ![a] = t.balances[a] - n],
                                   !.totalSupply = t.totalSupply - n]
    BY DEF Burned
  <1>3. b[c] = IF c = a THEN t.balances[c] - n ELSE t.balances[c]
    BY DEF Ledger
  <1> HIDE DEF u
  <1>4. Burned(t, a, n).balances = b
    BY <1>1, <1>2 DEF Ledger
  <1> QED BY <1>3, <1>4

LEMMA TransferredBalances ==
    ASSUME NEW t \in Ledger, NEW a \in Accounts, NEW b \in Accounts, NEW n \in Nat,
           NEW c \in Accounts, Transferred(t, a, b, n).balances[c] > t.balances[c]
    PROVE  c = b
  <1> DEFINE u == Touched(t, {a, b})
             d == IF a = b THEN t.balances
                  ELSE [t.balances EXCEPT ![a] = @ - n, ![b] = @ + n]
  <1>1. u \in Ledger
    BY TouchedType
  <1>2. Transferred(t, a, b, n) = [u EXCEPT !.balances = d]
    BY DEF Transferred
  <1>3. t.balances \in [Accounts -> Nat]
    BY DEF Ledger
  <1>4. d[c] > t.balances[c] => c = b
    BY <1>3
  <1> HIDE DEF u, d
  <1>5. Transferred(t, a, b, n).balances = d
    BY <1>1, <1>2 DEF Ledger
  <1> QED BY <1>4, <1>5

\* So are the mints of one call to several accounts.
LEMMA MintedToEachMoved ==
    ASSUME NEW t \in Ledger, NEW S, NEW amounts
    PROVE  /\ Moved(t, MintedToEach(t, S, amounts))
           /\ MintedToEach(t, S, amounts).totalSupply
                = t.totalSupply + SumFunctionOnSet(amounts, S)
           /\ \A a \in Accounts \ S : MintedToEach(t, S, amounts).balances[a] = t.balances[a]
           /\ \A a \in Accounts \cap S :
                 MintedToEach(t, S, amounts).balances[a] = t.balances[a] + amounts[a]
  <1> DEFINE u == Touched(t, S)
             n == t.totalSupply + SumFunctionOnSet(amounts, S)
             b == [a \in Accounts |->
                     IF a \in S THEN t.balances[a] + amounts[a] ELSE t.balances[a]]
             v == MintedToEach(t, S, amounts)
  <1>1. u \in Ledger /\ Moved(t, u)
    BY TouchedType, TouchedMoved
  <1>2. v = [u EXCEPT !.balances = b, !.totalSupply = n]
    BY DEF MintedToEach
  <1>3. /\ \A a \in Accounts \ S : b[a] = t.balances[a]
        /\ \A a \in Accounts \cap S : b[a] = t.balances[a] + amounts[a]
    OBVIOUS
  <1> HIDE DEF u, b, n, v
  <1>4. Moved(t, v) /\ v.totalSupply = n /\ v.balances = b
    BY <1>1, <1>2 DEF Moved, Ledger
  <1> QED BY <1>3, <1>4 DEF n, v

-----------------------------------------------------------------------------
(* Fees and distributions.                                                 *)

LEMMA FeeChargedType ==
    ASSUME NEW t \in Ledger, NEW fee \in Nat, NEW price \in Nat
    PROVE  FeeCharged(t, fee, price) \in Ledger
  <1>1. Append(t.fees, [fee |-> fee, price |-> price]) \in Seq(Fee)
    BY DEF Ledger, Fee
  <1> QED BY <1>1 DEF FeeCharged, Ledger

LEMMA FeesSettledType ==
    ASSUME NEW t \in Ledger, NEW a \in Accounts,
           IsUint(Len(t.fees) - 1), IsUint(PendingFees(t, a))
    PROVE  FeesSettled(t, a) \in Ledger
  <1>1. t.feesPaid + PendingFees(t, a) \in Nat
    BY DEF Ledger, IsUint
  <1>2. Len(t.fees) - 1 \in Nat
    BY DEF IsUint
  <1> QED BY <1>1, <1>2 DEF FeesSettled, Ledger

LEMMA FeesMarkedType ==
    ASSUME NEW t \in Ledger, NEW upToId \in Nat, NEW accounts
    PROVE  FeesMarked(t, upToId, accounts) \in Ledger
  BY DEF FeesMarked, Ledger

LEMMA DistributedType ==
    ASSUME NEW t \in Ledger, NEW amount \in Nat, NEW scale \in Nat \ {0},
           t.totalSupply > 0
    PROVE  Distributed(t, amount, scale) \in Ledger
  <1>1. amount * scale \in Nat /\ t.totalSupply \in Nat \ {0}
    BY ProductIsNat DEF Ledger
  <1>2. ScaledShare(t, amount, scale) \in Nat
    BY <1>1, QuotientIsNat DEF ScaledShare
  <1>3. [scaledShare |-> ScaledShare(t, amount, scale), scale |-> scale] \in Distribution
    BY <1>2 DEF Distribution
  <1>4. Append(t.distributions,
               [scaledShare |-> ScaledShare(t, amount, scale), scale |-> scale])
          \in Seq(Distribution)
    BY <1>3 DEF Ledger
  <1>5. t.totalDistributionAmount + amount \in Nat
    BY DEF Ledger
  <1> QED BY <1>4, <1>5 DEF Distributed, Ledger

LEMMA ConfirmedType ==
    ASSUME NEW t \in Ledger, NEW a \in Accounts, NEW i \in Nat
    PROVE  Confirmed(t, a, i) \in Ledger
  <1>1. t.confirmedDistributions[a] \cup {i} \in SUBSET Nat
    BY DEF Ledger
  <1> QED BY <1>1 DEF Confirmed, Ledger

LEMMA CancelledType ==
    ASSUME NEW t \in Ledger, NEW a \in Accounts, NEW i \in Indices,
           IsUint(t.totalDistributionAmount - PendingDistribution(t, a, i))
    PROVE  Cancelled(t, a, i) \in Ledger
  <1>1. [t.snapshotBalances EXCEPT ![a][i] = 0] \in [Accounts -> [Indices -> Nat]]
    BY DEF Ledger
  <1> QED BY <1>1 DEF Cancelled, Ledger, IsUint

LEMMA ClaimsTakenType ==
    ASSUME NEW t \in Ledger, NEW a \in Accounts, IsUint(Len(t.distributions) - 1)
    PROVE  ClaimsTaken(t, a) \in Ledger
  BY DEF ClaimsTaken, Ledger, IsUint

\* u differs from t in its events, books and indices at most.
Calm(t, u) ==
    /\ u.isCommitToken = t.isCommitToken
    /\ u.paused = t.paused
    /\ u.balances = t.balances
    /\ u.totalSupply = t.totalSupply
    /\ u.confirmedDistributions = t.confirmedDistributions

\* The calls that move no tokens and confirm nothing.
LEMMA CalmCalls ==
    ASSUME NEW t \in Ledger
    PROVE  /\ Calm(t, t)
           /\ \A fee, price : Calm(t, FeeCharged(t, fee, price))
           /\ \A a : Calm(t, FeesSettled(t, a))
           /\ \A upToId, accounts : Calm(t, FeesMarked(t, upToId, accounts))
           /\ \A amount, scale : Calm(t, Distributed(t, amount, scale))
           /\ \A a : Calm(t, ClaimsTaken(t, a))
  BY DEF Calm, FeeCharged, FeesSettled, FeesMarked, Distributed, ClaimsTaken, Ledger

-----------------------------------------------------------------------------
(* What an account owes.                                                   *)

\* More tokens, multiplied or divided by the same number, are not fewer.
LEMMA ProductMonotone ==
    ASSUME NEW m \in Nat, NEW n \in Nat, NEW k \in Nat, m <= n
    PROVE  m * k <= n * k
  <1>1. PICK d \in Nat : n = m + d
    <2>1. n - m \in Nat /\ n = m + (n - m)
      OBVIOUS
    <2> QED BY <2>1
  <1>2. n * k = m * k + d * k
    BY <1>1
  <1>3. m * k \in Nat /\ d * k \in Nat
    BY <1>1, ProductIsNat
  <1> QED BY <1>2, <1>3

\* What calculateFee yields for a snapshot of m tokens.
Bill(m, c) == ((m * c.fee) \div 1000) * c.price

\* What a division leaves, and what a common factor says.
LEMMA QuotientBound ==
    ASSUME NEW m \in Nat, NEW d \in Nat \ {0}
    PROVE  m \div d \in Nat /\ d * (m \div d) <= m
  OBVIOUS

LEMMA CancelFactor ==
    ASSUME NEW d \in Nat \ {0}, NEW m \in Nat, NEW n \in Nat, d * m <= d * n
    PROVE  m <= n
  <1> SUFFICES ASSUME n + 1 <= m PROVE FALSE
    OBVIOUS
  <1>1. d * (n + 1) <= d * m
    BY ProductMonotone
  <1>2. d * (n + 1) = d * n + d
    <2>1. d * (n + 1) = d * n + d * 1
      BY Distributes
    <2> QED BY <2>1
  <1>3. d * n \in Nat /\ d * m \in Nat
    BY ProductType
  <1> QED BY <1>1, <1>2, <1>3

LEMMA BillMonotone ==
    ASSUME NEW m \in Nat, NEW n \in Nat, NEW c \in Fee, m <= n
    PROVE  Bill(m, c) \in Nat /\ Bill(n, c) \in Nat /\ Bill(m, c) <= Bill(n, c)
  <1> DEFINE p == m * c.fee
             q == n * c.fee
  <1>1. c.fee \in Nat /\ c.price \in Nat
    BY DEF Fee
  <1>2. p \in Nat /\ q \in Nat /\ p <= q
    BY <1>1, ProductIsNat, ProductMonotone
  <1> HIDE DEF p, q
  <1> DEFINE r == p \div 1000
             s == q \div 1000
  <1>3. r \in Nat /\ s \in Nat /\ r <= s
    BY <1>2
  <1> HIDE DEF r, s
  <1>4. r * c.price \in Nat /\ s * c.price \in Nat /\ r * c.price <= s * c.price
    BY <1>1, <1>3, ProductIsNat, ProductMonotone
  <1> QED BY <1>4 DEF Bill, p, q, r, s

\* The fees an account has not paid, by id.
Unpaid(t, a) == t.lastFeeIndex[a] .. (Len(t.fees) - 1)
Charges(t, a) == [i \in Unpaid(t, a) |-> CalculateFee(t, a, i)]

LEMMA PendingFeesIsSum ==
    ASSUME NEW t, NEW a
    PROVE  PendingFees(t, a) = SumFunctionOnSet(Charges(t, a), Unpaid(t, a))
  <1>1. DOMAIN Charges(t, a) = Unpaid(t, a)
    BY DEF Charges
  <1> QED BY <1>1 DEF PendingFees, SumFunction, Charges, Unpaid

LEMMA UnpaidType ==
    ASSUME NEW t \in Ledger, NEW a \in Accounts, Len(t.fees) <= MaxEvents
    PROVE  /\ IsFiniteSet(Unpaid(t, a))
           /\ Unpaid(t, a) \subseteq Indices
           /\ \A i \in Unpaid(t, a) : i + 1 \in DOMAIN t.fees
  <1>1. t.lastFeeIndex[a] \in Nat /\ Len(t.fees) \in Nat /\ MaxEvents \in Nat
    BY MaxEventsAssumption DEF Ledger
  <1>2. DOMAIN t.fees = 1..Len(t.fees)
    BY DEF Ledger
  <1>3. IsFiniteSet(t.lastFeeIndex[a] .. (Len(t.fees) - 1))
    <2> DEFINE first == t.lastFeeIndex[a]
               last  == Len(t.fees) - 1
    <2>1. first \in Int /\ last \in Int
      BY <1>1
    <2> HIDE DEF first, last
    <2>2. IsFiniteSet(first .. last)
      BY <2>1, FS_Interval
    <2> QED BY <2>2 DEF first, last
  <1> QED BY <1>1, <1>2, <1>3 DEF Unpaid, Indices

\* Passing fees and losing snapshots only lowers what an account owes, which
\* is never negative.
LEMMA PendingFeesFall ==
    ASSUME NEW t \in Ledger, NEW u \in Ledger, NEW a \in Accounts,
           Len(t.fees) <= MaxEvents, u.fees = t.fees,
           u.lastFeeIndex[a] >= t.lastFeeIndex[a],
           \A i \in Indices : u.snapshotBalances[a][i] <= t.snapshotBalances[a][i]
    PROVE  /\ PendingFees(u, a) \in Nat /\ PendingFees(t, a) \in Nat
           /\ PendingFees(u, a) <= PendingFees(t, a)
  <1> DEFINE I == Unpaid(t, a)
             J == Unpaid(u, a)
             f == Charges(t, a)
             g == Charges(u, a)
  <1>1. /\ IsFiniteSet(I) /\ IsFiniteSet(J) /\ I \subseteq Indices
        /\ \A i \in I : i + 1 \in DOMAIN t.fees
    BY UnpaidType
  <1>2. J \subseteq I
    <2>1. t.lastFeeIndex[a] \in Nat /\ u.lastFeeIndex[a] \in Nat /\ Len(t.fees) \in Nat
      BY DEF Ledger
    <2> QED BY <2>1 DEF Unpaid
  <1>3. ASSUME NEW i \in I
        PROVE  /\ f[i] \in Nat /\ CalculateFee(u, a, i) \in Nat
               /\ CalculateFee(u, a, i) <= f[i]
    <2> DEFINE c == t.fees[i + 1]
               m == u.snapshotBalances[a][i]
               n == t.snapshotBalances[a][i]
    <2>1. c \in Fee
      BY <1>1 DEF Ledger
    <2>2. m \in Nat /\ n \in Nat /\ m <= n
      BY <1>1 DEF Ledger
    <2>3. f[i] = Bill(n, c) /\ CalculateFee(u, a, i) = Bill(m, c)
      BY DEF Charges, CalculateFee, Bill
    <2> HIDE DEF c, m, n, f
    <2> QED BY <2>1, <2>2, <2>3, BillMonotone
  <1>4. \A i \in J : f[i] \in Nat /\ g[i] \in Nat /\ g[i] <= f[i]
    BY <1>2, <1>3 DEF Charges
  <1>5. \A i \in I : f[i] \in Nat
    BY <1>3
  <1> HIDE DEF I, J, f, g
  <1>6. SumFunctionOnSet(g, J) <= SumFunctionOnSet(f, J)
    BY <1>1, <1>4, SumMonotone
  <1>7. SumFunctionOnSet(f, J) <= SumFunctionOnSet(f, I)
    BY <1>1, <1>2, <1>5, SumSubset
  <1>8. /\ SumFunctionOnSet(g, J) \in Nat /\ SumFunctionOnSet(f, J) \in Nat
        /\ SumFunctionOnSet(f, I) \in Nat
    BY <1>1, <1>4, <1>5, SumType
  <1>9. PendingFees(t, a) = SumFunctionOnSet(f, I) /\ PendingFees(u, a) = SumFunctionOnSet(g, J)
    BY PendingFeesIsSum DEF I, J, f, g
  <1> QED BY <1>6, <1>7, <1>8, <1>9

\* Past the last fee nothing is owed.
LEMMA NothingUnpaid ==
    ASSUME NEW t \in Ledger, NEW a \in Accounts, t.lastFeeIndex[a] >= Len(t.fees)
    PROVE  PendingFees(t, a) = 0
  <1>1. t.lastFeeIndex[a] \in Nat /\ Len(t.fees) \in Nat
    BY DEF Ledger
  <1>2. Unpaid(t, a) = {}
    BY <1>1 DEF Unpaid
  <1> QED BY <1>2, PendingFeesIsSum, SumEmpty

-----------------------------------------------------------------------------
(* What becomes of a debt or a claim that a call leaves alone.             *)

\* A list of events only grows at its end.
Extends(s, r) ==
    /\ Len(s) <= Len(r)
    /\ \A i \in 1..Len(s) : r[i] = s[i]

\* The fees a was charged by t stand in u, with a's index and snapshots.
BillStands(t, u, a) ==
    /\ Extends(t.fees, u.fees)
    /\ u.lastFeeIndex[a] = t.lastFeeIndex[a]
    /\ u.snapshotBalances[a] = t.snapshotBalances[a]

\* So do the distributions confirmed for a.
ClaimStands(t, u, a) ==
    /\ Extends(t.distributions, u.distributions)
    /\ t.confirmedDistributions[a] \subseteq u.confirmedDistributions[a]
    /\ u.lastDistributionIndex[a] = t.lastDistributionIndex[a]
    /\ u.snapshotBalances[a] = t.snapshotBalances[a]

\* A sum over more terms is not lower.
LEMMA SumGrows ==
    ASSUME NEW S, NEW T, IsFiniteSet(T), S \subseteq T, NEW f, NEW g,
           \A x \in T : g[x] \in Nat, \A x \in S : f[x] = g[x]
    PROVE  /\ SumFunctionOnSet(f, S) \in Nat /\ SumFunctionOnSet(g, T) \in Nat
           /\ SumFunctionOnSet(f, S) <= SumFunctionOnSet(g, T)
  <1>1. IsFiniteSet(S)
    BY FS_Subset
  <1>2. SumFunctionOnSet(f, S) = SumFunctionOnSet(g, S)
    BY <1>1, SumSame
  <1>3. SumFunctionOnSet(g, S) <= SumFunctionOnSet(g, T)
    BY SumSubset
  <1>4. SumFunctionOnSet(g, S) \in Nat /\ SumFunctionOnSet(g, T) \in Nat
    BY <1>1, SumType
  <1> QED BY <1>2, <1>3, <1>4

\* A bill that stands is not lower: new fees only add to it.
LEMMA StandingBill ==
    ASSUME NEW t \in Ledger, NEW u \in Ledger, NEW a \in Accounts,
           Len(u.fees) <= MaxEvents, BillStands(t, u, a)
    PROVE  /\ PendingFees(t, a) \in Nat /\ PendingFees(u, a) \in Nat
           /\ PendingFees(t, a) <= PendingFees(u, a)
  <1> DEFINE S == Unpaid(t, a)
             T == Unpaid(u, a)
             f == Charges(t, a)
             g == Charges(u, a)
  <1>1. /\ IsFiniteSet(T) /\ T \subseteq Indices
        /\ \A i \in T : i + 1 \in DOMAIN u.fees
    BY UnpaidType
  <1>2. /\ Len(t.fees) \in Nat /\ Len(u.fees) \in Nat /\ Len(t.fees) <= Len(u.fees)
        /\ t.lastFeeIndex[a] \in Nat /\ u.lastFeeIndex[a] = t.lastFeeIndex[a]
    BY DEF Ledger, BillStands, Extends
  <1>3. S \subseteq T
    BY <1>2 DEF Unpaid
  <1>4. ASSUME NEW i \in T
        PROVE  g[i] \in Nat
    <2> DEFINE c == u.fees[i + 1]
               n == u.snapshotBalances[a][i]
    <2>1. c \in Fee /\ n \in Nat
      BY <1>1 DEF Ledger
    <2>2. g[i] = Bill(n, c)
      BY DEF Charges, CalculateFee, Bill
    <2> HIDE DEF c, n, g
    <2> QED BY <2>1, <2>2, BillMonotone
  <1>5. ASSUME NEW i \in S
        PROVE  f[i] = g[i]
    <2>1. i + 1 \in 1..Len(t.fees)
      BY <1>2 DEF Unpaid
    <2>2. u.fees[i + 1] = t.fees[i + 1] /\ u.snapshotBalances[a] = t.snapshotBalances[a]
      BY <2>1 DEF BillStands, Extends
    <2> QED BY <1>3, <2>2 DEF Charges, CalculateFee
  <1> HIDE DEF S, T, f, g
  <1>6. /\ SumFunctionOnSet(f, S) \in Nat /\ SumFunctionOnSet(g, T) \in Nat
        /\ SumFunctionOnSet(f, S) <= SumFunctionOnSet(g, T)
    BY <1>1, <1>3, <1>4, <1>5, SumGrows
  <1> QED BY <1>6, PendingFeesIsSum DEF S, T, f, g

ClaimShares(t, a) == [i \in Claimable(t, a) |-> PendingDistribution(t, a, i)]

LEMMA TotalClaimableIsSum ==
    ASSUME NEW t, NEW a
    PROVE  TotalClaimable(t, a) = SumFunctionOnSet(ClaimShares(t, a), Claimable(t, a))
  <1>1. DOMAIN ClaimShares(t, a) = Claimable(t, a)
    BY DEF ClaimShares
  <1> QED BY <1>1 DEF TotalClaimable, SumFunction, ClaimShares

\* Nor is a claim that stands: new distributions and confirmations only add.
LEMMA StandingClaim ==
    ASSUME NEW t \in Ledger, NEW u \in Ledger, NEW a \in Accounts,
           Len(u.distributions) <= MaxEvents, ClaimStands(t, u, a),
           ClaimsReadable(t, a), ClaimsReadable(u, a)
    PROVE  /\ TotalClaimable(t, a) \in Nat /\ TotalClaimable(u, a) \in Nat
           /\ TotalClaimable(t, a) <= TotalClaimable(u, a)
  <1> DEFINE S == Claimable(t, a)
             T == Claimable(u, a)
             f == ClaimShares(t, a)
             g == ClaimShares(u, a)
  <1>1. /\ Len(t.distributions) \in Nat /\ Len(u.distributions) \in Nat
        /\ Len(t.distributions) <= Len(u.distributions)
        /\ t.lastDistributionIndex[a] \in Nat
        /\ u.lastDistributionIndex[a] = t.lastDistributionIndex[a]
        /\ MaxEvents \in Nat
    BY MaxEventsAssumption DEF Ledger, ClaimStands, Extends
  <1>2. IsFiniteSet(T)
    <2> DEFINE first == u.lastDistributionIndex[a]
               last  == Len(u.distributions)
    <2>1. first \in Int /\ last \in Int
      BY <1>1
    <2> HIDE DEF first, last
    <2>2. IsFiniteSet(first .. last)
      BY <2>1, FS_Interval
    <2>3. T \subseteq first .. last
      BY DEF Claimable, first, last
    <2> HIDE DEF T
    <2> QED BY <2>2, <2>3, FS_Subset
  <1>3. S \subseteq T
    BY <1>1 DEF Claimable, ClaimStands
  <1>4. ASSUME NEW i \in T
        PROVE  g[i] \in Nat
    <2> DEFINE d == u.distributions[i + 1]
               n == u.snapshotBalances[a][i]
    <2>1. i \in Nat /\ i < Len(u.distributions)
      BY <1>1 DEF Claimable, ClaimsReadable, DistributionExists
    <2>2. i + 1 \in DOMAIN u.distributions /\ i \in Indices
      BY <1>1, <2>1 DEF Ledger, Indices
    <2>3. d \in Distribution /\ n \in Nat
      BY <2>2 DEF Ledger
    <2>4. d.scaledShare \in Nat /\ d.scale \in Nat \ {0}
      BY <2>3 DEF Distribution
    <2>5. g[i] = (d.scaledShare * n) \div d.scale
      BY DEF ClaimShares, PendingDistribution
    <2> HIDE DEF d, n, g
    <2>6. d.scaledShare * n \in Nat
      BY <2>3, <2>4, ProductIsNat
    <2> QED BY <2>4, <2>5, <2>6, QuotientIsNat
  <1>5. ASSUME NEW i \in S
        PROVE  f[i] = g[i]
    <2>1. i + 1 \in 1..Len(t.distributions)
      BY <1>1 DEF Claimable, ClaimsReadable, DistributionExists
    <2>2. /\ u.distributions[i + 1] = t.distributions[i + 1]
          /\ u.snapshotBalances[a] = t.snapshotBalances[a]
      BY <2>1 DEF ClaimStands, Extends
    <2> QED BY <1>3, <2>2 DEF ClaimShares, PendingDistribution
  <1> HIDE DEF S, T, f, g
  <1>6. /\ SumFunctionOnSet(f, S) \in Nat /\ SumFunctionOnSet(g, T) \in Nat
        /\ SumFunctionOnSet(f, S) <= SumFunctionOnSet(g, T)
    BY <1>2, <1>3, <1>4, <1>5, SumGrows
  <1> QED BY <1>6, TotalClaimableIsSum DEF S, T, f, g

=============================================================================
