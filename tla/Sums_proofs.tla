---------------------------- MODULE Sums_proofs ----------------------------
(***************************************************************************)
(* Sums of a function over a finite set of indexes, SumFunctionOnSet of    *)
(* the community modules: what the accounts of the ledger and of the quota *)
(* scopes are compared with.  The fold is a recursive function, so its     *)
(* equation is proved first; what follows is induction over finite sets,   *)
(* in the form of a smallest counterexample.                               *)
(***************************************************************************)
EXTENDS Integers, Folds, Functions, FiniteSetTheorems, TLAPS

\* The element that the fold takes next, and the function it iterates.
Pick(s) == CHOOSE x \in s : TRUE
Folding(iter, F, S) ==
    iter = [s \in SUBSET S |-> IF s = {} THEN 0 ELSE F[Pick(s)] + iter[s \ {Pick(s)}]]

\* The equation of the fold, for sets of at most n elements.
FoldsUpTo(iter, F, S, n) ==
    \A s \in SUBSET S : Cardinality(s) <= n =>
        iter[s] = IF s = {} THEN 0 ELSE F[Pick(s)] + iter[s \ {Pick(s)}]

LEMMA SumIsFold ==
    ASSUME NEW F, NEW S
    PROVE  SumFunctionOnSet(F, S) = (CHOOSE iter : Folding(iter, F, S))[S]
  BY Zenon DEF SumFunctionOnSet, FoldFunctionOnSet, MapThenFoldSet, Folding, Pick

LEMMA PickMember ==
    ASSUME NEW S, S # {}
    PROVE  Pick(S) \in S
  BY DEF Pick

\* A family of subsets of a finite set has a member that contains no other.
LEMMA LeastSubset ==
    ASSUME NEW S, IsFiniteSet(S), NEW B \in SUBSET SUBSET S, B # {}
    PROVE  \E T \in B : \A U \in SUBSET T : U # T => U \notin B
  <1>1. IsWellFoundedOn(StrictSubsetOrdering(S), SUBSET S)
    BY FS_StrictSubsetOrderingWellFounded, FS_FiniteSubsetsOfFinite
  <1>2. PICK T \in B : \A U \in B : ~(<<U, T>> \in StrictSubsetOrdering(S))
    <2> HIDE DEF StrictSubsetOrdering
    <2> QED BY <1>1, WFMin
  <1>3. ASSUME NEW U \in SUBSET T, U # T, U \in B PROVE FALSE
    BY <1>2, <1>3 DEF StrictSubsetOrdering
  <1> QED
    BY <1>2, <1>3

\* A set of natural numbers with a member has a least one.
LEMMA LeastOf ==
    ASSUME NEW B \in SUBSET Nat, B # {}
    PROVE  \E n \in B : \A m \in B : n <= m
  <1>1. PICK n \in B : \A m \in B : ~(<<m, n>> \in OpToRel(<, Nat))
    <2>1. IsWellFoundedOn(OpToRel(<, Nat), Nat)
      BY NatLessThanWellFounded
    <2> DEFINE R == OpToRel(<, Nat)
    <2> HIDE DEF R
    <2>2. IsWellFoundedOn(R, Nat)
      BY <2>1 DEF R
    <2>3. \E n \in B : \A m \in B : ~(<<m, n>> \in R)
      BY <2>2, WFMin
    <2> QED BY <2>3 DEF R
  <1>2. ASSUME NEW m \in B, m < n PROVE FALSE
    <2>1. <<m, n>> \in OpToRel(<, Nat)
      BY <1>2 DEF OpToRel
    <2> QED BY <1>1, <2>1
  <1>3. \A m \in B : n <= m
    BY <1>2
  <1> QED
    BY <1>3

\* Its predecessor is not a member.
LEMMA LeastNat ==
    ASSUME NEW B \in SUBSET Nat, B # {}
    PROVE  \E n \in B : n = 0 \/ n - 1 \notin B
  <1>1. PICK n \in B : \A m \in B : n <= m
    BY LeastOf
  <1> QED
    BY <1>1

\* The recursive function that defines the fold exists.
LEMMA FoldExists ==
    ASSUME NEW F, NEW S, IsFiniteSet(S)
    PROVE  \E iter : Folding(iter, F, S)
  <1>1. ASSUME NEW s \in SUBSET S PROVE
          /\ IsFiniteSet(s) /\ Cardinality(s) \in Nat /\ Cardinality(s) <= Cardinality(S)
          /\ Cardinality(s) = 0 <=> s = {}
          /\ s # {} => Cardinality(s \ {Pick(s)}) = Cardinality(s) - 1
    BY PickMember, FS_Subset, FS_CardinalityType, FS_EmptySet, FS_RemoveElement
  <1> DEFINE B == {n \in Nat : ~ \E iter : FoldsUpTo(iter, F, S, n)}
  <1>2. 0 \notin B
    <2> DEFINE f == [s \in SUBSET S |-> 0]
    <2>1. ASSUME NEW s \in SUBSET S, Cardinality(s) <= 0 PROVE s = {} /\ f[s] = 0
      <3>1. Cardinality(s) \in Nat
        BY <1>1
      <3>2. Cardinality(s) = 0
        BY <2>1, <3>1
      <3> QED BY <1>1, <3>2
    <2> HIDE DEF f
    <2>2. FoldsUpTo(f, F, S, 0)
      BY <2>1 DEF FoldsUpTo
    <2> QED BY <2>2
  <1>3. ASSUME NEW n \in Nat, n # 0, n - 1 \notin B PROVE n \notin B
    <2>1. PICK g : FoldsUpTo(g, F, S, n - 1)
      BY <1>3
    <2> DEFINE f == [s \in SUBSET S |-> IF Cardinality(s) < n THEN g[s]
                       ELSE IF s = {} THEN 0 ELSE F[Pick(s)] + g[s \ {Pick(s)}]]
    <2>2. ASSUME NEW s \in SUBSET S, Cardinality(s) <= n
          PROVE  f[s] = IF s = {} THEN 0 ELSE F[Pick(s)] + f[s \ {Pick(s)}]
      <3>1. s # {} => f[s \ {Pick(s)}] = g[s \ {Pick(s)}]
        BY <1>1, <2>2, <1>3
      <3>2. CASE Cardinality(s) < n
        <4>0. Cardinality(s) \in Nat
          BY <1>1
        <4>1. Cardinality(s) <= n - 1
          BY <3>2, <4>0
        <4>2. g[s] = IF s = {} THEN 0 ELSE F[Pick(s)] + g[s \ {Pick(s)}]
          BY <2>1, <4>1 DEF FoldsUpTo
        <4>3. f[s] = g[s]
          BY <3>2
        <4> HIDE DEF f
        <4> QED BY <3>1, <4>2, <4>3
      <3>3. CASE ~(Cardinality(s) < n)
        <4>1. f[s] = IF s = {} THEN 0 ELSE F[Pick(s)] + g[s \ {Pick(s)}]
          BY <3>3
        <4> HIDE DEF f
        <4> QED BY <3>1, <4>1
      <3> QED BY <3>2, <3>3
    <2> HIDE DEF f
    <2>3. FoldsUpTo(f, F, S, n)
      BY <2>2 DEF FoldsUpTo
    <2> QED BY <2>3
  <1>4. B = {}
    <2> SUFFICES ASSUME B # {} PROVE FALSE
      OBVIOUS
    <2>1. B \in SUBSET Nat
      OBVIOUS
    <2> HIDE DEF B
    <2> QED BY <1>2, <1>3, <2>1, LeastNat
  <1>5. PICK g : FoldsUpTo(g, F, S, Cardinality(S))
    BY <1>1, <1>4
  <1> DEFINE f == [s \in SUBSET S |-> g[s]]
  <1>6. ASSUME NEW s \in SUBSET S
        PROVE  f[s] = IF s = {} THEN 0 ELSE F[Pick(s)] + f[s \ {Pick(s)}]
    BY <1>1, <1>5 DEF FoldsUpTo
  <1>7. f = [s \in SUBSET S |-> f[s]]
    OBVIOUS
  <1> HIDE DEF f
  <1>8. f = [s \in SUBSET S |-> IF s = {} THEN 0 ELSE F[Pick(s)] + f[s \ {Pick(s)}]]
    BY <1>6, <1>7
  <1> QED
    BY <1>8 DEF Folding

LEMMA FoldEquation ==
    ASSUME NEW F, NEW S, IsFiniteSet(S)
    PROVE  \E iter : Folding(iter, F, S) /\ SumFunctionOnSet(F, S) = iter[S]
  <1> DEFINE iter == CHOOSE iter : Folding(iter, F, S)
  <1>1. Folding(iter, F, S)
    BY FoldExists, Zenon
  <1>2. SumFunctionOnSet(F, S) = iter[S]
    BY SumIsFold, Zenon
  <1> QED
    BY <1>1, <1>2, Zenon

\* The folds of a set and of a subset agree on what they have in common.
LEMMA FoldsAgree ==
    ASSUME NEW F, NEW S, NEW T \in SUBSET S, IsFiniteSet(S),
           NEW f, Folding(f, F, S), NEW g, Folding(g, F, T)
    PROVE  f[T] = g[T]
  <1> DEFINE B == {U \in SUBSET T : f[U] # g[U]}
  <1>1. IsFiniteSet(T)
    BY FS_Subset
  <1>2. ASSUME NEW U \in SUBSET T, \A V \in SUBSET U : V # U => V \notin B
        PROVE  U \notin B
    <2>1. /\ f[U] = IF U = {} THEN 0 ELSE F[Pick(U)] + f[U \ {Pick(U)}]
          /\ g[U] = IF U = {} THEN 0 ELSE F[Pick(U)] + g[U \ {Pick(U)}]
      BY DEF Folding
    <2>2. CASE U # {}
      <3>1. U \ {Pick(U)} \in SUBSET U /\ U \ {Pick(U)} # U
        BY <2>2, PickMember
      <3>2. f[U \ {Pick(U)}] = g[U \ {Pick(U)}]
        BY <1>2, <3>1
      <3> QED BY <2>1, <3>2
    <2> QED BY <2>1, <2>2
  <1>3. B \in SUBSET SUBSET T
    OBVIOUS
  <1>4. B = {}
    <2> HIDE DEF B
    <2> QED BY <1>1, <1>2, <1>3, LeastSubset
  <1> QED
    BY <1>4

\* The recursive equation of a sum.
LEMMA SumEquation ==
    ASSUME NEW F, NEW S, IsFiniteSet(S)
    PROVE  SumFunctionOnSet(F, S) =
             IF S = {} THEN 0 ELSE F[Pick(S)] + SumFunctionOnSet(F, S \ {Pick(S)})
  <1>1. PICK f : Folding(f, F, S) /\ SumFunctionOnSet(F, S) = f[S]
    BY FoldEquation
  <1>2. f[S] = IF S = {} THEN 0 ELSE F[Pick(S)] + f[S \ {Pick(S)}]
    BY <1>1 DEF Folding
  <1> DEFINE T == S \ {Pick(S)}
  <1>3. IsFiniteSet(T)
    BY FS_RemoveElement
  <1>4. PICK g : Folding(g, F, T) /\ SumFunctionOnSet(F, T) = g[T]
    BY <1>3, FoldEquation
  <1>5. f[T] = g[T]
    BY <1>1, <1>4, FoldsAgree
  <1> QED
    BY <1>1, <1>2, <1>4, <1>5

LEMMA SumEmpty == \A F : SumFunctionOnSet(F, {}) = 0
  BY SumEquation, FS_EmptySet

\* A sum of natural numbers is a natural number.
LEMMA SumNat ==
    ASSUME NEW F, NEW S, IsFiniteSet(S), \A x \in S : F[x] \in Nat
    PROVE  SumFunctionOnSet(F, S) \in Nat
  <1> DEFINE B == {T \in SUBSET S : SumFunctionOnSet(F, T) \notin Nat}
  <1>1. ASSUME NEW T \in SUBSET S, \A U \in SUBSET T : U # T => U \notin B
        PROVE  T \notin B
    <2>1. IsFiniteSet(T)
      BY FS_Subset
    <2>2. SumFunctionOnSet(F, T) = IF T = {} THEN 0 ELSE F[Pick(T)] + SumFunctionOnSet(F, T \ {Pick(T)})
      BY <2>1, SumEquation
    <2>3. CASE T # {}
      <3>1. Pick(T) \in T
        BY <2>3, PickMember
      <3>2. SumFunctionOnSet(F, T \ {Pick(T)}) \in Nat
        BY <1>1, <3>1
      <3>3. F[Pick(T)] \in Nat
        BY <3>1
      <3> QED BY <2>2, <2>3, <3>2, <3>3
    <2> QED BY <2>2, <2>3
  <1>2. B \in SUBSET SUBSET S
    OBVIOUS
  <1>3. B = {}
    <2> HIDE DEF B
    <2> QED BY <1>1, <1>2, LeastSubset
  <1> QED
    BY <1>3

\* Any element may be taken out of a sum.
LEMMA SumRemove ==
    ASSUME NEW F, NEW S, IsFiniteSet(S), \A x \in S : F[x] \in Nat, NEW e \in S
    PROVE  SumFunctionOnSet(F, S) = F[e] + SumFunctionOnSet(F, S \ {e})
  <1> DEFINE Sum(T) == SumFunctionOnSet(F, T)
             B == {T \in SUBSET S : \E x \in T : Sum(T) # F[x] + Sum(T \ {x})}
  <1>0. \A T \in SUBSET S : IsFiniteSet(T) /\ Sum(T) \in Nat
    <2> SUFFICES ASSUME NEW T \in SUBSET S PROVE IsFiniteSet(T) /\ Sum(T) \in Nat
      OBVIOUS
    <2>1. IsFiniteSet(T)
      BY FS_Subset
    <2> QED BY <2>1, SumNat
  <1>1. ASSUME NEW T \in SUBSET S, \A U \in SUBSET T : U # T => U \notin B
        PROVE  T \notin B
    <2> SUFFICES ASSUME NEW x \in T PROVE Sum(T) = F[x] + Sum(T \ {x})
      OBVIOUS
    <2> DEFINE p == Pick(T)
    <2>1. p \in T
      BY PickMember
    <2>2. Sum(T) = F[p] + Sum(T \ {p})
      BY <1>0, SumEquation
    <2> HIDE DEF p, Sum
    <2>3. CASE x # p
      <3>1. Sum(T \ {p}) = F[x] + Sum((T \ {p}) \ {x})
        BY <1>1, <2>1, <2>3
      <3>2. Sum(T \ {x}) = F[p] + Sum((T \ {x}) \ {p})
        BY <1>1, <2>1, <2>3
      <3>3. (T \ {x}) \ {p} = (T \ {p}) \ {x}
        OBVIOUS
      <3>4. Sum((T \ {p}) \ {x}) \in Nat /\ F[x] \in Nat /\ F[p] \in Nat
        BY <1>0, <2>1
      <3> QED BY <2>2, <3>1, <3>2, <3>3, <3>4
    <2> QED BY <2>2, <2>3
  <1>2. B \in SUBSET SUBSET S
    OBVIOUS
  <1>3. B = {}
    <2> HIDE DEF B
    <2> QED BY <1>1, <1>2, LeastSubset
  <1>4. S \notin B
    BY <1>3
  <1> QED
    BY <1>4

\* Only the values at the indexes matter.
LEMMA SumSame ==
    ASSUME NEW F, NEW G, NEW S, IsFiniteSet(S), \A x \in S : F[x] = G[x]
    PROVE  SumFunctionOnSet(F, S) = SumFunctionOnSet(G, S)
  <1> DEFINE B == {T \in SUBSET S : SumFunctionOnSet(F, T) # SumFunctionOnSet(G, T)}
  <1>1. ASSUME NEW T \in SUBSET S, \A U \in SUBSET T : U # T => U \notin B
        PROVE  T \notin B
    <2>1. IsFiniteSet(T)
      BY FS_Subset
    <2>2. \A H \in {F, G} : SumFunctionOnSet(H, T) =
            IF T = {} THEN 0 ELSE H[Pick(T)] + SumFunctionOnSet(H, T \ {Pick(T)})
      BY <2>1, SumEquation
    <2>3. CASE T # {}
      <3>1. Pick(T) \in T
        BY <2>3, PickMember
      <3>2. SumFunctionOnSet(F, T \ {Pick(T)}) = SumFunctionOnSet(G, T \ {Pick(T)})
        BY <1>1, <3>1
      <3> QED BY <2>2, <3>1, <3>2
    <2> QED BY <2>2, <2>3
  <1>2. B \in SUBSET SUBSET S
    OBVIOUS
  <1>3. B = {}
    <2> HIDE DEF B
    <2> QED BY <1>1, <1>2, LeastSubset
  <1> QED
    BY <1>3

\* A change at one index changes the sum by the difference.
LEMMA SumChange ==
    ASSUME NEW F, NEW G, NEW S, IsFiniteSet(S), NEW e \in S,
           \A x \in S : F[x] \in Nat /\ G[x] \in Nat,
           \A x \in S : x # e => F[x] = G[x]
    PROVE  SumFunctionOnSet(G, S) = SumFunctionOnSet(F, S) - F[e] + G[e]
  <1>1. IsFiniteSet(S \ {e})
    BY FS_RemoveElement
  <1>2. SumFunctionOnSet(F, S \ {e}) = SumFunctionOnSet(G, S \ {e})
    BY <1>1, SumSame
  <1>3. /\ SumFunctionOnSet(F, S) = F[e] + SumFunctionOnSet(F, S \ {e})
        /\ SumFunctionOnSet(G, S) = G[e] + SumFunctionOnSet(G, S \ {e})
    BY SumRemove
  <1>4. SumFunctionOnSet(F, S \ {e}) \in Nat
    BY <1>1, SumNat
  <1> QED
    BY <1>2, <1>3, <1>4

\* A sum of nothing but zeros is zero.
LEMMA SumZero ==
    ASSUME NEW F, NEW S, IsFiniteSet(S), \A x \in S : F[x] = 0
    PROVE  SumFunctionOnSet(F, S) = 0
  <1> DEFINE B == {T \in SUBSET S : SumFunctionOnSet(F, T) # 0}
  <1>1. ASSUME NEW T \in SUBSET S, \A U \in SUBSET T : U # T => U \notin B
        PROVE  T \notin B
    <2>1. IsFiniteSet(T)
      BY FS_Subset
    <2>2. SumFunctionOnSet(F, T) = IF T = {} THEN 0 ELSE F[Pick(T)] + SumFunctionOnSet(F, T \ {Pick(T)})
      BY <2>1, SumEquation
    <2>3. CASE T # {}
      <3>1. Pick(T) \in T
        BY <2>3, PickMember
      <3>2. SumFunctionOnSet(F, T \ {Pick(T)}) = 0 /\ F[Pick(T)] = 0
        BY <1>1, <3>1
      <3> QED BY <2>2, <2>3, <3>2
    <2> QED BY <2>2, <2>3
  <1>2. B \in SUBSET SUBSET S
    OBVIOUS
  <1>3. B = {}
    <2> HIDE DEF B
    <2> QED BY <1>1, <1>2, LeastSubset
  <1> QED
    BY <1>3

\* A sum grows with its terms.
LEMMA SumMonotone ==
    ASSUME NEW F, NEW G, NEW S, IsFiniteSet(S),
           \A x \in S : F[x] \in Nat /\ G[x] \in Nat /\ F[x] <= G[x]
    PROVE  SumFunctionOnSet(F, S) <= SumFunctionOnSet(G, S)
  <1> DEFINE B == {T \in SUBSET S : ~(SumFunctionOnSet(F, T) <= SumFunctionOnSet(G, T))}
  <1>1. ASSUME NEW T \in SUBSET S, \A U \in SUBSET T : U # T => U \notin B
        PROVE  T \notin B
    <2>1. IsFiniteSet(T)
      BY FS_Subset
    <2>2. CASE T # {}
      <3>1. Pick(T) \in T /\ F[Pick(T)] \in Nat /\ G[Pick(T)] \in Nat /\ F[Pick(T)] <= G[Pick(T)]
        BY <2>2, PickMember
      <3> DEFINE U == T \ {Pick(T)}
      <3>2. IsFiniteSet(U)
        BY <2>1, FS_RemoveElement
      <3>3. SumFunctionOnSet(F, U) \in Nat /\ SumFunctionOnSet(G, U) \in Nat
        BY <3>2, SumNat
      <3>4. SumFunctionOnSet(F, U) <= SumFunctionOnSet(G, U)
        BY <1>1, <3>1
      <3>5. /\ SumFunctionOnSet(F, T) = F[Pick(T)] + SumFunctionOnSet(F, U)
            /\ SumFunctionOnSet(G, T) = G[Pick(T)] + SumFunctionOnSet(G, U)
        BY <2>1, <2>2, SumEquation
      <3> HIDE DEF U
      <3> QED BY <3>1, <3>3, <3>4, <3>5
    <2>3. CASE T = {}
      BY <2>3, SumEmpty
    <2> QED BY <2>2, <2>3
  <1>2. B \in SUBSET SUBSET S
    OBVIOUS
  <1>3. B = {}
    <2> HIDE DEF B
    <2> QED BY <1>1, <1>2, LeastSubset
  <1> QED
    BY <1>3

\* The sum of the sums of two functions.
LEMMA SumPlus ==
    ASSUME NEW F, NEW G, NEW H, NEW S, IsFiniteSet(S),
           \A x \in S : F[x] \in Nat /\ G[x] \in Nat /\ H[x] = F[x] + G[x]
    PROVE  SumFunctionOnSet(H, S) = SumFunctionOnSet(F, S) + SumFunctionOnSet(G, S)
  <1> DEFINE Sum(A, T) == SumFunctionOnSet(A, T)
             B == {T \in SUBSET S : Sum(H, T) # Sum(F, T) + Sum(G, T)}
  <1>1. ASSUME NEW T \in SUBSET S, \A U \in SUBSET T : U # T => U \notin B
        PROVE  T \notin B
    <2>1. IsFiniteSet(T)
      BY FS_Subset
    <2>2. CASE T # {}
      <3> DEFINE p == Pick(T)
                 U == T \ {p}
      <3>1. p \in T /\ F[p] \in Nat /\ G[p] \in Nat /\ H[p] = F[p] + G[p]
        BY <2>2, PickMember
      <3>2. IsFiniteSet(U)
        BY <2>1, FS_RemoveElement
      <3>3. Sum(F, U) \in Nat /\ Sum(G, U) \in Nat
        BY <3>2, SumNat
      <3>4. Sum(F, T) = F[p] + Sum(F, U) /\ Sum(G, T) = G[p] + Sum(G, U) /\ Sum(H, T) = H[p] + Sum(H, U)
        BY <2>1, <2>2, SumEquation
      <3>5. Sum(H, U) = Sum(F, U) + Sum(G, U)
        BY <1>1, <3>1
      <3> HIDE DEF Sum, p, U
      <3> QED BY <3>1, <3>3, <3>4, <3>5
    <2>3. CASE T = {}
      BY <2>3, SumEmpty
    <2> QED BY <2>2, <2>3
  <1>2. B \in SUBSET SUBSET S
    OBVIOUS
  <1>3. B = {}
    <2> HIDE DEF B
    <2> QED BY <1>1, <1>2, LeastSubset
  <1> QED
    BY <1>3
=============================================================================
