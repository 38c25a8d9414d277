-------------------------- MODULE FiniteDataProofs -------------------------
(***************************************************************************)
(* Facts about finite data that the proofs of several components rest on:  *)
(* the smallest set of a family, the sum of a function over a finite set.  *)
(* The library's induction theorems take the property as an operator; here *)
(* an induction is an argument about a smallest counterexample, which is a *)
(* member of a set and needs none.                                         *)
(***************************************************************************)
EXTENDS Lists, SequencesExt, FiniteSetTheorems, FunctionTheorems,
        WellFoundedInduction, TLAPS

(* A family of subsets of a finite set has a smallest member.              *)
LEMMA SmallestSet ==
  ASSUME NEW D, IsFiniteSet(D), NEW F \in SUBSET (SUBSET D), F # {}
  PROVE  \E s \in F : \A u \in F : u \subseteq s => u = s
  <1>1. FiniteSubsetsOf(D) = SUBSET D
    BY FS_FiniteSubsetsOfFinite
  <1>2. IsWellFoundedOn(StrictSubsetOrdering(D), FiniteSubsetsOf(D))
    BY FS_StrictSubsetOrderingWellFounded
  <1>3. F \subseteq FiniteSubsetsOf(D)
    BY <1>1
  <1>4. PICK s \in F : \A u \in F : ~ (<<u, s>> \in StrictSubsetOrdering(D))
    BY <1>2, <1>3, WFMin
  <1>5. ASSUME NEW u \in F, u \subseteq s, u # s PROVE FALSE
    <2>1. u \in SUBSET D /\ s \in SUBSET D
      OBVIOUS
    <2>2. <<u, s>> \in StrictSubsetOrdering(D)
      BY <1>5, <2>1 DEF StrictSubsetOrdering
    <2> QED BY <1>4, <2>2
  <1> QED BY <1>4, <1>5

-----------------------------------------------------------------------------
(* Sums.  SumFunctionOnSet folds over the set by picking a member, adding  *)
(* its value and going on with the rest.  OnSubsets is the equation of the *)
(* function on the subsets of S by which the library defines the fold.     *)
Pick(s) == CHOOSE x \in s : TRUE

OnSubsets(f, iter, S) ==
    iter = [s \in SUBSET S |-> IF s = {} THEN 0 ELSE f[Pick(s)] + iter[s \ {Pick(s)}]]

Folded(f, S) == CHOOSE iter : OnSubsets(f, iter, S)

LEMMA SumUnfolded ==
  ASSUME NEW f, NEW S PROVE SumFunctionOnSet(f, S) = Folded(f, S)[S]
  BY DEF SumFunctionOnSet, FoldFunctionOnSet, MapThenFoldSet, Folded, OnSubsets, Pick

LEMMA PickIsMember == ASSUME NEW s, s # {} PROVE Pick(s) \in s
  BY DEF Pick

(* Two solutions agree where both are defined.                             *)
LEMMA SolutionsAgree ==
  ASSUME NEW f, NEW S, IsFiniteSet(S), NEW T \in SUBSET S,
         NEW g, OnSubsets(f, g, T), NEW h, OnSubsets(f, h, S)
  PROVE  \A u \in SUBSET T : g[u] = h[u]
  <1> DEFINE F == {u \in SUBSET T : g[u] # h[u]}
  <1> SUFFICES ASSUME F # {} PROVE FALSE
    OBVIOUS
  <1>0. IsFiniteSet(T)
    BY FS_Subset
  <1>1. PICK u \in F : \A v \in F : v \subseteq u => v = u
    <2>1. F \in SUBSET (SUBSET T)
      OBVIOUS
    <2> HIDE DEF F
    <2> QED BY <1>0, <2>1, SmallestSet
  <1>2. /\ g[u] = IF u = {} THEN 0 ELSE f[Pick(u)] + g[u \ {Pick(u)}]
        /\ h[u] = IF u = {} THEN 0 ELSE f[Pick(u)] + h[u \ {Pick(u)}]
    <2>1. u \in SUBSET T /\ u \in SUBSET S
      OBVIOUS
    <2> QED BY <2>1 DEF OnSubsets
  <1>3. u # {}
    BY <1>2
  <1>4. u \ {Pick(u)} \in SUBSET T /\ u \ {Pick(u)} # u
    BY <1>3, PickIsMember
  <1>5. g[u \ {Pick(u)}] = h[u \ {Pick(u)}]
    BY <1>1, <1>4
  <1> QED BY <1>2, <1>3, <1>5

(* There is a solution on the subsets of every finite set, and the sums    *)
(* are its values.                                                         *)
LEMMA SolutionExists ==
  ASSUME NEW f, NEW D, IsFiniteSet(D) PROVE OnSubsets(f, Folded(f, D), D)
  <1> DEFINE F == {s \in SUBSET D : ~ OnSubsets(f, Folded(f, s), s)}
  <1> SUFFICES F = {}
    OBVIOUS
  <1> SUFFICES ASSUME F # {} PROVE FALSE
    OBVIOUS
  <1>1. PICK s \in F : \A u \in F : u \subseteq s => u = s
    <2>1. F \in SUBSET (SUBSET D)
      OBVIOUS
    <2> HIDE DEF F
    <2> QED BY <2>1, SmallestSet
  <1>2. \A u \in SUBSET s : u # s => OnSubsets(f, Folded(f, u), u)
    BY <1>1
  <1> DEFINE V(u) == Folded(f, u)[u]
             g == [u \in SUBSET s |->
                     IF u = {} THEN 0 ELSE f[Pick(u)] + V(u \ {Pick(u)})]
  <1>3. ASSUME NEW u \in SUBSET s, u # s PROVE g[u] = V(u)
    <2>0. IsFiniteSet(u)
      BY FS_Subset
    <2>1. V(u) = IF u = {} THEN 0
                 ELSE f[Pick(u)] + Folded(f, u)[u \ {Pick(u)}]
      BY <1>2, <1>3 DEF OnSubsets
    <2>2. ASSUME u # {} PROVE Folded(f, u)[u \ {Pick(u)}] = V(u \ {Pick(u)})
      <3>1. u \ {Pick(u)} \in SUBSET u /\ u \ {Pick(u)} # s
            /\ u \ {Pick(u)} \in SUBSET s
        BY <1>3, <2>2, PickIsMember
      <3>2. OnSubsets(f, Folded(f, u \ {Pick(u)}), u \ {Pick(u)})
            /\ OnSubsets(f, Folded(f, u), u)
        BY <1>2, <1>3, <3>1
      <3> QED BY <2>0, <3>1, <3>2, SolutionsAgree
    <2> QED BY <2>1, <2>2
  <1>4. OnSubsets(f, g, s)
    <2>1. ASSUME NEW u \in SUBSET s, u # {}
          PROVE  g[u \ {Pick(u)}] = V(u \ {Pick(u)})
      BY <1>3, <2>1, PickIsMember
    <2> HIDE DEF V
    <2>2. g = [u \in SUBSET s |->
                 IF u = {} THEN 0 ELSE f[Pick(u)] + g[u \ {Pick(u)}]]
      BY <2>1
    <2> QED BY <2>2 DEF OnSubsets
  <1>5. OnSubsets(f, Folded(f, s), s)
    <2> HIDE DEF g
    <2> QED BY <1>4 DEF Folded
  <1> QED BY <1>5

(* The sum over a set, by its picked member.                               *)
LEMMA SumByPick ==
  ASSUME NEW f, NEW S, IsFiniteSet(S)
  PROVE  SumFunctionOnSet(f, S) =
            IF S = {} THEN 0
            ELSE f[Pick(S)] + SumFunctionOnSet(f, S \ {Pick(S)})
  <1>1. OnSubsets(f, Folded(f, S), S)
    BY SolutionExists
  <1>2. Folded(f, S)[S] = IF S = {} THEN 0
                          ELSE f[Pick(S)] + Folded(f, S)[S \ {Pick(S)}]
    <2>1. S \in SUBSET S
      OBVIOUS
    <2> QED BY <1>1, <2>1 DEF OnSubsets
  <1>3. Folded(f, S)[S \ {Pick(S)}] = Folded(f, S \ {Pick(S)})[S \ {Pick(S)}]
    <2>1. IsFiniteSet(S \ {Pick(S)}) /\ S \ {Pick(S)} \in SUBSET S
      BY FS_RemoveElement
    <2>2. OnSubsets(f, Folded(f, S \ {Pick(S)}), S \ {Pick(S)})
      BY <2>1, SolutionExists
    <2> QED BY <1>1, <2>1, <2>2, SolutionsAgree
  <1> QED BY <1>2, <1>3, SumUnfolded

(* The sum over no elements.                                               *)
LEMMA SumEmpty == ASSUME NEW f PROVE SumFunctionOnSet(f, {}) = 0
  BY SumByPick, FS_EmptySet

(* A sum of naturals is a natural.                                         *)
LEMMA SumType ==
  ASSUME NEW f, NEW S, IsFiniteSet(S), \A x \in S : f[x] \in Nat
  PROVE  SumFunctionOnSet(f, S) \in Nat
  <1> DEFINE F == {s \in SUBSET S : SumFunctionOnSet(f, s) \notin Nat}
  <1> SUFFICES ASSUME F # {} PROVE FALSE
    OBVIOUS
  <1>1. PICK s \in F : \A u \in F : u \subseteq s => u = s
    <2>1. F \in SUBSET (SUBSET S)
      OBVIOUS
    <2> HIDE DEF F
    <2> QED BY <2>1, SmallestSet
  <1>2. IsFiniteSet(s)
    BY FS_Subset
  <1>3. SumFunctionOnSet(f, s) =
          IF s = {} THEN 0 ELSE f[Pick(s)] + SumFunctionOnSet(f, s \ {Pick(s)})
    BY <1>2, SumByPick
  <1>4. s # {}
    BY <1>3
  <1>5. SumFunctionOnSet(f, s \ {Pick(s)}) \in Nat /\ f[Pick(s)] \in Nat
    <2>1. s \ {Pick(s)} # s /\ Pick(s) \in s /\ s \ {Pick(s)} \in SUBSET S
      BY <1>4, PickIsMember
    <2> QED BY <1>1, <2>1
  <1>6. SumFunctionOnSet(f, s) \in Nat
    BY <1>3, <1>4, <1>5
  <1> QED BY <1>6

(* Any member may be taken out first.                                      *)
LEMMA SumByMember ==
  ASSUME NEW f, NEW S, IsFiniteSet(S), \A x \in S : f[x] \in Nat, NEW y \in S
  PROVE  SumFunctionOnSet(f, S) = f[y] + SumFunctionOnSet(f, S \ {y})
  <1> DEFINE F == {s \in SUBSET S :
                     \E x \in s : SumFunctionOnSet(f, s)
                                    # f[x] + SumFunctionOnSet(f, s \ {x})}
  <1> SUFFICES ASSUME F # {} PROVE FALSE
    OBVIOUS
  <1>1. PICK s \in F : \A u \in F : u \subseteq s => u = s
    <2>1. F \in SUBSET (SUBSET S)
      OBVIOUS
    <2> HIDE DEF F
    <2> QED BY <2>1, SmallestSet
  <1>2. PICK x \in s : SumFunctionOnSet(f, s)
                         # f[x] + SumFunctionOnSet(f, s \ {x})
    OBVIOUS
  <1>3. \A u \in SUBSET s : u # s =>
           \A z \in u : SumFunctionOnSet(f, u)
                          = f[z] + SumFunctionOnSet(f, u \ {z})
    BY <1>1
  <1> DEFINE p == Pick(s)
  <1>4. p \in s /\ IsFiniteSet(s)
    BY <1>2, PickIsMember, FS_Subset
  <1>5. SumFunctionOnSet(f, s) = f[p] + SumFunctionOnSet(f, s \ {p})
    BY <1>4, SumByPick
  <1> HIDE DEF F, p
  <1>6. x # p
    BY <1>2, <1>5
  <1>7. /\ SumFunctionOnSet(f, s \ {p})
             = f[x] + SumFunctionOnSet(f, (s \ {p}) \ {x})
        /\ SumFunctionOnSet(f, s \ {x})
             = f[p] + SumFunctionOnSet(f, (s \ {x}) \ {p})
    <2>1. /\ s \ {p} \in SUBSET s /\ s \ {p} # s /\ x \in s \ {p}
          /\ s \ {x} \in SUBSET s /\ s \ {x} # s /\ p \in s \ {x}
      BY <1>4, <1>6
    <2> QED BY <1>3, <2>1
  <1>8. (s \ {p}) \ {x} = (s \ {x}) \ {p}
    OBVIOUS
  <1>9. /\ SumFunctionOnSet(f, (s \ {x}) \ {p}) \in Nat
        /\ f[x] \in Nat /\ f[p] \in Nat
    <2>1. (s \ {x}) \ {p} \in SUBSET S /\ x \in S /\ p \in S
      BY <1>1, <1>4 DEF F
    <2>2. IsFiniteSet((s \ {x}) \ {p})
      BY <2>1, FS_Subset
    <2> QED BY <2>1, <2>2, SumType
  <1> QED BY <1>2, <1>5, <1>7, <1>8, <1>9

(* The sum only depends on the values at the members.                      *)
LEMMA SumOfSame ==
  ASSUME NEW f, NEW g, NEW S, IsFiniteSet(S), \A x \in S : f[x] = g[x]
  PROVE  SumFunctionOnSet(f, S) = SumFunctionOnSet(g, S)
  <1> DEFINE F == {s \in SUBSET S :
                     SumFunctionOnSet(f, s) # SumFunctionOnSet(g, s)}
  <1> SUFFICES ASSUME F # {} PROVE FALSE
    OBVIOUS
  <1>1. PICK s \in F : \A u \in F : u \subseteq s => u = s
    <2>1. F \in SUBSET (SUBSET S)
      OBVIOUS
    <2> HIDE DEF F
    <2> QED BY <2>1, SmallestSet
  <1>2. IsFiniteSet(s)
    BY FS_Subset
  <1>3. /\ SumFunctionOnSet(f, s) =
             IF s = {} THEN 0 ELSE f[Pick(s)] + SumFunctionOnSet(f, s \ {Pick(s)})
        /\ SumFunctionOnSet(g, s) =
             IF s = {} THEN 0 ELSE g[Pick(s)] + SumFunctionOnSet(g, s \ {Pick(s)})
    BY <1>2, SumByPick
  <1>4. s # {}
    BY <1>3
  <1>5. /\ SumFunctionOnSet(f, s \ {Pick(s)}) = SumFunctionOnSet(g, s \ {Pick(s)})
        /\ f[Pick(s)] = g[Pick(s)]
    <2>1. s \ {Pick(s)} # s /\ Pick(s) \in s /\ s \ {Pick(s)} \in SUBSET S
      BY <1>4, PickIsMember
    <2> QED BY <1>1, <2>1
  <1> QED BY <1>3, <1>4, <1>5

(* The sum of sums.                                                        *)
LEMMA SumOfSums ==
  ASSUME NEW f, NEW g, NEW h, NEW S, IsFiniteSet(S),
         \A x \in S : f[x] \in Nat /\ g[x] \in Nat /\ h[x] = f[x] + g[x]
  PROVE  SumFunctionOnSet(h, S) = SumFunctionOnSet(f, S) + SumFunctionOnSet(g, S)
  <1> DEFINE F == {s \in SUBSET S : SumFunctionOnSet(h, s)
                     # SumFunctionOnSet(f, s) + SumFunctionOnSet(g, s)}
  <1> SUFFICES ASSUME F # {} PROVE FALSE
    OBVIOUS
  <1>1. PICK s \in F : \A u \in F : u \subseteq s => u = s
    <2>1. F \in SUBSET (SUBSET S)
      OBVIOUS
    <2> HIDE DEF F
    <2> QED BY <2>1, SmallestSet
  <1>2. s # {}
    <2>1. /\ SumFunctionOnSet(f, {}) = 0
          /\ SumFunctionOnSet(g, {}) = 0
          /\ SumFunctionOnSet(h, {}) = 0
      BY SumEmpty
    <2>2. SumFunctionOnSet(h, {}) = SumFunctionOnSet(f, {}) + SumFunctionOnSet(g, {})
      BY <2>1
    <2>3. {} \notin F
      BY <2>2
    <2> HIDE DEF F
    <2> QED BY <2>3
  <1> DEFINE p == Pick(s)
             t == s \ {p}
  <1>3. /\ SumFunctionOnSet(f, s) = f[p] + SumFunctionOnSet(f, t)
        /\ SumFunctionOnSet(g, s) = g[p] + SumFunctionOnSet(g, t)
        /\ SumFunctionOnSet(h, s) = h[p] + SumFunctionOnSet(h, t)
    BY <1>2, FS_Subset, SumByPick
  <1>4. p \in s /\ t \in SUBSET S /\ t # s
    BY <1>2, PickIsMember
  <1>5. SumFunctionOnSet(h, t) = SumFunctionOnSet(f, t) + SumFunctionOnSet(g, t)
    BY <1>1, <1>4
  <1>6. SumFunctionOnSet(f, t) \in Nat /\ SumFunctionOnSet(g, t) \in Nat
    BY <1>4, FS_Subset, SumType
  <1>7. f[p] \in Nat /\ g[p] \in Nat /\ h[p] = f[p] + g[p]
    BY <1>4
  <1>8. SumFunctionOnSet(h, s) # SumFunctionOnSet(f, s) + SumFunctionOnSet(g, s)
    OBVIOUS
  <1> HIDE DEF F, p, t
  <1> QED BY <1>3, <1>5, <1>6, <1>7, <1>8

(* The sum of nothing but zeros.                                           *)
LEMMA SumOfZeros ==
  ASSUME NEW f, NEW S, IsFiniteSet(S), \A x \in S : f[x] = 0
  PROVE  SumFunctionOnSet(f, S) = 0
  <1>1. SumFunctionOnSet(f, S) \in Nat
    BY SumType
  <1>2. SumFunctionOnSet(f, S) = SumFunctionOnSet(f, S) + SumFunctionOnSet(f, S)
    BY SumOfSums
  <1>3. ASSUME NEW n \in Nat, n = n + n PROVE n = 0
    BY <1>3
  <1> QED BY ONLY <1>1, <1>2, <1>3

(* Counting a set kind by kind counts the members of these kinds.          *)
OfKinds(D, kind, kinds) == {i \in D : kind[i] \in kinds}

LEMMA SumOfCounts ==
  ASSUME NEW f, NEW S, NEW D, NEW kind, IsFiniteSet(S), IsFiniteSet(D),
         \A x \in S : f[x] = Cardinality(OfKinds(D, kind, {x}))
  PROVE  SumFunctionOnSet(f, S) = Cardinality(OfKinds(D, kind, S))
  <1> DEFINE Of(s) == OfKinds(D, kind, s)
             F == {s \in SUBSET S : SumFunctionOnSet(f, s) # Cardinality(Of(s))}
  <1> SUFFICES ASSUME F # {} PROVE FALSE
    OBVIOUS
  <1>1. PICK s \in F : \A u \in F : u \subseteq s => u = s
    <2>1. F \in SUBSET (SUBSET S)
      OBVIOUS
    <2> HIDE DEF F
    <2> QED BY <2>1, SmallestSet
  <1>2. s # {}
    <2>1. Of({}) = {}
      BY DEF OfKinds
    <2> QED BY <2>1, SumEmpty, FS_EmptySet
  <1> DEFINE p == Pick(s)
             t == s \ {p}
  <1>3. SumFunctionOnSet(f, s) = f[p] + SumFunctionOnSet(f, t)
    BY <1>2, FS_Subset, SumByPick
  <1>4. p \in s /\ p \in S /\ t \in SUBSET S /\ t # s
    BY <1>2, PickIsMember
  <1>5. SumFunctionOnSet(f, t) = Cardinality(Of(t)) /\ f[p] = Cardinality(Of({p}))
    BY <1>1, <1>4
  <1>6. Of(s) = Of({p}) \cup Of(t) /\ Of({p}) \cap Of(t) = {}
    BY <1>4 DEF OfKinds
  <1>7. IsFiniteSet(Of({p})) /\ IsFiniteSet(Of(t))
    BY FS_Subset DEF OfKinds
  <1>8. SumFunctionOnSet(f, s) # Cardinality(Of(s))
    OBVIOUS
  <1> HIDE DEF F, p, t, Of
  <1>9. Cardinality(Of(s)) = Cardinality(Of({p})) + Cardinality(Of(t)) - Cardinality({})
    <2>1. ASSUME NEW A, NEW B, IsFiniteSet(A), IsFiniteSet(B), A \cap B = {}
          PROVE  Cardinality(A \cup B) = Cardinality(A) + Cardinality(B) - Cardinality({})
      BY <2>1, FS_Union
    <2> QED BY ONLY <1>6, <1>7, <2>1
  <1>10. Cardinality(Of({p})) \in Nat /\ Cardinality(Of(t)) \in Nat
    BY <1>7, FS_CardinalityType
  <1> QED BY <1>3, <1>5, <1>8, <1>9, <1>10, FS_EmptySet

CountsOf(D, kind, kinds) == [x \in kinds |-> Cardinality(OfKinds(D, kind, {x}))]

(* When every member is of one of the kinds, the counts add up to all.     *)
LEMMA CountsAddUp ==
  ASSUME NEW D, NEW kind, NEW S, IsFiniteSet(S), IsFiniteSet(D),
         \A i \in D : kind[i] \in S
  PROVE  SumFunctionOnSet(CountsOf(D, kind, S), S) = Cardinality(D)
  <1> DEFINE f == CountsOf(D, kind, S)
  <1>1. \A x \in S : f[x] = Cardinality(OfKinds(D, kind, {x}))
    BY DEF CountsOf
  <1>2. OfKinds(D, kind, S) = D
    BY DEF OfKinds
  <1> HIDE DEF f
  <1>3. SumFunctionOnSet(f, S) = Cardinality(OfKinds(D, kind, S))
    BY <1>1, SumOfCounts
  <1> QED BY <1>2, <1>3 DEF f

-----------------------------------------------------------------------------
(* Lists. *)

(* The ranks in a finite set of indices are 1 to its size, in order.       *)
LEMMA RankFacts ==
  ASSUME NEW n \in Nat, NEW kept \in SUBSET (1 .. n)
  PROVE  /\ IsFiniteSet(kept)
         /\ Cardinality(kept) \in Nat
         /\ Cardinality(kept) <= n
         /\ \A i \in kept : Rank(i, kept) \in 1 .. Cardinality(kept)
         /\ \A i, j \in kept : Rank(i, kept) = Rank(j, kept) => i = j
         /\ \A k \in 1 .. Cardinality(kept) : \E i \in kept : Rank(i, kept) = k
  <1> DEFINE Upto(i) == {j \in kept : j <= i}
             c == Cardinality(kept)
  <1>1. IsFiniteSet(kept) /\ c \in Nat /\ c <= n
    <2>1. IsFiniteSet(1 .. n) /\ Cardinality(1 .. n) = n
      BY FS_Interval
    <2> QED BY <2>1, FS_Subset, FS_CardinalityType
  <1>2. \A i \in kept : /\ IsFiniteSet(Upto(i))
                        /\ Rank(i, kept) = Cardinality(Upto(i))
                        /\ Rank(i, kept) \in Nat
                        /\ Rank(i, kept) <= c
    BY <1>1, FS_Subset, FS_CardinalityType DEF Rank
  <1>3. \A i \in kept : Rank(i, kept) \in 1 .. c
    <2>1. ASSUME NEW i \in kept PROVE Rank(i, kept) # 0
      <3>1. i \in Upto(i)
        OBVIOUS
      <3> QED BY <1>2, <3>1, FS_EmptySet
    <2> HIDE DEF c, Upto
    <2>2. ASSUME NEW i \in kept PROVE Rank(i, kept) \in 1 .. c
      BY <1>1, <1>2, <2>1
    <2> QED BY <2>2
  <1>4. \A i, j \in kept : i < j => Rank(i, kept) # Rank(j, kept)
    <2> SUFFICES ASSUME NEW i \in kept, NEW j \in kept, i < j
                 PROVE  Rank(i, kept) # Rank(j, kept)
      OBVIOUS
    <2>0. \A k \in kept : k \in Int
      OBVIOUS
    <2>1. Upto(i) \in SUBSET Upto(j) /\ j \in Upto(j) /\ j \notin Upto(i)
      <3>1. i \in Int /\ j \in Int /\ ~ (j <= i) /\ j <= j
        BY <2>0
      <3>2. \A k \in kept : k <= i => k <= j
        BY <2>0
      <3> QED BY <3>1, <3>2
    <2> HIDE DEF Upto
    <2> QED BY <1>2, <2>1, FS_Subset
  <1>5. \A i, j \in kept : Rank(i, kept) = Rank(j, kept) => i = j
    <2> SUFFICES ASSUME NEW i \in kept, NEW j \in kept, i # j
                 PROVE  Rank(i, kept) # Rank(j, kept)
      OBVIOUS
    <2>1. i < j \/ j < i
      OBVIOUS
    <2> QED BY <1>4, <2>1
  <1>6. \A k \in 1 .. c : \E i \in kept : Rank(i, kept) = k
    <2> DEFINE f == [i \in kept |-> Rank(i, kept)]
    <2>1. f \in Injection(kept, 1 .. c)
      BY <1>3, <1>5 DEF Injection, IsInjective
    <2>2. IsFiniteSet(1 .. c) /\ Cardinality(1 .. c) = c
      BY <1>1, FS_Interval
    <2>3. f \in Surjection(kept, 1 .. c)
      <3> HIDE DEF f
      <3> QED BY <2>1, <2>2, FS_Injection
    <2>4. \A k \in 1 .. c : \E i \in kept : f[i] = k
      <3> HIDE DEF f
      <3> QED BY <2>3 DEF Surjection
    <2> QED BY <2>4
  <1> QED BY <1>1, <1>3, <1>5, <1>6

(* What is kept of a list is a list of what was at the indices kept.       *)
LEMMA KeepFacts ==
  ASSUME NEW S, NEW list \in Seq(S), NEW kept \in SUBSET DOMAIN list, NEW T,
         \A i \in kept : list[i] \in T
  PROVE  /\ Keep(list, kept) \in Seq(T)
         /\ Len(Keep(list, kept)) = Cardinality(kept)
         /\ Cardinality(kept) \in 0 .. Len(list)
         /\ ToSet(Keep(list, kept)) = {list[i] : i \in kept}
         /\ IsInjective(list) => IsInjective(Keep(list, kept))
  <1> DEFINE c == Cardinality(kept)
             at == [k \in 1 .. c |-> CHOOSE i \in kept : Rank(i, kept) = k]
  <1>1. Len(list) \in Nat /\ DOMAIN list = 1 .. Len(list)
    OBVIOUS
  <1>2. /\ c \in 0 .. Len(list)
        /\ \A i \in kept : Rank(i, kept) \in 1 .. c
        /\ \A i, j \in kept : Rank(i, kept) = Rank(j, kept) => i = j
        /\ \A k \in 1 .. c : \E i \in kept : Rank(i, kept) = k
    BY <1>1, RankFacts
  <1>3. \A k \in 1 .. c : at[k] \in kept /\ Rank(at[k], kept) = k
    BY <1>2
  <1>4. Keep(list, kept) = [k \in 1 .. c |-> list[at[k]]]
    BY DEF Keep
  <1> HIDE DEF c, at
  <1>5. Keep(list, kept) \in Seq(T) /\ Len(Keep(list, kept)) = c
    BY <1>2, <1>3, <1>4
  <1>6. ToSet(Keep(list, kept)) = {list[i] : i \in kept}
    <2>1. ASSUME NEW i \in kept PROVE \E k \in 1 .. c : at[k] = i
      BY <1>2, <1>3
    <2>2. ToSet(Keep(list, kept)) = {list[at[k]] : k \in 1 .. c}
      BY <1>4 DEF ToSet
    <2> QED BY <1>3, <2>1, <2>2
  <1>7. ASSUME IsInjective(list) PROVE IsInjective(Keep(list, kept))
    <2>1. \A i, j \in kept : list[i] = list[j] => i = j
      BY <1>7 DEF IsInjective
    <2>2. \A k, m \in 1 .. c : at[k] = at[m] => k = m
      BY <1>3
    <2> QED BY <1>3, <1>4, <2>1, <2>2 DEF IsInjective
  <1> QED BY <1>2, <1>5, <1>6, <1>7 DEF c

=============================================================================
