------------------------------ MODULE SumProofs ------------------------------
(***************************************************************************)
(* Sums over finite sets: SumFunctionOnSet takes one element after the     *)
(* other, chosen by CHOOSE; these lemmas say that the order does not       *)
(* matter. What would be an induction over the set is an argument by its   *)
(* smallest counterexample, since strict inclusion is well-founded on the  *)
(* subsets of a finite set.                                                *)
(***************************************************************************)
EXTENDS Functions, FiniteSetTheorems, TLAPS

\* g sums f: its domain is closed under taking the chosen element away.
Sums(g, f) ==
    /\ g = [T \in DOMAIN g |-> g[T]]
    /\ \A T \in DOMAIN g :
           IF T = {} THEN g[T] = 0
           ELSE LET x == CHOOSE y \in T : TRUE
                IN  T \ {x} \in DOMAIN g /\ g[T] = f[x] + g[T \ {x}]

\* A non-empty family of subsets of a finite set has a smallest member.
LEMMA Smallest ==
    ASSUME NEW S, IsFiniteSet(S), NEW P, P \subseteq SUBSET S, P # {}
    PROVE  \E T \in P : \A U \in P : ~(U \subseteq T /\ U # T)
  <1>1. SUBSET S = FiniteSubsetsOf(S)
    BY FS_FiniteSubsetsOfFinite
  <1>2. IsWellFoundedOn(StrictSubsetOrdering(S), SUBSET S)
    BY <1>1, FS_StrictSubsetOrderingWellFounded
  <1>3. PICK T \in P : \A U \in P : <<U, T>> \notin StrictSubsetOrdering(S)
    BY <1>2, WFMin
  <1> QED
    BY <1>3 DEF StrictSubsetOrdering

\* Two functions that sum f agree wherever both are defined.
LEMMA SumsAgree ==
    ASSUME NEW S, IsFiniteSet(S), NEW f, NEW g, NEW h, Sums(g, f), Sums(h, f),
           NEW T \in SUBSET S, T \in DOMAIN g, T \in DOMAIN h
    PROVE  g[T] = h[T]
  <1> DEFINE P == {U \in SUBSET S : U \in DOMAIN g /\ U \in DOMAIN h /\ g[U] # h[U]}
  <1>1. SUFFICES ASSUME P # {} PROVE FALSE
    BY <1>1
  <1>2. PICK U \in P : \A V \in P : ~(V \subseteq U /\ V # U)
    <2>1. P \subseteq SUBSET S
      OBVIOUS
    <2> HIDE DEF P
    <2> QED
      BY <1>1, <2>1, Smallest
  <1>3. U # {}
    BY <1>2 DEF Sums
  <1> DEFINE x == CHOOSE y \in U : TRUE
  <1>4. x \in U
    BY <1>3
  <1> HIDE DEF P, x
  <1>5. U \ {x} \notin P
    BY <1>2, <1>4
  <1>6. /\ U \ {x} \in DOMAIN g /\ g[U] = f[x] + g[U \ {x}]
        /\ U \ {x} \in DOMAIN h /\ h[U] = f[x] + h[U \ {x}]
    BY <1>2, <1>3 DEF Sums, P, x
  <1>7. U \in SUBSET S /\ g[U] # h[U]
    BY <1>2 DEF P
  <1> QED
    BY <1>5, <1>6, <1>7 DEF P

\* Some function sums f up to any subset of a finite set.
LEMMA SumsExist ==
    ASSUME NEW S, IsFiniteSet(S), NEW f, NEW T \in SUBSET S
    PROVE  \E g : Sums(g, f) /\ T \in DOMAIN g
  <1> DEFINE P == {U \in SUBSET S : ~ \E g : Sums(g, f) /\ U \in DOMAIN g}
  <1>1. SUFFICES ASSUME P # {} PROVE FALSE
    BY <1>1
  <1>2. PICK U \in P : \A V \in P : ~(V \subseteq U /\ V # U)
    <2>1. P \subseteq SUBSET S
      OBVIOUS
    <2> HIDE DEF P
    <2> QED
      BY <1>1, <2>1, Smallest
  <1>3. U # {}
    <2>1. Sums([V \in {{}} |-> 0], f)
      BY DEF Sums
    <2> QED
      BY <1>2, <2>1
  <1> DEFINE x == CHOOSE y \in U : TRUE
             W == U \ {x}
  <1>4. x \in U
    BY <1>3
  <1>5. W \notin P /\ W \in SUBSET S /\ U \in SUBSET S
    BY <1>2, <1>4
  <1>6. PICK g : Sums(g, f) /\ W \in DOMAIN g
    BY <1>5
  <1>7. U \notin DOMAIN g
    BY <1>2, <1>6
  <1> DEFINE h == [V \in DOMAIN g \cup {U} |-> IF V = U THEN f[x] + g[W] ELSE g[V]]
  <1>8. DOMAIN h = DOMAIN g \cup {U}
    OBVIOUS
  <1>9. ASSUME NEW V \in DOMAIN g PROVE h[V] = g[V]
    BY <1>7, <1>9
  <1>10. h[U] = f[x] + g[W] /\ W # U
    BY <1>4
  <1>11. h = [V \in DOMAIN h |-> h[V]]
    BY <1>8
  <1>12. Sums(h, f)
    <2> HIDE DEF h
    <2>1. ASSUME NEW V \in DOMAIN h
          PROVE  IF V = {} THEN h[V] = 0
                 ELSE LET y == CHOOSE z \in V : TRUE
                      IN  V \ {y} \in DOMAIN h /\ h[V] = f[y] + h[V \ {y}]
      <3>1. CASE V = U
        BY <1>3, <1>6, <1>8, <1>9, <1>10, <3>1
      <3>2. CASE V \in DOMAIN g
        BY <1>6, <1>8, <1>9, <3>2 DEF Sums
      <3> QED
        BY <1>8, <2>1, <3>1, <3>2
    <2> QED
      BY <1>11, <2>1 DEF Sums
  <1> QED
    BY <1>2, <1>8, <1>12

\* The fold of the community modules is a function that sums f.
LEMMA SumUnfolds ==
    ASSUME NEW S, IsFiniteSet(S), NEW f
    PROVE  \E g : Sums(g, f) /\ DOMAIN g = SUBSET S /\ SumFunctionOnSet(f, S) = g[S]
  <1> DEFINE Eq(g) == g = [s \in SUBSET S |->
                              IF s = {} THEN 0
                              ELSE f[CHOOSE y \in s : TRUE] + g[s \ {CHOOSE y \in s : TRUE}]]
             best(T) == CHOOSE g : Sums(g, f) /\ T \in DOMAIN g
             g0 == [T \in SUBSET S |-> best(T)[T]]
  <1>1. ASSUME NEW T \in SUBSET S PROVE Sums(best(T), f) /\ T \in DOMAIN best(T)
    BY SumsExist
  <1>2. ASSUME NEW T \in SUBSET S
        PROVE  g0[T] = IF T = {} THEN 0
                       ELSE f[CHOOSE y \in T : TRUE] + g0[T \ {CHOOSE y \in T : TRUE}]
    <2> DEFINE x == CHOOSE y \in T : TRUE
    <2> HIDE DEF best
    <2>1. g0[T] = best(T)[T]
      OBVIOUS
    <2>2. CASE T = {}
      BY <1>1, <2>1, <2>2 DEF Sums
    <2>3. CASE T # {}
      <3>1. T \ {x} \in DOMAIN best(T) /\ best(T)[T] = f[x] + best(T)[T \ {x}]
        BY <1>1, <2>3 DEF Sums
      <3>2. T \ {x} \in SUBSET S
        OBVIOUS
      <3> HIDE DEF x
      <3>3. best(T)[T \ {x}] = best(T \ {x})[T \ {x}]
        BY <1>1, <3>1, <3>2, SumsAgree
      <3>4. g0[T \ {x}] = best(T \ {x})[T \ {x}]
        BY <3>2
      <3> QED
        BY <2>1, <2>3, <3>1, <3>3, <3>4 DEF x
    <2> QED
      BY <2>2, <2>3
  <1>3. Eq(g0)
    <2>1. g0 = [T \in SUBSET S |-> g0[T]]
      OBVIOUS
    <2> HIDE DEF g0
    <2> QED
      BY <1>2, <2>1
  <1> DEFINE iter == CHOOSE g : Eq(g)
  <1>4. SumFunctionOnSet(f, S) = iter[S]
    BY DEF SumFunctionOnSet, FoldFunctionOnSet, MapThenFoldSet
  <1>5. Eq(iter)
    <2> HIDE DEF Eq, g0
    <2> QED
      BY <1>3
  <1> HIDE DEF iter
  <1>6. Sums(iter, f) /\ DOMAIN iter = SUBSET S
    BY <1>5 DEF Sums
  <1> QED
    BY <1>4, <1>6

-----------------------------------------------------------------------------
\* The empty sum is zero.
LEMMA SumEmpty == ASSUME NEW f PROVE SumFunctionOnSet(f, {}) = 0
  <1>1. IsFiniteSet({})
    BY FS_EmptySet
  <1> QED
    BY <1>1, SumUnfolds DEF Sums

\* A sum splits into some element of the set and the rest.
LEMMA SumChosen ==
    ASSUME NEW S, IsFiniteSet(S), NEW f, S # {}
    PROVE  \E x \in S : SumFunctionOnSet(f, S) = f[x] + SumFunctionOnSet(f, S \ {x})
  <1> DEFINE x == CHOOSE y \in S : TRUE
             W == S \ {x}
  <1>0. x \in S
    OBVIOUS
  <1>1. IsFiniteSet(W)
    BY FS_Subset
  <1>2. PICK g : Sums(g, f) /\ DOMAIN g = SUBSET S /\ SumFunctionOnSet(f, S) = g[S]
    BY SumUnfolds
  <1>3. g[S] = f[x] + g[W]
    BY <1>2 DEF Sums
  <1> HIDE DEF W, x
  <1>4. PICK h : Sums(h, f) /\ DOMAIN h = SUBSET W /\ SumFunctionOnSet(f, W) = h[W]
    BY <1>1, SumUnfolds
  <1>5. W \in SUBSET S
    BY DEF W
  <1>6. g[W] = h[W]
    BY <1>1, <1>2, <1>4, <1>5, SumsAgree
  <1> QED
    BY <1>0, <1>2, <1>3, <1>4, <1>6 DEF W

\* A sum of integers is an integer.
LEMMA SumInt ==
    ASSUME NEW S, IsFiniteSet(S), NEW f, \A x \in S : f[x] \in Int
    PROVE  SumFunctionOnSet(f, S) \in Int
  <1> DEFINE P == {U \in SUBSET S : SumFunctionOnSet(f, U) \notin Int}
  <1>1. SUFFICES ASSUME P # {} PROVE FALSE
    <2>1. S \notin P
      BY <1>1
    <2> QED
      BY <2>1
  <1>2. PICK U \in P : \A V \in P : ~(V \subseteq U /\ V # U)
    <2>1. P \subseteq SUBSET S
      OBVIOUS
    <2> HIDE DEF P
    <2> QED
      BY <1>1, <2>1, Smallest
  <1>3. U \in SUBSET S /\ SumFunctionOnSet(f, U) \notin Int
    BY <1>2
  <1>4. U # {}
    BY <1>3, SumEmpty
  <1>5. IsFiniteSet(U)
    BY <1>3, FS_Subset
  <1>6. PICK x \in U : SumFunctionOnSet(f, U) = f[x] + SumFunctionOnSet(f, U \ {x})
    BY <1>4, <1>5, SumChosen
  <1>7. SumFunctionOnSet(f, U \ {x}) \in Int
    BY <1>2, <1>3
  <1> QED
    BY <1>3, <1>6, <1>7

\* A sum of naturals is a natural.
LEMMA SumNat ==
    ASSUME NEW S, IsFiniteSet(S), NEW f, \A x \in S : f[x] \in Nat
    PROVE  SumFunctionOnSet(f, S) \in Nat
  <1> DEFINE P == {U \in SUBSET S : SumFunctionOnSet(f, U) \notin Nat}
  <1>1. SUFFICES ASSUME P # {} PROVE FALSE
    <2>1. S \notin P
      BY <1>1
    <2> QED
      BY <2>1
  <1>2. PICK U \in P : \A V \in P : ~(V \subseteq U /\ V # U)
    <2>1. P \subseteq SUBSET S
      OBVIOUS
    <2> HIDE DEF P
    <2> QED
      BY <1>1, <2>1, Smallest
  <1>3. U \in SUBSET S /\ SumFunctionOnSet(f, U) \notin Nat
    BY <1>2
  <1>4. U # {}
    BY <1>3, SumEmpty
  <1>5. IsFiniteSet(U)
    BY <1>3, FS_Subset
  <1>6. PICK x \in U : SumFunctionOnSet(f, U) = f[x] + SumFunctionOnSet(f, U \ {x})
    BY <1>4, <1>5, SumChosen
  <1>7. SumFunctionOnSet(f, U \ {x}) \in Nat
    BY <1>2, <1>3
  <1> QED
    BY <1>3, <1>6, <1>7

\* Whichever element is taken out first, the sum is the same.
LEMMA SumTake ==
    ASSUME NEW S, IsFiniteSet(S), NEW f, \A x \in S : f[x] \in Int, NEW x \in S
    PROVE  SumFunctionOnSet(f, S) = f[x] + SumFunctionOnSet(f, S \ {x})
  <1> DEFINE sum(T) == SumFunctionOnSet(f, T)
             P == {U \in SUBSET S : \E y \in U : sum(U) # f[y] + sum(U \ {y})}
  <1>1. SUFFICES ASSUME P # {} PROVE FALSE
    <2>1. S \notin P
      BY <1>1
    <2> QED
      BY <2>1
  <1>2. PICK U \in P : \A V \in P : ~(V \subseteq U /\ V # U)
    <2>1. P \subseteq SUBSET S
      OBVIOUS
    <2> HIDE DEF P
    <2> QED
      BY <1>1, <2>1, Smallest
  <1>3. U \in SUBSET S
    BY <1>2
  <1>4. PICK y \in U : sum(U) # f[y] + sum(U \ {y})
    BY <1>2
  <1>5. IsFiniteSet(U)
    BY <1>3, FS_Subset
  <1>6. PICK z \in U : sum(U) = f[z] + sum(U \ {z})
    BY <1>4, <1>5, SumChosen
  <1>7. y # z
    BY <1>4, <1>6
  <1> DEFINE W == (U \ {y}) \ {z}
  <1>8. sum(U \ {y}) = f[z] + sum(W)
    <2>1. U \ {y} \notin P
      BY <1>2
    <2> HIDE DEF sum
    <2> QED
      BY <1>3, <1>7, <2>1
  <1>9. sum(U \ {z}) = f[y] + sum(W)
    <2>1. U \ {z} \notin P
      BY <1>2
    <2>2. (U \ {z}) \ {y} = W
      OBVIOUS
    <2> HIDE DEF sum
    <2> QED
      BY <1>3, <1>7, <2>1, <2>2
  <1>10. IsFiniteSet(W)
    BY <1>5, FS_Subset
  <1>11. sum(W) \in Int /\ f[y] \in Int /\ f[z] \in Int
    BY <1>3, <1>10, SumInt
  <1> HIDE DEF sum, W, P
  <1> QED
    BY <1>4, <1>6, <1>8, <1>9, <1>11

\* Functions that agree on a set have one sum over it.
LEMMA SumSame ==
    ASSUME NEW S, IsFiniteSet(S), NEW f, NEW g, \A x \in S : f[x] \in Int /\ g[x] = f[x]
    PROVE  SumFunctionOnSet(g, S) = SumFunctionOnSet(f, S)
  <1> DEFINE P == {U \in SUBSET S : SumFunctionOnSet(g, U) # SumFunctionOnSet(f, U)}
  <1>1. SUFFICES ASSUME P # {} PROVE FALSE
    <2>1. S \notin P
      BY <1>1
    <2> QED
      BY <2>1
  <1>2. PICK U \in P : \A V \in P : ~(V \subseteq U /\ V # U)
    <2>1. P \subseteq SUBSET S
      OBVIOUS
    <2> HIDE DEF P
    <2> QED
      BY <1>1, <2>1, Smallest
  <1>3. U \in SUBSET S /\ SumFunctionOnSet(g, U) # SumFunctionOnSet(f, U)
    BY <1>2
  <1>4. U # {}
    BY <1>3, SumEmpty
  <1>5. IsFiniteSet(U)
    BY <1>3, FS_Subset
  <1>6. PICK x \in U : SumFunctionOnSet(f, U) = f[x] + SumFunctionOnSet(f, U \ {x})
    BY <1>4, <1>5, SumChosen
  <1>7. SumFunctionOnSet(g, U) = g[x] + SumFunctionOnSet(g, U \ {x})
    BY <1>3, <1>5, SumTake
  <1>8. SumFunctionOnSet(g, U \ {x}) = SumFunctionOnSet(f, U \ {x})
    BY <1>2, <1>3
  <1> QED
    BY <1>3, <1>6, <1>7, <1>8

\* A new element adds its own value.
LEMMA SumAdd ==
    ASSUME NEW S, IsFiniteSet(S), NEW f, NEW x, x \notin S,
           \A y \in S \cup {x} : f[y] \in Int
    PROVE  SumFunctionOnSet(f, S \cup {x}) = SumFunctionOnSet(f, S) + f[x]
  <1>1. IsFiniteSet(S \cup {x})
    BY FS_AddElement
  <1>2. (S \cup {x}) \ {x} = S
    OBVIOUS
  <1>3. SumFunctionOnSet(f, S \cup {x}) = f[x] + SumFunctionOnSet(f, S)
    BY <1>1, <1>2, SumTake
  <1> QED
    BY <1>3, SumInt

\* A step that changes f at x alone moves the sum by what f[x] moves.
LEMMA SumMove ==
    ASSUME NEW S, IsFiniteSet(S), NEW f, NEW g, NEW x \in S,
           \A y \in S : f[y] \in Int, \A y \in S : g[y] \in Int,
           \A y \in S \ {x} : g[y] = f[y]
    PROVE  SumFunctionOnSet(g, S) = SumFunctionOnSet(f, S) + (g[x] - f[x])
  <1> DEFINE W == S \ {x}
  <1>1. IsFiniteSet(W)
    BY FS_Subset
  <1>2. /\ SumFunctionOnSet(f, S) = f[x] + SumFunctionOnSet(f, W)
        /\ SumFunctionOnSet(g, S) = g[x] + SumFunctionOnSet(g, W)
    BY SumTake
  <1>3. SumFunctionOnSet(f, W) \in Int /\ SumFunctionOnSet(g, W) = SumFunctionOnSet(f, W)
    BY <1>1, SumInt, SumSame
  <1> HIDE DEF W
  <1> QED
    BY <1>2, <1>3

=============================================================================
