---------------------------- MODULE FoldTheorems ----------------------------
(***************************************************************************)
(* Recursion over numbers and over finite sets: that the functions defined  *)
(* by it exist, and what sums over sets obey.  Induction is used in its form *)
(* for sets: T stands for the numbers, or the subsets, that have a property. *)
(***************************************************************************)
EXTENDS FiniteSetsExt, FiniteSetTheorems, TLAPS

-----------------------------------------------------------------------------
(* Induction *)

\* A non-empty set of subsets of a finite set has a minimal element.
LEMMA MinimalSubset ==
  ASSUME NEW S, IsFiniteSet(S), NEW T \in SUBSET (SUBSET S), T # {}
  PROVE  \E U \in T : \A V \in T : V \subseteq U => V = U
<1>1. IsWellFoundedOn(StrictSubsetOrdering(S), SUBSET S)
  BY FS_StrictSubsetOrderingWellFounded, FS_FiniteSubsetsOfFinite
<1>2. PICK U \in T : \A V \in T : ~(<<V, U>> \in StrictSubsetOrdering(S))
  BY <1>1, WFMin
<1>3. ASSUME NEW V \in T, V \subseteq U, V # U
      PROVE  FALSE
  BY <1>2, <1>3 DEF StrictSubsetOrdering
<1> QED BY <1>3

\* A property that passes from all smaller subsets to a set holds of the set.
LEMMA SubsetInduction ==
  ASSUME NEW S, IsFiniteSet(S), NEW T,
         \A U \in SUBSET S : (\A V \in SUBSET U : V # U => V \in T) => U \in T
  PROVE  SUBSET S \subseteq T
<1> DEFINE Rest == (SUBSET S) \ T
<1>1. SUFFICES ASSUME Rest # {} PROVE FALSE
  OBVIOUS
<1>2. Rest \in SUBSET (SUBSET S)
  OBVIOUS
<1>3. PICK U \in Rest : \A V \in Rest : V \subseteq U => V = U
  <2> HIDE DEF Rest
  <2> QED BY <1>1, <1>2, MinimalSubset
<1>4. \A V \in SUBSET U : V # U => V \in T
  BY <1>3
<1> QED BY <1>3, <1>4

\* A property of 0 that passes from each number to the next is one of them all.
LEMMA NumberInduction ==
  ASSUME NEW T, 0 \in T, \A n \in Nat : n \in T => n + 1 \in T
  PROVE  Nat \subseteq T
<1>1. SUFFICES ASSUME NEW n \in Nat, n \notin T PROVE FALSE
  OBVIOUS
<1> DEFINE Misses == {k \in 0..n : k \notin T}
           Intervals == {0..k : k \in Misses}
<1>2. IsFiniteSet(0..n)
  BY FS_Interval
<1>3. Intervals \in SUBSET (SUBSET (0..n))
  OBVIOUS
<1>4. Intervals # {}
  BY <1>1
<1>5. PICK U \in Intervals : \A V \in Intervals : V \subseteq U => V = U
  <2> HIDE DEF Intervals
  <2> DEFINE Whole == 0..n
  <2>1. IsFiniteSet(Whole) /\ Intervals \in SUBSET (SUBSET Whole)
    BY <1>2, <1>3
  <2> HIDE DEF Whole
  <2> QED BY <1>4, <2>1, MinimalSubset
<1>6. PICK k \in Misses : U = 0..k
  BY <1>5
<1>7. k # 0 /\ k - 1 \in Nat /\ k = (k - 1) + 1
  BY <1>6
<1>8. k - 1 \in Misses
  BY <1>6, <1>7
<1>9. 0..(k - 1) \in Intervals /\ 0..(k - 1) \subseteq U
  BY <1>6, <1>7, <1>8
<1>10. 0..(k - 1) = 0..k
  BY <1>5, <1>6, <1>9
<1>11. k \in 0..k /\ k \notin 0..(k - 1)
  BY <1>6
<1> QED BY <1>10, <1>11

-----------------------------------------------------------------------------
(* Recursion over numbers *)

\* g is computed from a by the steps F, up to n.
Recurrence(g, n, a, F) == g[0] = a /\ \A i \in 1..n : g[i] = F[<<i, g[i - 1]>>]

\* A function that is computed step by step from a first value exists.
LEMMA RecurrenceExists ==
  ASSUME NEW D, NEW a \in D, NEW F \in [Nat \X D -> D], NEW n \in Nat
  PROVE  \E g \in [0..n -> D] : Recurrence(g, n, a, F)
<1> DEFINE Computes(g, m) ==
             g \in [0..m -> D] /\ g[0] = a /\ \A i \in 1..m : g[i] = F[<<i, g[i - 1]>>]
           Reached == {m \in Nat : \E g : Computes(g, m)}
<1>1. 0 \in Reached
  <2>1. Computes([i \in 0..0 |-> a], 0)
    OBVIOUS
  <2> QED BY <2>1
<1>2. ASSUME NEW m \in Nat, m \in Reached
      PROVE  m + 1 \in Reached
  <2>1. PICK g : Computes(g, m)
    BY <1>2
  <2> DEFINE h == [i \in 0..m + 1 |-> IF i = m + 1 THEN F[<<i, g[m]>>] ELSE g[i]]
  <2>2. h \in [0..m + 1 -> D]
    BY <2>1
  <2>3. h[0] = a
    BY <2>1
  <2>4. ASSUME NEW i \in 1..m + 1
        PROVE  h[i] = F[<<i, h[i - 1]>>]
    BY <2>1
  <2>5. Computes(h, m + 1)
    BY <2>2, <2>3, <2>4
  <2>6. \E k : Computes(k, m + 1)
    <3> HIDE DEF h
    <3> QED BY <2>5
  <2> QED BY <2>6
<1>3. n \in Reached
  <2> HIDE DEF Reached
  <2>1. Nat \subseteq Reached
    BY <1>1, <1>2, NumberInduction
  <2> QED BY <2>1
<1>4. PICK g : Computes(g, n)
  BY <1>3
<1> QED BY <1>4 DEF Recurrence

\* Two functions computed from the same value by the same steps agree.
LEMMA RecurrencesAgree ==
  ASSUME NEW m \in Nat, NEW n \in Nat, m <= n, NEW a, NEW F,
         NEW g, Recurrence(g, m, a, F), NEW h, Recurrence(h, n, a, F)
  PROVE  \A i \in 0..m : g[i] = h[i]
<1> DEFINE Same == {i \in Nat : i <= m => g[i] = h[i]}
<1>1. 0 \in Same
  BY DEF Recurrence
<1>2. ASSUME NEW i \in Nat, i \in Same
      PROVE  i + 1 \in Same
  <2>1. SUFFICES ASSUME i + 1 <= m
                 PROVE  g[i + 1] = h[i + 1]
    OBVIOUS
  <2>2. g[i] = h[i] /\ i + 1 \in 1..m /\ (i + 1) - 1 = i
    BY <1>2, <2>1
  <2>3. g[i + 1] = F[<<i + 1, g[i]>>] /\ h[i + 1] = F[<<i + 1, h[i]>>]
    BY <2>2 DEF Recurrence
  <2> QED BY <2>2, <2>3
<1>3. Nat \subseteq Same
  <2> HIDE DEF Same
  <2> QED BY <1>1, <1>2, NumberInduction
<1> QED BY <1>3

-----------------------------------------------------------------------------
(* Sums *)

\* The element a sum takes next, and the sums over the subsets of a set as the
\* library computes them, one element after the other.
Picked(V) == CHOOSE x \in V : TRUE
SumsOver(f, S, sums) ==
  sums = [V \in SUBSET S |->
            IF V = {} THEN 0 ELSE f[Picked(V)] + sums[V \ {Picked(V)}]]

\* The sum of f over S.
Total(f, S) == (CHOOSE sums : SumsOver(f, S, sums))[S]

\* The sums over the subsets of U, equation by equation.
Sums(f, U, sums) ==
  /\ sums \in [SUBSET U -> Int]
  /\ sums[{}] = 0
  /\ \A V \in SUBSET U :
       V # {} => sums[V] = f[Picked(V)] + sums[V \ {Picked(V)}]

\* The element taken next is one of the set.
LEMMA PickedIsMember == \A V : V # {} => Picked(V) \in V
BY DEF Picked

\* Sums are integers.
LEMMA SumsTyped ==
  ASSUME NEW f, NEW U, NEW sums, Sums(f, U, sums)
  PROVE  sums[U] \in Int
BY DEF Sums

\* The sum over a set does not depend on the larger set it is computed in.
LEMMA SumsAgree ==
  ASSUME NEW S, IsFiniteSet(S), NEW f,
         NEW U \in SUBSET S, NEW W \in SUBSET S, NEW g, NEW h,
         Sums(f, U, g), Sums(f, W, h)
  PROVE  \A V \in SUBSET S : V \subseteq U /\ V \subseteq W => g[V] = h[V]
<1> DEFINE Good == {V \in SUBSET S : V \subseteq U /\ V \subseteq W => g[V] = h[V]}
<1>1. ASSUME NEW V \in SUBSET S, \A X \in SUBSET V : X # V => X \in Good
      PROVE  V \in Good
  <2>1. SUFFICES ASSUME V \subseteq U, V \subseteq W, V # {}
                 PROVE  g[V] = h[V]
    BY DEF Sums
  <2> DEFINE X == V \ {Picked(V)}
  <2>2. X \in SUBSET V /\ X # V
    BY <2>1, PickedIsMember
  <2>3. g[X] = h[X]
    BY <1>1, <2>1, <2>2
  <2> QED BY <2>1, <2>3 DEF Sums
<1> HIDE DEF Good
<1>2. SUBSET S \subseteq Good
  BY <1>1, SubsetInduction
<1> QED BY <1>2 DEF Good

\* The sums over the subsets of a finite set exist.
LEMMA SumsExist ==
  ASSUME NEW S, IsFiniteSet(S), NEW f, \A x \in S : f[x] \in Int
  PROVE  \E sums : Sums(f, S, sums)
<1> DEFINE Good == {U \in SUBSET S : \E sums : Sums(f, U, sums)}
           G(U) == CHOOSE sums : Sums(f, U, sums)
<1>1. ASSUME NEW U \in SUBSET S, \A V \in SUBSET U : V # U => V \in Good
      PROVE  U \in Good
  <2> DEFINE Less(V) == V \ {Picked(V)}
             h == [V \in SUBSET U |->
                     IF V = {} THEN 0 ELSE f[Picked(V)] + G(Less(V))[Less(V)]]
  <2>1. ASSUME NEW V \in SUBSET U, V # {}
        PROVE  /\ Picked(V) \in S
               /\ Less(V) \in SUBSET U
               /\ Sums(f, Less(V), G(Less(V)))
    <3>1. Picked(V) \in V
      BY <2>1, PickedIsMember
    <3>2. Less(V) \in SUBSET U /\ Less(V) # U
      BY <3>1
    <3>3. \E sums : Sums(f, Less(V), sums)
      BY <1>1, <3>2
    <3> QED BY <3>1, <3>2, <3>3
  <2>2. h \in [SUBSET U -> Int]
    <3>1. ASSUME NEW V \in SUBSET U, V # {}
          PROVE  f[Picked(V)] + G(Less(V))[Less(V)] \in Int
      <4>1. f[Picked(V)] \in Int
        BY <2>1, <3>1
      <4>2. G(Less(V))[Less(V)] \in Int
        BY <2>1, <3>1, SumsTyped
      <4> QED BY <4>1, <4>2
    <3>2. \A V \in SUBSET U :
            (IF V = {} THEN 0 ELSE f[Picked(V)] + G(Less(V))[Less(V)]) \in Int
      BY <3>1
    <3> HIDE DEF G, Less
    <3> QED BY <3>2
  <2>3. ASSUME NEW V \in SUBSET U, V # {}
        PROVE  h[Less(V)] = G(Less(V))[Less(V)]
    <3> DEFINE W == Less(V)
    <3>1. W \in SUBSET U /\ Sums(f, W, G(W))
      BY <2>1, <2>3
    <3>2. CASE W = {}
      <4>1. G(W)[W] = 0
        BY <3>1, <3>2 DEF Sums
      <4> QED BY <3>1, <3>2, <4>1
    <3>3. CASE W # {}
      <4>1. Less(W) \in SUBSET W /\ Less(W) \in SUBSET S
        OBVIOUS
      <4>2. G(W)[Less(W)] = G(Less(W))[Less(W)]
        <5> DEFINE X == Less(W)
                   g == G(W)
                   k == G(X)
        <5>1. Sums(f, W, g) /\ Sums(f, X, k)
          BY <2>1, <3>1, <3>3
        <5>2. W \in SUBSET S /\ X \in SUBSET S /\ X \subseteq W
          OBVIOUS
        <5> HIDE DEF X, W, g, k
        <5>3. g[X] = k[X]
          BY <5>1, <5>2, SumsAgree
        <5> QED BY <5>3 DEF X, W, g, k
      <4>3. G(W)[W] = f[Picked(W)] + G(W)[Less(W)]
        BY <3>1, <3>3 DEF Sums
      <4>4. h[W] = f[Picked(W)] + G(Less(W))[Less(W)]
        BY <3>1, <3>3
      <4> QED BY <4>2, <4>3, <4>4
    <3> QED BY <3>2, <3>3
  <2>4. h[{}] = 0
    OBVIOUS
  <2>5. ASSUME NEW V \in SUBSET U, V # {}
        PROVE  h[V] = f[Picked(V)] + h[Less(V)]
    <3>1. h[V] = f[Picked(V)] + G(Less(V))[Less(V)]
      BY <2>5
    <3> QED BY <2>3, <2>5, <3>1
  <2> HIDE DEF h
  <2>6. Sums(f, U, h)
    BY <2>2, <2>4, <2>5 DEF Sums
  <2> QED BY <2>6
<1> HIDE DEF Good
<1>2. SUBSET S \subseteq Good
  BY <1>1, SubsetInduction
<1> QED BY <1>2 DEF Good

\* What the recursive definition chooses are these sums.
LEMMA SumsOverIsTotal ==
  ASSUME NEW S, IsFiniteSet(S), NEW f, \A x \in S : f[x] \in Int,
         NEW any, SumsOver(f, S, any)
  PROVE  Sums(f, S, any) /\ any[S] = Total(f, S)
<1>1. ASSUME NEW some, SumsOver(f, S, some), NEW sums, Sums(f, S, sums)
      PROVE  some = sums
  <2> DEFINE Good == {V \in SUBSET S : some[V] = sums[V]}
  <2>1. \A V \in SUBSET S :
          some[V] = IF V = {} THEN 0 ELSE f[Picked(V)] + some[V \ {Picked(V)}]
    <3> DEFINE step == [V \in SUBSET S |->
                 IF V = {} THEN 0 ELSE f[Picked(V)] + some[V \ {Picked(V)}]]
    <3>1. some = step
      BY <1>1 DEF SumsOver
    <3>2. \A V \in SUBSET S :
            step[V] = IF V = {} THEN 0 ELSE f[Picked(V)] + some[V \ {Picked(V)}]
      OBVIOUS
    <3> HIDE DEF step
    <3> QED BY <3>1, <3>2
  <2>2. ASSUME NEW V \in SUBSET S, \A X \in SUBSET V : X # V => X \in Good
        PROVE  V \in Good
    <3> DEFINE X == V \ {Picked(V)}
    <3>1. CASE V = {}
      BY <1>1, <2>1, <3>1 DEF Sums
    <3>2. CASE V # {}
      <4>1. X \in SUBSET V /\ X # V
        BY <3>2, PickedIsMember
      <4>2. some[X] = sums[X]
        BY <2>2, <4>1
      <4> QED BY <1>1, <2>1, <3>2, <4>2 DEF Sums
    <3> QED BY <3>1, <3>2
  <2>3. SUBSET S \subseteq Good
    <3> HIDE DEF Good
    <3> QED BY <2>2, SubsetInduction
  <2>4. \A V \in SUBSET S : some[V] = sums[V]
    BY <2>3
  <2>5. some = [V \in SUBSET S |-> some[V]]
    BY <1>1 DEF SumsOver
  <2>6. sums = [V \in SUBSET S |-> sums[V]]
    BY <1>1 DEF Sums
  <2> QED BY <2>4, <2>5, <2>6
<1>2. PICK sums : Sums(f, S, sums)
  BY SumsExist
<1>3. any = sums
  BY <1>1, <1>2
<1> DEFINE chosen == CHOOSE some : SumsOver(f, S, some)
<1>4. SumsOver(f, S, chosen)
  OBVIOUS
<1>5. chosen = sums
  <2> HIDE DEF chosen
  <2> QED BY <1>1, <1>2, <1>4
<1> QED BY <1>2, <1>3, <1>5 DEF Total

\* The sum over a finite set obeys the equations.
LEMMA TotalIsSum ==
  ASSUME NEW S, IsFiniteSet(S), NEW f, \A x \in S : f[x] \in Int
  PROVE  \E sums : Sums(f, S, sums) /\ Total(f, S) = sums[S]
<1>1. PICK sums : Sums(f, S, sums)
  BY SumsExist
<1>2. SumsOver(f, S, sums)
  BY <1>1 DEF Sums, SumsOver
<1> QED BY <1>1, <1>2, SumsOverIsTotal

\* A sum is an integer.
LEMMA TotalTyped ==
  ASSUME NEW S, IsFiniteSet(S), NEW f, \A x \in S : f[x] \in Int
  PROVE  Total(f, S) \in Int
BY TotalIsSum, SumsTyped

\* The sum over no elements is zero.
LEMMA TotalOfNothing ==
  ASSUME NEW f
  PROVE  Total(f, {}) = 0
<1>1. PICK sums : Sums(f, {}, sums) /\ Total(f, {}) = sums[{}]
  BY TotalIsSum, FS_EmptySet
<1> QED BY <1>1 DEF Sums

\* An element that is added adds its value.
LEMMA TotalAdds ==
  ASSUME NEW S, IsFiniteSet(S), NEW f, \A x \in S : f[x] \in Int,
         NEW e, e \notin S, f[e] \in Int
  PROVE  Total(f, S \cup {e}) = Total(f, S) + f[e]
<1> DEFINE B == S \cup {e}
<1>1. IsFiniteSet(B) /\ \A x \in B : f[x] \in Int
  BY FS_AddElement
<1>2. PICK sums : Sums(f, B, sums) /\ Total(f, B) = sums[B]
  <2> HIDE DEF B
  <2> QED BY <1>1, TotalIsSum
<1>3. PICK sumsOfS : Sums(f, S, sumsOfS) /\ Total(f, S) = sumsOfS[S]
  BY TotalIsSum
<1>4. sums[S] = sumsOfS[S]
  <2>1. S \in SUBSET B /\ B \in SUBSET B /\ S \subseteq S
    OBVIOUS
  <2> HIDE DEF B
  <2>2. \A V \in SUBSET B : V \subseteq B /\ V \subseteq S => sums[V] = sumsOfS[V]
    BY <1>1, <1>2, <1>3, <2>1, SumsAgree
  <2> QED BY <2>1, <2>2
<1> DEFINE Good == {V \in SUBSET B : \A x \in V : sums[V] = f[x] + sums[V \ {x}]}
<1>5. ASSUME NEW V \in SUBSET B, \A X \in SUBSET V : X # V => X \in Good
      PROVE  V \in Good
  <2>1. SUFFICES ASSUME NEW x \in V
                 PROVE  sums[V] = f[x] + sums[V \ {x}]
    OBVIOUS
  <2> DEFINE p == Picked(V)
  <2>2. p \in V /\ sums[V] = f[p] + sums[V \ {p}]
    BY <1>2, PickedIsMember DEF Sums
  <2>3. CASE x # p
    <3>1. sums[V \ {p}] = f[x] + sums[(V \ {p}) \ {x}]
      <4>1. V \ {p} \in Good
        BY <1>5, <2>2
      <4> QED BY <2>3, <4>1
    <3>2. sums[V \ {x}] = f[p] + sums[(V \ {x}) \ {p}]
      <4>1. V \ {x} \in Good
        BY <1>5
      <4> QED BY <2>2, <2>3, <4>1
    <3>3. (V \ {p}) \ {x} = (V \ {x}) \ {p}
      OBVIOUS
    <3>4. f[x] \in Int /\ f[p] \in Int /\ sums[(V \ {x}) \ {p}] \in Int
      BY <1>1, <1>2, <2>2 DEF Sums
    <3> DEFINE Y == (V \ {x}) \ {p}
    <3>5. sums[V \ {p}] = f[x] + sums[Y] /\ sums[V \ {x}] = f[p] + sums[Y]
      BY <3>1, <3>2, <3>3
    <3>6. sums[Y] \in Int /\ sums[V] = f[p] + sums[V \ {p}]
      BY <2>2, <3>4
    <3> HIDE DEF p, Y
    <3> QED BY <3>4, <3>5, <3>6
  <2> QED BY <2>2, <2>3
<1>6. SUBSET B \subseteq Good
  <2> HIDE DEF Good, B
  <2> QED BY <1>1, <1>5, SubsetInduction
<1>7. sums[B] = f[e] + sums[B \ {e}]
  BY <1>6
<1>8. B \ {e} = S /\ sums[S] \in Int
  BY <1>2 DEF Sums
<1>9. sums[B] = f[e] + sums[S]
  BY <1>7, <1>8
<1>10. Total(f, B) = Total(f, S) + f[e]
  <2> HIDE DEF B, Good
  <2> QED BY <1>2, <1>3, <1>4, <1>8, <1>9
<1> QED BY <1>10

\* The sum over two sets without a common element is the sum of their sums.
LEMMA TotalOfUnion ==
  ASSUME NEW S, IsFiniteSet(S), NEW f, \A x \in S : f[x] \in Int,
         NEW T, IsFiniteSet(T), \A x \in T : f[x] \in Int,
         S \cap T = {}
  PROVE  Total(f, S \cup T) = Total(f, S) + Total(f, T)
<1> DEFINE Good == {V \in SUBSET T : Total(f, S \cup V) = Total(f, S) + Total(f, V)}
<1>1. ASSUME NEW V \in SUBSET T, \A X \in SUBSET V : X # V => X \in Good
      PROVE  V \in Good
  <2>1. CASE V = {}
    <3>1. S \cup V = S
      BY <2>1
    <3> QED BY <2>1, <3>1, TotalOfNothing, TotalTyped
  <2>2. CASE V # {}
    <3>1. PICK e \in V : TRUE
      BY <2>2
    <3> DEFINE X == V \ {e}
    <3>2. X \in Good
      BY <1>1
    <3>3. IsFiniteSet(X) /\ IsFiniteSet(S \cup X)
      BY FS_Subset, FS_Union
    <3>4. V = X \cup {e} /\ S \cup V = (S \cup X) \cup {e}
      OBVIOUS
    <3>5. e \notin X /\ e \notin S \cup X
      OBVIOUS
    <3>6. f[e] \in Int /\ (\A x \in X : f[x] \in Int) /\ (\A x \in S \cup X : f[x] \in Int)
      OBVIOUS
    <3>7. Total(f, S) \in Int /\ Total(f, X) \in Int
      <4> HIDE DEF X
      <4> QED BY <3>3, <3>6, TotalTyped
    <3>8. Total(f, V) = Total(f, X) + f[e]
      <4> HIDE DEF X
      <4> QED BY <3>3, <3>4, <3>5, <3>6, TotalAdds
    <3>9. Total(f, S \cup V) = Total(f, S \cup X) + f[e]
      <4> DEFINE Y == S \cup X
      <4>1. S \cup V = Y \cup {e} /\ IsFiniteSet(Y) /\ e \notin Y /\ \A x \in Y : f[x] \in Int
        BY <3>3, <3>4, <3>5, <3>6
      <4> HIDE DEF X, Y
      <4>2. Total(f, S \cup V) = Total(f, Y) + f[e]
        BY <3>6, <4>1, TotalAdds
      <4> QED BY <4>2 DEF Y
    <3> HIDE DEF X
    <3> QED BY <3>2, <3>6, <3>7, <3>8, <3>9
  <2> QED BY <2>1, <2>2
<1>2. SUBSET T \subseteq Good
  <2> HIDE DEF Good
  <2> QED BY <1>1, SubsetInduction
<1> QED BY <1>2
=============================================================================
