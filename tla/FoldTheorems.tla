---------------------------- MODULE FoldTheorems ----------------------------
(***************************************************************************)
(* What a fold over a finite set is: a sum, whatever the order in which    *)
(* its elements are taken, and a fold that takes them in an order of its   *)
(* own.  The folds of the community modules are defined by recursion over  *)
(* the subsets of a set, hence each of these is proved by way of a         *)
(* smallest counterexample: strict inclusion is well-founded on finite     *)
(* sets.  In the same way: that a finite set can be listed in order, that  *)
(* sums are kept by a renaming, and that a tally has what was entered.     *)
(***************************************************************************)
EXTENDS Integers, FiniteSets, Functions, FiniteSetTheorems, WellFoundedInduction, TLAPS

\* Of some subsets of a finite set, one includes no other.
LEMMA Smallest ==
  ASSUME NEW S, IsFiniteSet(S), NEW T, T \subseteq SUBSET S, T # {}
  PROVE  \E t \in T : \A u \in T : u \subseteq t => u = t
  <1>1. IsWellFoundedOn(StrictSubsetOrdering(S), SUBSET S)
    BY FS_StrictSubsetOrderingWellFounded, FS_FiniteSubsetsOfFinite
  <1>2. PICK t \in T : \A u \in T : <<u, t>> \notin StrictSubsetOrdering(S)
    BY <1>1, WFMin
  <1>3. \A u \in T : u \subseteq t => u = t
    BY <1>2 DEF StrictSubsetOrdering
  <1> QED
    BY <1>3

-----------------------------------------------------------------------------
(* Sums.                                                                   *)

\* The element that the recursion takes from a set, and the function by which
\* it is defined.
Some(s) == CHOOSE x \in s : TRUE

IsSum(f, S, g) ==
  g = [s \in SUBSET S |-> IF s = {} THEN 0 ELSE f[Some(s)] + g[s \ {Some(s)}]]

LEMMA SomeIsIn == \A s : s # {} => Some(s) \in s
  BY DEF Some

LEMMA SumsAgree ==
  ASSUME NEW f, NEW S, NEW T, IsFiniteSet(S), NEW g, NEW h,
         IsSum(f, S, g), IsSum(f, T, h), NEW u, u \subseteq S, u \subseteq T
  PROVE  g[u] = h[u]
  <1> DEFINE D == {v \in SUBSET u : g[v] # h[v]}
  <1> SUFFICES ASSUME D # {} PROVE FALSE
    OBVIOUS
  <1>1. IsFiniteSet(u)
    BY FS_Subset
  <1>2. PICK v \in D : \A w \in D : w \subseteq v => w = v
    <2>1. D \subseteq SUBSET u
      OBVIOUS
    <2> HIDE DEF D
    <2> QED BY <1>1, <2>1, Smallest
  <1>3. v \in SUBSET S /\ v \in SUBSET T
    BY <1>2
  <1>4. g[v] = IF v = {} THEN 0 ELSE f[Some(v)] + g[v \ {Some(v)}]
    BY <1>3 DEF IsSum
  <1>5. h[v] = IF v = {} THEN 0 ELSE f[Some(v)] + h[v \ {Some(v)}]
    BY <1>3 DEF IsSum
  <1>6. v # {}
    BY <1>2, <1>4, <1>5
  <1>7. Some(v) \in v
    BY <1>6, SomeIsIn
  <1>8. g[v \ {Some(v)}] = h[v \ {Some(v)}]
    BY <1>2, <1>7
  <1> QED
    BY <1>2, <1>4, <1>5, <1>6, <1>8

LEMMA SumExists ==
  ASSUME NEW f, NEW S, IsFiniteSet(S)
  PROVE  \E g : IsSum(f, S, g)
  <1> DEFINE B == {s \in SUBSET S : ~ \E g : IsSum(f, s, g)}
  <1> SUFFICES ASSUME B # {} PROVE FALSE
    OBVIOUS
  <1>1. PICK s \in B : \A u \in B : u \subseteq s => u = s
    <2>1. B \subseteq SUBSET S
      OBVIOUS
    <2> HIDE DEF B
    <2> QED BY <2>1, Smallest
  <1>2. s \subseteq S /\ IsFiniteSet(s)
    BY <1>1, FS_Subset
  <1> DEFINE G(u)  == CHOOSE g : IsSum(f, u, g)
             top   == f[Some(s)] + G(s \ {Some(s)})[s \ {Some(s)}]
             whole == [u \in SUBSET s |-> IF u = s /\ s # {} THEN top ELSE G(u)[u]]
  <1>3. ASSUME NEW u \in SUBSET s, u # s
        PROVE  IsSum(f, u, G(u))
    <2>1. u \notin B /\ u \in SUBSET S
      BY <1>1, <1>2, <1>3
    <2>2. \E g : IsSum(f, u, g)
      BY <2>1
    <2> QED BY <2>2
  <1>4. CASE s = {}
    <2>1. IsSum(f, s, [u \in SUBSET s |-> 0])
      BY <1>4 DEF IsSum
    <2> QED BY <1>1, <2>1
  <1>5. CASE s # {}
    <2>1. Some(s) \in s
      BY <1>5, SomeIsIn
    <2>2. ASSUME NEW u \in SUBSET s
          PROVE  whole[u] = IF u = {} THEN 0 ELSE f[Some(u)] + whole[u \ {Some(u)}]
      <3>1. CASE u = s
        <4>1. s \ {Some(s)} # s /\ s \ {Some(s)} \in SUBSET s
          BY <2>1
        <4>2. whole[s] = top /\ whole[s \ {Some(s)}] = G(s \ {Some(s)})[s \ {Some(s)}]
          BY <1>5, <4>1
        <4> HIDE DEF whole, G
        <4> QED BY <1>5, <3>1, <4>2
      <3>2. CASE u # s
        <4>1. whole[u] = G(u)[u]
          BY <3>2
        <4>2. IsSum(f, u, G(u))
          BY <1>3, <3>2
        <4> HIDE DEF G
        <4>3. G(u)[u] = IF u = {} THEN 0 ELSE f[Some(u)] + G(u)[u \ {Some(u)}]
          <5>1. u \in SUBSET u
            OBVIOUS
          <5> QED BY <4>2, <5>1 DEF IsSum
        <4>4. CASE u = {}
          BY <4>1, <4>3, <4>4
        <4>5. CASE u # {}
          <5> DEFINE v == u \ {Some(u)}
          <5>1. Some(u) \in u
            BY <4>5, SomeIsIn
          <5>2. v \in SUBSET s /\ v # s /\ v \subseteq u
            BY <3>2
          <5>3. IsSum(f, v, G(v))
            BY <1>3, <5>2
          <5>4. IsFiniteSet(u)
            BY <1>2, FS_Subset
          <5>5. G(u)[v] = G(v)[v]
            BY <4>2, <5>2, <5>3, <5>4, SumsAgree
          <5>6. whole[v] = G(v)[v]
            BY <5>2
          <5> HIDE DEF whole
          <5> QED BY <4>1, <4>3, <4>5, <5>5, <5>6
        <4> QED BY <4>4, <4>5
      <3> QED BY <3>1, <3>2
    <2>3. whole = [u \in SUBSET s |-> whole[u]]
      OBVIOUS
    <2> HIDE DEF whole
    <2>4. IsSum(f, s, whole)
      BY <2>2, <2>3 DEF IsSum
    <2> QED BY <1>1, <2>4
  <1> QED BY <1>4, <1>5

\* The recursion of SumFunctionOnSet is by IsSum; here is its equation.
LEMMA SumEquation ==
  ASSUME NEW f, NEW S, IsFiniteSet(S)
  PROVE  SumFunctionOnSet(f, S) =
           IF S = {} THEN 0 ELSE f[Some(S)] + SumFunctionOnSet(f, S \ {Some(S)})
  <1> DEFINE G(u) == CHOOSE g : IsSum(f, u, g)
  <1>1. \A u : SumFunctionOnSet(f, u) = G(u)[u]
    BY DEF SumFunctionOnSet, FoldFunctionOnSet, MapThenFoldSet, IsSum, Some
  <1>2. ASSUME NEW u, u \subseteq S
        PROVE  IsSum(f, u, G(u))
    <2>1. IsFiniteSet(u)
      BY <1>2, FS_Subset
    <2>2. \E g : IsSum(f, u, g)
      BY <2>1, SumExists
    <2> QED BY <2>2
  <1> DEFINE v == S \ {Some(S)}
  <1>3. v \subseteq S
    OBVIOUS
  <1> HIDE DEF G
  <1>4. G(S)[S] = IF S = {} THEN 0 ELSE f[Some(S)] + G(S)[v]
    <2>1. S \in SUBSET S
      OBVIOUS
    <2>2. IsSum(f, S, G(S))
      BY <1>2
    <2> QED BY <2>1, <2>2 DEF IsSum
  <1>5. G(S)[v] = G(v)[v]
    <2>1. IsSum(f, S, G(S)) /\ IsSum(f, v, G(v))
      BY <1>2, <1>3
    <2> HIDE DEF v
    <2> QED BY <1>3, <2>1, SumsAgree
  <1> QED
    BY <1>1, <1>4, <1>5

\* A sum over nothing is 0.
LEMMA SumEmpty == \A f : SumFunctionOnSet(f, {}) = 0
  BY SumEquation, FS_EmptySet

\* A sum of natural numbers is one.
LEMMA SumIsNat ==
  ASSUME NEW f, NEW S, IsFiniteSet(S), \A x \in S : f[x] \in Nat
  PROVE  SumFunctionOnSet(f, S) \in Nat
  <1> DEFINE B == {s \in SUBSET S : SumFunctionOnSet(f, s) \notin Nat}
  <1> SUFFICES ASSUME B # {} PROVE FALSE
    OBVIOUS
  <1>1. PICK s \in B : \A u \in B : u \subseteq s => u = s
    <2>1. B \subseteq SUBSET S
      OBVIOUS
    <2> HIDE DEF B
    <2> QED BY <2>1, Smallest
  <1>2. s \subseteq S /\ IsFiniteSet(s) /\ SumFunctionOnSet(f, s) \notin Nat
    BY <1>1, FS_Subset
  <1>3. s # {}
    BY <1>2, SumEmpty
  <1>4. Some(s) \in s
    BY <1>3, SomeIsIn
  <1> DEFINE u == s \ {Some(s)}
  <1>5. u \notin B /\ u \in SUBSET S
    BY <1>1, <1>2, <1>4
  <1>6. SumFunctionOnSet(f, u) \in Nat
    BY <1>5
  <1>7. SumFunctionOnSet(f, s) = f[Some(s)] + SumFunctionOnSet(f, u)
    BY <1>2, <1>3, SumEquation
  <1> QED
    BY <1>2, <1>4, <1>6, <1>7

\* Any element may be taken first.
LEMMA SumRemove ==
  ASSUME NEW f, NEW S, IsFiniteSet(S), \A y \in S : f[y] \in Nat, NEW x \in S
  PROVE  SumFunctionOnSet(f, S) = f[x] + SumFunctionOnSet(f, S \ {x})
  <1> DEFINE Sum(s) == SumFunctionOnSet(f, s)
             B == {s \in SUBSET S : \E z \in s : Sum(s) # f[z] + Sum(s \ {z})}
  <1> SUFFICES ASSUME B # {} PROVE FALSE
    OBVIOUS
  <1>1. PICK s \in B : \A u \in B : u \subseteq s => u = s
    <2>1. B \subseteq SUBSET S
      OBVIOUS
    <2> HIDE DEF B
    <2> QED BY <2>1, Smallest
  <1>2. PICK z \in s : Sum(s) # f[z] + Sum(s \ {z})
    BY <1>1
  <1>3. s \subseteq S /\ IsFiniteSet(s)
    BY <1>1, FS_Subset
  <1> DEFINE c == Some(s)
  <1>4. c \in s
    BY <1>2, SomeIsIn
  <1>5. Sum(s) = f[c] + Sum(s \ {c})
    BY <1>2, <1>3, SumEquation
  <1>6. c # z
    BY <1>2, <1>5
  <1>7. s \ {c} \notin B /\ s \ {c} \in SUBSET S /\ s \ {z} \notin B /\ s \ {z} \in SUBSET S
    BY <1>1, <1>2, <1>3, <1>4
  <1> HIDE DEF c
  <1>8. Sum(s \ {c}) = f[z] + Sum((s \ {c}) \ {z})
    BY <1>2, <1>6, <1>7
  <1>9. Sum(s \ {z}) = f[c] + Sum((s \ {z}) \ {c})
    BY <1>4, <1>6, <1>7
  <1>10. (s \ {c}) \ {z} = (s \ {z}) \ {c}
    OBVIOUS
  <1>11. Sum((s \ {z}) \ {c}) \in Nat /\ f[c] \in Nat /\ f[z] \in Nat
    <2>1. (s \ {z}) \ {c} \subseteq s
      OBVIOUS
    <2>2. IsFiniteSet((s \ {z}) \ {c})
      BY <1>3, <2>1, FS_Subset
    <2> QED BY <1>2, <1>3, <1>4, <2>2, SumIsNat
  <1> HIDE DEF Sum
  <1> QED
    BY <1>2, <1>5, <1>8, <1>9, <1>10, <1>11

LEMMA SumAdd ==
  ASSUME NEW f, NEW S, IsFiniteSet(S), NEW x, x \notin S, \A y \in S \cup {x} : f[y] \in Nat
  PROVE  SumFunctionOnSet(f, S \cup {x}) = f[x] + SumFunctionOnSet(f, S)
  <1>1. IsFiniteSet(S \cup {x}) /\ x \in S \cup {x} /\ (S \cup {x}) \ {x} = S
    BY FS_AddElement
  <1> QED
    BY <1>1, SumRemove

\* The sum over two sets without common elements.
LEMMA SumDisjoint ==
  ASSUME NEW f, NEW S, IsFiniteSet(S), NEW T, IsFiniteSet(T), S \cap T = {},
         \A y \in S \cup T : f[y] \in Nat
  PROVE  SumFunctionOnSet(f, S \cup T) = SumFunctionOnSet(f, S) + SumFunctionOnSet(f, T)
  <1> DEFINE Sum(s) == SumFunctionOnSet(f, s)
             B == {s \in SUBSET S : Sum(s \cup T) # Sum(s) + Sum(T)}
  <1> SUFFICES ASSUME B # {} PROVE FALSE
    OBVIOUS
  <1>1. PICK s \in B : \A u \in B : u \subseteq s => u = s
    <2>1. B \subseteq SUBSET S
      OBVIOUS
    <2> HIDE DEF B
    <2> QED BY <2>1, Smallest
  <1>2. s \subseteq S /\ IsFiniteSet(s) /\ Sum(s \cup T) # Sum(s) + Sum(T)
    BY <1>1, FS_Subset
  <1>3. Sum(T) \in Nat
    BY SumIsNat
  <1>4. s # {}
    <2>1. Sum({}) = 0 /\ {} \cup T = T
      BY SumEmpty
    <2> HIDE DEF Sum
    <2> QED BY <1>2, <1>3, <2>1
  <1>5. PICK x \in s : TRUE
    BY <1>4
  <1> DEFINE u == s \ {x}
  <1>6. u \notin B /\ u \in SUBSET S
    BY <1>1, <1>2, <1>5
  <1>7. IsFiniteSet(u) /\ IsFiniteSet(u \cup T) /\ IsFiniteSet(s \cup T)
    BY <1>2, FS_Subset, FS_Union
  <1>8. Sum(u \cup T) = Sum(u) + Sum(T)
    BY <1>6
  <1>9. Sum(s) = f[x] + Sum(u)
    BY <1>2, <1>5, SumRemove
  <1>10. Sum(s \cup T) = f[x] + Sum(u \cup T)
    <2>1. x \in s \cup T /\ (s \cup T) \ {x} = u \cup T /\ \A y \in s \cup T : f[y] \in Nat
      BY <1>2, <1>5
    <2> HIDE DEF u
    <2> QED BY <1>7, <2>1, SumRemove
  <1>11. Sum(u) \in Nat /\ f[x] \in Nat
    BY <1>2, <1>5, <1>6, <1>7, SumIsNat
  <1> HIDE DEF Sum, u, B
  <1> QED
    BY <1>2, <1>3, <1>8, <1>9, <1>10, <1>11

\* Sums of functions that agree on the set.
LEMMA SumSame ==
  ASSUME NEW f, NEW g, NEW S, IsFiniteSet(S), \A x \in S : f[x] = g[x] 
  PROVE  SumFunctionOnSet(f, S) = SumFunctionOnSet(g, S)
  <1> DEFINE B == {s \in SUBSET S : SumFunctionOnSet(f, s) # SumFunctionOnSet(g, s)}
  <1> SUFFICES ASSUME B # {} PROVE FALSE
    OBVIOUS
  <1>1. PICK s \in B : \A u \in B : u \subseteq s => u = s
    <2>1. B \subseteq SUBSET S
      OBVIOUS
    <2> HIDE DEF B
    <2> QED BY <2>1, Smallest
  <1>2. s \subseteq S /\ IsFiniteSet(s)
    BY <1>1, FS_Subset
  <1>3. s # {}
    BY <1>1, SumEmpty
  <1> DEFINE c == Some(s)
  <1>4. c \in s
    BY <1>3, SomeIsIn
  <1>5. s \ {c} \notin B /\ s \ {c} \in SUBSET S
    BY <1>1, <1>2, <1>4
  <1>6. /\ SumFunctionOnSet(f, s) = f[c] + SumFunctionOnSet(f, s \ {c})
        /\ SumFunctionOnSet(g, s) = g[c] + SumFunctionOnSet(g, s \ {c})
    BY <1>2, <1>3, SumEquation
  <1>7. f[c] = g[c]
    BY <1>2, <1>4
  <1> QED
    BY <1>1, <1>5, <1>6, <1>7

\* n equal numbers.
LEMMA SumConstant ==
  ASSUME NEW f, NEW S, IsFiniteSet(S), NEW k \in Nat, \A x \in S : f[x] = k
  PROVE  SumFunctionOnSet(f, S) = k * Cardinality(S)
  <1> DEFINE Sum(s) == SumFunctionOnSet(f, s)
             B == {s \in SUBSET S : Sum(s) # k * Cardinality(s)}
  <1> SUFFICES ASSUME B # {} PROVE FALSE
    BY DEF B
  <1>1. PICK s \in B : \A u \in B : u \subseteq s => u = s
    <2>1. B \subseteq SUBSET S
      OBVIOUS
    <2> HIDE DEF B
    <2> QED BY <2>1, Smallest
  <1>2. s \subseteq S /\ IsFiniteSet(s) /\ Sum(s) # k * Cardinality(s)
    BY <1>1, FS_Subset
  <1>3. s # {}
    <2>1. Sum({}) = 0 /\ Cardinality({}) = 0
      BY SumEmpty, FS_EmptySet
    <2> HIDE DEF Sum
    <2> QED BY <1>2, <2>1
  <1>4. PICK x \in s : TRUE
    BY <1>3
  <1> DEFINE u == s \ {x}
  <1>5. u \notin B /\ u \in SUBSET S /\ IsFiniteSet(u)
    BY <1>1, <1>2, <1>4, FS_Subset
  <1>6. Sum(s) = k + Sum(u)
    BY <1>2, <1>4, SumRemove
  <1>7. Cardinality(s) = Cardinality(u) + 1 /\ Cardinality(u) \in Nat
    BY <1>2, <1>4, <1>5, FS_RemoveElement, FS_CardinalityType
  <1>8. Sum(u) = k * Cardinality(u)
    BY <1>5
  <1> DEFINE n == Cardinality(u)
  <1>9. k * (n + 1) = k * n + k
    BY <1>7
  <1> HIDE DEF Sum, u, B
  <1> QED
    BY <1>2, <1>6, <1>7, <1>8, <1>9

-----------------------------------------------------------------------------
(* Folds by a step.                                                        *)

\* g is the function by which MapThenFoldSet is defined, for a step st and a choice ch
\* that are functions.
IsFold(st, ch, base, S, g) ==
  g = [s \in SUBSET S |-> IF s = {} THEN base ELSE st[s, g[s \ {ch[s]}]]]

LEMMA FoldsAgree ==
  ASSUME NEW st, NEW ch, NEW base, NEW S, NEW T, IsFiniteSet(S),
         NEW g, NEW h, IsFold(st, ch, base, S, g), IsFold(st, ch, base, T, h),
         NEW u, u \subseteq S, u \subseteq T,
         \A s \in SUBSET S : s # {} => ch[s] \in s
  PROVE  g[u] = h[u]
  <1> DEFINE D == {v \in SUBSET u : g[v] # h[v]}
  <1> SUFFICES ASSUME D # {} PROVE FALSE
    OBVIOUS
  <1>1. IsFiniteSet(u)
    BY FS_Subset
  <1>2. PICK v \in D : \A w \in D : w \subseteq v => w = v
    <2>1. D \subseteq SUBSET u
      OBVIOUS
    <2> HIDE DEF D
    <2> QED BY <1>1, <2>1, Smallest
  <1>3. v \in SUBSET S /\ v \in SUBSET T
    BY <1>2
  <1>4. g[v] = IF v = {} THEN base ELSE st[v, g[v \ {ch[v]}]]
    BY <1>3 DEF IsFold
  <1>5. h[v] = IF v = {} THEN base ELSE st[v, h[v \ {ch[v]}]]
    BY <1>3 DEF IsFold
  <1>6. v # {}
    BY <1>2, <1>4, <1>5
  <1>7. ch[v] \in v
    BY <1>3, <1>6
  <1>8. g[v \ {ch[v]}] = h[v \ {ch[v]}]
    BY <1>2, <1>7
  <1> QED
    BY <1>2, <1>4, <1>5, <1>6, <1>8

\* There is such a function, with values in V if the step leads from V to V.
LEMMA FoldExists ==
  ASSUME NEW S, IsFiniteSet(S), NEW V, NEW base \in V, NEW ch,
         \A s \in SUBSET S : s # {} => ch[s] \in s,
         NEW st \in [(SUBSET S) \X V -> V]
  PROVE  \E g \in [SUBSET S -> V] : IsFold(st, ch, base, S, g)
  <1> DEFINE B == {s \in SUBSET S : ~ \E g \in [SUBSET s -> V] : IsFold(st, ch, base, s, g)}
  <1> SUFFICES ASSUME B # {} PROVE FALSE
    OBVIOUS
  <1>1. PICK s \in B : \A u \in B : u \subseteq s => u = s
    <2>1. B \subseteq SUBSET S
      OBVIOUS
    <2> HIDE DEF B
    <2> QED BY <2>1, Smallest
  <1>2. s \subseteq S /\ IsFiniteSet(s)
    BY <1>1, FS_Subset
  <1> DEFINE G(u)  == CHOOSE g \in [SUBSET u -> V] : IsFold(st, ch, base, u, g)
             top   == st[s, G(s \ {ch[s]})[s \ {ch[s]}]]
             whole == [u \in SUBSET s |-> IF u = s /\ s # {} THEN top ELSE G(u)[u]]
  <1>3. ASSUME NEW u \in SUBSET s, u # s
        PROVE  G(u) \in [SUBSET u -> V] /\ IsFold(st, ch, base, u, G(u))
    <2>1. u \notin B /\ u \in SUBSET S
      BY <1>1, <1>2, <1>3
    <2>2. \E g \in [SUBSET u -> V] : IsFold(st, ch, base, u, g)
      BY <2>1
    <2> QED BY <2>2
  <1>4. CASE s = {}
    <2>1. IsFold(st, ch, base, s, [u \in SUBSET s |-> base])
      BY <1>4 DEF IsFold
    <2> QED BY <1>1, <2>1
  <1>5. CASE s # {}
    <2> DEFINE d == s \ {ch[s]}
    <2>1. ch[s] \in s /\ d # s /\ d \in SUBSET s
      BY <1>2, <1>5
    <2>2. ASSUME NEW u \in SUBSET s
          PROVE  whole[u] = IF u = {} THEN base ELSE st[u, whole[u \ {ch[u]}]]
      <3>1. CASE u = s
        <4>1. whole[s] = top /\ whole[d] = G(d)[d]
          BY <1>5, <2>1
        <4> HIDE DEF whole, G
        <4> QED BY <1>5, <3>1, <4>1
      <3>2. CASE u # s
        <4>1. whole[u] = G(u)[u]
          BY <3>2
        <4>2. IsFold(st, ch, base, u, G(u))
          BY <1>3, <3>2
        <4> HIDE DEF G
        <4>3. G(u)[u] = IF u = {} THEN base ELSE st[u, G(u)[u \ {ch[u]}]]
          <5>1. u \in SUBSET u
            OBVIOUS
          <5> QED BY <4>2, <5>1 DEF IsFold
        <4>4. CASE u = {}
          BY <4>1, <4>3, <4>4
        <4>5. CASE u # {}
          <5> DEFINE v == u \ {ch[u]}
          <5>1. ch[u] \in u
            BY <1>2, <4>5
          <5>2. v \in SUBSET s /\ v # s /\ v \subseteq u
            BY <3>2
          <5>3. IsFold(st, ch, base, v, G(v))
            BY <1>3, <5>2
          <5>4. IsFiniteSet(u) /\ u \subseteq S
            BY <1>2, FS_Subset
          <5>5. G(u)[v] = G(v)[v]
            BY <4>2, <5>2, <5>3, <5>4, FoldsAgree
          <5>6. whole[v] = G(v)[v]
            BY <5>2
          <5> HIDE DEF whole
          <5> QED BY <4>1, <4>3, <4>5, <5>5, <5>6
        <4> QED BY <4>4, <4>5
      <3> QED BY <3>1, <3>2
    <2>3. whole \in [SUBSET s -> V]
      <3>1. ASSUME NEW u \in SUBSET s, u # s PROVE G(u)[u] \in V
        BY <1>3, <3>1
      <3>2. top \in V
        <4>1. G(d)[d] \in V /\ s \in SUBSET S
          BY <1>2, <2>1, <3>1
        <4> HIDE DEF G
        <4> QED BY <4>1
      <3> HIDE DEF G, top
      <3> QED BY <1>5, <3>1, <3>2
    <2> HIDE DEF whole
    <2>4. whole = [u \in SUBSET s |-> whole[u]]
      BY ONLY <2>3
    <2>5. [u \in SUBSET s |-> whole[u]]
            = [u \in SUBSET s |-> IF u = {} THEN base ELSE st[u, whole[u \ {ch[u]}]]]
      BY ONLY <2>2
    <2>6. IsFold(st, ch, base, s, whole)
      BY ONLY <2>4, <2>5 DEF IsFold
    <2> QED BY <1>1, <2>3, <2>6
  <1> QED BY <1>4, <1>5

-----------------------------------------------------------------------------
(* The elements of a set in a list.                                        *)

\* What holds at 0, and at each number up to n if at the one before it, holds
\* up to n.
LEMMA UpFrom0 ==
  ASSUME NEW n \in Nat, NEW T, 0 \in T, \A k \in 1..n : k - 1 \in T => k \in T
  PROVE  \A k \in 0..n : k \in T
  <1> DEFINE B == {k \in 0..n : k \notin T}
             D == {0..k : k \in B}
  <1> SUFFICES ASSUME B # {} PROVE FALSE
    OBVIOUS
  <1>1. PICK t \in D : \A u \in D : u \subseteq t => u = t
    <2> DEFINE N == 0..n
    <2>1. IsFiniteSet(N)
      BY FS_Interval
    <2>2. D \subseteq SUBSET N /\ D # {}
      OBVIOUS
    <2> HIDE DEF D, N
    <2> QED BY ONLY <2>1, <2>2, Smallest
  <1>2. PICK k \in B : t = 0..k
    BY <1>1
  <1>3. k \in 1..n /\ k - 1 \in 0..n
    BY <1>2
  <1>4. k - 1 \notin T
    BY <1>2, <1>3
  <1>5. 0..(k - 1) \in D
    BY <1>3, <1>4
  <1>6. 0..(k - 1) \subseteq t /\ k \in t /\ k \notin 0..(k - 1)
    BY <1>2, <1>3
  <1> HIDE DEF D
  <1> QED BY <1>1, <1>5, <1>6

\* Each element once.
IsListing(list, S) ==
  /\ list \in [1..Cardinality(S) -> S]
  /\ \A i, j \in 1..Cardinality(S) : i # j => list[i] # list[j]

LEMMA ListingFacts ==
  ASSUME NEW S, IsFiniteSet(S), NEW list, IsListing(list, S)
  PROVE  /\ Cardinality(S) \in Nat
         /\ DOMAIN list = 1..Cardinality(S)
         /\ IsFiniteSet(DOMAIN list)
         /\ \A i \in DOMAIN list : list[i] \in S
         /\ \A i, j \in DOMAIN list : i # j => list[i] # list[j]
         /\ \A x \in S : \E i \in DOMAIN list : list[i] = x
  <1> DEFINE n == Cardinality(S)
  <1>1. n \in Nat
    BY FS_CardinalityType
  <1>2. IsFiniteSet(1..n) /\ Cardinality(1..n) = n
    BY <1>1, FS_Interval
  <1>3. list \in Injection(1..n, S)
    BY DEF IsListing, Injection, IsInjective
  <1>4. list \in Surjection(1..n, S)
    BY <1>2, <1>3, FS_Injection
  <1>5. list \in [1..n -> S] /\ \A x \in S : \E i \in 1..n : list[i] = x
    BY <1>4 DEF Surjection
  <1>6. \A i, j \in 1..n : i # j => list[i] # list[j]
    BY DEF IsListing
  <1> HIDE DEF n
  <1> QED BY <1>1, <1>2, <1>5, <1>6 DEF n

\* Of a total order, as a set of pairs, a finite set has a greatest element.
IsOrderOn(R, S) ==
  /\ \A x \in S : <<x, x>> \notin R
  /\ \A x, y \in S : x # y => <<x, y>> \in R \/ <<y, x>> \in R
  /\ \A x, y, z \in S : <<x, y>> \in R /\ <<y, z>> \in R => <<x, z>> \in R

LEMMA Greatest ==
  ASSUME NEW R, NEW S, IsFiniteSet(S), S # {}, IsOrderOn(R, S)
  PROVE  \E x \in S : \A y \in S \ {x} : <<y, x>> \in R
  <1> DEFINE Up(x) == {y \in S : <<x, y>> \in R}
             D     == {Up(x) : x \in S}
  <1>1. PICK t \in D : \A u \in D : u \subseteq t => u = t
    <2>1. D \subseteq SUBSET S /\ D # {}
      OBVIOUS
    <2> HIDE DEF D
    <2> QED BY <2>1, Smallest
  <1>2. PICK x \in S : t = Up(x)
    BY <1>1
  <1>3. ASSUME NEW y \in S, y # x
        PROVE  <<y, x>> \in R
    <2> SUFFICES ASSUME <<y, x>> \notin R PROVE FALSE
      OBVIOUS
    <2>1. <<x, y>> \in R
      BY <1>3 DEF IsOrderOn
    <2>2. Up(y) \subseteq Up(x)
      BY <2>1 DEF IsOrderOn
    <2>3. y \in Up(x) /\ y \notin Up(y)
      BY <2>1 DEF IsOrderOn
    <2>4. Up(y) \in D
      OBVIOUS
    <2> HIDE DEF D, Up
    <2> QED BY <1>1, <1>2, <2>2, <2>3, <2>4
  <1> QED BY <1>3

\* Hence it can be sorted.
LEMMA SortedListing ==
  ASSUME NEW R, NEW S, IsFiniteSet(S), IsOrderOn(R, S)
  PROVE  \E list : /\ IsListing(list, S)
                   /\ \A i, j \in 1..Cardinality(S) : i < j => <<list[i], list[j]>> \in R
  <1> DEFINE Sorts(list, s) ==
               /\ IsListing(list, s)
               /\ \A i, j \in 1..Cardinality(s) : i < j => <<list[i], list[j]>> \in R
             B == {s \in SUBSET S : ~ \E list : Sorts(list, s)}
  <1> SUFFICES ASSUME B # {} PROVE FALSE
    OBVIOUS
  <1>1. PICK s \in B : \A u \in B : u \subseteq s => u = s
    <2>1. B \subseteq SUBSET S
      OBVIOUS
    <2> HIDE DEF B
    <2> QED BY <2>1, Smallest
  <1>2. s \subseteq S /\ IsFiniteSet(s)
    BY <1>1, FS_Subset
  <1>3. CASE s = {}
    <2>1. Cardinality(s) = 0
      BY <1>3, FS_EmptySet
    <2>2. Sorts([i \in {} |-> i], s)
      BY <1>3, <2>1 DEF IsListing
    <2> HIDE DEF Sorts
    <2> QED BY <1>1, <2>2
  <1>4. CASE s # {}
    <2>1. PICK x \in s : \A y \in s \ {x} : <<y, x>> \in R
      <3>1. IsOrderOn(R, s)
        BY <1>2 DEF IsOrderOn
      <3> QED BY <1>2, <1>4, <3>1, Greatest
    <2> DEFINE u == s \ {x}
               n == Cardinality(u)
    <2>2. u \in SUBSET S /\ u \notin B
      BY <1>1, <1>2, <2>1
    <2>3. PICK l : Sorts(l, u)
      BY <2>2
    <2>4. IsFiniteSet(u) /\ n \in Nat /\ Cardinality(s) = n + 1
      <3>1. IsFiniteSet(u) /\ n = Cardinality(s) - 1
        BY <1>2, <2>1, FS_RemoveElement
      <3>2. n \in Nat /\ Cardinality(s) \in Nat
        BY <1>2, <3>1, FS_CardinalityType
      <3> HIDE DEF n, u
      <3> QED BY <3>1, <3>2
    <2> HIDE DEF n
    <2> DEFINE list == [i \in 1..(n + 1) |-> IF i = n + 1 THEN x ELSE l[i]]
    <2>5. /\ \A i \in 1..n : l[i] \in u
          /\ \A i, j \in 1..n : i # j => l[i] # l[j]
          /\ \A i, j \in 1..n : i < j => <<l[i], l[j]>> \in R
      BY <2>3 DEF IsListing, n
    <2>6. list[n + 1] = x /\ \A i \in 1..n : list[i] = l[i]
      BY <2>4
    <2>7. \A i \in 1..(n + 1) : i = n + 1 \/ i \in 1..n
      BY <2>4
    <2>8. DOMAIN list = 1..(n + 1) /\ list = [i \in 1..(n + 1) |-> list[i]]
      OBVIOUS
    <2>9. \A i \in 1..(n + 1) : i \in Int /\ (i \in 1..n => i < n + 1)
      BY <2>4
    <2> HIDE DEF list, u
    <2>10. \A i \in 1..(n + 1) : list[i] \in s
      BY <2>5, <2>6, <2>7 DEF u
    <2>11. \A i, j \in 1..(n + 1) : i # j => list[i] # list[j]
      BY <2>5, <2>6, <2>7 DEF u
    <2>12. ASSUME NEW i \in 1..(n + 1), NEW j \in 1..(n + 1), i < j
           PROVE  <<list[i], list[j]>> \in R
      <3>1. i \in 1..n
        BY <2>4, <2>12
      <3>2. CASE j = n + 1
        BY <2>1, <2>5, <2>6, <3>1, <3>2 DEF u
      <3>3. CASE j \in 1..n
        BY <2>5, <2>6, <2>12, <3>1, <3>3
      <3> QED BY <2>7, <3>2, <3>3
    <2>13. IsListing(list, s)
      BY <2>4, <2>8, <2>10, <2>11 DEF IsListing
    <2>14. Sorts(list, s)
      BY <2>4, <2>12, <2>13
    <2> HIDE DEF Sorts
    <2> QED BY <1>1, <2>14
  <1> QED BY <1>3, <1>4

-----------------------------------------------------------------------------
(* Sums over lists.                                                        *)

\* b names each element of S once, by an element of I.
Names(b, I, S) ==
  /\ \A i \in I : b[i] \in S
  /\ \A i, j \in I : i # j => b[i] # b[j]
  /\ \A x \in S : \E i \in I : b[i] = x

\* What f has for the name, g has for what is named.
Carried(f, g, b, I) == \A i \in I : f[i] \in Nat /\ f[i] = g[b[i]]

LEMMA SumNamed ==
  ASSUME NEW I, IsFiniteSet(I), NEW S, NEW b, Names(b, I, S),
         NEW f, NEW g, Carried(f, g, b, I)
  PROVE  SumFunctionOnSet(f, I) = SumFunctionOnSet(g, S) /\ IsFiniteSet(S)
  <1> DEFINE Of(s) == {b[i] : i \in s}
             Good(s) == /\ SumFunctionOnSet(f, s) = SumFunctionOnSet(g, Of(s))
                        /\ IsFiniteSet(Of(s))
             B == {s \in SUBSET I : ~Good(s)}
  <1>1. B = {}
    <2> SUFFICES ASSUME B # {} PROVE FALSE
      OBVIOUS
    <2>1. PICK s \in B : \A u \in B : u \subseteq s => u = s
      <3>1. B \subseteq SUBSET I
        OBVIOUS
      <3> HIDE DEF B
      <3> QED BY <3>1, Smallest
    <2>2. s \subseteq I /\ IsFiniteSet(s) /\ ~Good(s)
      BY <2>1, FS_Subset
    <2>3. s # {}
      <3>1. Good({})
        <4>1. Of({}) = {}
          OBVIOUS
        <4> QED BY <4>1, SumEmpty, FS_EmptySet
      <3> HIDE DEF Good
      <3> QED BY <2>2, <3>1
    <2>4. PICK i \in s : TRUE
      BY <2>3
    <2> DEFINE u == s \ {i}
    <2>5. Good(u)
      <3>1. u \in SUBSET I /\ u # s /\ u \subseteq s
        BY <2>2, <2>4
      <3> HIDE DEF Good, u
      <3> QED BY <2>1, <3>1
    <2>6. SumFunctionOnSet(f, s) = f[i] + SumFunctionOnSet(f, u)
      BY <2>2, <2>4, SumRemove DEF Carried
    <2>7. Of(s) = Of(u) \cup {b[i]} /\ b[i] \notin Of(u)
      BY <2>2, <2>4 DEF Names
    <2>8. \A y \in Of(u) \cup {b[i]} : g[y] \in Nat
      BY <2>2, <2>4 DEF Carried
    <2> HIDE DEF Of
    <2>9. SumFunctionOnSet(g, Of(s)) = g[b[i]] + SumFunctionOnSet(g, Of(u))
      BY <2>5, <2>7, <2>8, SumAdd
    <2>10. IsFiniteSet(Of(s))
      <3>1. IsFiniteSet(Of(u) \cup {b[i]})
        BY <2>5, FS_AddElement
      <3> QED BY <2>7, <3>1
    <2>11. f[i] = g[b[i]]
      BY <2>2, <2>4 DEF Carried
    <2> QED BY <2>2, <2>5, <2>6, <2>9, <2>10, <2>11
  <1>2. Of(I) = S
    BY DEF Names
  <1>3. Good(I)
    BY <1>1
  <1> HIDE DEF Of
  <1> QED BY <1>2, <1>3

\* S has as many elements as there are names.
LEMMA CountNamed ==
  ASSUME NEW I, IsFiniteSet(I), NEW S, NEW b, Names(b, I, S)
  PROVE  IsFiniteSet(S) /\ Cardinality(S) = Cardinality(I)
  <1> DEFINE f == [i \in I |-> 1]
             g == [x \in S |-> 1]
  <1>1. Carried(f, g, b, I)
    BY DEF Names, Carried
  <1>2. SumFunctionOnSet(f, I) = SumFunctionOnSet(g, S) /\ IsFiniteSet(S)
    <2> HIDE DEF f, g
    <2> QED BY <1>1, SumNamed
  <1> DEFINE m == Cardinality(I)
             n == Cardinality(S)
  <1>3. SumFunctionOnSet(f, I) = 1 * m
    BY SumConstant
  <1>4. SumFunctionOnSet(g, S) = 1 * n
    BY <1>2, SumConstant
  <1>5. m \in Nat /\ n \in Nat
    BY <1>2, FS_CardinalityType
  <1>6. 1 * m = 1 * n
    BY <1>2, <1>3, <1>4
  <1> HIDE DEF f, g, m, n
  <1>7. m = n
    BY ONLY <1>5, <1>6
  <1> QED BY <1>2, <1>7 DEF m, n

\* How many there are of which something holds.
LEMMA SumOfOnes ==
  ASSUME NEW S, IsFiniteSet(S), NEW T, T \subseteq S,
         NEW f, \A x \in S : f[x] = IF x \in T THEN 1 ELSE 0
  PROVE  SumFunctionOnSet(f, S) = Cardinality(T)
  <1>1. IsFiniteSet(T) /\ IsFiniteSet(S \ T)
    BY FS_Subset
  <1>2. SumFunctionOnSet(f, T) = 1 * Cardinality(T)
    BY <1>1, SumConstant
  <1>3. SumFunctionOnSet(f, S \ T) = 0 * Cardinality(S \ T)
    BY <1>1, SumConstant
  <1>4. SumFunctionOnSet(f, T \cup (S \ T))
          = SumFunctionOnSet(f, T) + SumFunctionOnSet(f, S \ T)
    <2>1. \A y \in T \cup (S \ T) : f[y] \in Nat
      OBVIOUS
    <2> QED BY <1>1, <2>1, SumDisjoint
  <1>5. T \cup (S \ T) = S
    OBVIOUS
  <1> DEFINE m == Cardinality(T)
             n == Cardinality(S \ T)
  <1>6. m \in Nat /\ n \in Nat
    BY <1>1, FS_CardinalityType
  <1>7. SumFunctionOnSet(f, S) = 1 * m + 0 * n
    BY <1>2, <1>3, <1>4, <1>5
  <1> HIDE DEF m, n
  <1>8. SumFunctionOnSet(f, S) = m
    BY ONLY <1>6, <1>7
  <1> QED BY <1>8 DEF m

-----------------------------------------------------------------------------
(* Tallies.                                                                *)

\* h[k] is a sheet on which the first k amounts are added up by name.
AddsUp(h, x, v, k) ==
  /\ DOMAIN h[k] = DOMAIN h[k - 1] \cup {x[k]}
  /\ \A y \in DOMAIN h[k - 1] \ {x[k]} : h[k][y] = h[k - 1][y]
  /\ h[k][x[k]] = (IF x[k] \in DOMAIN h[k - 1] THEN h[k - 1][x[k]] ELSE 0) + v[k]

IsTally(h, x, v, n) == DOMAIN h[0] = {} /\ \A k \in 1..n : AddsUp(h, x, v, k)

\* What is on the sheet.
OfName(x, k, y) == {i \in 1..k : x[i] = y}

Tallied(h, x, v, k) ==
  /\ IsFiniteSet(DOMAIN h[k])
  /\ \A y : y \in DOMAIN h[k] <=> OfName(x, k, y) # {}
  /\ \A y \in DOMAIN h[k] : h[k][y] = SumFunctionOnSet(v, OfName(x, k, y))
  /\ SumFunctionOnSet(h[k], DOMAIN h[k]) = SumFunctionOnSet(v, 1..k)

LEMMA TallyStep ==
  ASSUME NEW k \in Nat, k # 0, NEW h, NEW x, NEW v, AddsUp(h, x, v, k),
         \A i \in 1..k : v[i] \in Nat, Tallied(h, x, v, k - 1)
  PROVE  Tallied(h, x, v, k)
  <1> DEFINE j == k - 1
             z == x[k]
             D == DOMAIN h[j]
             old == IF z \in D THEN h[j][z] ELSE 0
  <1>1. j \in Nat /\ 1..k = (1..j) \cup {k} /\ k \notin 1..j /\ k \in 1..k
    OBVIOUS
  <1>2. IsFiniteSet(1..j) /\ IsFiniteSet(1..k) /\ \A i \in 1..j : v[i] \in Nat
    BY <1>1, FS_Interval
  <1>3. /\ DOMAIN h[k] = D \cup {z}
        /\ \A y \in D \ {z} : h[k][y] = h[j][y]
        /\ h[k][z] = old + v[k]
    BY DEF AddsUp
  <1>4. /\ IsFiniteSet(D)
        /\ \A y : y \in D <=> OfName(x, j, y) # {}
        /\ \A y \in D : h[j][y] = SumFunctionOnSet(v, OfName(x, j, y))
        /\ SumFunctionOnSet(h[j], D) = SumFunctionOnSet(v, 1..j)
    BY DEF Tallied
  <1> HIDE DEF j, D
  <1>5. \A y : y # z => OfName(x, k, y) = OfName(x, j, y)
    BY <1>1 DEF OfName
  <1>6. OfName(x, k, z) = OfName(x, j, z) \cup {k} /\ k \notin OfName(x, j, z)
    BY <1>1 DEF OfName
  <1>7. \A y : OfName(x, j, y) \subseteq 1..j /\ IsFiniteSet(OfName(x, j, y))
    <2>1. \A y : OfName(x, j, y) \subseteq 1..j
      BY DEF OfName
    <2> QED BY <1>2, <2>1, FS_Subset
  <1>8. old = SumFunctionOnSet(v, OfName(x, j, z)) /\ old \in Nat
    <2>1. CASE z \in D
      <3>1. SumFunctionOnSet(v, OfName(x, j, z)) \in Nat
        BY <1>2, <1>7, SumIsNat
      <3> QED BY <1>4, <2>1, <3>1
    <2>2. CASE z \notin D
      <3>1. OfName(x, j, z) = {}
        BY <1>4, <2>2
      <3> QED BY <2>2, <3>1, SumEmpty
    <2> QED BY <2>1, <2>2
  <1>9. h[k][z] = SumFunctionOnSet(v, OfName(x, k, z))
    <2>1. \A y \in OfName(x, j, z) \cup {k} : v[y] \in Nat
      BY <1>1, <1>2, <1>7
    <2>2. SumFunctionOnSet(v, OfName(x, j, z) \cup {k})
            = v[k] + SumFunctionOnSet(v, OfName(x, j, z))
      BY <1>6, <1>7, <2>1, SumAdd
    <2>3. v[k] \in Nat
      BY <1>1
    <2> HIDE DEF z, old
    <2> QED BY <1>3, <1>6, <1>8, <2>2, <2>3
  <1>10. \A y \in D : h[j][y] \in Nat
    BY <1>2, <1>4, <1>7, SumIsNat
  <1>11. SumFunctionOnSet(h[k], D \cup {z}) = SumFunctionOnSet(v, 1..k)
    <2> DEFINE E == D \ {z}
    <2>1. IsFiniteSet(E) /\ z \notin E /\ D \cup {z} = E \cup {z}
      BY <1>4, FS_Subset
    <2>2. h[k][z] \in Nat /\ v[k] \in Nat
      BY <1>1, <1>3, <1>8
    <2>3. SumFunctionOnSet(h[k], E) = SumFunctionOnSet(h[j], E)
      BY <1>3, <2>1, SumSame
    <2>4. \A y \in E \cup {z} : h[k][y] \in Nat
      BY <1>3, <1>10, <2>2
    <2>5. SumFunctionOnSet(h[k], E \cup {z}) = h[k][z] + SumFunctionOnSet(h[k], E)
      BY <2>1, <2>4, SumAdd
    <2>6. SumFunctionOnSet(h[j], E) \in Nat
      BY <1>10, <2>1, SumIsNat
    <2>7. SumFunctionOnSet(h[j], D) = old + SumFunctionOnSet(h[j], E)
      <3>1. CASE z \in D
        <4>1. SumFunctionOnSet(h[j], D) = h[j][z] + SumFunctionOnSet(h[j], E)
          BY <1>4, <1>10, <3>1, SumRemove
        <4> QED BY <3>1, <4>1
      <3>2. CASE z \notin D
        <4>1. E = D
          BY <3>2
        <4> QED BY <2>6, <3>2, <4>1
      <3> QED BY <3>1, <3>2
    <2>8. SumFunctionOnSet(v, (1..j) \cup {k}) = v[k] + SumFunctionOnSet(v, 1..j)
      <3>1. \A y \in (1..j) \cup {k} : v[y] \in Nat
        BY <1>1
      <3> QED BY <1>1, <1>2, <3>1, SumAdd
    <2> DEFINE a == SumFunctionOnSet(h[j], E)
               b == SumFunctionOnSet(v, 1..j)
    <2>9. SumFunctionOnSet(h[k], D \cup {z}) = (old + v[k]) + a
      BY <1>3, <2>1, <2>3, <2>5
    <2>10. b = old + a
      BY <1>4, <2>7
    <2>11. SumFunctionOnSet(v, 1..k) = v[k] + b
      BY <1>1, <2>8
    <2> HIDE DEF E, old, z, a, b
    <2> QED BY ONLY <1>8, <2>2, <2>6, <2>9, <2>10, <2>11 DEF a
  <1>12. \A y : y \in D \cup {z} <=> OfName(x, k, y) # {}
    BY <1>4, <1>5, <1>6
  <1>13. \A y \in D \cup {z} : h[k][y] = SumFunctionOnSet(v, OfName(x, k, y))
    BY <1>3, <1>4, <1>5, <1>9
  <1>14. IsFiniteSet(D \cup {z})
    BY <1>4, FS_AddElement
  <1> HIDE DEF z
  <1> QED BY <1>3, <1>11, <1>12, <1>13, <1>14 DEF Tallied

LEMMA TallyFacts ==
  ASSUME NEW n \in Nat, NEW h, NEW x, NEW v, IsTally(h, x, v, n),
         \A i \in 1..n : v[i] \in Nat
  PROVE  Tallied(h, x, v, n)
  <1> DEFINE T == {k \in 0..n : Tallied(h, x, v, k)}
  <1>1. 0 \in T
    <2>1. DOMAIN h[0] = {} /\ 1..0 = {} /\ \A y : OfName(x, 0, y) = {}
      BY DEF IsTally, OfName
    <2>2. Tallied(h, x, v, 0)
      BY <2>1, FS_EmptySet, SumEmpty DEF Tallied
    <2> QED BY <2>2
  <1>2. ASSUME NEW k \in 1..n, k - 1 \in T
        PROVE  k \in T
    <2>1. k \in Nat /\ k # 0 /\ k \in 0..n /\ \A i \in 1..k : v[i] \in Nat
      OBVIOUS
    <2>2. AddsUp(h, x, v, k) /\ Tallied(h, x, v, k - 1)
      BY <1>2 DEF IsTally
    <2>3. Tallied(h, x, v, k)
      BY <2>1, <2>2, TallyStep
    <2> QED BY <2>1, <2>3
  <1>3. \A k \in 0..n : k \in T
    <2> HIDE DEF T
    <2> QED BY <1>1, <1>2, UpFrom0
  <1> QED BY <1>3
=============================================================================
