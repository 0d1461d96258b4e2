--------------------------- MODULE FiniteInduction ---------------------------
(***************************************************************************)
(* Induction for proofs about the models' recursive functions and folds,   *)
(* stated with sets in place of predicates: the set of the arguments for   *)
(* which a claim holds is named, and a lemma here says it is all of them.  *)
(* With it, what several proofs need of counting and of short sequences.   *)
(***************************************************************************)
EXTENDS Naturals, FiniteSets, Sequences, FiniteSetTheorems, SequenceTheorems, TLAPS

\* Every set of natural numbers has a least element.
LEMMA LeastElement ==
  ASSUME NEW B \in SUBSET Nat, B # {} PROVE \E m \in B : \A k \in B : m <= k
<1> DEFINE Segments == {0..k : k \in B}
<1>1. Segments # {} /\ Segments \subseteq FiniteSubsetsOf(Nat)
  <2>1. ASSUME NEW k \in B PROVE 0..k \in FiniteSubsetsOf(Nat)
    <3>1. 0 \in Int /\ k \in Int /\ 0..k \subseteq Nat
      OBVIOUS
    <3>2. IsFiniteSet(0..k)
      BY <3>1, FS_Interval
    <3>3. QED
      BY <3>1, <3>2 DEF FiniteSubsetsOf
  <2>2. QED
    BY <2>1
<1>2. PICK U \in Segments : \A V \in Segments : ~(<<V, U>> \in StrictSubsetOrdering(Nat))
  <2> HIDE DEF Segments
  <2> QED
    BY <1>1, FS_StrictSubsetOrderingWellFounded, WFMin
<1>3. PICK m \in B : U = 0..m
  OBVIOUS
<1>4. ASSUME NEW k \in B, k < m PROVE FALSE
  <2>1. 0..k \subseteq 0..m /\ 0..k # 0..m
    BY <1>4
  <2>2. <<0..k, U>> \in StrictSubsetOrdering(Nat)
    BY <1>3, <2>1 DEF StrictSubsetOrdering
  <2>3. QED
    BY <1>2, <2>2
<1>5. QED
  BY <1>4

\* A nonempty set of numbers up to a bound has a greatest element.
LEMMA GreatestElement ==
  ASSUME NEW n \in Nat, NEW B \in SUBSET (0..n), B # {} PROVE \E m \in B : \A k \in B : k <= m
<1> DEFINE D == {n - k : k \in B}
<1>0. \A k \in B : k \in Nat /\ n - k \in Nat
  OBVIOUS
<1>1. D \in SUBSET Nat /\ D # {}
  BY <1>0
<1> HIDE DEF D
<1>2. PICK d \in D : \A e \in D : d <= e
  BY <1>1, LeastElement
<1>3. PICK m \in B : d = n - m
  BY DEF D
<1>4. ASSUME NEW k \in B PROVE k <= m
  <2>1. n - m <= n - k
    BY <1>2, <1>3 DEF D
  <2>2. QED
    BY <1>0, <2>1
<1>5. QED
  BY <1>4

\* What holds of a finite set's subset as soon as it holds of all smaller ones
\* holds of the set.
LEMMA SmallerSubsets ==
  ASSUME NEW S, IsFiniteSet(S), NEW C,
         \A T \in SUBSET S : (\A U \in SUBSET T : U # T => U \in C) => T \in C
  PROVE  \A T \in SUBSET S : T \in C
<1> DEFINE Bad == {T \in FiniteSubsetsOf(S) : T \notin C}
<1>0. FiniteSubsetsOf(S) = SUBSET S
  BY FS_Subset DEF FiniteSubsetsOf
<1>1. SUFFICES ASSUME Bad # {} PROVE FALSE
  BY <1>0
<1>2. PICK T \in Bad : \A U \in Bad : ~(<<U, T>> \in StrictSubsetOrdering(S))
  <2>1. Bad \subseteq FiniteSubsetsOf(S)
    OBVIOUS
  <2> HIDE DEF Bad
  <2>2. QED
    BY <1>1, <2>1, FS_StrictSubsetOrderingWellFounded, WFMin
<1>3. ASSUME NEW U \in SUBSET T, U # T PROVE U \in C
  <2>1. U \in SUBSET S /\ <<U, T>> \in StrictSubsetOrdering(S)
    BY <1>0, <1>2, <1>3 DEF StrictSubsetOrdering
  <2>2. QED
    BY <1>0, <1>2, <2>1
<1>4. QED
  BY <1>0, <1>2, <1>3

\* A finite set is reached from the empty one by adding one element at a time.
LEMMA FiniteSetGrows ==
  ASSUME NEW S, IsFiniteSet(S), NEW C, {} \in C,
         \A T \in SUBSET S : \A x \in S \ T : T \in C => T \cup {x} \in C
  PROVE  S \in C
<1>1. ASSUME NEW T \in SUBSET S, \A U \in SUBSET T : U # T => U \in C PROVE T \in C
  <2>1. CASE T = {}
    BY <2>1
  <2>2. CASE T # {}
    <3>1. PICK x : x \in T
      BY <2>2
    <3>2. T \ {x} \in C /\ T \ {x} \in SUBSET S /\ x \in S \ (T \ {x})
      BY <1>1, <3>1
    <3>3. (T \ {x}) \cup {x} = T
      BY <3>1
    <3>4. QED
      BY <3>2, <3>3
  <2>3. QED
    BY <2>1, <2>2
<1>2. QED
  BY <1>1, SmallerSubsets

\* Induction over the natural numbers up to a bound.
LEMMA CountsUp ==
  ASSUME NEW n \in Nat, NEW C, 0 \in C, \A i \in 0..n : i # n /\ i \in C => i + 1 \in C
  PROVE  n \in C
<1> SUFFICES ASSUME n \notin C PROVE FALSE
  OBVIOUS
<1> DEFINE Bad == {i \in 0..n : i \notin C}
<1>1. PICK m \in Bad : \A k \in Bad : m <= k
  <2>1. Bad \in SUBSET Nat /\ n \in Bad
    OBVIOUS
  <2>2. QED
    BY <2>1, LeastElement
<1>2. m # 0 /\ m - 1 \in 0..n /\ m - 1 # n /\ (m - 1) + 1 = m
  BY <1>1
<1>3. m - 1 \in C
  <2>1. ~(m <= m - 1)
    BY <1>1
  <2>2. m - 1 \notin Bad
    BY <1>1, <2>1
  <2>3. QED
    BY <1>2, <2>2
<1>4. QED
  BY <1>1, <1>2, <1>3

\* A function takes finitely many values on a finite set.
LEMMA FiniteImage ==
  ASSUME NEW S, IsFiniteSet(S), NEW f PROVE IsFiniteSet({f[x] : x \in S})
<1> DEFINE C == {T \in SUBSET S : IsFiniteSet({f[x] : x \in T})}
<1>1. {} \in C
  <2>1. {f[x] : x \in {}} = {}
    OBVIOUS
  <2>2. QED
    BY <2>1, FS_EmptySet
<1>2. ASSUME NEW T \in SUBSET S, NEW y \in S \ T, T \in C PROVE T \cup {y} \in C
  <2>1. {f[x] : x \in T \cup {y}} = {f[x] : x \in T} \cup {f[y]}
    OBVIOUS
  <2>2. IsFiniteSet({f[x] : x \in T} \cup {f[y]})
    BY <1>2, FS_AddElement
  <2>3. QED
    BY <2>1, <2>2
<1> HIDE DEF C
<1>3. S \in C
  BY <1>1, <1>2, FiniteSetGrows
<1>4. QED
  BY <1>3 DEF C

\* A function of the subsets of a set that takes each nonempty one to what a step
\* makes of one of its elements and of the rest.
Folds(g, S, base, step, choice) ==
  g = [T \in SUBSET S |-> IF T = {} THEN base ELSE step[<<choice[T], g[T \ {choice[T]}]>>]]

\* A fold over a finite set is defined.
LEMMA FoldExists ==
  ASSUME NEW S, IsFiniteSet(S), NEW base, NEW step, NEW choice,
         \A T \in SUBSET S : T # {} => choice[T] \in T
  PROVE  \E g : Folds(g, S, base, step, choice)
<1> DEFINE Level(k) == {T \in SUBSET S : Cardinality(T) <= k}
           E(g, T) == IF T = {} THEN base ELSE step[<<choice[T], g[T \ {choice[T]}]>>]
           n == Cardinality(S)
           C == {k \in 0..n : \E g : g = [T \in Level(k) |-> E(g, T)]}
<1>0. n \in Nat /\ \A T \in SUBSET S : /\ IsFiniteSet(T) /\ Cardinality(T) \in Nat
                                        /\ Cardinality(T) <= n
                                        /\ (Cardinality(T) = 0 <=> T = {})
  BY FS_Subset, FS_CardinalityType, FS_EmptySet
<1>1. 0 \in C
  <2> DEFINE g == [T \in Level(0) |-> base]
  <2>1. \A T \in Level(0) : T = {}
    BY <1>0
  <2>2. g = [T \in Level(0) |-> E(g, T)]
    BY <2>1
  <2>3. \E f : f = [T \in Level(0) |-> E(f, T)]
    <3> HIDE DEF E, Level, g
    <3>1. QED
      BY <2>2
  <2>4. 0 \in 0..n
    BY <1>0
  <2>5. QED
    BY <2>3, <2>4
<1>2. ASSUME NEW k \in 0..n, k # n, k \in C PROVE k + 1 \in C
  <2>1. PICK g : g = [T \in Level(k) |-> E(g, T)]
    BY <1>2
  <2> DEFINE h == [T \in Level(k + 1) |-> IF Cardinality(T) <= k THEN g[T] ELSE E(g, T)]
  <2>2. ASSUME NEW T \in Level(k + 1), T # {}
        PROVE  T \ {choice[T]} \in Level(k) /\ T \ {choice[T]} \in Level(k + 1)
    <3>1. Cardinality(T \ {choice[T]}) = Cardinality(T) - 1
      BY <1>0, <2>2, FS_RemoveElement
    <3>2. QED
      BY <1>0, <3>1
  <2>3. \A T \in Level(k) : T \in Level(k + 1) /\ h[T] = g[T]
    BY <1>0
  <2>4. ASSUME NEW T \in Level(k + 1) PROVE h[T] = E(h, T)
    <3>1. E(h, T) = E(g, T)
      <4> HIDE DEF h, Level
      <4>1. QED
        BY <2>2, <2>3
    <3>2. CASE Cardinality(T) <= k
      <4>1. T \in Level(k)
        BY <3>2
      <4>2. h[T] = g[T] /\ g[T] = E(g, T)
        BY <2>1, <2>3, <4>1
      <4>3. QED
        BY <3>1, <4>2
    <3>3. CASE ~(Cardinality(T) <= k)
      <4>1. h[T] = E(g, T)
        BY <3>3
      <4>2. QED
        BY <3>1, <4>1
    <3>4. QED
      BY <3>2, <3>3
  <2>5. h = [T \in Level(k + 1) |-> E(h, T)]
    <3>1. h = [T \in Level(k + 1) |-> h[T]]
      OBVIOUS
    <3> HIDE DEF h, E, Level
    <3>2. QED
      BY <2>4, <3>1
  <2>6. k + 1 \in 0..n
    BY <1>0, <1>2
  <2>7. QED
    BY <2>5, <2>6
<1>3. n \in C
  <2> HIDE DEF C
  <2>1. QED
    BY <1>0, <1>1, <1>2, CountsUp
<1>4. Level(n) = SUBSET S
  BY <1>0
<1>5. QED
  BY <1>3, <1>4 DEF Folds

\* Two functions of the subsets that agree on a nonempty one as soon as they
\* agree without one of its elements are the same.
OnSubsets(g, S) == g = [T \in SUBSET S |-> g[T]]
SameAfter(g, h, T) == \E c \in T : g[T \ {c}] = h[T \ {c}] => g[T] = h[T]

LEMMA SameRecursion ==
  ASSUME NEW S, IsFiniteSet(S), NEW g, NEW h,
         OnSubsets(g, S), OnSubsets(h, S), g[{}] = h[{}],
         \A T \in SUBSET S : T # {} => SameAfter(g, h, T)
  PROVE  g = h
<1>0. g = [T \in SUBSET S |-> g[T]] /\ h = [T \in SUBSET S |-> h[T]]
  BY DEF OnSubsets
<1> DEFINE C == {T \in SUBSET S : g[T] = h[T]}
<1>1. ASSUME NEW T \in SUBSET S, \A U \in SUBSET T : U # T => U \in C PROVE T \in C
  <2>1. CASE T = {}
    BY <2>1
  <2>2. CASE T # {}
    <3>1. PICK c \in T : g[T \ {c}] = h[T \ {c}] => g[T] = h[T]
      BY <2>2 DEF SameAfter
    <3>2. T \ {c} \in C
      BY <1>1
    <3>3. QED
      BY <3>1, <3>2
  <2>3. QED
    BY <2>1, <2>2
<1> HIDE DEF C
<1>2. \A T \in SUBSET S : T \in C
  BY <1>1, SmallerSubsets
<1>3. QED
  BY <1>0, <1>2 DEF C

-----------------------------------------------------------------------------
(* Sums.                                                                    *)

\* A function of the subsets of a set that gives each the sum of f over it.
Additive(g, f, S) ==
  /\ g \in [SUBSET S -> Nat] /\ g[{}] = 0
  /\ \A T \in SUBSET S : \A x \in T : g[T] = g[T \ {x}] + f[x]

\* A fold that adds gives sums, whichever elements it takes first.
LEMMA FoldAdds ==
  ASSUME NEW S, IsFiniteSet(S), NEW f \in [S -> Nat], NEW step, NEW choice, NEW g,
         \A T \in SUBSET S : T # {} => choice[T] \in T,
         \A x \in S, n \in Nat : step[<<x, n>>] = n + f[x],
         Folds(g, S, 0, step, choice)
  PROVE  Additive(g, f, S)
<1> DEFINE Sum(T) == g[T] \in Nat /\ \A x \in T : g[T \ {x}] \in Nat /\ g[T] = g[T \ {x}] + f[x]
           C == {T \in SUBSET S : Sum(T)}
<1>0. /\ g = [T \in SUBSET S |-> g[T]] /\ g[{}] = 0
      /\ \A T \in SUBSET S : T # {} => g[T] = step[<<choice[T], g[T \ {choice[T]}]>>]
  BY DEF Folds
<1>1. ASSUME NEW T \in SUBSET S, \A U \in SUBSET T : U # T => U \in C PROVE T \in C
  <2>1. CASE T = {}
    BY <1>0, <2>1
  <2>2. CASE T # {}
    <3> DEFINE c == choice[T]
    <3>1. c \in T /\ c \in S
      BY <2>2
    <3>2. Sum(T \ {c})
      BY <1>1, <3>1
    <3>3. g[T] = g[T \ {c}] + f[c] /\ g[T] \in Nat
      <4>1. g[T] = step[<<c, g[T \ {c}]>>]
        BY <1>0, <2>2
      <4> HIDE DEF c
      <4>2. g[T \ {c}] \in Nat /\ f[c] \in Nat
        BY <3>1, <3>2
      <4>3. step[<<c, g[T \ {c}]>>] = g[T \ {c}] + f[c]
        BY <3>1, <4>2
      <4>4. QED
        BY <4>1, <4>2, <4>3
    <3> HIDE DEF c
    <3>4. ASSUME NEW x \in T, x # c PROVE g[T \ {x}] \in Nat /\ g[T] = g[T \ {x}] + f[x]
      <4>1. Sum(T \ {x})
        BY <1>1
      <4>2. (T \ {x}) \ {c} = (T \ {c}) \ {x}
        OBVIOUS
      <4>3. g[T \ {c}] = g[(T \ {c}) \ {x}] + f[x]
        BY <3>2, <3>4
      <4>4. g[T \ {x}] = g[(T \ {c}) \ {x}] + f[c] /\ g[(T \ {c}) \ {x}] \in Nat
        <5>1. c \in T \ {x}
          BY <3>1, <3>4
        <5>2. g[(T \ {x}) \ {c}] \in Nat /\ g[T \ {x}] = g[(T \ {x}) \ {c}] + f[c]
          BY <4>1, <5>1
        <5>3. QED
          BY <4>2, <5>2
      <4>5. f[x] \in Nat /\ f[c] \in Nat /\ g[T \ {x}] \in Nat
        BY <3>1, <4>1
      <4>6. QED
        BY <3>3, <4>3, <4>4, <4>5
    <3>5. QED
      BY <3>2, <3>3, <3>4
  <2>3. QED
    BY <2>1, <2>2
<1> HIDE DEF C
<1>2. \A T \in SUBSET S : T \in C
  BY <1>1, SmallerSubsets
<1>3. \A T \in SUBSET S : Sum(T)
  BY <1>2 DEF C
<1>4. g \in [SUBSET S -> Nat]
  <2>1. \A T \in SUBSET S : g[T] \in Nat
    BY <1>3
  <2>2. QED
    BY <1>0, <2>1
<1>5. QED
  BY <1>0, <1>3, <1>4 DEF Additive

\* The sums that a choice of the element to take next leads to.
SumsBy(g, f, S, choice) ==
  /\ Additive(g, f, S)
  /\ g = [T \in SUBSET S |-> IF T = {} THEN 0 ELSE g[T \ {choice[T]}] + f[choice[T]]]

\* Whatever order they are taken in, the elements have a sum.
LEMMA SumInOrder ==
  ASSUME NEW S, IsFiniteSet(S), NEW f \in [S -> Nat], NEW choice,
         \A T \in SUBSET S : T # {} => choice[T] \in T
  PROVE  \E g : SumsBy(g, f, S, choice)
<1> DEFINE step == [a \in S \X Nat |-> a[2] + f[a[1]]]
<1>1. \A x \in S, n \in Nat : step[<<x, n>>] = n + f[x]
  OBVIOUS
<1> HIDE DEF step
<1>2. PICK g : Folds(g, S, 0, step, choice)
  BY FoldExists
<1>3. Additive(g, f, S)
  BY <1>1, <1>2, FoldAdds
<1>4. \A T \in SUBSET S : T # {} => g[T] = g[T \ {choice[T]}] + f[choice[T]]
  BY <1>3 DEF Additive
<1>5. g = [T \in SUBSET S |-> g[T]] /\ g[{}] = 0
  BY <1>3 DEF Additive
<1>6. g = [T \in SUBSET S |-> IF T = {} THEN 0 ELSE g[T \ {choice[T]}] + f[choice[T]]]
  BY <1>4, <1>5
<1>7. QED
  BY <1>3, <1>6 DEF SumsBy

\* Sums are defined.
LEMMA SumExists ==
  ASSUME NEW S, IsFiniteSet(S), NEW f \in [S -> Nat]
  PROVE  \E g : Additive(g, f, S)
<1> DEFINE choice == [T \in SUBSET S |-> CHOOSE x \in T : TRUE]
<1>1. \A T \in SUBSET S : T # {} => choice[T] \in T
  OBVIOUS
<1> HIDE DEF choice
<1>2. QED
  BY <1>1, SumInOrder DEF SumsBy

\* A sum depends on nothing but the values summed.
LEMMA SumsAgree ==
  ASSUME NEW S, IsFiniteSet(S), NEW f, NEW g, Additive(g, f, S),
         NEW e, NEW h, Additive(h, e, S),
         NEW T \in SUBSET S, \A x \in T : f[x] = e[x]
  PROVE  g[T] = h[T]
<1> DEFINE C == {U \in SUBSET T : g[U] = h[U]}
<1>1. {} \in C
  BY DEF Additive
<1>2. ASSUME NEW U \in SUBSET T, NEW x \in T \ U, U \in C PROVE U \cup {x} \in C
  <2>1. U \cup {x} \in SUBSET S /\ x \in U \cup {x} /\ (U \cup {x}) \ {x} = U
    OBVIOUS
  <2>2. g[U \cup {x}] = g[U] + f[x]
    BY <2>1 DEF Additive
  <2>3. h[U \cup {x}] = h[U] + e[x]
    BY <2>1 DEF Additive
  <2>4. QED
    BY <1>2, <2>2, <2>3
<1>3. IsFiniteSet(T)
  BY FS_Subset
<1> HIDE DEF C
<1>4. T \in C
  BY <1>1, <1>2, <1>3, FiniteSetGrows
<1>5. QED
  BY <1>4 DEF C

\* One more element adds its value to a sum.
LEMMA OneMore ==
  ASSUME NEW S, NEW f, NEW g, Additive(g, f, S), NEW T \in SUBSET S, NEW x \in S \ T
  PROVE  g[T \cup {x}] = g[T] + f[x] /\ g[T] \in Nat
<1>1. T \cup {x} \in SUBSET S /\ x \in T \cup {x} /\ (T \cup {x}) \ {x} = T
  OBVIOUS
<1>2. QED
  BY <1>1 DEF Additive

\* The sums over the groups a set falls into, and the sum of these.
GroupSums(q, key, f, S, K) ==
  \A k \in K : Additive(q[k], [x \in S |-> IF key[x] = k THEN f[x] ELSE 0], S)
SumOfGroups(h, q, S, K) == Additive(h, [k \in K |-> q[k][S]], K)

\* The sum over a set is the sum of the sums over its groups.
LEMMA SumByGroups ==
  ASSUME NEW S, IsFiniteSet(S), NEW f \in [S -> Nat], NEW p, Additive(p, f, S),
         NEW K, IsFiniteSet(K), NEW key \in [S -> K], NEW q, GroupSums(q, key, f, S, K),
         NEW h, SumOfGroups(h, q, S, K)
  PROVE  h[K] = p[S]
<1> USE DEF GroupSums, SumOfGroups
<1> DEFINE Of(T) == [k \in K |-> q[k][T]]
           C == {T \in SUBSET S : \A g : Additive(g, Of(T), K) => g[K] = p[T]}
           part(k) == [x \in S |-> IF key[x] = k THEN f[x] ELSE 0]
<1>0. \A T \in SUBSET S : Of(T) \in [K -> Nat]
  BY DEF Additive
<1>1. {} \in C
  <2>1. ASSUME NEW g, Additive(g, Of({}), K) PROVE g[K] = 0
    <3> DEFINE D == {U \in SUBSET K : g[U] = 0}
    <3>1. {} \in D
      BY <2>1 DEF Additive
    <3>2. \A k \in K : Of({})[k] = 0
      BY DEF Additive
    <3>3. ASSUME NEW U \in SUBSET K, NEW k \in K \ U, U \in D PROVE U \cup {k} \in D
      <4>1. U \cup {k} \in SUBSET K /\ k \in U \cup {k} /\ (U \cup {k}) \ {k} = U
        OBVIOUS
      <4> HIDE DEF Of
      <4>2. g[U \cup {k}] = g[U] + Of({})[k]
        BY <2>1, <4>1 DEF Additive
      <4>3. QED
        BY <3>2, <3>3, <4>2
    <3> HIDE DEF D
    <3>4. K \in D
      BY <3>1, <3>3, FiniteSetGrows
    <3>5. QED
      BY <3>4 DEF D
  <2>2. p[{}] = 0
    BY DEF Additive
  <2>3. QED
    BY <2>1, <2>2
<1>2. ASSUME NEW T \in SUBSET S, NEW x \in S \ T, T \in C PROVE T \cup {x} \in C
  <2> DEFINE U == T \cup {x}
             c == key[x]
  <2>1. U \in SUBSET S /\ x \in U /\ U \ {x} = T /\ c \in K
    OBVIOUS
  <2>2. p[U] = p[T] + f[x] /\ p[T] \in Nat /\ f[x] \in Nat
    <3> HIDE DEF U
    <3>1. QED
      BY <2>1 DEF Additive
  <2>3. \A k \in K : q[k][U] = q[k][T] + (IF k = c THEN f[x] ELSE 0) /\ q[k][T] \in Nat
    <3>1. ASSUME NEW k \in K PROVE q[k][U] = q[k][T] + part(k)[x] /\ q[k][T] \in Nat
      <4>1. Additive(q[k], part(k), S)
        OBVIOUS
      <4> HIDE DEF part
      <4>2. QED
        BY <4>1, OneMore
    <3>2. QED
      BY <3>1
  <2>4. ASSUME NEW g, Additive(g, Of(U), K) PROVE g[K] = p[U]
    <3>1. PICK e : Additive(e, Of(T), K)
      <4> HIDE DEF Of
      <4>1. QED
        BY <1>0, SumExists
    <3>2. e[K] = p[T]
      BY <1>2, <3>1
    <3>3. Of(U)[c] = Of(T)[c] + f[x] /\ \A k \in K \ {c} : Of(U)[k] = Of(T)[k]
      <4>1. \A k \in K : Of(U)[k] = q[k][U] /\ Of(T)[k] = q[k][T]
        OBVIOUS
      <4> HIDE DEF Of, U, c
      <4>2. QED
        BY <2>1, <2>2, <2>3, <4>1
    <3> HIDE DEF Of, U, c
    <3>4. g[K \ {c}] = e[K \ {c}]
      BY <2>4, <3>1, <3>3, SumsAgree
    <3>5. g[K] = g[K \ {c}] + Of(U)[c] /\ e[K] = e[K \ {c}] + Of(T)[c]
      BY <2>1, <2>4, <3>1 DEF Additive
    <3>6. e[K \ {c}] \in Nat /\ Of(T)[c] \in Nat
      BY <1>0, <2>1, <3>1 DEF Additive
    <3>7. QED
      BY <2>2, <3>2, <3>3, <3>4, <3>5, <3>6
  <2>5. QED
    BY <2>1, <2>4
<1> HIDE DEF C
<1>3. S \in C
  BY <1>1, <1>2, FiniteSetGrows
<1>4. QED
  BY <1>3 DEF C

-----------------------------------------------------------------------------
(* Counting the members of a set of numbers.                                *)

\* The members before one of them.
RankIn(B, n) == Cardinality({m \in B : m < n})

LEMMA CountIs ==
  ASSUME NEW k \in Nat, NEW B \in SUBSET (1..k)
  PROVE  IsFiniteSet(B) /\ Cardinality(B) \in Nat
<1>1. 1 \in Int /\ k \in Int
  OBVIOUS
<1>2. IsFiniteSet(1..k)
  BY <1>1, FS_Interval
<1>3. QED
  BY <1>2, FS_Subset, FS_CardinalityType

\* Every number below the count is the rank of a member.
LEMMA RankOnto ==
  ASSUME NEW k \in Nat, NEW B \in SUBSET (1..k), NEW p \in Nat, p < Cardinality(B)
  PROVE  \E n \in B : RankIn(B, n) = p
<1> SUFFICES ASSUME \A n \in B : RankIn(B, n) # p PROVE FALSE
  OBVIOUS
<1> DEFINE Upto(j) == {m \in B : m <= j}
           C == {j \in 0..k : Cardinality(Upto(j)) <= p}
<1>0. \A j : IsFiniteSet(Upto(j)) /\ Cardinality(Upto(j)) \in Nat
  <2>1. \A j : Upto(j) \in SUBSET (1..k)
    OBVIOUS
  <2> HIDE DEF Upto
  <2>2. QED
    BY <2>1, CountIs
<1>9. \A m \in B : m \in Nat /\ m >= 1 /\ m <= k
  OBVIOUS
<1>1. 0 \in C
  <2>3. \A m \in B : ~(m <= 0)
    BY <1>9
  <2>1. Upto(0) = {}
    BY <2>3
  <2>2. QED
    BY <2>1, FS_EmptySet
<1>2. ASSUME NEW j \in 0..k, j # k, j \in C PROVE j + 1 \in C
  <2>1. j \in Nat /\ j + 1 \in 0..k
    BY <1>2
  <2>10. \A m \in B : (m <= j + 1 <=> m <= j \/ m = j + 1) /\ (m < j + 1 <=> m <= j)
    BY <1>9, <2>1
  <2>11. ~(j + 1 <= j) /\ j + 1 <= j + 1
    BY <2>1
  <2>2. Upto(j + 1) = IF j + 1 \in B THEN Upto(j) \cup {j + 1} ELSE Upto(j)
    BY <2>10, <2>11, Zenon
  <2>3. j + 1 \notin Upto(j)
    BY <2>11
  <2>4. {m \in B : m < j + 1} = Upto(j)
    BY <2>10
  <2>5. RankIn(B, j + 1) = Cardinality(Upto(j))
    BY <2>4 DEF RankIn
  <2>6. Cardinality(Upto(j)) <= p
    BY <1>2
  <2> HIDE DEF Upto
  <2>7. CASE j + 1 \in B
    <3>1. Cardinality(Upto(j)) # p
      BY <2>5, <2>7
    <3>2. Cardinality(Upto(j + 1)) = Cardinality(Upto(j)) + 1
      BY <1>0, <2>2, <2>3, <2>7, FS_AddElement
    <3>3. Cardinality(Upto(j + 1)) <= p
      BY <1>0, <2>6, <3>1, <3>2
    <3>4. QED
      BY <2>1, <3>3
  <2>8. CASE j + 1 \notin B
    BY <2>1, <2>2, <2>6, <2>8
  <2>9. QED
    BY <2>7, <2>8
<1> HIDE DEF C
<1>3. k \in C
  BY <1>1, <1>2, CountsUp
<1>4. Upto(k) = B
  BY <1>9
<1>5. Cardinality(B) <= p /\ Cardinality(B) \in Nat
  BY <1>3, <1>4, CountIs DEF C
<1>6. QED
  BY <1>5

\* One more element is a member, or it is not.
LEMMA OneMoreCounted ==
  ASSUME NEW k \in Nat, NEW B \in SUBSET (1..k)
  PROVE  /\ Cardinality(B \cup {k + 1}) = Cardinality(B) + 1
         /\ RankIn(B \cup {k + 1}, k + 1) = Cardinality(B)
         /\ \A n \in 1..k : RankIn(B \cup {k + 1}, n) = RankIn(B, n)
<1>0. \A m \in B : m \in Nat /\ m < k + 1
  OBVIOUS
<1>1. k + 1 \notin B /\ ~(k + 1 < k + 1)
  BY <1>0
<1>2. IsFiniteSet(B)
  BY CountIs
<1>3. Cardinality(B \cup {k + 1}) = Cardinality(B) + 1
  BY <1>1, <1>2, FS_AddElement
<1>4. {m \in B \cup {k + 1} : m < k + 1} = B
  BY <1>0, <1>1
<1>5. ASSUME NEW n \in 1..k PROVE {m \in B \cup {k + 1} : m < n} = {m \in B : m < n}
  <2>1. ~(k + 1 < n)
    OBVIOUS
  <2>2. QED
    BY <2>1
<1>6. QED
  BY <1>3, <1>4, <1>5 DEF RankIn

-----------------------------------------------------------------------------
(* Short sequences.                                                         *)

LEMMA OneField ==
  ASSUME NEW s \in Seq(Nat), Len(s) >= 1
  PROVE  SubSeq(s, 1, 1) = <<s[1]>>
<1>1. 1 \in 1..Len(s)
  OBVIOUS
<1>2. \A k \in 1..1 : s[k] \in Nat
  BY <1>1, ElementOfSeq
<1>3. /\ SubSeq(s, 1, 1) \in Seq(Nat) /\ Len(SubSeq(s, 1, 1)) = 1
      /\ \A k \in 1..1 : SubSeq(s, 1, 1)[k] = s[k]
  <2>1. 1 - 1 + 1 = 1 /\ \A k \in 1..1 : 1 + k - 1 = k
    OBVIOUS
  <2>2. QED
    BY <1>2, <2>1, SubSeqProperties
<1>4. /\ <<s[1]>> \in Seq(Nat) /\ Len(<<s[1]>>) = 1
      /\ \A k \in 1..1 : <<s[1]>>[k] = s[k]
  BY <1>2
<1>5. QED
  <2> DEFINE t == <<s[1]>>
             u == SubSeq(s, 1, 1)
  <2>1. u \in Seq(Nat) /\ t \in Seq(Nat) /\ Len(u) = Len(t) /\ \A k \in 1..Len(u) : u[k] = t[k]
    BY <1>3, <1>4
  <2> HIDE DEF t, u
  <2>2. u = t
    BY <2>1, SeqEqual
  <2>3. QED
    BY <2>2 DEF t, u

LEMMA TwoFields ==
  ASSUME NEW s \in Seq(Nat), Len(s) >= 2
  PROVE  /\ SubSeq(s, 1, 2) = <<s[1], s[2]>>
         /\ s[1] \in Nat /\ s[2] \in Nat
<1>1. 1 \in 1..Len(s) /\ 2 \in 1..Len(s)
  OBVIOUS
<1>2. s[1] \in Nat /\ s[2] \in Nat
  BY <1>1, ElementOfSeq
<1>3. \A k \in 1..2 : s[k] \in Nat
  BY <1>2
<1>4. /\ SubSeq(s, 1, 2) \in Seq(Nat) /\ Len(SubSeq(s, 1, 2)) = 2
      /\ \A k \in 1..2 : SubSeq(s, 1, 2)[k] = s[k]
  <2>1. 2 - 1 + 1 = 2 /\ \A k \in 1..2 : 1 + k - 1 = k
    OBVIOUS
  <2>2. QED
    BY <1>3, <2>1, SubSeqProperties
<1>5. /\ <<s[1], s[2]>> \in Seq(Nat) /\ Len(<<s[1], s[2]>>) = 2
      /\ \A k \in 1..2 : <<s[1], s[2]>>[k] = s[k]
  BY <1>2
<1>6. SubSeq(s, 1, 2) = <<s[1], s[2]>>
  <2> DEFINE t == <<s[1], s[2]>>
             u == SubSeq(s, 1, 2)
  <2>1. u \in Seq(Nat) /\ t \in Seq(Nat) /\ Len(u) = Len(t) /\ \A k \in 1..Len(u) : u[k] = t[k]
    BY <1>4, <1>5
  <2> HIDE DEF t, u
  <2>2. u = t
    BY <2>1, SeqEqual
  <2>3. QED
    BY <2>2 DEF t, u
<1>7. QED
  BY <1>2, <1>6

LEMMA AllButLast ==
  ASSUME NEW S, NEW s \in Seq(S), s # <<>>
  PROVE  /\ SubSeq(s, 1, Len(s) - 1) \in Seq(S) /\ Len(s) \in Nat /\ Len(s) >= 1
         /\ Len(SubSeq(s, 1, Len(s) - 1)) = Len(s) - 1
         /\ \A k \in 1..Len(s) - 1 : SubSeq(s, 1, Len(s) - 1)[k] = s[k]
<1> DEFINE n == Len(s) - 1
<1>1. Len(s) \in Nat /\ Len(s) >= 1
  BY EmptySeq, LenProperties
<1>2. n \in Int /\ 1 \in Int /\ n \in Nat
  BY <1>1
<1>3. \A k \in 1..n : s[k] \in S
  BY <1>1, ElementOfSeq
<1> DEFINE t == SubSeq(s, 1, n)
<1> HIDE DEF n, t
<1>4. /\ t \in Seq(S) /\ Len(t) = IF 1 <= n THEN n - 1 + 1 ELSE 0
      /\ \A k \in 1..n - 1 + 1 : t[k] = s[1 + k - 1]
  BY <1>2, <1>3, SubSeqProperties DEF t
<1>5. Len(t) = n /\ \A k \in 1..n : t[k] = s[k]
  BY <1>2, <1>4
<1>6. QED
  BY <1>1, <1>4, <1>5 DEF t, n

LEMMA OneElement ==
  ASSUME NEW S, NEW a \in S
  PROVE  <<a>> \in Seq(S) /\ Len(<<a>>) = 1 /\ <<a>>[1] = a /\ <<a>> # <<>>
  OBVIOUS

LEMMA TwoElements ==
  ASSUME NEW S, NEW a \in S, NEW b \in S
  PROVE  <<a, b>> \in Seq(S) /\ Len(<<a, b>>) = 2 /\ <<a, b>>[1] = a /\ <<a, b>>[2] = b
  OBVIOUS

LEMMA RestOf ==
  ASSUME NEW S, NEW s \in Seq(S), s # <<>>
  PROVE  /\ SubSeq(s, 2, Len(s)) \in Seq(S) /\ Len(SubSeq(s, 2, Len(s))) = Len(s) - 1
         /\ \A k \in 1..Len(s) - 1 : SubSeq(s, 2, Len(s))[k] = s[k + 1]
<1> DEFINE n == Len(s)
           t == SubSeq(s, 2, n)
<1>1. n \in Nat /\ n >= 1
  BY EmptySeq, LenProperties
<1>2. \A k \in 2..n : s[k] \in S
  BY <1>1, ElementOfSeq
<1> HIDE DEF n, t
<1>3. /\ t \in Seq(S) /\ Len(t) = IF 2 <= n THEN n - 2 + 1 ELSE 0
      /\ \A k \in 1..n - 2 + 1 : t[k] = s[2 + k - 1]
  BY <1>1, <1>2, SubSeqProperties DEF t
<1>4. Len(t) = n - 1 /\ \A k \in 1..n - 1 : t[k] = s[k + 1]
  BY <1>1, <1>3
<1>5. QED
  BY <1>3, <1>4 DEF t, n

\* A sequence of two elements, put together from two.
LEMMA TwoParts ==
  ASSUME NEW S, NEW s \in Seq(S), s # <<>>, NEW u \in Seq(S), NEW first \in S, NEW second \in S
  PROVE  s \o u = <<first, second>> <=> s[1] = first /\ SubSeq(s, 2, Len(s)) \o u = <<second>>
<1> DEFINE n == Len(s)
           t == SubSeq(s, 2, Len(s))
           whole == s \o u
           rest == t \o u
<1>1. s \in Seq(S) /\ n \in Nat /\ n >= 1 /\ Len(u) \in Nat
  BY EmptySeq, LenProperties
<1>2. t \in Seq(S) /\ Len(t) = n - 1 /\ \A k \in 1..n - 1 : t[k] = s[k + 1]
  BY RestOf
<1>3. /\ whole \in Seq(S) /\ Len(whole) = n + Len(u)
      /\ \A k \in 1..n + Len(u) : whole[k] = IF k <= n THEN s[k] ELSE u[k - n]
  BY <1>1, ConcatProperties
<1> HIDE DEF n, t, whole, rest
<1>4. /\ rest \in Seq(S) /\ Len(rest) = Len(t) + Len(u)
      /\ \A k \in 1..Len(t) + Len(u) : rest[k] = IF k <= Len(t) THEN t[k] ELSE u[k - Len(t)]
  BY <1>2, ConcatProperties DEF rest
<1>5. whole[1] = s[1]
  BY <1>1, <1>3
<1>6. Len(rest) = Len(whole) - 1 /\ Len(whole) \in Nat
  BY <1>1, <1>2, <1>3, <1>4
<1>0. /\ Len(whole) = n + Len(u) /\ Len(t) = n - 1
      /\ Len(whole) \in Nat /\ Len(t) \in Nat /\ Len(rest) \in Nat
  BY <1>1, <1>2, <1>3, <1>4, LenProperties
<1>7. ASSUME Len(whole) = 2 PROVE rest[1] = whole[2]
  <2>1. n + Len(u) = 2 /\ Len(t) + Len(u) = 1
    <3> DEFINE a == Len(t)
               b == Len(u)
               c == Len(whole)
    <3>1. c = n + b /\ a = n - 1 /\ n \in Nat /\ b \in Nat /\ c = 2
      BY <1>0, <1>1, <1>7
    <3> HIDE DEF a, b, c
    <3>2. n + b = 2 /\ a + b = 1
      BY ONLY <3>1
    <3>3. QED
      BY <3>2 DEF a, b
  <2>2. CASE n = 2
    <3>1. rest[1] = t[1] /\ whole[2] = s[2] /\ t[1] = s[2]
      BY <1>1, <1>2, <1>3, <1>4, <2>1, <2>2
    <3>2. QED
      BY <3>1
  <2>3. CASE n = 1
    <3>1. rest[1] = u[1] /\ whole[2] = u[1]
      BY <1>1, <1>2, <1>3, <1>4, <2>1, <2>3
    <3>2. QED
      BY <3>1
  <2>4. QED
    BY <1>1, <2>1, <2>2, <2>3
<1>8. ASSUME whole = <<first, second>> PROVE s[1] = first /\ rest = <<second>>
  <2>1. Len(whole) = 2 /\ whole[1] = first /\ whole[2] = second
    BY <1>8
  <2>2. Len(rest) = 1 /\ rest[1] = second
    BY <1>6, <1>7, <2>1
  <2>3. <<second>> \in Seq(S) /\ Len(<<second>>) = 1 /\ <<second>>[1] = second
    BY OneElement
  <2>4. rest = <<second>>
    <3>1. \A k \in 1..Len(rest) : rest[k] = <<second>>[k]
      BY <2>2, <2>3
    <3>2. QED
      BY <1>4, <2>2, <2>3, <3>1, SeqEqual
  <2>5. QED
    BY <1>5, <2>1, <2>4
<1>9. ASSUME s[1] = first, rest = <<second>> PROVE whole = <<first, second>>
  <2>1. Len(rest) = 1 /\ rest[1] = second
    BY <1>9
  <2>2. Len(whole) = 2
    <3> DEFINE a == Len(rest)
               c == Len(whole)
    <3>1. a = c - 1 /\ c \in Nat /\ a = 1
      BY <1>6, <2>1
    <3> HIDE DEF a, c
    <3>2. c = 2
      BY ONLY <3>1
    <3>3. QED
      BY <3>2 DEF c
  <2>3. whole[1] = first /\ whole[2] = second
    BY <1>5, <1>7, <1>9, <2>1, <2>2
  <2>4. <<first, second>> \in Seq(S) /\ Len(<<first, second>>) = 2
        /\ \A k \in 1..2 : <<first, second>>[k] = IF k = 1 THEN first ELSE second
    BY TwoElements
  <2>5. \A k \in 1..2 : whole[k] = <<first, second>>[k]
    <3>1. \A k \in 1..2 : k = 1 \/ k = 2
      OBVIOUS
    <3>2. QED
      BY <2>3, <2>4, <3>1
  <2>6. QED
    BY <1>3, <2>2, <2>4, <2>5, SeqEqual
<1>10. QED
  BY <1>8, <1>9 DEF whole, rest, t
==============================================================================
