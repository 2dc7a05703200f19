------------------------------ MODULE Induction ------------------------------
(***************************************************************************)
(* Induction over data, as first-order facts to be cited by name: a set of *)
(* naturals, or of subsets of a finite set, that is not empty has a        *)
(* minimal element; recursion over the naturals defines a function; what   *)
(* FoldFunction adds up does not depend on the order of the elements.      *)
(***************************************************************************)
EXTENDS Integers, FiniteSets, Functions, FiniteSetTheorems,
        NaturalsInduction, WellFoundedInduction, TLAPS

Below == {p \in Nat \X Nat : p[1] < p[2]}

(* A set of naturals that is not empty has a least element.                *)
LEMMA MinimalNatural ==
    ASSUME NEW T, T \subseteq Nat, T # {}
    PROVE  \E n \in T : \A m \in T : n <= m
<1>1. IsWellFoundedOn(Below, Nat)
  BY NatLessThanWellFounded, Zenon DEF OpToRel, Below
<1>2. PICK n \in T : \A m \in T : ~(<<m, n>> \in Below)
  BY <1>1, WFMin
<1>3. \A m \in T : ~(m < n)
  BY <1>2 DEF Below
<1> QED BY <1>3

(* Induction: a set of naturals that has 0 and, with a number, the next one  *)
(* has them all.                                                           *)
LEMMA AllNaturals ==
    ASSUME NEW T, T \subseteq Nat, 0 \in T, \A n \in T : n + 1 \in T
    PROVE  T = Nat
<1>1. ASSUME Nat \ T # {} PROVE FALSE
  <2>1. PICK m \in Nat \ T : \A l \in Nat \ T : m <= l
    <3>1. Nat \ T \subseteq Nat
      OBVIOUS
    <3> QED BY <1>1, <3>1, MinimalNatural
  <2>2. m - 1 \in Nat /\ (m - 1) + 1 = m
    OBVIOUS
  <2>3. m - 1 \in T
    BY <2>1, <2>2
  <2> QED BY <2>2, <2>3
<1> QED BY <1>1

(* What holds of the first of a row and is passed on holds of all.          *)
LEMMA PassedOn ==
    ASSUME NEW n \in Nat, NEW h, NEW V, h[0] \in V,
           \A i \in 1 .. n : h[i - 1] \in V => h[i] \in V
    PROVE  \A i \in 0 .. n : h[i] \in V
<1> DEFINE T == {i \in Nat : i <= n => h[i] \in V}
<1>1. 0 \in T
  OBVIOUS
<1>2. ASSUME NEW i \in T PROVE i + 1 \in T
  <2>1. i + 1 <= n => /\ i + 1 \in 1 .. n /\ (i + 1) - 1 = i /\ h[i] \in V
    OBVIOUS
  <2> QED BY <2>1
<1>3. T \subseteq Nat
  OBVIOUS
<1> HIDE DEF T
<1>4. T = Nat
  BY <1>1, <1>2, <1>3, AllNaturals
<1> QED BY <1>4 DEF T

IsRecursion(f, n, first, step) ==
    f = [i \in 0 .. n |-> IF i = 0 THEN first ELSE step[i, f[i - 1]]]

(* Recursion from a first value by a step that stays in a set of values.   *)
LEMMA RecursiveFunction ==
    ASSUME NEW V, NEW first \in V, NEW step \in [Nat \X V -> V], NEW n \in Nat
    PROVE  \E f \in [0 .. n -> V] : IsRecursion(f, n, first, step)
<1> DEFINE Exists(m) == \E f \in [0 .. m -> V] : IsRecursion(f, m, first, step)
           T == {m \in Nat : ~Exists(m)}
<1>1. ASSUME T # {} PROVE FALSE
  <2>1. PICK m \in T : \A l \in T : m <= l
    <3>1. T \subseteq Nat
      OBVIOUS
    <3> HIDE DEF T
    <3> QED BY <1>1, <3>1, MinimalNatural
  <2>2. m \in Nat /\ ~Exists(m)
    OBVIOUS
  <2>3. Exists(0)
    <3> DEFINE f == [i \in 0 .. 0 |-> first]
    <3>1. f \in [0 .. 0 -> V]
      OBVIOUS
    <3>2. f = [i \in 0 .. 0 |-> IF i = 0 THEN first ELSE step[i, f[i - 1]]]
      <4>1. \A i \in 0 .. 0 : i = 0
        OBVIOUS
      <4> HIDE DEF f
      <4>2. [i \in 0 .. 0 |-> first]
            = [i \in 0 .. 0 |-> IF i = 0 THEN first ELSE step[i, f[i - 1]]]
        BY <4>1
      <4> QED BY <4>2 DEF f
    <3> HIDE DEF f
    <3> QED BY <3>1, <3>2 DEF IsRecursion
  <2>4. m # 0 /\ m - 1 \in Nat /\ Exists(m - 1)
    <3>1. m # 0
      BY <2>2, <2>3
    <3>2. m - 1 \in Nat /\ ~(m <= m - 1)
      BY <2>2, <3>1
    <3> HIDE DEF Exists
    <3> QED BY <2>1, <3>1, <3>2
  <2>5. PICK f \in [0 .. m - 1 -> V] : IsRecursion(f, m - 1, first, step)
    BY <2>4
  <2> DEFINE g == [i \in 0 .. m |-> IF i = m THEN step[m, f[m - 1]] ELSE f[i]]
  <2>6. ASSUME NEW i \in 0 .. m
        PROVE  /\ g[i] \in V
               /\ g[i] = IF i = 0 THEN first ELSE step[i, g[i - 1]]
    <3>1. CASE i = m
      <4>1. f[m - 1] \in V /\ g[m - 1] = f[m - 1]
        <5>1. m - 1 \in 0 .. m - 1 /\ m - 1 \in 0 .. m /\ m - 1 # m
          BY <2>2, <2>4
        <5> QED BY <5>1
      <4>2. <<m, f[m - 1]>> \in Nat \X V
        BY <2>2, <4>1
      <4>3. step[m, f[m - 1]] \in V
        BY <4>2
      <4> QED BY <2>2, <2>4, <3>1, <4>1, <4>3
    <3>2. CASE i # m
      <4>1. i \in 0 .. m - 1 /\ g[i] = f[i]
        BY <2>2, <3>2
      <4>2. f[i] = IF i = 0 THEN first ELSE step[i, f[i - 1]]
        BY <2>5, <4>1 DEF IsRecursion
      <4>3. i # 0 => g[i - 1] = f[i - 1]
        <5>1. i # 0 => i - 1 \in 0 .. m /\ i - 1 # m
          <6> HIDE DEF g, T
          <6> QED BY <2>2
        <5> QED BY <5>1
      <4> HIDE DEF g
      <4> QED BY <4>1, <4>2, <4>3
    <3> QED BY <3>1, <3>2
  <2>7. g \in [0 .. m -> V]
    BY <2>6
  <2>8. IsRecursion(g, m, first, step)
    <3>1. g = [i \in 0 .. m |-> g[i]]
      OBVIOUS
    <3> HIDE DEF g
    <3> QED BY <2>6, <3>1 DEF IsRecursion
  <2> HIDE DEF g
  <2> QED BY <2>2, <2>7, <2>8
<1>2. n \notin T
  BY <1>1
<1> QED BY <1>2

-----------------------------------------------------------------------------
(* A collection of subsets of a finite set that is not empty has one that  *)
(* contains no other.                                                      *)
LEMMA MinimalSubset ==
    ASSUME NEW S, IsFiniteSet(S), NEW T, T \subseteq SUBSET S, T # {}
    PROVE  \E x \in T : \A y \in T : y \subseteq x => y = x
<1>1. T \subseteq FiniteSubsetsOf(S)
  BY FS_Subset DEF FiniteSubsetsOf
<1>2. PICK x \in T : \A y \in T : ~(<<y, x>> \in StrictSubsetOrdering(S))
  BY <1>1, FS_StrictSubsetOrderingWellFounded, WFMin
<1>3. \A y \in T : y \subseteq x => y = x
  BY <1>2 DEF StrictSubsetOrdering
<1> QED BY <1>3

(* The image of a finite set.                                              *)
LEMMA FiniteImage ==
    ASSUME NEW S, IsFiniteSet(S), NEW h
    PROVE  IsFiniteSet({h[x] : x \in S})
<1> DEFINE f == [x \in S |-> h[x]]
<1>1. f \in Surjection(S, {h[x] : x \in S})
  BY DEF Surjection
<1> QED BY <1>1, FS_Surjection

-----------------------------------------------------------------------------
(* FoldFunction(+, 0, f), unfolded.                                        *)
Pick(s) == CHOOSE x \in s : TRUE

IsPartial(p, f, S) ==
    p = [s \in SUBSET S |-> IF s = {} THEN 0 ELSE f[Pick(s)] + p[s \ {Pick(s)}]]

Partial(f, S) == CHOOSE p : IsPartial(p, f, S)

SumOver(f, S) == Partial(f, S)[S]

LEMMA FoldIsSum == \A f : FoldFunction(+, 0, f) = SumOver(f, DOMAIN f)
BY DEF FoldFunction, FoldFunctionOnSet, MapThenFoldSet, SumOver, Partial, IsPartial, Pick

LEMMA PartialEquation ==
    ASSUME NEW f, NEW S, NEW p, IsPartial(p, f, S), NEW s \in SUBSET S
    PROVE  p[s] = IF s = {} THEN 0 ELSE f[Pick(s)] + p[s \ {Pick(s)}]
BY DEF IsPartial

LEMMA PickIn == ASSUME NEW s, s # {} PROVE Pick(s) \in s
BY DEF Pick

LEMMA PartialsAgree ==
    ASSUME NEW f, NEW S, IsFiniteSet(S), NEW p, IsPartial(p, f, S),
           NEW R, R \subseteq S, NEW q, IsPartial(q, f, R)
    PROVE  p[R] = q[R]
<1> DEFINE T == {s \in SUBSET R : p[s] # q[s]}
<1>1. ASSUME T # {} PROVE FALSE
  <2>1. IsFiniteSet(R)
    BY FS_Subset
  <2>2. PICK s \in T : \A t \in T : t \subseteq s => t = s
    <3>1. T \subseteq SUBSET R
      OBVIOUS
    <3> HIDE DEF T
    <3> QED BY <1>1, <3>1, <2>1, MinimalSubset
  <2>3. s \in SUBSET R /\ s \in SUBSET S
    OBVIOUS
  <2>4. p[s] = (IF s = {} THEN 0 ELSE f[Pick(s)] + p[s \ {Pick(s)}])
    BY <2>3, PartialEquation
  <2>5. q[s] = (IF s = {} THEN 0 ELSE f[Pick(s)] + q[s \ {Pick(s)}])
    BY <2>3, PartialEquation
  <2>6. s # {} => p[s \ {Pick(s)}] = q[s \ {Pick(s)}]
    BY <2>2, <2>3, PickIn
  <2>7. p[s] # q[s]
    OBVIOUS
  <2> HIDE DEF T
  <2> QED BY <2>4, <2>5, <2>6, <2>7
<1> QED BY <1>1

LEMMA PartialExists ==
    ASSUME NEW f, NEW S, IsFiniteSet(S)
    PROVE  IsPartial(Partial(f, S), f, S)
<1> DEFINE T == {s \in SUBSET S : ~ \E p : IsPartial(p, f, s)}
<1>1. ASSUME T # {} PROVE FALSE
  <2>1. PICK s \in T : \A t \in T : t \subseteq s => t = s
    <3>1. T \subseteq SUBSET S
      OBVIOUS
    <3> HIDE DEF T
    <3> QED BY <1>1, <3>1, MinimalSubset
  <2> DEFINE p == [t \in SUBSET s |->
                    IF t = {} THEN 0 ELSE f[Pick(t)] + SumOver(f, t \ {Pick(t)})]
  <2>2. \A t \in SUBSET s : t # s => IsPartial(Partial(f, t), f, t)
    BY <2>1 DEF Partial
  <2>3. ASSUME NEW t \in SUBSET s, t # s PROVE p[t] = SumOver(f, t)
    <3>0. IsFiniteSet(t) /\ IsPartial(Partial(f, t), f, t)
      BY <2>2, <2>3, FS_Subset
    <3>1. SumOver(f, t) = (IF t = {} THEN 0 ELSE f[Pick(t)] + Partial(f, t)[t \ {Pick(t)}])
      BY <3>0, PartialEquation DEF SumOver
    <3>2. t # {} => Partial(f, t)[t \ {Pick(t)}] = SumOver(f, t \ {Pick(t)})
      <4>1. SUFFICES ASSUME t # {} PROVE Partial(f, t)[t \ {Pick(t)}] = SumOver(f, t \ {Pick(t)})
        OBVIOUS
      <4>2. t \ {Pick(t)} \in SUBSET s /\ t \ {Pick(t)} # s /\ t \ {Pick(t)} \subseteq t
        BY <2>3, <4>1, PickIn
      <4>3. IsPartial(Partial(f, t \ {Pick(t)}), f, t \ {Pick(t)})
        BY <2>2, <4>2
      <4> QED BY <3>0, <4>2, <4>3, PartialsAgree DEF SumOver
    <3>3. p[t] = (IF t = {} THEN 0 ELSE f[Pick(t)] + SumOver(f, t \ {Pick(t)}))
      OBVIOUS
    <3> HIDE DEF p
    <3> QED BY <3>1, <3>2, <3>3
  <2>4. \A t \in SUBSET s : t # {} => p[t \ {Pick(t)}] = SumOver(f, t \ {Pick(t)})
    <3> HIDE DEF p
    <3> QED BY <2>3, PickIn
  <2>5. p = [t \in SUBSET s |-> IF t = {} THEN 0 ELSE f[Pick(t)] + p[t \ {Pick(t)}]]
    BY <2>4
  <2>6. IsPartial(p, f, s)
    <3> HIDE DEF p
    <3> QED BY <2>5 DEF IsPartial
  <2> QED BY <2>6
<1>2. \E p : IsPartial(p, f, S)
  BY <1>1
<1> QED BY <1>2 DEF Partial

LEMMA SumEmpty == \A f : SumOver(f, {}) = 0
BY FS_EmptySet, PartialExists, PartialEquation DEF SumOver

LEMMA SumPick ==
    ASSUME NEW f, NEW S, IsFiniteSet(S), S # {}
    PROVE  SumOver(f, S) = f[Pick(S)] + SumOver(f, S \ {Pick(S)})
<1>1. IsFiniteSet(S \ {Pick(S)})
  BY FS_Subset
<1>2. Partial(f, S)[S \ {Pick(S)}] = SumOver(f, S \ {Pick(S)})
  BY <1>1, PartialExists, PartialsAgree DEF SumOver
<1> QED BY <1>2, PartialExists, PartialEquation DEF SumOver

LEMMA SumNat ==
    ASSUME NEW S, IsFiniteSet(S), NEW f, \A x \in S : f[x] \in Nat
    PROVE  SumOver(f, S) \in Nat
<1> DEFINE T == {s \in SUBSET S : SumOver(f, s) \notin Nat}
<1>1. ASSUME T # {} PROVE FALSE
  <2>1. PICK s \in T : \A t \in T : t \subseteq s => t = s
    <3>1. T \subseteq SUBSET S
      OBVIOUS
    <3> HIDE DEF T
    <3> QED BY <1>1, <3>1, MinimalSubset
  <2>2. s # {}
    BY SumEmpty
  <2>3. Pick(s) \in s /\ f[Pick(s)] \in Nat
    BY <2>2, PickIn
  <2>4. SumOver(f, s \ {Pick(s)}) \in Nat
    BY <2>1, <2>3
  <2>5. SumOver(f, s) = f[Pick(s)] + SumOver(f, s \ {Pick(s)})
    BY <2>2, SumPick, FS_Subset
  <2> QED BY <2>3, <2>4, <2>5
<1> QED BY <1>1

(* Any element may be taken out first.                                     *)
LEMMA SumOut ==
    ASSUME NEW S, IsFiniteSet(S), NEW f, \A x \in S : f[x] \in Nat, NEW x \in S
    PROVE  SumOver(f, S) = f[x] + SumOver(f, S \ {x})
<1> DEFINE T == {s \in SUBSET S : \E y \in s : SumOver(f, s) # f[y] + SumOver(f, s \ {y})}
<1>1. ASSUME T # {} PROVE FALSE
  <2>1. PICK s \in T : \A t \in T : t \subseteq s => t = s
    <3>1. T \subseteq SUBSET S
      OBVIOUS
    <3> HIDE DEF T
    <3> QED BY <1>1, <3>1, MinimalSubset
  <2>2. PICK y \in s : SumOver(f, s) # f[y] + SumOver(f, s \ {y})
    OBVIOUS
  <2> DEFINE c == Pick(s)
  <2>3. c \in s /\ IsFiniteSet(s) /\ s \subseteq S
    BY <2>2, PickIn, FS_Subset
  <2>4. SumOver(f, s) = f[c] + SumOver(f, s \ {c})
    BY <2>2, <2>3, SumPick
  <2> HIDE DEF c
  <2>5. y # c
    BY <2>2, <2>4
  <2>6. SumOver(f, s \ {c}) = f[y] + SumOver(f, (s \ {c}) \ {y})
    <3>1. s \ {c} \in SUBSET S /\ s \ {c} # s /\ y \in s \ {c}
      BY <2>3, <2>5
    <3> QED BY <2>1, <3>1
  <2>7. SumOver(f, s \ {y}) = f[c] + SumOver(f, (s \ {y}) \ {c})
    <3>1. s \ {y} \in SUBSET S /\ s \ {y} # s /\ c \in s \ {y}
      BY <2>3, <2>5
    <3> QED BY <2>1, <3>1
  <2>8. (s \ {y}) \ {c} = (s \ {c}) \ {y}
    OBVIOUS
  <2>9. f[y] \in Nat /\ f[c] \in Nat /\ SumOver(f, (s \ {c}) \ {y}) \in Nat
    BY <2>3, SumNat, FS_Subset
  <2> HIDE DEF T
  <2> QED BY <2>2, <2>4, <2>6, <2>7, <2>8, <2>9
<1> QED BY <1>1

LEMMA SumMonotone ==
    ASSUME NEW S, IsFiniteSet(S), NEW f, \A x \in S : f[x] \in Nat,
           NEW R, R \subseteq S
    PROVE  SumOver(f, R) <= SumOver(f, S)
<1> DEFINE T == {s \in SUBSET S : R \subseteq s /\ ~(SumOver(f, R) <= SumOver(f, s))}
<1>1. ASSUME T # {} PROVE FALSE
  <2>1. PICK s \in T : \A t \in T : t \subseteq s => t = s
    <3>1. T \subseteq SUBSET S
      OBVIOUS
    <3> HIDE DEF T
    <3> QED BY <1>1, <3>1, MinimalSubset
  <2>2. IsFiniteSet(s) /\ IsFiniteSet(R) /\ \A x \in s : f[x] \in Nat
    BY FS_Subset
  <2>3. SumOver(f, R) \in Nat /\ SumOver(f, s) \in Nat
    BY <2>2, SumNat
  <2>4. s # R
    BY <2>3
  <2>5. PICK x \in s : x \notin R
    BY <2>4
  <2>6. SumOver(f, s) = f[x] + SumOver(f, s \ {x})
    BY <2>2, SumOut
  <2>7. SumOver(f, R) <= SumOver(f, s \ {x})
    BY <2>1, <2>5
  <2>8. SumOver(f, s \ {x}) \in Nat /\ f[x] \in Nat
    BY <2>2, SumNat, FS_Subset
  <2>9. ~(SumOver(f, R) <= SumOver(f, s))
    OBVIOUS
  <2> HIDE DEF T
  <2> QED BY <2>3, <2>6, <2>7, <2>8, <2>9
<1> QED BY <1>1

(* Terms that are those of another sum, each of them once.                 *)
LEMMA SumInjection ==
    ASSUME NEW K, IsFiniteSet(K), NEW g, NEW f, NEW h,
           \A k \in K : g[k] \in Nat /\ g[k] = f[h[k]],
           \A k, l \in K : h[k] = h[l] => k = l
    PROVE  SumOver(g, K) = SumOver(f, {h[k] : k \in K})
<1> DEFINE T == {s \in SUBSET K : SumOver(g, s) # SumOver(f, {h[k] : k \in s})}
<1>1. ASSUME T # {} PROVE FALSE
  <2>1. PICK s \in T : \A t \in T : t \subseteq s => t = s
    <3>1. T \subseteq SUBSET K
      OBVIOUS
    <3> HIDE DEF T
    <3> QED BY <1>1, <3>1, MinimalSubset
  <2>2. s \subseteq K /\ IsFiniteSet(s) /\ IsFiniteSet({h[k] : k \in s})
    BY FS_Subset, FiniteImage
  <2>3. s # {}
    <3>1. {h[k] : k \in {}} = {}
      OBVIOUS
    <3> QED BY <3>1, SumEmpty
  <2>4. PICK x \in s : TRUE
    BY <2>3
  <2>5. SumOver(g, s) = g[x] + SumOver(g, s \ {x})
    BY <2>2, SumOut
  <2>6. \A y \in {h[k] : k \in s} : f[y] \in Nat
    BY <2>2
  <2>7. SumOver(f, {h[k] : k \in s}) = f[h[x]] + SumOver(f, {h[k] : k \in s} \ {h[x]})
    BY <2>2, <2>6, SumOut
  <2>8. {h[k] : k \in s} \ {h[x]} = {h[k] : k \in s \ {x}}
    BY <2>2
  <2>9. SumOver(g, s \ {x}) = SumOver(f, {h[k] : k \in s \ {x}})
    BY <2>1
  <2>10. SumOver(g, s) # SumOver(f, {h[k] : k \in s})
    OBVIOUS
  <2> HIDE DEF T
  <2> QED BY <2>2, <2>5, <2>7, <2>8, <2>9, <2>10
<1> QED BY <1>1
==============================================================================
