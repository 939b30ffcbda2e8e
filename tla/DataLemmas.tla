----------------------------- MODULE DataLemmas -----------------------------
(***************************************************************************)
(* Lemmas about the data the models compute with: induction over numbers   *)
(* and finite sets, recursive functions, greatest elements, sums, rankings. *)
(* The library's induction theorems take a predicate; these take the set   *)
(* of what satisfies it, which the provers can instantiate.                *)
(***************************************************************************)
EXTENDS Integers, FiniteSets, Functions, FiniteSetsExt, Ranking, FiniteSetTheorems, TLAPS

-----------------------------------------------------------------------------
(* Induction.                                                              *)

LEMMA NumbersInduct ==
  ASSUME NEW good \in SUBSET Nat, 0 \in good, \A n \in good : n + 1 \in good
  PROVE  good = Nat
<1> SUFFICES ASSUME Nat \ good # {} PROVE FALSE
  OBVIOUS
<1>1. PICK n \in Nat \ good : \A m \in Nat \ good : ~(<<m, n>> \in OpToRel(<, Nat))
  <2>1. Nat \ good \subseteq Nat
    OBVIOUS
  <2> QED BY <2>1, NatLessThanWellFounded, WFMin
<1>2. \A m \in Nat \ good : ~(m < n)
  BY <1>1 DEF OpToRel
<1>3. n # 0 /\ n - 1 \in Nat
  OBVIOUS
<1>4. n - 1 \in good
  BY <1>2, <1>3
<1>5. (n - 1) + 1 \in good
  BY <1>4
<1> QED BY <1>3, <1>5

\* The same up to a bound.
LEMMA IntervalInducts ==
  ASSUME NEW N \in Nat, NEW good, 0 \in good, \A n \in 1 .. N : n - 1 \in good => n \in good
  PROVE  0 .. N \subseteq good
<1> DEFINE small == {n \in Nat : n <= N => n \in good}
<1>1. 0 \in small
  OBVIOUS
<1>2. ASSUME NEW n \in small PROVE n + 1 \in small
  <2> SUFFICES ASSUME n + 1 <= N PROVE n + 1 \in good
    OBVIOUS
  <2>1. n \in good /\ n + 1 \in 1 .. N /\ (n + 1) - 1 = n
    BY <1>2
  <2> QED BY <2>1
<1>3. small \in SUBSET Nat
  OBVIOUS
<1>4. small = Nat
  <2> HIDE DEF small
  <2> QED BY <1>1, <1>2, <1>3, NumbersInduct
<1> QED BY <1>4

LEMMA SetsInduct ==
  ASSUME NEW D, IsFiniteSet(D), NEW good, {} \in good,
         \A s \in SUBSET D : s # {} /\ (\A x \in s : s \ {x} \in good) => s \in good
  PROVE  SUBSET D \subseteq good
<1> DEFINE OfSize(n) == {s \in SUBSET D : Cardinality(s) <= n}
           small == {n \in Nat : OfSize(n) \subseteq good}
<1>1. \A s \in SUBSET D : IsFiniteSet(s) /\ Cardinality(s) \in Nat
  BY FS_Subset, FS_CardinalityType
<1>2. 0 \in small
  <2>1. \A s \in OfSize(0) : s = {}
    BY <1>1, FS_EmptySet
  <2> QED BY <2>1
<1>3. ASSUME NEW n \in small PROVE n + 1 \in small
  <2>1. ASSUME NEW s \in OfSize(n + 1) PROVE s \in good
    <3>1. ASSUME NEW x \in s PROVE s \ {x} \in good
      <4>1. Cardinality(s \ {x}) = Cardinality(s) - 1 /\ s \ {x} \in SUBSET D
        BY <1>1, FS_RemoveElement
      <4>2. s \ {x} \in OfSize(n)
        BY <1>1, <4>1
      <4> QED BY <4>2
    <3> QED BY <3>1
  <2>2. n + 1 \in Nat
    OBVIOUS
  <2> QED BY <2>1, <2>2
<1>4. small \in SUBSET Nat
  OBVIOUS
<1>5. small = Nat
  <2> HIDE DEF small
  <2> QED BY <1>2, <1>3, <1>4, NumbersInduct
<1>6. ASSUME NEW s \in SUBSET D PROVE s \in good
  <2>1. Cardinality(s) \in small
    BY <1>1, <1>5
  <2> QED BY <1>1, <2>1
<1> QED BY <1>6

-----------------------------------------------------------------------------
(* Sums.                                                                   *)

\* What SumFunction computes, from the empty set up.
Picked(s) == CHOOSE x \in s : TRUE
SumStep(g, f, s) == IF s = {} THEN 0 ELSE f[Picked(s)] + g[s \ {Picked(s)}]
IsSum(g, f, sets) == g = [s \in sets |-> SumStep(g, f, s)]

LEMMA SumExists ==
  ASSUME NEW D, IsFiniteSet(D), NEW f
  PROVE  \E g : IsSum(g, f, SUBSET D)
<1> DEFINE OfSize(n) == {s \in SUBSET D : Cardinality(s) <= n}
           done == {n \in Nat : \E g : IsSum(g, f, OfSize(n))}
<1>1. \A s \in SUBSET D : IsFiniteSet(s) /\ Cardinality(s) \in Nat
  BY FS_Subset, FS_CardinalityType
<1>2. 0 \in done
  <2>1. \A s \in OfSize(0) : s = {}
    BY <1>1, FS_EmptySet
  <2>2. IsSum([s \in OfSize(0) |-> 0], f, OfSize(0))
    BY <2>1 DEF IsSum, SumStep
  <2> QED BY <2>2
<1>3. ASSUME NEW n \in done PROVE n + 1 \in done
  <2>1. PICK g : IsSum(g, f, OfSize(n))
    OBVIOUS
  <2> DEFINE h == [s \in OfSize(n + 1) |-> SumStep(g, f, s)]
  <2>2. ASSUME NEW s \in OfSize(n + 1) PROVE h[s] = SumStep(h, f, s)
    <3>1. CASE s = {}
      BY <3>1 DEF SumStep
    <3>2. CASE s # {}
      <4> DEFINE t == s \ {Picked(s)}
      <4>1. Picked(s) \in s
        BY <3>2 DEF Picked
      <4>2. Cardinality(t) = Cardinality(s) - 1
        BY <1>1, <4>1, FS_RemoveElement
      <4>3. t \in OfSize(n) /\ t \in OfSize(n + 1)
        BY <1>1, <4>2
      <4>4. g[t] = SumStep(g, f, t)
        BY <2>1, <4>3 DEF IsSum
      <4>5. h[t] = g[t]
        BY <4>3, <4>4
      <4>6. h[s] = SumStep(g, f, s)
        OBVIOUS
      <4> HIDE DEF h
      <4> QED BY <3>2, <4>5, <4>6 DEF SumStep
    <3> QED BY <3>1, <3>2
  <2>3. IsSum(h, f, OfSize(n + 1))
    BY <2>2 DEF IsSum
  <2>4. n + 1 \in Nat
    OBVIOUS
  <2> HIDE DEF h
  <2> QED BY <2>3, <2>4
<1>4. Cardinality(D) \in done
  <2>1. done \in SUBSET Nat
    OBVIOUS
  <2> HIDE DEF done
  <2>2. done = Nat
    BY <1>2, <1>3, <2>1, NumbersInduct
  <2> QED BY <1>1, <2>2
<1>5. OfSize(Cardinality(D)) = SUBSET D
  BY <1>1, FS_Subset
<1> QED BY <1>4, <1>5

Sums(f) == CHOOSE g : IsSum(g, f, SUBSET DOMAIN f)

LEMMA SumsAre ==
  ASSUME NEW f, IsFiniteSet(DOMAIN f)
  PROVE  /\ SumFunction(f) = Sums(f)[DOMAIN f]
         /\ \A s \in SUBSET DOMAIN f : Sums(f)[s] = SumStep(Sums(f), f, s)
<1>1. IsSum(Sums(f), f, SUBSET DOMAIN f)
  BY SumExists DEF Sums
<1>2. SumFunction(f) = Sums(f)[DOMAIN f]
  BY DEF SumFunction, SumFunctionOnSet, FoldFunctionOnSet, MapThenFoldSet,
         Sums, IsSum, SumStep, Picked
<1> HIDE DEF Sums
<1> QED BY <1>1, <1>2 DEF IsSum

LEMMA SumsAreIntegers ==
  ASSUME NEW D, IsFiniteSet(D), NEW f \in [D -> Int]
  PROVE  \A s \in SUBSET D : Sums(f)[s] \in Int
<1> DEFINE good == {t \in SUBSET D : Sums(f)[t] \in Int}
<1>1. \A t \in SUBSET D : Sums(f)[t] = SumStep(Sums(f), f, t)
  BY SumsAre
<1>2. {} \in good
  <2>1. Sums(f)[{}] = 0
    BY <1>1 DEF SumStep
  <2> QED BY <2>1
<1>3. ASSUME NEW t \in SUBSET D, t # {}, \A x \in t : t \ {x} \in good PROVE t \in good
  <2>1. Picked(t) \in t
    BY <1>3 DEF Picked
  <2>2. Sums(f)[t] = f[Picked(t)] + Sums(f)[t \ {Picked(t)}]
    BY <1>1, <1>3 DEF SumStep
  <2>3. Sums(f)[t \ {Picked(t)}] \in Int
    BY <1>3, <2>1
  <2> QED BY <2>1, <2>2, <2>3
<1>4. SUBSET D \subseteq good
  <2> HIDE DEF good
  <2> QED BY <1>2, <1>3, SetsInduct
<1> QED BY <1>4

\* A sum may be taken in any order.
LEMMA SumsInAnyOrder ==
  ASSUME NEW D, IsFiniteSet(D), NEW f \in [D -> Int], NEW s \in SUBSET D
  PROVE  Sums(f)[s] \in Int /\ \A x \in s : Sums(f)[s] = f[x] + Sums(f)[s \ {x}]
<1> DEFINE g == Sums(f)
           Right(t) == g[t] \in Int /\ \A x \in t : g[t] = f[x] + g[t \ {x}]
           good == {t \in SUBSET D : Right(t)}
<1>1. \A t \in SUBSET D : g[t] = SumStep(g, f, t)
  BY SumsAre
<1>2. {} \in good
  BY <1>1 DEF SumStep
<1>3. ASSUME NEW t \in SUBSET D, t # {}, \A x \in t : t \ {x} \in good PROVE t \in good
  <2> DEFINE p == Picked(t)
  <2>1. p \in t
    BY <1>3 DEF Picked
  <2>2. g[t] = f[p] + g[t \ {p}]
    BY <1>1, <1>3 DEF SumStep
  <2> HIDE DEF p, g
  <2>3. \A x \in t : f[x] \in Int /\ g[t \ {x}] \in Int
    BY <1>3
  <2>4. ASSUME NEW x \in t PROVE g[t] = f[x] + g[t \ {x}]
    <3>1. CASE x = p
      BY <2>2, <3>1
    <3>2. CASE x # p
      <4> DEFINE less == (t \ {p}) \ {x}
      <4>1. g[t \ {p}] = f[x] + g[less]
        BY <1>3, <2>1, <3>2
      <4>2. (t \ {x}) \ {p} = less
        OBVIOUS
      <4>3. g[t \ {x}] = f[p] + g[less]
        BY <1>3, <2>1, <2>4, <3>2, <4>2
      <4>4. g[less] \in Int
        <5>1. less \in SUBSET D
          OBVIOUS
        <5> QED BY <5>1, SumsAreIntegers DEF g
      <4> HIDE DEF less
      <4> QED BY <2>1, <2>2, <2>3, <2>4, <4>1, <4>3, <4>4
    <3> QED BY <3>1, <3>2
  <2>5. g[t] \in Int
    BY <2>1, <2>2, <2>3
  <2> QED BY <2>4, <2>5
<1>4. SUBSET D \subseteq good
  <2> HIDE DEF good
  <2> QED BY <1>2, <1>3, SetsInduct
<1> QED BY <1>4

\* A sum depends on what is added only.
LEMMA SumsAgree ==
  ASSUME NEW D, IsFiniteSet(D), NEW f, NEW e, NEW s \in SUBSET D,
         IsFiniteSet(DOMAIN f), IsFiniteSet(DOMAIN e),
         D \subseteq DOMAIN f, D \subseteq DOMAIN e, \A d \in D : f[d] = e[d]
  PROVE  Sums(f)[s] = Sums(e)[s]
<1> DEFINE good == {t \in SUBSET D : Sums(f)[t] = Sums(e)[t]}
<1>1. \A t \in SUBSET D : Sums(f)[t] = SumStep(Sums(f), f, t)
  BY SumsAre
<1>2. \A t \in SUBSET D : Sums(e)[t] = SumStep(Sums(e), e, t)
  BY SumsAre
<1>3. {} \in good
  BY <1>1, <1>2 DEF SumStep
<1>4. ASSUME NEW t \in SUBSET D, t # {}, \A x \in t : t \ {x} \in good PROVE t \in good
  <2>1. Picked(t) \in t
    BY <1>4 DEF Picked
  <2>2. Sums(f)[t] = f[Picked(t)] + Sums(f)[t \ {Picked(t)}]
    BY <1>1, <1>4 DEF SumStep
  <2>3. Sums(e)[t] = e[Picked(t)] + Sums(e)[t \ {Picked(t)}]
    BY <1>2, <1>4 DEF SumStep
  <2>4. Sums(f)[t \ {Picked(t)}] = Sums(e)[t \ {Picked(t)}]
    BY <1>4, <2>1
  <2>5. f[Picked(t)] = e[Picked(t)]
    BY <2>1
  <2> QED BY <2>2, <2>3, <2>4, <2>5
<1>5. SUBSET D \subseteq good
  <2> HIDE DEF good
  <2> QED BY <1>3, <1>4, SetsInduct
<1> QED BY <1>5

\* A sum is one of its addends and the sum of the others.
LEMMA SumWithout ==
  ASSUME NEW D, IsFiniteSet(D), NEW f \in [D -> Int], NEW k \in D
  PROVE  /\ SumFunction(f) \in Int
         /\ SumFunction(f) = f[k] + SumFunction([d \in D \ {k} |-> f[d]])
<1> DEFINE e == [d \in D \ {k} |-> f[d]]
<1>1. IsFiniteSet(D \ {k}) /\ DOMAIN e = D \ {k} /\ DOMAIN f = D
  BY FS_RemoveElement
<1>2. \A d \in D \ {k} : f[d] = e[d]
  OBVIOUS
<1> HIDE DEF e
<1>3. SumFunction(f) = Sums(f)[D] /\ SumFunction(e) = Sums(e)[D \ {k}]
  BY <1>1, SumsAre
<1>4. Sums(f)[D] \in Int /\ Sums(f)[D] = f[k] + Sums(f)[D \ {k}]
  BY SumsInAnyOrder
<1>5. Sums(f)[D \ {k}] = Sums(e)[D \ {k}]
  BY <1>1, <1>2, SumsAgree
<1> QED BY <1>3, <1>4, <1>5 DEF e

LEMMA DisjointSetsAddUp ==
  ASSUME NEW S, NEW T, IsFiniteSet(S), IsFiniteSet(T), S \cap T = {}
  PROVE  Cardinality(S \cup T) = Cardinality(S) + Cardinality(T)
<1>1. Cardinality(S) \in Nat /\ Cardinality(T) \in Nat
  BY FS_CardinalityType
<1>2. Cardinality(S \cup T) = Cardinality(S) + Cardinality(T) - Cardinality(S \cap T)
  BY FS_Union
<1>3. Cardinality(S \cap T) = 0
  BY FS_EmptySet
<1> QED BY <1>1, <1>2, <1>3

\* What is counted apart makes up the whole.
LEMMA CountsAddUp ==
  ASSUME NEW D, IsFiniteSet(D), NEW I, IsFiniteSet(I), NEW f \in [D -> I]
  PROVE  SumFunction([i \in I |-> Cardinality({d \in D : f[d] = i})]) = Cardinality(D)
<1> DEFINE Of(i) == {d \in D : f[d] = i}
           In(s) == {d \in D : f[d] \in s}
           c == [i \in I |-> Cardinality(Of(i))]
           good == {s \in SUBSET I : Sums(c)[s] = Cardinality(In(s))}
<1>1. /\ SumFunction(c) = Sums(c)[I]
      /\ \A s \in SUBSET I : Sums(c)[s] = SumStep(Sums(c), c, s)
  BY SumsAre
<1>2. {} \in good
  <2>1. In({}) = {}
    OBVIOUS
  <2> QED BY <1>1, <2>1, FS_EmptySet DEF SumStep
<1>3. ASSUME NEW s \in SUBSET I, s # {}, \A x \in s : s \ {x} \in good PROVE s \in good
  <2> DEFINE p == Picked(s)
  <2>1. p \in s
    BY <1>3 DEF Picked
  <2>2. Sums(c)[s] = c[p] + Sums(c)[s \ {p}]
    BY <1>1, <1>3 DEF SumStep
  <2>3. Sums(c)[s \ {p}] = Cardinality(In(s \ {p}))
    BY <1>3, <2>1
  <2>4. c[p] = Cardinality(Of(p))
    BY <2>1
  <2>5. In(s) = Of(p) \cup In(s \ {p}) /\ Of(p) \cap In(s \ {p}) = {}
    BY <2>1
  <2>6. IsFiniteSet(Of(p)) /\ IsFiniteSet(In(s \ {p}))
    BY FS_Subset
  <2>7. Cardinality(In(s)) = Cardinality(Of(p)) + Cardinality(In(s \ {p}))
    <3> HIDE DEF Of, In, p
    <3> QED BY <2>5, <2>6, DisjointSetsAddUp
  <2> QED BY <2>2, <2>3, <2>4, <2>7
<1>4. SUBSET I \subseteq good
  <2> HIDE DEF good
  <2> QED BY <1>2, <1>3, SetsInduct
<1>5. In(I) = D
  OBVIOUS
<1> QED BY <1>1, <1>4, <1>5

LEMMA SumOfZeros ==
  ASSUME NEW D, IsFiniteSet(D)
  PROVE  SumFunction([d \in D |-> 0]) = 0
<1> DEFINE f == [d \in D |-> 0]
           good == {s \in SUBSET D : Sums(f)[s] = 0}
<1>1. /\ SumFunction(f) = Sums(f)[D]
      /\ \A s \in SUBSET D : Sums(f)[s] = SumStep(Sums(f), f, s)
  BY SumsAre
<1>2. {} \in good
  BY <1>1 DEF SumStep
<1>3. ASSUME NEW s \in SUBSET D, s # {}, \A x \in s : s \ {x} \in good PROVE s \in good
  <2>1. Picked(s) \in s
    BY <1>3 DEF Picked
  <2>2. Sums(f)[s] = f[Picked(s)] + Sums(f)[s \ {Picked(s)}]
    BY <1>1, <1>3 DEF SumStep
  <2>3. f[Picked(s)] = 0 /\ Sums(f)[s \ {Picked(s)}] = 0
    BY <1>3, <2>1
  <2> HIDE DEF f
  <2> QED BY <2>2, <2>3
<1>4. SUBSET D \subseteq good
  <2> HIDE DEF good
  <2> QED BY <1>2, <1>3, SetsInduct
<1> QED BY <1>1, <1>4

LEMMA SumAddsOne ==
  ASSUME NEW D, IsFiniteSet(D), NEW f \in [D -> Nat], NEW k \in D
  PROVE  SumFunction(f) \in Nat /\ SumFunction([f EXCEPT ![k] = @ + 1]) = SumFunction(f) + 1
<1> DEFINE e == [f EXCEPT ![k] = @ + 1]
           Right(s) == Sums(f)[s] \in Nat /\ Sums(e)[s] = Sums(f)[s] + IF k \in s THEN 1 ELSE 0
           good == {s \in SUBSET D : Right(s)}
<1>1. /\ SumFunction(f) = Sums(f)[D] /\ SumFunction(e) = Sums(e)[D]
      /\ \A s \in SUBSET D : /\ Sums(f)[s] = SumStep(Sums(f), f, s)
                             /\ Sums(e)[s] = SumStep(Sums(e), e, s)
  BY SumsAre
<1>2. {} \in good
  <2>1. Sums(f)[{}] = 0 /\ Sums(e)[{}] = 0
    <3> HIDE DEF e
    <3> QED BY <1>1 DEF SumStep
  <2> HIDE DEF e
  <2> QED BY <2>1
<1>3. ASSUME NEW s \in SUBSET D, s # {}, \A x \in s : s \ {x} \in good PROVE s \in good
  <2> DEFINE p == Picked(s)
             t == s \ {p}
  <2>1. p \in s /\ p \in D
    BY <1>3 DEF Picked
  <2>2. Right(t)
    BY <1>3, <2>1
  <2>3. Sums(f)[s] = f[p] + Sums(f)[t] /\ Sums(e)[s] = e[p] + Sums(e)[t]
    BY <1>1, <1>3 DEF SumStep
  <2>4. f[p] \in Nat /\ e[p] = f[p] + IF p = k THEN 1 ELSE 0
    BY <2>1
  <2>5. k \in s <=> k \in t \/ p = k
    BY <2>1
  <2>6. p = k => k \notin t
    OBVIOUS
  <2> HIDE DEF e, p, t
  <2>7. CASE p = k
    BY <2>2, <2>3, <2>4, <2>5, <2>6, <2>7
  <2>8. CASE p # k
    BY <2>2, <2>3, <2>4, <2>5, <2>8
  <2> QED BY <2>7, <2>8
<1>4. SUBSET D \subseteq good
  <2> HIDE DEF good
  <2> QED BY <1>2, <1>3, SetsInduct
<1>5. Right(D)
  BY <1>4
<1> QED BY <1>1, <1>5

-----------------------------------------------------------------------------
(* Recursive functions.                                                    *)

\* A path from x, each place computed from its number and the place before.
IsPath(f, N, x, step) == f = [n \in 0 .. N |-> IF n = 0 THEN x ELSE step[<<n, f[n - 1]>>]]

LEMMA PathExists ==
  ASSUME NEW N \in Nat, NEW X, NEW x \in X, NEW step \in [(1 .. N) \X X -> X]
  PROVE  \E f \in [0 .. N -> X] : IsPath(f, N, x, step)
<1> DEFINE done == {n \in Nat : n <= N => \E f \in [0 .. n -> X] : IsPath(f, n, x, step)}
<1>1. 0 \in done
  <2> DEFINE f == [n \in 0 .. 0 |-> x]
  <2>1. f \in [0 .. 0 -> X]
    OBVIOUS
  <2>2. IsPath(f, 0, x, step)
    BY DEF IsPath
  <2> HIDE DEF f
  <2> QED BY <2>1, <2>2
<1>2. ASSUME NEW n \in done PROVE n + 1 \in done
  <2> SUFFICES ASSUME n + 1 <= N
               PROVE  \E f \in [0 .. n + 1 -> X] : IsPath(f, n + 1, x, step)
    OBVIOUS
  <2>1. n \in Nat /\ n <= N /\ n + 1 \in 1 .. N
    OBVIOUS
  <2>2. PICK g \in [0 .. n -> X] : IsPath(g, n, x, step)
    BY <2>1
  <2> DEFINE f == [i \in 0 .. n + 1 |-> IF i = n + 1 THEN step[<<n + 1, g[n]>>] ELSE g[i]]
  <2>3. step[<<n + 1, g[n]>>] \in X
    <3>1. g[n] \in X
      BY <2>1
    <3>2. <<n + 1, g[n]>> \in (1 .. N) \X X
      BY <2>1, <3>1
    <3> QED BY <3>2
  <2>4. f \in [0 .. n + 1 -> X]
    BY <2>1, <2>3
  <2>5. ASSUME NEW i \in 0 .. n + 1 PROVE f[i] = IF i = 0 THEN x ELSE step[<<i, f[i - 1]>>]
    <3>1. CASE i = n + 1
      <4>1. f[n + 1] = step[<<n + 1, g[n]>>] /\ f[n] = g[n] /\ i - 1 = n /\ i # 0
        BY <2>1, <3>1
      <4> HIDE DEF f
      <4> QED BY <3>1, <4>1
    <3>2. CASE i # n + 1
      <4>1. i \in 0 .. n /\ f[i] = g[i]
        BY <2>1, <3>2
      <4>2. g[i] = IF i = 0 THEN x ELSE step[<<i, g[i - 1]>>]
        BY <2>2, <4>1 DEF IsPath
      <4>3. i # 0 => i - 1 \in 0 .. n + 1 /\ i - 1 # n + 1
        BY <2>1, <4>1
      <4>4. i # 0 => f[i - 1] = g[i - 1]
        BY <4>3
      <4> HIDE DEF f
      <4> QED BY <4>1, <4>2, <4>4
    <3> QED BY <3>1, <3>2
  <2>6. f = [i \in 0 .. n + 1 |-> f[i]]
    OBVIOUS
  <2> HIDE DEF f
  <2>7. IsPath(f, n + 1, x, step)
    BY <2>5, <2>6 DEF IsPath
  <2> QED BY <2>4, <2>7
<1>3. done = Nat
  <2>1. done \in SUBSET Nat
    OBVIOUS
  <2> HIDE DEF done
  <2> QED BY <1>1, <1>2, <2>1, NumbersInduct
<1>4. N \in done
  BY <1>3
<1> QED BY <1>4

-----------------------------------------------------------------------------
(* Greatest and least elements.                                            *)

LEMMA ExtremesExist ==
  ASSUME NEW S, IsFiniteSet(S), S \subseteq Int, S # {}
  PROVE  /\ \E m \in S : \A x \in S : x <= m
         /\ \E m \in S : \A x \in S : m <= x
<1> DEFINE Bounded(s) == /\ \E m \in s : \A x \in s : x <= m
                         /\ \E m \in s : \A x \in s : m <= x
           good == {s \in SUBSET S : s = {} \/ Bounded(s)}
<1>1. {} \in good
  OBVIOUS
<1>2. ASSUME NEW s \in SUBSET S, s # {}, \A x \in s : s \ {x} \in good PROVE s \in good
  <2>1. PICK y \in s : TRUE
    BY <1>2
  <2>2. s \ {y} \in good
    BY <1>2
  <2>3. CASE s \ {y} = {}
    <3>1. \A x \in s : x = y
      BY <2>3
    <3>2. y <= y
      OBVIOUS
    <3> QED BY <2>1, <3>1, <3>2
  <2>4. CASE Bounded(s \ {y})
    <3>1. PICK m \in s \ {y} : \A x \in s \ {y} : x <= m
      BY <2>4
    <3>2. PICK l \in s \ {y} : \A x \in s \ {y} : l <= x
      BY <2>4
    <3>3. \E a \in s : \A x \in s : x <= a
      <4>1. CASE m <= y
        BY <2>1, <3>1, <4>1
      <4>2. CASE y <= m
        BY <3>1, <4>2
      <4> QED BY <4>1, <4>2
    <3>4. \E a \in s : \A x \in s : a <= x
      <4>1. CASE y <= l
        BY <2>1, <3>2, <4>1
      <4>2. CASE l <= y
        BY <3>2, <4>2
      <4> QED BY <4>1, <4>2
    <3> QED BY <3>3, <3>4
  <2> QED BY <2>2, <2>3, <2>4
<1>3. SUBSET S \subseteq good
  <2> HIDE DEF good
  <2> QED BY <1>1, <1>2, SetsInduct
<1> QED BY <1>3

-----------------------------------------------------------------------------
(* Rankings.                                                               *)

\* What a relation must be on a set to rank it.
Orders(before, S) ==
  /\ \A d \in S : <<d, d>> \notin before
  /\ \A c, d, e \in S : <<c, d>> \in before /\ <<d, e>> \in before => <<c, e>> \in before
  /\ \A d, e \in S : d # e => <<d, e>> \in before \/ <<e, d>> \in before

\* The rank of an element is below the number of elements, and lower than that
\* of the elements that follow it.
LEMMA RanksIncrease ==
  ASSUME NEW S, IsFiniteSet(S), NEW before, Orders(before, S)
  PROVE  /\ \A d \in S : Rank(before, S, d) \in 0 .. Cardinality(S) - 1
         /\ \A d, e \in S : <<d, e>> \in before => Rank(before, S, d) < Rank(before, S, e)
<1> DEFINE Below(d) == {e \in S : <<e, d>> \in before}
<1>1. ASSUME NEW d \in S
      PROVE  /\ IsFiniteSet(Below(d)) /\ Cardinality(Below(d)) \in Nat
             /\ Cardinality(Below(d) \cup {d}) = Cardinality(Below(d)) + 1
             /\ IsFiniteSet(Below(d) \cup {d})
  <2>1. IsFiniteSet(Below(d)) /\ d \notin Below(d)
    BY <1>1, FS_Subset DEF Orders
  <2> HIDE DEF Below
  <2> QED BY <2>1, FS_CardinalityType, FS_AddElement
<1>2. ASSUME NEW d \in S PROVE Rank(before, S, d) \in 0 .. Cardinality(S) - 1
  <2>1. Below(d) \cup {d} \in SUBSET S
    BY <1>2
  <2>2. Cardinality(Below(d) \cup {d}) <= Cardinality(S) /\ Cardinality(S) \in Nat
    BY <2>1, FS_Subset, FS_CardinalityType
  <2>3. Rank(before, S, d) = Cardinality(Below(d))
    BY DEF Rank
  <2> HIDE DEF Below
  <2> QED BY <1>1, <1>2, <2>2, <2>3
<1>3. ASSUME NEW d \in S, NEW e \in S, <<d, e>> \in before
      PROVE  Rank(before, S, d) < Rank(before, S, e)
  <2>1. Below(d) \cup {d} \in SUBSET Below(e)
    BY <1>3 DEF Orders
  <2>2. Cardinality(Below(d) \cup {d}) <= Cardinality(Below(e))
    <3> HIDE DEF Below
    <3> QED BY <1>1, <2>1, FS_Subset
  <2>3. Rank(before, S, d) = Cardinality(Below(d)) /\ Rank(before, S, e) = Cardinality(Below(e))
    BY DEF Rank
  <2>4. /\ Cardinality(Below(d)) \in Nat /\ Cardinality(Below(e)) \in Nat
        /\ Cardinality(Below(d) \cup {d}) = Cardinality(Below(d)) + 1
    BY <1>1
  <2> HIDE DEF Below
  <2> QED BY <2>2, <2>3, <2>4
<1> QED BY <1>2, <1>3

\* A ranking lists every element of the set, once and in order.
LEMMA RankedIs ==
  ASSUME NEW S, IsFiniteSet(S), NEW before, Orders(before, S)
  PROVE  /\ Ranked(before, S) \in Seq(S) /\ Len(Ranked(before, S)) = Cardinality(S)
         /\ \A i, k \in 1 .. Cardinality(S) :
              i < k => <<Ranked(before, S)[i], Ranked(before, S)[k]>> \in before
         /\ \A d \in S : \E i \in 1 .. Cardinality(S) : Ranked(before, S)[i] = d
<1> DEFINE n == Cardinality(S)
           place == [d \in S |-> Rank(before, S, d) + 1]
           list == Ranked(before, S)
<1>1. n \in Nat /\ IsFiniteSet(1 .. n) /\ Cardinality(1 .. n) = n
  BY FS_CardinalityType, FS_Interval
<1>2. \A d \in S : Rank(before, S, d) \in 0 .. n - 1
  BY RanksIncrease
<1>3. ASSUME NEW d \in S, NEW e \in S, d # e PROVE Rank(before, S, d) # Rank(before, S, e)
  <2>1. Rank(before, S, d) < Rank(before, S, e) \/ Rank(before, S, e) < Rank(before, S, d)
    BY <1>3, RanksIncrease DEF Orders
  <2>2. Rank(before, S, d) \in 0 .. n - 1 /\ Rank(before, S, e) \in 0 .. n - 1
    BY <1>2
  <2> HIDE DEF n
  <2> QED BY <1>1, <2>1, <2>2
<1>4. place \in [S -> 1 .. n]
  BY <1>1, <1>2
<1>5. \A d, e \in S : place[d] = place[e] => d = e
  BY <1>2, <1>3
<1>6. place \in Surjection(S, 1 .. n)
  <2>1. place \in Injection(S, 1 .. n)
    BY <1>4, <1>5 DEF Injection, IsInjective
  <2> HIDE DEF place, n
  <2> QED BY <1>1, <2>1, FS_Injection DEF n
<1>7. ASSUME NEW i \in 1 .. n PROVE list[i] \in S /\ Rank(before, S, list[i]) = i - 1
  <2>1. PICK d \in S : place[d] = i
    BY <1>6 DEF Surjection
  <2>2. Rank(before, S, d) = i - 1
    BY <1>1, <1>2, <2>1
  <2> QED BY <2>2 DEF Ranked
<1>8. list \in Seq(S) /\ Len(list) = n
  <2>1. list = [i \in 1 .. n |-> list[i]]
    BY DEF Ranked
  <2> HIDE DEF list, n
  <2> QED BY <1>1, <1>7, <2>1
<1>9. ASSUME NEW i \in 1 .. n, NEW k \in 1 .. n, i < k PROVE <<list[i], list[k]>> \in before
  <2>1. ~(Rank(before, S, list[k]) < Rank(before, S, list[i]))
    BY <1>1, <1>7, <1>9
  <2>2. list[i] # list[k]
    BY <1>1, <1>7, <1>9
  <2> QED BY <1>7, <1>9, <2>1, <2>2, RanksIncrease DEF Orders
<1>10. ASSUME NEW d \in S PROVE \E i \in 1 .. n : list[i] = d
  <2>1. place[d] \in 1 .. n /\ Rank(before, S, d) = place[d] - 1
    BY <1>2, <1>4, <1>10
  <2>2. list[place[d]] = d
    BY <1>3, <1>7, <1>10, <2>1
  <2> QED BY <2>1, <2>2
<1> QED BY <1>8, <1>9, <1>10

\* The first of a sequence.
LEMMA FirstOfIs ==
  ASSUME NEW S, NEW seq \in Seq(S), NEW n \in Nat
  PROVE  /\ FirstOf(n, seq) \in Seq(S)
         /\ Len(FirstOf(n, seq)) = IF Len(seq) > n THEN n ELSE Len(seq)
         /\ \A i \in 1 .. Len(FirstOf(n, seq)) : FirstOf(n, seq)[i] = seq[i]
BY DEF FirstOf
=============================================================================
