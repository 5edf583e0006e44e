---------------------------- MODULE FoldTheorems ----------------------------
(***************************************************************************)
(* Facts about definitions by recursion, among them the folds of the       *)
(* community modules, and about sequences joined, cut and rewritten.  Each *)
(* is about sets and functions, never about an operator, so that it can be *)
(* cited for an instance: an induction is over the set of the numbers for  *)
(* which the claim holds.                                                  *)
(***************************************************************************)
EXTENDS SequencesExt, FiniteSetTheorems, SequenceTheorems, TLAPS

-----------------------------------------------------------------------------
(* Induction *)

\* A set of numbers has a least one.
LEMMA LeastNat ==
  ASSUME NEW T \in SUBSET Nat, T # {}
  PROVE  \E x \in T : \A y \in T : x <= y
<1>1. PICK x \in T : \A y \in T : ~ (<<y, x>> \in OpToRel(<, Nat))
  <2> HIDE DEF IsWellFoundedOn
  <2> QED BY NatLessThanWellFounded, WFMin
<1>2. \A y \in T : ~(y < x)
  BY <1>1 DEF OpToRel
<1> QED BY <1>2

\* A set of numbers that holds 0 and the successor of each of its members
\* holds all.
LEMMA SetInduction ==
  ASSUME NEW T \in SUBSET Nat, 0 \in T, \A n \in T : n + 1 \in T
  PROVE  T = Nat
<1> SUFFICES ASSUME T # Nat PROVE FALSE
  OBVIOUS
<1>1. PICK x \in Nat \ T : \A y \in Nat \ T : x <= y
  <2>1. Nat \ T # {} /\ Nat \ T \in SUBSET Nat
    OBVIOUS
  <2> QED BY <2>1, LeastNat
<1>2. x - 1 \in Nat /\ x - 1 \notin Nat \ T
  BY <1>1
<1>3. (x - 1) + 1 \in T
  BY <1>2
<1> QED BY <1>1, <1>3

\* A finite set of numbers has a greatest and a least one, which Max and Min are.
LEMMA MaxOfFinite ==
  ASSUME NEW T \in SUBSET Nat, IsFiniteSet(T), T # {}
  PROVE  /\ Max(T) \in T /\ \A y \in T : y <= Max(T)
         /\ Min(T) \in T /\ \A y \in T : Min(T) <= y
<1>1. \E x \in T : \A y \in T : x >= y
  <2> DEFINE Small == {n \in Nat : \A U \in SUBSET T : U # {} /\ Cardinality(U) <= n =>
                                     \E x \in U : \A y \in U : x >= y}
  <2>1. \A U \in SUBSET T : IsFiniteSet(U) /\ Cardinality(U) \in Nat
    BY FS_Subset, FS_CardinalityType
  <2>2. 0 \in Small
    BY <2>1, FS_EmptySet
  <2>3. ASSUME NEW n \in Small PROVE n + 1 \in Small
    <3> SUFFICES ASSUME NEW U \in SUBSET T, U # {}, Cardinality(U) <= n + 1
                 PROVE  \E x \in U : \A y \in U : x >= y
      OBVIOUS
    <3>1. PICK z : z \in U
      OBVIOUS
    <3>2. Cardinality(U \ {z}) <= n
      BY <2>1, <3>1, FS_RemoveElement
    <3>3. CASE U \ {z} = {}
      BY <3>1, <3>3
    <3>4. CASE U \ {z} # {}
      <4>1. PICK x \in U \ {z} : \A y \in U \ {z} : x >= y
        BY <3>2, <3>4
      <4> QED BY <3>1, <4>1
    <3> QED BY <3>3, <3>4
  <2> HIDE DEF Small
  <2>4. Small = Nat
    <3>1. Small \in SUBSET Nat
      BY DEF Small
    <3> QED BY <2>2, <2>3, <3>1, SetInduction
  <2> QED BY <2>1, <2>4 DEF Small
<1>2. \E x \in T : \A y \in T : x <= y
  BY LeastNat
<1> QED BY <1>1, <1>2 DEF Max, Min

-----------------------------------------------------------------------------
(* Recursion over the subsets of a finite set *)

Picks(S) == {pick \in [(SUBSET S) \ {{}} -> S] : \A s \in DOMAIN pick : pick[s] \in s}

Recurses(f, S, base, step, pick) ==
  f = [s \in SUBSET S |-> IF s = {} THEN base ELSE step[<<pick[s], f[s \ {pick[s]}]>>]]

\* A function that takes an element off a set and goes on with the rest exists.
LEMMA SetRecursion ==
  ASSUME NEW S, IsFiniteSet(S), NEW V, NEW base \in V, NEW step \in [S \X V -> V],
         NEW pick \in Picks(S)
  PROVE  \E f \in [SUBSET S -> V] : Recurses(f, S, base, step, pick)
<1> DEFINE Small(n) == {s \in SUBSET S : Cardinality(s) <= n}
           Solves(f, n) == \A s \in Small(n) :
              f[s] = IF s = {} THEN base ELSE step[<<pick[s], f[s \ {pick[s]}]>>]
           Solved == {n \in Nat : \E f \in [Small(n) -> V] : Solves(f, n)}
<1>1. \A s \in SUBSET S : IsFiniteSet(s) /\ Cardinality(s) \in Nat /\ Cardinality(s) <= Cardinality(S)
  BY FS_Subset, FS_CardinalityType
<1>2. 0 \in Solved
  <2>1. \A s \in Small(0) : s = {}
    BY <1>1, FS_EmptySet
  <2>2. Solves([s \in Small(0) |-> base], 0)
    BY <2>1
  <2> QED BY <2>2
<1>3. ASSUME NEW n \in Solved PROVE n + 1 \in Solved
  <2>1. PICK f \in [Small(n) -> V] : Solves(f, n)
    OBVIOUS
  <2> DEFINE Less(s) == s \ {pick[s]}
  <2>2. \A s \in SUBSET S : s # {} => /\ pick[s] \in s /\ Less(s) \in SUBSET S
                                      /\ Cardinality(Less(s)) = Cardinality(s) - 1
    BY <1>1, FS_RemoveElement DEF Picks
  <2> DEFINE g == [s \in Small(n + 1) |-> IF s \in Small(n) THEN f[s]
                                          ELSE step[<<pick[s], f[Less(s)]>>]]
  <2>3. ASSUME NEW s \in Small(n + 1), s \notin Small(n)
        PROVE  s # {} /\ Less(s) \in Small(n)
    <3>1. Cardinality(s) = n + 1
      BY <1>1, <2>3
    <3>2. s # {}
      BY <1>1, <3>1, FS_EmptySet
    <3> QED BY <1>1, <2>2, <3>1, <3>2
  <2>4. g \in [Small(n + 1) -> V]
    <3> SUFFICES ASSUME NEW s \in Small(n + 1) PROVE g[s] \in V
      OBVIOUS
    <3>1. CASE s \in Small(n)
      BY <3>1
    <3>2. CASE s \notin Small(n)
      <4>1. pick[s] \in S /\ f[Less(s)] \in V
        BY <2>2, <2>3, <3>2
      <4> QED BY <3>2, <4>1
    <3> QED BY <3>1, <3>2
  <2>5. Solves(g, n + 1)
    <3> SUFFICES ASSUME NEW s \in Small(n + 1)
                 PROVE  g[s] = IF s = {} THEN base ELSE step[<<pick[s], g[Less(s)]>>]
      OBVIOUS
    <3>1. CASE s = {}
      <4>1. s \in Small(n)
        BY <3>1, FS_EmptySet
      <4> QED BY <2>1, <3>1, <4>1
    <3>2. CASE s # {}
      <4>1. Less(s) \in Small(n) /\ Less(s) \in Small(n + 1)
        BY <1>1, <2>2, <3>2
      <4>2. g[Less(s)] = f[Less(s)]
        BY <4>1
      <4>3. CASE s \in Small(n)
        BY <2>1, <3>2, <4>2, <4>3
      <4> QED BY <3>2, <4>2, <4>3
    <3> QED BY <3>1, <3>2
  <2> HIDE DEF g, Small, Solves
  <2>6. \E h \in [Small(n + 1) -> V] : Solves(h, n + 1)
    BY <2>4, <2>5
  <2> QED BY <2>6
<1>4. Solved = Nat
  <2> HIDE DEF Small, Solves
  <2>1. Solved \in SUBSET Nat
    OBVIOUS
  <2> HIDE DEF Solved
  <2> QED BY <1>2, <1>3, <2>1, SetInduction
<1>5. Cardinality(S) \in Solved
  BY <1>1, <1>4
<1>6. PICK f \in [Small(Cardinality(S)) -> V] : Solves(f, Cardinality(S))
  BY <1>5
<1>7. Small(Cardinality(S)) = SUBSET S
  BY <1>1
<1> HIDE DEF Small
<1> QED BY <1>6, <1>7 DEF Recurses

-----------------------------------------------------------------------------
(* Sums: SumFunctionOnSet adds the values of a function in some order, which   *)
(* makes no difference.                                                        *)

AnyOf(s) == CHOOSE x \in s : TRUE

\* g has the sum of f over each subset of S.
Sums(g, f, S) == g = [s \in SUBSET S |-> IF s = {} THEN 0 ELSE f[AnyOf(s)] + g[s \ {AnyOf(s)}]]

Integral(f, S) == \A x \in S : f[x] \in Int

LEMMA SumsExist ==
  ASSUME NEW S, IsFiniteSet(S), NEW f, Integral(f, S)
  PROVE  \E g \in [SUBSET S -> Int] : Sums(g, f, S)
<1> DEFINE pick == [s \in (SUBSET S) \ {{}} |-> AnyOf(s)]
           step == [p \in S \X Int |-> f[p[1]] + p[2]]
<1>1. \A s \in (SUBSET S) \ {{}} : AnyOf(s) \in s
  BY DEF AnyOf
<1>2. pick \in Picks(S)
  BY <1>1 DEF Picks
<1>3. step \in [S \X Int -> Int]
  BY DEF Integral
<1>4. PICK g \in [SUBSET S -> Int] : Recurses(g, S, 0, step, pick)
  <2>1. 0 \in Int
    OBVIOUS
  <2> HIDE DEF pick, step
  <2> QED BY <1>2, <1>3, <2>1, SetRecursion
<1>5. ASSUME NEW s \in SUBSET S, s # {}
      PROVE  step[<<pick[s], g[s \ {pick[s]}]>>] = f[AnyOf(s)] + g[s \ {AnyOf(s)}]
  <2>1. pick[s] = AnyOf(s) /\ AnyOf(s) \in S /\ g[s \ {AnyOf(s)}] \in Int
    BY <1>1, <1>5
  <2>2. \A x \in S : \A y \in Int : step[<<x, y>>] = f[x] + y
    OBVIOUS
  <2> HIDE DEF step
  <2> QED BY <2>1, <2>2
<1> HIDE DEF pick, step
<1>6. \A s \in SUBSET S : g[s] = IF s = {} THEN 0 ELSE f[AnyOf(s)] + g[s \ {AnyOf(s)}]
  BY <1>4, <1>5 DEF Recurses
<1>7. Sums(g, f, S)
  BY <1>6 DEF Sums
<1> QED BY <1>7

\* Sums over subsets of a set and over subsets of a larger one are the same.
LEMMA SumsUnique ==
  ASSUME NEW S, IsFiniteSet(S), NEW T \in SUBSET S, NEW f, NEW e, \A x \in T : e[x] = f[x],
         NEW g, Sums(g, f, S), NEW h, Sums(h, e, T)
  PROVE  \A s \in SUBSET T : g[s] = h[s]
<1> DEFINE Same == {n \in Nat : \A s \in SUBSET T : Cardinality(s) <= n => g[s] = h[s]}
<1>1. \A s \in SUBSET T : IsFiniteSet(s) /\ Cardinality(s) \in Nat
  BY FS_Subset, FS_CardinalityType
<1>2. /\ \A s \in SUBSET S : g[s] = IF s = {} THEN 0 ELSE f[AnyOf(s)] + g[s \ {AnyOf(s)}]
      /\ \A s \in SUBSET T : h[s] = IF s = {} THEN 0 ELSE e[AnyOf(s)] + h[s \ {AnyOf(s)}]
  BY DEF Sums
<1>3. 0 \in Same
  <2>1. \A s \in SUBSET T : Cardinality(s) <= 0 => s = {}
    BY <1>1, FS_EmptySet
  <2>2. g[{}] = 0 /\ h[{}] = 0
    BY <1>2
  <2> QED BY <2>1, <2>2
<1>4. ASSUME NEW n \in Same PROVE n + 1 \in Same
  <2>1. ASSUME NEW s \in SUBSET T, Cardinality(s) <= n + 1
        PROVE  g[s] = h[s]
    <3>1. CASE s = {}
      BY <1>2, <3>1
    <3>2. CASE s # {}
      <4>1. AnyOf(s) \in s
        BY <3>2 DEF AnyOf
      <4>2. s \ {AnyOf(s)} \in SUBSET T /\ Cardinality(s \ {AnyOf(s)}) = Cardinality(s) - 1
        BY <1>1, <4>1, FS_RemoveElement
      <4>3. Cardinality(s \ {AnyOf(s)}) <= n
        BY <1>1, <2>1, <4>2
      <4>4. g[s \ {AnyOf(s)}] = h[s \ {AnyOf(s)}]
        BY <4>2, <4>3
      <4>5. e[AnyOf(s)] = f[AnyOf(s)]
        BY <4>1
      <4> HIDE DEF Same
      <4>6. g[s] = f[AnyOf(s)] + g[s \ {AnyOf(s)}]
        BY <1>2, <3>2
      <4>7. h[s] = e[AnyOf(s)] + h[s \ {AnyOf(s)}]
        BY <1>2, <3>2
      <4> QED BY <4>4, <4>5, <4>6, <4>7
    <3> QED BY <3>1, <3>2
  <2> QED BY <2>1
<1>5. Same = Nat
  <2>1. Same \in SUBSET Nat
    OBVIOUS
  <2> HIDE DEF Same
  <2> QED BY <1>3, <1>4, <2>1, SetInduction
<1>6. ASSUME NEW s \in SUBSET T PROVE g[s] = h[s]
  <2>1. Cardinality(s) \in Same /\ Cardinality(s) <= Cardinality(s)
    BY <1>1, <1>5
  <2> QED BY <2>1
<1> QED BY <1>6

Orderless(g, f, S) == \A s \in SUBSET S : \A x \in s : g[s] = f[x] + g[s \ {x}]

\* Any element may be taken off first.
LEMMA SumsInAnyOrder ==
  ASSUME NEW S, IsFiniteSet(S), NEW f, Integral(f, S),
         NEW g \in [SUBSET S -> Int], Sums(g, f, S)
  PROVE  Orderless(g, f, S)
<1> DEFINE Free == {n \in Nat : \A s \in SUBSET S : Cardinality(s) <= n =>
                                  \A x \in s : g[s] = f[x] + g[s \ {x}]}
<1>1. \A s \in SUBSET S : IsFiniteSet(s) /\ Cardinality(s) \in Nat
  BY FS_Subset, FS_CardinalityType
<1>2. \A s \in SUBSET S : s # {} => g[s] = f[AnyOf(s)] + g[s \ {AnyOf(s)}]
  BY DEF Sums
<1>3. 0 \in Free
  BY <1>1, FS_EmptySet
<1>4. ASSUME NEW n \in Free PROVE n + 1 \in Free
  <2> SUFFICES ASSUME NEW s \in SUBSET S, Cardinality(s) <= n + 1, NEW x \in s
               PROVE  g[s] = f[x] + g[s \ {x}]
    OBVIOUS
  <2> DEFINE p == AnyOf(s)
  <2>1. p \in s
    BY DEF AnyOf
  <2>2. g[s] = f[p] + g[s \ {p}]
    BY <1>2
  <2> HIDE DEF p
  <2>3. CASE p = x
    BY <2>2, <2>3
  <2>4. CASE p # x
    <3>1. /\ Cardinality(s \ {p}) <= n /\ Cardinality(s \ {x}) <= n
          /\ s \ {p} \in SUBSET S /\ s \ {x} \in SUBSET S /\ s \ {p, x} \in SUBSET S
      <4>1. s \ {p} \in SUBSET S /\ s \ {x} \in SUBSET S /\ s \ {p, x} \in SUBSET S
        OBVIOUS
      <4>2. Cardinality(s \ {p}) = Cardinality(s) - 1
        BY <1>1, <2>1, FS_RemoveElement
      <4>3. Cardinality(s \ {x}) = Cardinality(s) - 1
        BY <1>1, FS_RemoveElement
      <4>4. n \in Nat
        OBVIOUS
      <4> HIDE DEF Free
      <4> QED BY <1>1, <4>1, <4>2, <4>3, <4>4
    <3>2. g[s \ {p}] = f[x] + g[(s \ {p}) \ {x}]
      BY <2>1, <2>4, <3>1
    <3>3. g[s \ {x}] = f[p] + g[(s \ {x}) \ {p}]
      BY <2>1, <2>4, <3>1
    <3>4. (s \ {p}) \ {x} = s \ {p, x} /\ (s \ {x}) \ {p} = s \ {p, x}
      OBVIOUS
    <3>5. f[p] \in Int /\ f[x] \in Int /\ g[s \ {p, x}] \in Int
      BY <2>1, <3>1 DEF Integral
    <3>6. g[s] = f[p] + (f[x] + g[s \ {p, x}]) /\ g[s \ {x}] = f[p] + g[s \ {p, x}]
      BY <2>2, <3>2, <3>3, <3>4
    <3> HIDE DEF Free
    <3> QED BY <3>5, <3>6
  <2> QED BY <2>3, <2>4
<1>5. Free = Nat
  <2>1. Free \in SUBSET Nat
    OBVIOUS
  <2> HIDE DEF Free
  <2> QED BY <1>3, <1>4, <2>1, SetInduction
<1>6. ASSUME NEW s \in SUBSET S PROVE \A x \in s : g[s] = f[x] + g[s \ {x}]
  <2>1. Cardinality(s) \in Free /\ Cardinality(s) <= Cardinality(s)
    BY <1>1, <1>5
  <2> QED BY <2>1
<1> QED BY <1>6 DEF Orderless

\* SumFunctionOnSet is the sum over the whole set.
LEMMA SumIsOfSums ==
  ASSUME NEW S, IsFiniteSet(S), NEW f, Integral(f, S)
  PROVE  \E g \in [SUBSET S -> Int] : Sums(g, f, S) /\ SumFunctionOnSet(f, S) = g[S]
<1> DEFINE h == CHOOSE g : Sums(g, f, S)
<1>1. PICK g \in [SUBSET S -> Int] : Sums(g, f, S)
  BY SumsExist
<1>2. Sums(h, f, S)
  BY <1>1
<1>3. SumFunctionOnSet(f, S) = h[S]
  BY DEF SumFunctionOnSet, FoldFunctionOnSet, MapThenFoldSet, Sums, AnyOf
<1> HIDE DEF h
<1>4. g[S] = h[S]
  BY <1>1, <1>2, SumsUnique
<1> QED BY <1>1, <1>3, <1>4

\* What is needed of sums: nothing adds up to 0, and an element counts once.
LEMMA SumOfNothing ==
  ASSUME NEW f
  PROVE  SumFunctionOnSet(f, {}) = 0
<1>1. PICK g \in [SUBSET {} -> Int] : Sums(g, f, {}) /\ SumFunctionOnSet(f, {}) = g[{}]
  BY SumIsOfSums, FS_EmptySet DEF Integral
<1> QED BY <1>1 DEF Sums

LEMMA SumWithout ==
  ASSUME NEW S, IsFiniteSet(S), NEW f, Integral(f, S), NEW x \in S
  PROVE  /\ SumFunctionOnSet(f, S) \in Int /\ SumFunctionOnSet(f, S \ {x}) \in Int
         /\ SumFunctionOnSet(f, S) = f[x] + SumFunctionOnSet(f, S \ {x})
<1>1. PICK g \in [SUBSET S -> Int] : Sums(g, f, S) /\ SumFunctionOnSet(f, S) = g[S]
  BY SumIsOfSums
<1>2. IsFiniteSet(S \ {x}) /\ Integral(f, S \ {x})
  BY FS_RemoveElement DEF Integral
<1>3. PICK h \in [SUBSET (S \ {x}) -> Int] :
        Sums(h, f, S \ {x}) /\ SumFunctionOnSet(f, S \ {x}) = h[S \ {x}]
  BY <1>2, SumIsOfSums
<1>4. g[S \ {x}] = h[S \ {x}]
  BY <1>1, <1>3, SumsUnique
<1>5. Orderless(g, f, S)
  BY <1>1, SumsInAnyOrder
<1>6. S \in SUBSET S /\ S \ {x} \in SUBSET S
  OBVIOUS
<1>7. g[S] = f[x] + g[S \ {x}] /\ g[S] \in Int /\ g[S \ {x}] \in Int
  BY <1>1, <1>5, <1>6 DEF Orderless
<1> QED BY <1>1, <1>3, <1>4, <1>7

LEMMA SumOfSame ==
  ASSUME NEW S, IsFiniteSet(S), NEW f, NEW e, Integral(f, S), \A x \in S : e[x] = f[x]
  PROVE  SumFunctionOnSet(e, S) = SumFunctionOnSet(f, S)
<1>1. PICK g \in [SUBSET S -> Int] : Sums(g, f, S) /\ SumFunctionOnSet(f, S) = g[S]
  BY SumIsOfSums
<1>2. Integral(e, S)
  BY DEF Integral
<1>3. PICK h \in [SUBSET S -> Int] : Sums(h, e, S) /\ SumFunctionOnSet(e, S) = h[S]
  BY <1>2, SumIsOfSums
<1>4. g[S] = h[S]
  BY <1>1, <1>3, SumsUnique
<1> QED BY <1>1, <1>3, <1>4

\* A sum with one element more, of a function that agrees on the others.
LEMMA SumWithOneMore ==
  ASSUME NEW S, IsFiniteSet(S), NEW x, x \notin S, NEW f, NEW e,
         Integral(e, S \cup {x}), \A y \in S : e[y] = f[y]
  PROVE  /\ SumFunctionOnSet(f, S) \in Int
         /\ SumFunctionOnSet(e, S \cup {x}) = e[x] + SumFunctionOnSet(f, S)
<1>1. IsFiniteSet(S \cup {x})
  BY FS_AddElement
<1>2. (S \cup {x}) \ {x} = S /\ x \in S \cup {x}
  OBVIOUS
<1>3. /\ SumFunctionOnSet(e, (S \cup {x}) \ {x}) \in Int
      /\ SumFunctionOnSet(e, S \cup {x}) = e[x] + SumFunctionOnSet(e, (S \cup {x}) \ {x})
  BY <1>1, <1>2, SumWithout
<1>4. Integral(f, S)
  BY DEF Integral
<1>5. SumFunctionOnSet(e, S) = SumFunctionOnSet(f, S)
  BY <1>4, SumOfSame
<1> QED BY <1>2, <1>3, <1>5

\* A sum of equal things.
LEMMA SumOfEqual ==
  ASSUME NEW S, IsFiniteSet(S), NEW c \in Nat, NEW f, \A x \in S : f[x] = c
  PROVE  SumFunctionOnSet(f, S) = Cardinality(S) * c
<1> DEFINE Done == {n \in Nat : \A s \in SUBSET S :
                      Cardinality(s) = n => SumFunctionOnSet(f, s) = n * c}
<1>1. \A s \in SUBSET S : IsFiniteSet(s) /\ Cardinality(s) \in Nat
  BY FS_Subset, FS_CardinalityType
<1>2. 0 \in Done
  <2>1. \A s \in SUBSET S : Cardinality(s) = 0 => s = {}
    BY <1>1, FS_EmptySet
  <2>2. SumFunctionOnSet(f, {}) = 0 /\ 0 * c = 0
    BY SumOfNothing
  <2> QED BY <2>1, <2>2
<1>3. ASSUME NEW n \in Done PROVE n + 1 \in Done
  <2>1. ASSUME NEW s \in SUBSET S, Cardinality(s) = n + 1
        PROVE  SumFunctionOnSet(f, s) = (n + 1) * c
    <3>1. n \in Nat
      OBVIOUS
    <3>2. s # {}
      BY <1>1, <2>1, <3>1, FS_EmptySet
    <3>3. PICK x \in s : TRUE
      BY <3>2
    <3>4. s \ {x} \in SUBSET S /\ Cardinality(s \ {x}) = Cardinality(s) - 1
      BY <1>1, FS_RemoveElement
    <3>5. Cardinality(s \ {x}) = n
      BY <2>1, <3>1, <3>4
    <3>6. SumFunctionOnSet(f, s \ {x}) = n * c
      BY <3>4, <3>5
    <3> HIDE DEF Done
    <3>7. Integral(f, s)
      BY DEF Integral
    <3>8. IsFiniteSet(s)
      BY <1>1
    <3>9. SumFunctionOnSet(f, s) = f[x] + SumFunctionOnSet(f, s \ {x})
      BY <3>7, <3>8, SumWithout
    <3>10. f[x] = c /\ (n + 1) * c = c + n * c
      BY <3>1
    <3> QED BY <3>6, <3>9, <3>10
  <2> QED BY <2>1
<1>4. Done = Nat
  <2>1. Done \in SUBSET Nat
    OBVIOUS
  <2> HIDE DEF Done
  <2> QED BY <1>2, <1>3, <2>1, SetInduction
<1>5. Cardinality(S) \in Done
  <2>1. Cardinality(S) \in Nat
    BY <1>1
  <2> HIDE DEF Done
  <2> QED BY <1>4, <2>1
<1> QED BY <1>5

-----------------------------------------------------------------------------
(* Folds over a sequence: FoldLeft takes off the greatest position.            *)

FoldOf(f, n, base, step) ==
  f = [s \in SUBSET (1..n) |-> IF s = {} THEN base ELSE step[<<Max(s), f[s \ {Max(s)}]>>]]

LEMMA LastOff ==
  ASSUME NEW n \in Nat
  PROVE  /\ IsFiniteSet(1..n)
         /\ \A s \in (SUBSET (1..n)) \ {{}} : Max(s) \in s
         /\ \A k \in 1..n : /\ 1..k \in (SUBSET (1..n)) \ {{}}
                            /\ Max(1..k) = k /\ (1..k) \ {k} = 1..(k - 1)
<1>1. IsFiniteSet(1..n)
  BY FS_Interval
<1>2. \A s \in (SUBSET (1..n)) \ {{}} : IsFiniteSet(s) /\ s \in SUBSET Nat
  <2> SUFFICES ASSUME NEW s \in SUBSET (1..n) PROVE IsFiniteSet(s) /\ s \in SUBSET Nat
    OBVIOUS
  <2>1. IsFiniteSet(s)
    BY <1>1, FS_Subset
  <2>2. s \in SUBSET Nat
    OBVIOUS
  <2> QED BY <2>1, <2>2
<1>3. \A s \in (SUBSET (1..n)) \ {{}} : Max(s) \in s /\ \A y \in s : y <= Max(s)
  BY <1>2, MaxOfFinite
<1>4. ASSUME NEW k \in 1..n PROVE /\ 1..k \in (SUBSET (1..n)) \ {{}}
                                    /\ Max(1..k) = k /\ (1..k) \ {k} = 1..(k - 1)
  <2>1. k \in 1..k /\ 1..k \in (SUBSET (1..n)) \ {{}}
    OBVIOUS
  <2>2. Max(1..k) \in 1..k /\ k <= Max(1..k)
    BY <1>3, <2>1
  <2> QED BY <2>1, <2>2
<1> QED BY <1>1, <1>3, <1>4

LEMMA FoldExists ==
  ASSUME NEW n \in Nat, NEW V, NEW base \in V, NEW step \in [(1..n) \X V -> V]
  PROVE  \E f \in [SUBSET (1..n) -> V] : FoldOf(f, n, base, step)
<1> DEFINE pick == [s \in (SUBSET (1..n)) \ {{}} |-> Max(s)]
<1>1. pick \in Picks(1..n)
  BY LastOff DEF Picks
<1>2. \A s \in (SUBSET (1..n)) \ {{}} : pick[s] = Max(s)
  OBVIOUS
<1> HIDE DEF pick
<1>3. IsFiniteSet(1..n)
  BY LastOff
<1>4. PICK f \in [SUBSET (1..n) -> V] : Recurses(f, 1..n, base, step, pick)
  BY <1>1, <1>3, SetRecursion
<1>5. FoldOf(f, n, base, step)
  BY <1>2, <1>4 DEF Recurses, FoldOf
<1> QED BY <1>5

\* What a fold over the first k elements is.
Stepwise(f, n, V, base, step) ==
  /\ f[1..0] = base
  /\ \A k \in 1..n : f[1..k] = step[<<k, f[1..(k - 1)]>>]
  /\ \A k \in 0..n : f[1..k] \in V

LEMMA FoldSteps ==
  ASSUME NEW n \in Nat, NEW V, NEW base \in V, NEW step \in [(1..n) \X V -> V],
         NEW f, FoldOf(f, n, base, step)
  PROVE  Stepwise(f, n, V, base, step)
<1>1. f[1..0] = base
  <2>1. 1..0 = {} /\ 1..0 \in SUBSET (1..n)
    OBVIOUS
  <2> QED BY <2>1 DEF FoldOf
<1>2. ASSUME NEW k \in 1..n PROVE f[1..k] = step[<<k, f[1..(k - 1)]>>]
  <2>1. 1..k \in SUBSET (1..n) /\ 1..k # {}
    OBVIOUS
  <2>2. f[1..k] = step[<<Max(1..k), f[(1..k) \ {Max(1..k)}]>>]
    BY <2>1 DEF FoldOf
  <2>3. Max(1..k) = k /\ (1..k) \ {k} = 1..(k - 1)
    BY LastOff
  <2> QED BY <2>2, <2>3
<1>3. \A k \in 0..n : f[1..k] \in V
  <2> DEFINE T == {k \in Nat : k <= n => f[1..k] \in V}
  <2>1. 0 \in T
    BY <1>1
  <2>2. ASSUME NEW k \in T PROVE k + 1 \in T
    <3>1. SUFFICES ASSUME k + 1 <= n PROVE f[1..(k + 1)] \in V
      OBVIOUS
    <3>2. k + 1 \in 1..n /\ (k + 1) - 1 = k /\ f[1..k] \in V
      BY <3>1
    <3>3. f[1..(k + 1)] = step[<<k + 1, f[1..k]>>]
      BY <1>2, <3>2
    <3> QED BY <3>2, <3>3
  <2>3. T \in SUBSET Nat
    OBVIOUS
  <2>4. T = Nat
    <3> HIDE DEF T
    <3> QED BY <2>1, <2>2, <2>3, SetInduction
  <2> QED BY <2>4
<1> QED BY <1>1, <1>2, <1>3 DEF Stepwise

-----------------------------------------------------------------------------
(* Recursion over a text from a position on: each position is either an end or *)
(* goes on at a later one.                                                     *)

\* A set of positions holds all of them, if it holds each whose later ones it holds.
LEMMA DownInduction ==
  ASSUME NEW n \in Nat, NEW T \in SUBSET (1..n),
         \A k \in 1..n : (\A j \in 1..n : j > k => j \in T) => k \in T
  PROVE  T = 1..n
<1> SUFFICES ASSUME T # 1..n PROVE FALSE
  OBVIOUS
<1> DEFINE Missing == {m \in Nat : m < n /\ n - m \notin T}
<1>1. Missing # {}
  <2>1. PICK k \in 1..n : k \notin T
    OBVIOUS
  <2>2. n - k \in Nat /\ n - k < n /\ n - (n - k) = k
    OBVIOUS
  <2>3. n - (n - k) \notin T
    BY <2>1, <2>2
  <2>4. n - k \in Missing
    BY <2>2, <2>3
  <2> QED BY <2>4
<1>2. Missing \in SUBSET Nat
  OBVIOUS
<1>3. PICK m \in Missing : \A y \in Missing : m <= y
  <2> HIDE DEF Missing
  <2> QED BY <1>1, <1>2, LeastNat
<1>4. n - m \in 1..n /\ n - m \notin T
  OBVIOUS
<1>5. ASSUME NEW j \in 1..n, j > n - m PROVE j \in T
  <2> SUFFICES ASSUME j \notin T PROVE FALSE
    OBVIOUS
  <2>1. n - j \in Nat /\ n - j < n /\ n - j < m /\ n - (n - j) = j
    BY <1>5
  <2>2. n - (n - j) \notin T
    BY <2>1
  <2>3. n - j \in Missing
    BY <2>1, <2>2
  <2>4. m <= n - j
    <3> HIDE DEF Missing
    <3> QED BY <1>3, <2>3
  <2>5. m \in Nat
    OBVIOUS
  <2> HIDE DEF Missing
  <2> QED BY <2>1, <2>4, <2>5
<1> QED BY <1>4, <1>5

\* step may look at its position, and base as well.
Jumps(f, n, ends, base, step, next) ==
  f = [k \in 1..n |-> IF k \in ends THEN base[k] ELSE step[<<k, f[next[k]]>>]]

Forward(n, ends, next) == \A k \in (1..n) \ ends : next[k] \in (k + 1)..n

LEMMA JumpRecursion ==
  ASSUME NEW n \in Nat, NEW ends, NEW next, Forward(n, ends, next),
         NEW V, NEW base \in [1..n -> V], NEW step \in [(1..n) \X V -> V]
  PROVE  \E f \in [1..n -> V] : Jumps(f, n, ends, base, step, next)
<1> DEFINE Late(m) == {k \in 1..n : k > n - m}
           Solves(f, m) == \A k \in Late(m) :
              f[k] = IF k \in ends THEN base[k] ELSE step[<<k, f[next[k]]>>]
           Solved == {m \in Nat : \E f \in [Late(m) -> V] : Solves(f, m)}
<1>1. 0 \in Solved
  <2>1. Late(0) = {}
    OBVIOUS
  <2>2. [k \in Late(0) |-> base[k]] \in [Late(0) -> V]
    BY <2>1
  <2> QED BY <2>1, <2>2
<1>2. ASSUME NEW m \in Solved PROVE m + 1 \in Solved
  <2>1. PICK f \in [Late(m) -> V] : Solves(f, m)
    OBVIOUS
  <2> DEFINE g == [k \in Late(m + 1) |-> IF k \in Late(m) THEN f[k]
                                         ELSE IF k \in ends THEN base[k]
                                         ELSE step[<<k, f[next[k]]>>]]
  <2>2. ASSUME NEW k \in Late(m + 1), k \notin ends
        PROVE  next[k] \in Late(m) /\ next[k] \in Late(m + 1)
    <3>1. k \in (1..n) \ ends /\ next[k] \in (k + 1)..n
      BY <2>2 DEF Forward
    <3> QED BY <3>1
  <2>3. g \in [Late(m + 1) -> V]
    <3> SUFFICES ASSUME NEW k \in Late(m + 1) PROVE g[k] \in V
      OBVIOUS
    <3>1. CASE k \in Late(m) \/ k \in ends
      BY <3>1
    <3>2. CASE k \notin Late(m) /\ k \notin ends
      <4>1. f[next[k]] \in V
        BY <2>2, <3>2
      <4> QED BY <3>2, <4>1
    <3> QED BY <3>1, <3>2
  <2>4. Solves(g, m + 1)
    <3> SUFFICES ASSUME NEW k \in Late(m + 1)
                 PROVE  g[k] = IF k \in ends THEN base[k] ELSE step[<<k, g[next[k]]>>]
      OBVIOUS
    <3>1. CASE k \in ends
      BY <2>1, <3>1
    <3>2. CASE k \notin ends
      <4>1. g[next[k]] = f[next[k]]
        BY <2>2, <3>2
      <4> QED BY <2>1, <3>2, <4>1
    <3> QED BY <3>1, <3>2
  <2> HIDE DEF g, Late, Solves
  <2>5. \E h \in [Late(m + 1) -> V] : Solves(h, m + 1)
    BY <2>3, <2>4
  <2> QED BY <2>5
<1>3. Solved \in SUBSET Nat
  OBVIOUS
<1>4. Solved = Nat
  <2> HIDE DEF Solved
  <2> QED BY <1>1, <1>2, <1>3, SetInduction
<1>5. PICK f \in [Late(n) -> V] : Solves(f, n)
  BY <1>4
<1>6. Late(n) = 1..n
  OBVIOUS
<1> HIDE DEF Late
<1> QED BY <1>5, <1>6 DEF Jumps

-----------------------------------------------------------------------------
(* Lists joined one after the other                                            *)

\* n lists of elements of T, and their joins one after the other.
SeqsOver(s, n, T)    == \A k \in 1..n : s[k] \in Seq(T)
Joins(F, s, n, T) == /\ SeqsOver(F, n, T) /\ F[1] = s[1]
                     /\ \A k \in 2..n : F[k] = F[k - 1] \o s[k]

\* FlattenSeq joins lists one after the other.
LEMMA Flattened ==
  ASSUME NEW n \in Nat \ {0}, NEW T, NEW s, Len(s) = n, SeqsOver(s, n, T)
  PROVE  \E F : Joins(F, s, n, T) /\ FlattenSeq(s) = F[n]
<1> DEFINE V == Seq(T)
           base == <<>>
           step == [x \in (1..n) \X V |-> x[2] \o s[x[1]]]
           Loop(g) == g = [k \in 1..n |-> IF k = 1 THEN s[k] ELSE g[k - 1] \o s[k]]
           F == CHOOSE g : Loop(g)
<1>1. base \in V /\ \A x \in V : \A y \in V : x \o y \in V
  OBVIOUS
<1>2. \A k \in 1..n : s[k] \in V
  BY DEF SeqsOver
<1> HIDE DEF V, base
<1>3. step \in [(1..n) \X V -> V]
  BY <1>1, <1>2
<1>4. \A k \in 1..n : \A x \in V : step[<<k, x>>] = x \o s[k]
  OBVIOUS
<1> HIDE DEF step
<1>5. PICK f \in [SUBSET (1..n) -> V] : FoldOf(f, n, base, step)
  BY <1>1, <1>3, FoldExists
<1>6. /\ f[1..0] = base /\ \A k \in 1..n : f[1..k] = step[<<k, f[1..(k - 1)]>>]
      /\ \A k \in 0..n : f[1..k] \in V
  <2>1. n \in Nat /\ base \in V
    BY <1>1
  <2>2. FoldOf(f, n, base, step)
    BY <1>5
  <2>3. Stepwise(f, n, V, base, step)
    BY <1>3, <2>1, <2>2, FoldSteps
  <2> QED BY <2>3 DEF Stepwise
<1>7. \A k \in 1..n : f[1..k] = f[1..(k - 1)] \o s[k]
  <2> SUFFICES ASSUME NEW k \in 1..n PROVE f[1..k] = f[1..(k - 1)] \o s[k]
    OBVIOUS
  <2>1. k - 1 \in 0..n
    OBVIOUS
  <2>2. f[1..(k - 1)] \in V
    BY <1>6, <2>1
  <2> QED BY <1>4, <1>6, <2>2
<1> DEFINE G == [k \in 1..n |-> f[1..k]]
<1>8. Loop(G)
  <2>1. ASSUME NEW k \in 1..n PROVE G[k] = IF k = 1 THEN s[k] ELSE G[k - 1] \o s[k]
    <3>1. CASE k = 1
      <4>1. base \o s[1] = s[1]
        BY <1>2 DEF V, base
      <4>2. f[1..1] = f[1..(1 - 1)] \o s[1]
        <5>1. 1 \in 1..n
          OBVIOUS
        <5> QED BY <1>7, <5>1
      <4>3. 1 - 1 = 0
        OBVIOUS
      <4>4. f[1..1] = s[1]
        BY <1>6, <4>1, <4>2, <4>3
      <4> QED BY <3>1, <4>4
    <3>2. CASE k # 1
      <4>1. k - 1 \in 1..n
        BY <3>2
      <4> QED BY <1>7, <3>2, <4>1
    <3> QED BY <3>1, <3>2
  <2> QED BY <2>1
<1> HIDE DEF G
<1>9. Loop(F)
  BY <1>8
<1>10. FlattenSeq(s) = F[n]
  BY DEF FlattenSeq
<1> HIDE DEF F
<1>11. \A k \in 1..n : F[k] = IF k = 1 THEN s[k] ELSE F[k - 1] \o s[k]
  BY <1>9
<1> HIDE DEF Loop
<1>12. F[1] = s[1] /\ \A k \in 2..n : F[k] = F[k - 1] \o s[k]
  <2>1. 1 \in 1..n /\ \A k \in 2..n : k \in 1..n /\ k # 1
    OBVIOUS
  <2> QED BY <1>11, <2>1
<1> DEFINE P == {k \in Nat : k + 1 <= n => F[k + 1] \in V}
<1>13. 0 \in P
  <2>1. 1 \in 1..n
    OBVIOUS
  <2> QED BY <1>2, <1>12, <2>1
<1>14. ASSUME NEW k \in P PROVE k + 1 \in P
  <2>1. SUFFICES ASSUME (k + 1) + 1 <= n PROVE F[(k + 1) + 1] \in V
    OBVIOUS
  <2>2. k \in Nat /\ F[k + 1] \in V
    BY <2>1
  <2>3. (k + 1) + 1 \in 2..n /\ ((k + 1) + 1) - 1 = k + 1 /\ (k + 1) + 1 \in 1..n
    BY <2>1, <2>2
  <2>4. F[(k + 1) + 1] = F[k + 1] \o s[(k + 1) + 1]
    BY <1>12, <2>3
  <2>5. s[(k + 1) + 1] \in V
    BY <1>2, <2>3
  <2> HIDE DEF P
  <2> QED BY <1>1, <2>2, <2>4, <2>5
<1>15. P = Nat
  <2>1. P \in SUBSET Nat
    OBVIOUS
  <2> HIDE DEF P
  <2> QED BY <1>13, <1>14, <2>1, SetInduction
<1>16. \A k \in 1..n : F[k] \in V
  <2> SUFFICES ASSUME NEW k \in 1..n PROVE F[k] \in V
    OBVIOUS
  <2>1. k - 1 \in Nat /\ (k - 1) + 1 = k /\ (k - 1) + 1 <= n
    OBVIOUS
  <2>2. k - 1 \in P
    <3> HIDE DEF P
    <3> QED BY <1>15, <2>1
  <2> QED BY <2>1, <2>2
<1>17. Joins(F, s, n, T)
  BY <1>12, <1>16 DEF Joins, SeqsOver, V
<1> QED BY <1>10, <1>17

\* The first list may be joined last.
LEMMA FlattenFront ==
  ASSUME NEW T, NEW x \in Seq(T), NEW t \in Seq(Seq(T))
  PROVE  FlattenSeq(t) \in Seq(T) /\ FlattenSeq(<<x>> \o t) = x \o FlattenSeq(t)
<1> DEFINE m == Len(t)
           u == <<x>> \o t
<1>1. m \in Nat /\ u \in Seq(Seq(T)) /\ Len(u) = m + 1 /\ u[1] = x
      /\ \A k \in 1..m : t[k] \in Seq(T) /\ u[k + 1] = t[k]
  OBVIOUS
<1>2. SeqsOver(u, m + 1, T) /\ SeqsOver(t, m, T)
  BY <1>1 DEF SeqsOver
<1> HIDE DEF m, u
<1>3. PICK G : Joins(G, u, m + 1, T) /\ FlattenSeq(u) = G[m + 1]
  <2>1. m + 1 \in Nat \ {0}
    BY <1>1
  <2> QED BY <1>1, <1>2, <2>1, Flattened
<1>4. G[1] = x /\ \A k \in 2..(m + 1) : G[k] = G[k - 1] \o u[k]
  BY <1>1, <1>3 DEF Joins
<1>5. CASE m = 0
  <2>1. t = <<>>
    BY <1>5 DEF m
  <2>2. FlattenSeq(t) = <<>>
    BY <2>1 DEF FlattenSeq
  <2>3. FlattenSeq(u) = x
    BY <1>3, <1>4, <1>5
  <2>4. x \o <<>> = x /\ <<>> \in Seq(T)
    OBVIOUS
  <2> QED BY <2>2, <2>3, <2>4 DEF u
<1>6. CASE m # 0
  <2>1. PICK F : Joins(F, t, m, T) /\ FlattenSeq(t) = F[m]
    <3>1. m \in Nat \ {0} /\ Len(t) = m
      BY <1>1, <1>6 DEF m
    <3> QED BY <1>2, <3>1, Flattened
  <2>2. /\ \A k \in 1..m : F[k] \in Seq(T)
        /\ F[1] = t[1] /\ \A k \in 2..m : F[k] = F[k - 1] \o t[k]
    BY <2>1 DEF Joins, SeqsOver
  <2> DEFINE P == {k \in Nat : k + 1 <= m => G[k + 2] = x \o F[k + 1]}
  <2>3. 0 \in P
    <3>1. /\ 2 \in 2..(m + 1) /\ 1 \in 1..m /\ 1 + 1 = 2 /\ 2 - 1 = 1
          /\ 0 + 2 = 2 /\ 0 + 1 = 1
      BY <1>1, <1>6
    <3>2. G[2] = G[1] \o u[2]
      BY <1>4, <3>1
    <3>3. u[2] = t[1]
      BY <1>1, <3>1
    <3>4. G[0 + 2] = x \o F[0 + 1]
      BY <1>4, <2>2, <3>1, <3>2, <3>3
    <3> QED BY <3>4
  <2>4. ASSUME NEW k \in P PROVE k + 1 \in P
    <3>1. SUFFICES ASSUME (k + 1) + 1 <= m PROVE G[(k + 1) + 2] = x \o F[(k + 1) + 1]
      OBVIOUS
    <3>2. k \in Nat /\ G[k + 2] = x \o F[k + 1]
      BY <1>1, <3>1
    <3>3. /\ k + 1 \in 1..m /\ k + 2 \in 2..m /\ k + 2 \in 1..m /\ k + 3 \in 2..(m + 1)
          /\ (k + 3) - 1 = k + 2 /\ (k + 2) - 1 = k + 1 /\ (k + 2) + 1 = k + 3
          /\ (k + 1) + 2 = k + 3 /\ (k + 1) + 1 = k + 2
      BY <1>1, <3>1, <3>2
    <3>4. G[k + 3] = G[k + 2] \o u[k + 3]
      BY <1>4, <3>3
    <3>5. u[k + 3] = t[k + 2]
      BY <1>1, <3>3
    <3>6. F[k + 2] = F[k + 1] \o t[k + 2]
      BY <2>2, <3>3
    <3>7. F[k + 1] \in Seq(T) /\ t[k + 2] \in Seq(T)
      BY <1>1, <2>2, <3>3
    <3> DEFINE y == F[k + 1]
               z == t[k + 2]
    <3>8. (x \o y) \o z = x \o (y \o z)
      <4>1. y \in Seq(T) /\ z \in Seq(T)
        BY <3>7
      <4> HIDE DEF y, z
      <4> QED BY <4>1, ConcatAssociative
    <3> HIDE DEF P
    <3> QED BY <3>2, <3>3, <3>4, <3>5, <3>6, <3>8
  <2>5. P = Nat
    <3>1. P \in SUBSET Nat
      OBVIOUS
    <3> HIDE DEF P
    <3> QED BY <2>3, <2>4, <3>1, SetInduction
  <2>6. m - 1 \in P /\ m - 1 \in Nat /\ (m - 1) + 1 = m /\ (m - 1) + 2 = m + 1
    <3> HIDE DEF P
    <3> QED BY <1>1, <1>6, <2>5
  <2>7. G[(m - 1) + 2] = x \o F[(m - 1) + 1]
    BY <1>1, <2>6
  <2>8. G[m + 1] = x \o F[m] /\ F[m] \in Seq(T)
    BY <1>1, <1>6, <2>2, <2>6, <2>7
  <2> QED BY <1>3, <2>1, <2>8 DEF u
<1> QED BY <1>5, <1>6

-----------------------------------------------------------------------------
(* A recursion that glues                                                      *)

\* Recursion that puts something in front of what a later position has.
Glues(g, n, ends, base, head, next) ==
  g = [k \in 1..n |-> IF k \in ends THEN base[k] ELSE head[k] \o g[next[k]]]

\* The parts of such a recursion are lists of elements of D.
Gluable(n, D, ends, base, head, next) ==
  /\ n \in Nat /\ Forward(n, ends, next)
  /\ \A k \in 1..n : IF k \in ends THEN base[k] \in Seq(D) ELSE head[k] \in Seq(D)

LEMMA GlueExists ==
  ASSUME NEW n, NEW D, NEW ends, NEW base, NEW head, NEW next,
         Gluable(n, D, ends, base, head, next)
  PROVE  \E g : Glues(g, n, ends, base, head, next)
<1> DEFINE V == Seq(D)
           last == [k \in 1..n |-> IF k \in ends THEN base[k] ELSE <<>>]
           step == [x \in (1..n) \X V |-> IF x[1] \in ends THEN <<>> ELSE head[x[1]] \o x[2]]
<1>1. n \in Nat /\ Forward(n, ends, next)
  BY DEF Gluable
<1>2. <<>> \in V /\ \A x \in V : \A y \in V : x \o y \in V
  BY EmptySeq, ConcatProperties
<1>3. \A k \in 1..n : IF k \in ends THEN base[k] \in V ELSE head[k] \in V
  BY DEF Gluable
<1> HIDE DEF V
<1>4. last \in [1..n -> V] /\ \A k \in 1..n : k \in ends => last[k] = base[k]
  BY <1>2, <1>3
<1>5. step \in [(1..n) \X V -> V]
  BY <1>2, <1>3
<1>6. \A k \in 1..n : k \notin ends => \A w \in V : step[<<k, w>>] = head[k] \o w
  OBVIOUS
<1> HIDE DEF last, step
<1>7. PICK g \in [1..n -> V] : Jumps(g, n, ends, last, step, next)
  BY <1>1, <1>4, <1>5, JumpRecursion
<1>8. ASSUME NEW k \in 1..n PROVE g[k] = IF k \in ends THEN base[k] ELSE head[k] \o g[next[k]]
  <2>1. g[k] = IF k \in ends THEN last[k] ELSE step[<<k, g[next[k]]>>]
    BY <1>7 DEF Jumps
  <2>2. CASE k \in ends
    BY <1>4, <2>1, <2>2
  <2>3. CASE k \notin ends
    <3>1. next[k] \in 1..n
      BY <1>1, <2>3 DEF Forward
    <3>2. g[next[k]] \in V
      BY <3>1
    <3> QED BY <1>6, <2>1, <2>3, <3>2
  <2> QED BY <2>2, <2>3
<1>9. Glues(g, n, ends, base, head, next)
  BY <1>8 DEF Glues
<1> QED BY <1>9

LEMMA GlueTyped ==
  ASSUME NEW n, NEW D, NEW ends, NEW base, NEW head, NEW next,
         Gluable(n, D, ends, base, head, next), NEW g, Glues(g, n, ends, base, head, next)
  PROVE  /\ \A k \in 1..n : g[k] \in Seq(D)
         /\ \A k \in 1..n : g[k] = IF k \in ends THEN base[k] ELSE head[k] \o g[next[k]]
         /\ \A k \in (1..n) \ ends : next[k] \in (k + 1)..n
<1> DEFINE V == Seq(D)
           T == {k \in 1..n : g[k] \in V}
<1>1. n \in Nat /\ Forward(n, ends, next)
  BY DEF Gluable
<1>2. \A x \in V : \A y \in V : x \o y \in V
  BY ConcatProperties
<1>3. \A k \in 1..n : IF k \in ends THEN base[k] \in V ELSE head[k] \in V
  BY DEF Gluable
<1> HIDE DEF V
<1>4. \A k \in 1..n : g[k] = IF k \in ends THEN base[k] ELSE head[k] \o g[next[k]]
  BY DEF Glues
<1>5. ASSUME NEW k \in 1..n, \A j \in 1..n : j > k => j \in T PROVE k \in T
  <2>1. CASE k \in ends
    BY <1>3, <1>4, <2>1
  <2>2. CASE k \notin ends
    <3>1. next[k] \in 1..n /\ next[k] > k
      BY <1>1, <2>2 DEF Forward
    <3>2. g[next[k]] \in V
      BY <1>5, <3>1
    <3>3. g[k] = head[k] \o g[next[k]]
      BY <1>4, <2>2
    <3>4. g[k] \in V
      BY <1>2, <1>3, <2>2, <3>2, <3>3
    <3> QED BY <3>4
  <2> QED BY <2>1, <2>2
<1>6. T = 1..n
  <2>1. T \in SUBSET (1..n)
    OBVIOUS
  <2> HIDE DEF T
  <2> QED BY <1>1, <1>5, <2>1, DownInduction
<1>7. \A k \in 1..n : g[k] \in V
  BY <1>6
<1>8. \A k \in (1..n) \ ends : next[k] \in (k + 1)..n
  BY <1>1 DEF Forward
<1> QED BY <1>4, <1>7, <1>8 DEF V

\* The recursion from j on is that of d positions further on.
ShiftedBy(d, n, ends, base, head, next, lasts, kept, front, after) ==
  \A j \in 1..n : /\ d + j \in ends <=> j \in lasts
                  /\ j \in lasts => base[d + j] = kept[j]
                  /\ j \notin lasts => head[d + j] = front[j] /\ next[d + j] = d + after[j]

LEMMA GlueShifts ==
  ASSUME NEW d \in Nat, NEW n, NEW D,
         NEW ends, NEW base, NEW head, NEW next, Gluable(d + n, D, ends, base, head, next),
         NEW lasts, NEW kept, NEW front, NEW after, Gluable(n, D, lasts, kept, front, after),
         ShiftedBy(d, n, ends, base, head, next, lasts, kept, front, after),
         NEW g, Glues(g, d + n, ends, base, head, next), NEW h, Glues(h, n, lasts, kept, front, after)
  PROVE  \A j \in 1..n : g[d + j] = h[j]
<1> DEFINE T == {j \in 1..n : g[d + j] = h[j]}
<1>1. n \in Nat
  BY DEF Gluable
<1>2. /\ \A k \in 1..(d + n) : g[k] = IF k \in ends THEN base[k] ELSE head[k] \o g[next[k]]
      /\ \A k \in (1..(d + n)) \ ends : next[k] \in (k + 1)..(d + n)
  BY GlueTyped
<1>3. /\ \A k \in 1..n : h[k] = IF k \in lasts THEN kept[k] ELSE front[k] \o h[after[k]]
      /\ \A k \in (1..n) \ lasts : after[k] \in (k + 1)..n
  BY GlueTyped
<1>4. ASSUME NEW k \in 1..n, \A j \in 1..n : j > k => j \in T PROVE k \in T
  <2>1. d + k \in 1..(d + n)
    BY <1>1
  <2>2. g[d + k] = IF d + k \in ends THEN base[d + k] ELSE head[d + k] \o g[next[d + k]]
    BY <1>2, <2>1
  <2>3. CASE k \in lasts
    BY <1>3, <2>2, <2>3 DEF ShiftedBy
  <2>4. CASE k \notin lasts
    <3>1. after[k] \in 1..n /\ after[k] > k
      BY <1>1, <1>3, <2>4
    <3>2. g[d + after[k]] = h[after[k]]
      BY <1>4, <3>1
    <3> QED BY <1>3, <2>2, <2>4, <3>2 DEF ShiftedBy
  <2> QED BY <2>3, <2>4
<1>5. T = 1..n
  <2>1. T \in SUBSET (1..n)
    OBVIOUS
  <2> HIDE DEF T
  <2> QED BY <1>1, <1>4, <2>1, DownInduction
<1> QED BY <1>5

-----------------------------------------------------------------------------
(* Texts, joined and cut                                                       *)

LEMMA TextsJoin ==
  \A a, b, c \in Seq(STRING) : (a \o b) \o c = a \o (b \o c)
<1> DEFINE C == STRING
<1> HIDE DEF C
<1>1. \A a, b, c \in Seq(C) : (a \o b) \o c = a \o (b \o c)
  BY ConcatAssociative
<1> QED BY <1>1 DEF C

\* A cut has the characters from i to j.
LEMMA CutOf ==
  ASSUME NEW s \in Seq(STRING), NEW i \in 1..(Len(s) + 1), NEW j \in 0..Len(s), i <= j + 1
  PROVE  /\ SubSeq(s, i, j) \in Seq(STRING) /\ Len(SubSeq(s, i, j)) = j - i + 1
         /\ \A x \in 1..(j - i + 1) : SubSeq(s, i, j)[x] = s[i + x - 1]
<1>1. \A x \in i..j : s[x] \in STRING
  OBVIOUS
<1>2. i \in Int /\ j \in Int /\ (i <= j => j - i + 1 = j - i + 1) /\ (~(i <= j) => j - i + 1 = 0)
  OBVIOUS
<1>3. /\ SubSeq(s, i, j) \in Seq(STRING)
      /\ Len(SubSeq(s, i, j)) = IF i <= j THEN j - i + 1 ELSE 0
      /\ \A x \in 1..(j - i + 1) : SubSeq(s, i, j)[x] = s[i + x - 1]
  BY <1>1, <1>2, SubSeqProperties
<1> QED BY <1>2, <1>3

\* Two texts of the same length with the same characters are one.
LEMMA SameText ==
  ASSUME NEW a \in Seq(STRING), NEW b \in Seq(STRING), Len(a) = Len(b),
         \A x \in 1..Len(a) : a[x] = b[x]
  PROVE  a = b
BY SeqEqual

\* A cut of a cut is one of the text.
LEMMA CutTwice ==
  ASSUME NEW s \in Seq(STRING), NEW k \in 1..(Len(s) + 1),
         NEW i \in 1..(Len(s) + 2 - k), NEW j \in 0..(Len(s) + 1 - k), i <= j + 1
  PROVE  SubSeq(SubSeq(s, k, Len(s)), i, j) = SubSeq(s, k + i - 1, k + j - 1)
<1> DEFINE t == SubSeq(s, k, Len(s))
           a == SubSeq(t, i, j)
           b == SubSeq(s, k + i - 1, k + j - 1)
<1>1. /\ t \in Seq(STRING) /\ Len(t) = Len(s) - k + 1
      /\ \A x \in 1..(Len(s) - k + 1) : t[x] = s[k + x - 1]
  <2>1. Len(s) \in 0..Len(s) /\ k <= Len(s) + 1
    OBVIOUS
  <2> QED BY <2>1, CutOf
<1> HIDE DEF t
<1>2. /\ a \in Seq(STRING) /\ Len(a) = j - i + 1
      /\ \A x \in 1..(j - i + 1) : a[x] = t[i + x - 1]
  <2>1. i \in 1..(Len(t) + 1) /\ j \in 0..Len(t)
    BY <1>1
  <2> QED BY <1>1, <2>1, CutOf
<1>3. /\ b \in Seq(STRING) /\ Len(b) = j - i + 1
      /\ \A x \in 1..(j - i + 1) : b[x] = s[k + i - 1 + x - 1]
  <2> DEFINE i2 == k + i - 1
             j2 == k + j - 1
  <2>1. i2 \in 1..(Len(s) + 1) /\ j2 \in 0..Len(s) /\ i2 <= j2 + 1 /\ j2 - i2 + 1 = j - i + 1
    OBVIOUS
  <2> HIDE DEF i2, j2
  <2>2. /\ SubSeq(s, i2, j2) \in Seq(STRING) /\ Len(SubSeq(s, i2, j2)) = j2 - i2 + 1
        /\ \A x \in 1..(j2 - i2 + 1) : SubSeq(s, i2, j2)[x] = s[i2 + x - 1]
    BY <2>1, CutOf
  <2> QED BY <2>1, <2>2 DEF i2, j2
<1> HIDE DEF a, b
<1>4. \A x \in 1..Len(a) : a[x] = b[x]
  <2> SUFFICES ASSUME NEW x \in 1..Len(a) PROVE a[x] = b[x]
    OBVIOUS
  <2>1. x \in 1..(j - i + 1) /\ i + x - 1 \in 1..(Len(s) - k + 1)
        /\ k + (i + x - 1) - 1 = k + i - 1 + x - 1
    BY <1>2
  <2> QED BY <1>1, <1>2, <1>3, <2>1
<1>5. a = b
  BY <1>2, <1>3, <1>4, SameText
<1> QED BY <1>5 DEF a, b, t

\* Two cuts side by side are one.
LEMMA CutsJoin ==
  ASSUME NEW s \in Seq(STRING), NEW i \in 1..(Len(s) + 1), NEW m \in (i - 1)..Len(s),
         NEW j \in m..Len(s)
  PROVE  SubSeq(s, i, m) \o SubSeq(s, m + 1, j) = SubSeq(s, i, j)
BY ConcatAdjacentSubSeq

\* How far a text goes ahead of the first of some positions in it.
Ahead(s, I) ==
  LET end == IF I # {} THEN Min(I) ELSE 0 IN IF end = 0 THEN Len(s) ELSE end - 1

LEMMA FirstOfThem ==
  ASSUME NEW s \in Seq(STRING), NEW I \in SUBSET (1..Len(s))
  PROVE  /\ I # {} => Min(I) \in I /\ \A i \in I : Min(I) <= i
         /\ Ahead(s, I) \in 0..Len(s)
         /\ \A i \in 1..Ahead(s, I) : i \notin I
         /\ Ahead(s, I) < Len(s) => Ahead(s, I) + 1 \in I
<1>1. I \in SUBSET Nat /\ IsFiniteSet(I)
  <2>1. IsFiniteSet(1..Len(s))
    BY FS_Interval
  <2>2. IsFiniteSet(I)
    BY <2>1, FS_Subset
  <2> QED BY <2>2
<1>2. I # {} => Min(I) \in I /\ \A i \in I : Min(I) <= i
  BY <1>1, MaxOfFinite
<1> DEFINE m == Min(I)
<1> HIDE DEF m
<1>3. CASE I = {}
  BY <1>2, <1>3 DEF Ahead
<1>4. CASE I # {}
  <2>1. m \in I /\ m \in 1..Len(s) /\ \A i \in I : m <= i
    BY <1>2, <1>4 DEF m
  <2>2. Ahead(s, I) = m - 1
    BY <1>4, <2>1 DEF Ahead, m
  <2> QED BY <1>2, <2>1, <2>2
<1> QED BY <1>3, <1>4

\* A text of one character.
LEMMA OneOf ==
  ASSUME NEW C, NEW c \in C
  PROVE  <<c>> \in Seq(C) /\ Len(<<c>>) = 1 /\ <<c>>[1] = c
OBVIOUS

\* r is c alone.
IsOne(r, c) == Len(r) = 1 /\ r[1] = c

LEMMA OnlyOne ==
  ASSUME NEW C, NEW r \in Seq(C), NEW c
  PROVE  r = <<c>> <=> IsOne(r, c)
<1>1. ASSUME IsOne(r, c) PROVE r = <<c>>
  <2> DEFINE o == <<c>>
  <2>0. c \in C /\ Len(r) = 1 /\ r[1] = c
    BY <1>1 DEF IsOne
  <2>1. o \in Seq(C) /\ Len(o) = 1 /\ o[1] = c
    BY <2>0, OneOf
  <2> HIDE DEF o
  <2>2. \A x \in 1..Len(r) : r[x] = o[x]
    <3>1. \A x \in 1..Len(r) : x = 1
      BY <2>0
    <3> QED BY <2>0, <2>1, <3>1
  <2>3. r = o
    BY <2>0, <2>1, <2>2, SeqEqual
  <2> QED BY <2>3 DEF o
<1>2. ASSUME r = <<c>> PROVE IsOne(r, c)
  BY <1>2 DEF IsOne
<1> QED BY <1>1, <1>2

\* A cut of one character.
LEMMA CutOne ==
  ASSUME NEW s \in Seq(STRING), NEW i \in 1..Len(s)
  PROVE  SubSeq(s, i, i) = <<s[i]>>
<1> DEFINE r == SubSeq(s, i, i)
<1>1. r \in Seq(STRING) /\ IsOne(r, s[i])
  <2>1. i \in 1..(Len(s) + 1) /\ i \in 0..Len(s) /\ i <= i + 1 /\ i - i + 1 = 1 /\ i + 1 - 1 = i
    OBVIOUS
  <2>2. /\ r \in Seq(STRING) /\ Len(r) = i - i + 1
        /\ \A x \in 1..(i - i + 1) : r[x] = s[i + x - 1]
    BY <2>1, CutOf
  <2> HIDE DEF r
  <2> QED BY <2>1, <2>2 DEF IsOne
<1> HIDE DEF r
<1>2. r = <<s[i]>>
  <2> DEFINE C == STRING
             c == s[i]
  <2>1. r \in Seq(C) /\ IsOne(r, c)
    BY <1>1
  <2> HIDE DEF C, c
  <2>2. r = <<c>>
    BY <2>1, OnlyOne
  <2> QED BY <2>2 DEF c
<1> QED BY <1>2 DEF r

Regroups(x, y, z)   == (x \o y) \o z = x \o (y \o z)
SameJoin(x, o, f, w) == (x \o o \o f) \o o \o w = x \o o \o (f \o o \o w)

LEMMA Regrouped ==
  ASSUME NEW C, NEW x \in Seq(C), NEW y \in Seq(C), NEW z \in Seq(C)
  PROVE  Regroups(x, y, z) /\ x \o y \in Seq(C)
BY ConcatAssociative, ConcatProperties DEF Regroups

LEMMA JoinAgain ==
  ASSUME NEW C, NEW x \in Seq(C), NEW o \in Seq(C), NEW f \in Seq(C), NEW w \in Seq(C)
  PROVE  SameJoin(x, o, f, w)
<1> DEFINE xo == x \o o
           ow == o \o w
           xof == xo \o f
<1>1. xo \in Seq(C) /\ ow \in Seq(C)
  BY Regrouped
<1>2. Regroups(f, o, w)
  BY Regrouped
<1> HIDE DEF xo, ow
<1>3. Regroups(xo, f, ow) /\ xof \in Seq(C)
  BY <1>1, Regrouped
<1> HIDE DEF xof
<1>4. Regroups(xof, o, w)
  BY <1>3, Regrouped
<1> QED BY <1>2, <1>3, <1>4, Zenon DEF xo, ow, xof, Regroups, SameJoin

LEMMA Something ==
  ASSUME NEW C, NEW x \in Seq(C), NEW o \in Seq(C), Len(o) = 1, NEW w \in Seq(C)
  PROVE  x \o o \o w # <<>>
<1> DEFINE xo == x \o o
<1>2. xo \in Seq(C) /\ Len(xo) = Len(x) + Len(o)
  BY ConcatProperties
<1> HIDE DEF xo
<1>3. Len(xo \o w) > 0
  <2>1. Len(xo \o w) = Len(xo) + Len(w)
    BY <1>2, ConcatProperties
  <2>2. Len(x) \in Nat /\ Len(w) \in Nat /\ Len(o) = 1
    OBVIOUS
  <2> QED BY <1>2, <2>1, <2>2
<1>4. Len(<<>>) = 0
  OBVIOUS
<1> QED BY <1>3, <1>4 DEF xo

\* A sum of multiples.
LEMMA SumTimes ==
  ASSUME NEW S, IsFiniteSet(S), NEW c \in Int, NEW f, Integral(f, S),
         NEW e, \A x \in S : e[x] = c * f[x]
  PROVE  /\ SumFunctionOnSet(f, S) \in Int
         /\ SumFunctionOnSet(e, S) = c * SumFunctionOnSet(f, S)
<1> DEFINE Good(s) == /\ SumFunctionOnSet(f, s) \in Int
                      /\ SumFunctionOnSet(e, s) = c * SumFunctionOnSet(f, s)
           Done == {n \in Nat : \A s \in SUBSET S : Cardinality(s) = n => Good(s)}
<1>1. \A s \in SUBSET S : IsFiniteSet(s) /\ Cardinality(s) \in Nat
  BY FS_Subset, FS_CardinalityType
<1>2. 0 \in Done
  <2>1. \A s \in SUBSET S : Cardinality(s) = 0 => s = {}
    BY <1>1, FS_EmptySet
  <2>2. SumFunctionOnSet(f, {}) = 0 /\ SumFunctionOnSet(e, {}) = 0 /\ c * 0 = 0
    BY SumOfNothing
  <2>3. Good({})
    BY <2>2
  <2> HIDE DEF Good
  <2> QED BY <2>1, <2>3
<1>3. ASSUME NEW n \in Done PROVE n + 1 \in Done
  <2>1. ASSUME NEW s \in SUBSET S, Cardinality(s) = n + 1
        PROVE  Good(s)
    <3>1. n \in Nat
      OBVIOUS
    <3>2. s # {}
      BY <1>1, <2>1, <3>1, FS_EmptySet
    <3>3. PICK x \in s : TRUE
      BY <3>2
    <3>4. s \ {x} \in SUBSET S /\ Cardinality(s \ {x}) = Cardinality(s) - 1
      BY <1>1, FS_RemoveElement
    <3>5. Cardinality(s \ {x}) = n
      BY <2>1, <3>1, <3>4
    <3>6. Good(s \ {x})
      BY <3>4, <3>5
    <3> HIDE DEF Done
    <3>7. Integral(f, s) /\ Integral(e, s)
      BY DEF Integral
    <3>8. IsFiniteSet(s)
      BY <1>1
    <3>9. /\ SumFunctionOnSet(f, s) = f[x] + SumFunctionOnSet(f, s \ {x})
          /\ SumFunctionOnSet(e, s) = e[x] + SumFunctionOnSet(e, s \ {x})
      BY <3>7, <3>8, SumWithout
    <3>10. e[x] = c * f[x] /\ f[x] \in Int
      BY DEF Integral
    <3> DEFINE a == f[x]
               b == SumFunctionOnSet(f, s \ {x})
    <3>11. b \in Int /\ SumFunctionOnSet(e, s \ {x}) = c * b
      BY <3>6
    <3>12. SumFunctionOnSet(f, s) = a + b /\ SumFunctionOnSet(e, s) = c * a + c * b
      BY <3>9, <3>10, <3>11
    <3> HIDE DEF a, b
    <3>13. a \in Int
      BY <3>10 DEF a
    <3>14. c * (a + b) = c * a + c * b /\ a + b \in Int
      BY <3>11, <3>13
    <3> QED BY <3>12, <3>14
  <2> HIDE DEF Good
  <2> QED BY <2>1
<1>4. Done = Nat
  <2>1. Done \in SUBSET Nat
    OBVIOUS
  <2> HIDE DEF Done
  <2> QED BY <1>2, <1>3, <2>1, SetInduction
<1>5. Cardinality(S) \in Done
  <2>1. Cardinality(S) \in Nat
    BY <1>1
  <2> HIDE DEF Done
  <2> QED BY <1>4, <2>1
<1>6. Good(S)
  <2> HIDE DEF Good
  <2> QED BY <1>5
<1> QED BY <1>6

LEMMA NatTimes == \A x, y \in Nat : x * y \in Nat
OBVIOUS

JoinOf(t, a, i, b, d) ==
  /\ t \in Seq(STRING) /\ Len(t) = i + d
  /\ \A k \in 1..i : t[k] = a[k]
  /\ \A k \in 1..d : t[i + k] = b[k]

LEMMA TextsAfter ==
  ASSUME NEW a \in Seq(STRING), NEW b \in Seq(STRING)
  PROVE  JoinOf(a \o b, a, Len(a), b, Len(b))
<1> DEFINE C == STRING
<1>1. \A p, q \in Seq(C) : p \o q \in Seq(C) /\ Len(p \o q) = Len(p) + Len(q)
        /\ \A k \in 1..(Len(p) + Len(q)) :
             (p \o q)[k] = IF k <= Len(p) THEN p[k] ELSE q[k - Len(p)]
  BY ConcatProperties
<1> DEFINE t == a \o b
           i == Len(a)
           d == Len(b)
<1>2. /\ t \in Seq(STRING) /\ Len(t) = i + d /\ i \in Nat /\ d \in Nat
      /\ \A k \in 1..(i + d) : t[k] = IF k <= i THEN a[k] ELSE b[k - i]
  BY <1>1
<1> HIDE DEF t, i, d
<1>3. \A k \in 1..i : k \in 1..(i + d) /\ k <= i
  BY <1>2
<1>4. \A k \in 1..d : i + k \in 1..(i + d) /\ ~(i + k <= i) /\ (i + k) - i = k
  BY <1>2
<1>5. \A k \in 1..i : t[k] = a[k]
  BY <1>2, <1>3
<1>6. \A k \in 1..d : t[i + k] = b[k]
  BY <1>2, <1>4
<1>7. JoinOf(t, a, i, b, d)
  BY <1>2, <1>5, <1>6 DEF JoinOf
<1> QED BY <1>7 DEF t, i, d

\* The n characters at the start of s.
LEMMA HeadOf ==
  ASSUME NEW s \in Seq(STRING), NEW n \in 0..Len(s)
  PROVE  /\ SubSeq(s, 1, n) \in Seq(STRING) /\ Len(SubSeq(s, 1, n)) = n
         /\ \A k \in 1..n : SubSeq(s, 1, n)[k] = s[k]
<1> DEFINE t == SubSeq(s, 1, n)
<1>1. 1 \in 1..(Len(s) + 1) /\ 1 <= n + 1 /\ n - 1 + 1 = n /\ \A i \in 1..n : 1 + i - 1 = i
  OBVIOUS
<1>2. t \in Seq(STRING) /\ Len(t) = n - 1 + 1 /\ \A i \in 1..(n - 1 + 1) : t[i] = s[1 + i - 1]
  BY <1>1, CutOf
<1> HIDE DEF t
<1>3. t \in Seq(STRING) /\ Len(t) = n /\ \A i \in 1..n : t[i] = s[i]
  BY <1>1, <1>2
<1> QED BY <1>3 DEF t

\* s has c nowhere, or begins with it if there is anything.
Lacks(s, c) == \A i \in 1..Len(s) : s[i] # c
LedBy(s, c) == s = <<>> \/ s[1] = c

LEMMA LacksJoin ==
  ASSUME NEW a \in Seq(STRING), NEW b \in Seq(STRING), NEW c
  PROVE  Lacks(a \o b, c) <=> Lacks(a, c) /\ Lacks(b, c)
<1> DEFINE s == a \o b
           i == Len(a)
           d == Len(b)
<1>1. JoinOf(s, a, i, b, d)
  BY TextsAfter
<1>a. i \in Nat /\ d \in Nat
  OBVIOUS
<1>b. (Lacks(a, c) <=> \A k \in 1..i : a[k] # c) /\ (Lacks(b, c) <=> \A k \in 1..d : b[k] # c)
      /\ (Lacks(s, c) <=> \A k \in 1..Len(s) : s[k] # c)
  BY DEF Lacks
<1> HIDE DEF s, i, d
<1>2. Len(s) = i + d /\ (\A k \in 1..i : s[k] = a[k]) /\ \A k \in 1..d : s[i + k] = b[k]
  BY <1>1 DEF JoinOf
<1>3. ASSUME Lacks(s, c) PROVE Lacks(a, c) /\ Lacks(b, c)
  <2>1. \A k \in 1..i : k \in 1..Len(s)
    BY <1>a, <1>2
  <2>2. \A k \in 1..d : i + k \in 1..Len(s)
    BY <1>a, <1>2
  <2> QED BY <1>2, <1>3, <1>b, <2>1, <2>2
<1>4. ASSUME Lacks(a, c), Lacks(b, c) PROVE Lacks(s, c)
  <2> SUFFICES ASSUME NEW k \in 1..Len(s) PROVE s[k] # c
    BY <1>b
  <2>1. CASE k <= i
    <3>1. k \in 1..i
      BY <1>a, <1>2, <2>1
    <3> QED BY <1>2, <1>4, <1>b, <3>1
  <2>2. CASE ~(k <= i)
    <3>1. k - i \in 1..d /\ i + (k - i) = k
      BY <1>a, <1>2, <2>2
    <3>2. s[i + (k - i)] = b[k - i]
      BY <1>2, <3>1
    <3> QED BY <1>4, <1>b, <3>1, <3>2
  <2> QED BY <2>1, <2>2
<1> QED BY <1>3, <1>4 DEF s

\* A text starts as its first part does.
LEMMA StartsJoin ==
  ASSUME NEW a \in Seq(STRING), NEW b \in Seq(STRING), NEW c, a # <<>> => a[1] = c, a = <<>> => LedBy(b, c)
  PROVE  LedBy(a \o b, c)
<1> DEFINE s == a \o b
           i == Len(a)
           d == Len(b)
<1>1. JoinOf(s, a, i, b, d)
  BY TextsAfter
<1>2. CASE a = <<>>
  <2>1. s = b
    BY <1>2, ConcatEmptySeq
  <2> QED BY <1>2, <2>1
<1>3. CASE a # <<>>
  <2>1. 1 \in 1..i
    BY <1>3
  <2>2. s[1] = a[1]
    <3> HIDE DEF s, i, d
    <3> QED BY <1>1, <2>1 DEF JoinOf
  <2>3. s[1] = c
    BY <1>3, <2>2
  <2> HIDE DEF s
  <2> QED BY <2>3 DEF LedBy, s
<1> QED BY <1>2, <1>3

\* All but the last of x, and the last.
LEMMA FrontAndLast ==
  ASSUME NEW C, NEW x \in Seq(C), x # <<>>
  PROVE  /\ Front(x) \in Seq(C) /\ Last(x) \in C /\ Len(Front(x)) = Len(x) - 1
         /\ x = Append(Front(x), Last(x))
<1> DEFINE n == Len(x)
           f == Front(x)
           a == Append(f, Last(x))
<1>1. n \in 1..n /\ n \in Nat /\ Last(x) = x[n] /\ f = SubSeq(x, 1, n - 1) /\ x[n] \in C
  BY DEF Front, Last
<1>2. /\ f \in Seq(C) /\ Len(f) = n - 1 /\ \A i \in 1..(n - 1) : f[i] = x[i]
  <2>a. \A i \in 1..(n - 1) : x[i] \in C
    OBVIOUS
  <2> HIDE DEF n, f
  <2>b. n \in Nat /\ n >= 1 /\ \A i \in 1..(n - 1) : 1 + i - 1 = i
    BY <1>1
  <2>c. (IF 1 <= n - 1 THEN (n - 1) - 1 + 1 ELSE 0) = n - 1 /\ (n - 1) - 1 + 1 = n - 1
    BY <2>b
  <2>1. 1 \in Int /\ n - 1 \in Int /\ \A i \in 1..(n - 1) : x[i] \in C
    BY <1>1, <2>a
  <2>2. /\ SubSeq(x, 1, n - 1) \in Seq(C)
        /\ Len(SubSeq(x, 1, n - 1)) = IF 1 <= n - 1 THEN (n - 1) - 1 + 1 ELSE 0
        /\ \A i \in 1..((n - 1) - 1 + 1) : SubSeq(x, 1, n - 1)[i] = x[1 + i - 1]
    BY <2>1, SubSeqProperties
  <2> QED BY <1>1, <2>b, <2>c, <2>2
<1> HIDE DEF f
<1>3. /\ a \in Seq(C) /\ Len(a) = Len(f) + 1
      /\ (\A i \in 1..Len(f) : a[i] = f[i]) /\ a[Len(f) + 1] = x[n]
  BY <1>1, <1>2, AppendProperties
<1> HIDE DEF a, n
<1>4. Len(x) = Len(a) /\ \A i \in 1..Len(x) : x[i] = a[i]
  <2>1. Len(a) = n /\ Len(f) + 1 = n
    BY <1>1, <1>2, <1>3
  <2>2. ASSUME NEW i \in 1..n PROVE x[i] = a[i]
    <3>1. CASE i = n
      BY <1>3, <2>1, <3>1
    <3>2. CASE i # n
      <4>1. i \in 1..(n - 1) /\ i \in 1..Len(f)
        BY <1>1, <1>2, <3>2
      <4> QED BY <1>2, <1>3, <4>1
    <3> QED BY <3>1, <3>2
  <2> QED BY <2>1, <2>2 DEF n
<1>5. x = a
  BY <1>3, <1>4, SeqEqual
<1> QED BY <1>1, <1>2, <1>5 DEF f, a, n

\* q is p with c behind it.
Lengthened(q, p, c) ==
  Len(q) = Len(p) + 1 /\ (\A i \in 1..Len(p) : q[i] = p[i]) /\ q[Len(p) + 1] = c

LEMMA OneMore ==
  ASSUME NEW C, NEW p \in Seq(C), NEW c \in C
  PROVE  Append(p, c) \in Seq(C) /\ Lengthened(Append(p, c), p, c)
BY AppendProperties DEF Lengthened

\* What holds of the empty sequence and goes on holding with one more.
LEMMA SeqInduction ==
  ASSUME NEW C, NEW T \in SUBSET Seq(C), <<>> \in T,
         \A t \in T : \A c \in C : Append(t, c) \in T
  PROVE  T = Seq(C)
<1> DEFINE U == {n \in Nat : \A s \in Seq(C) : Len(s) = n => s \in T}
<1>1. 0 \in U
  <2>1. \A s \in Seq(C) : Len(s) = 0 => s = <<>>
    OBVIOUS
  <2> QED BY <2>1
<1>2. ASSUME NEW n \in U PROVE n + 1 \in U
  <2>1. n \in Nat /\ \A s \in Seq(C) : Len(s) = n => s \in T
    OBVIOUS
  <2>2. ASSUME NEW s \in Seq(C), Len(s) = n + 1 PROVE s \in T
    <3> HIDE DEF U
    <3>1. s # <<>>
      <4>1. Len(<<>>) = 0 /\ n + 1 # 0
        BY <2>1
      <4> QED BY <2>2, <4>1
    <3>2. /\ Front(s) \in Seq(C) /\ Last(s) \in C /\ Len(Front(s)) = Len(s) - 1
          /\ s = Append(Front(s), Last(s))
      BY <3>1, FrontAndLast
    <3>3. Len(Front(s)) = n
      BY <2>1, <2>2, <3>2
    <3>4. Front(s) \in T
      BY <2>1, <3>2, <3>3
    <3>5. Append(Front(s), Last(s)) \in T
      BY <3>2, <3>4
    <3> QED BY <3>2, <3>5
  <2>3. n + 1 \in Nat
    BY <2>1
  <2> QED BY <2>2, <2>3
<1>3. U = Nat
  <2>1. U \in SUBSET Nat
    OBVIOUS
  <2> HIDE DEF U
  <2> QED BY <1>1, <1>2, <2>1, SetInduction
<1>4. \A s \in Seq(C) : Len(s) \in Nat
  OBVIOUS
<1> QED BY <1>3, <1>4

LongerBy(a, w, c) == a \o Append(w, c) = Append(a \o w, c)

LEMMA JoinLonger ==
  ASSUME NEW C, NEW a \in Seq(C), NEW w \in Seq(C), NEW c \in C
  PROVE  LongerBy(a, w, c)
<1> DEFINE o == <<c>>
           aw == a \o w
<1>1. o \in Seq(C)
  BY OneOf
<1>2. Append(w, c) = w \o o
  BY AppendIsConcat
<1>3. Regroups(a, w, o) /\ aw \in Seq(C)
  BY <1>1, Regrouped
<1>4. Append(aw, c) = aw \o o
  <2> HIDE DEF aw
  <2> QED BY <1>3, AppendIsConcat
<1> QED BY <1>2, <1>3, <1>4, Zenon DEF Regroups, LongerBy, aw

Places(s, c) == {i \in 1..Len(s) : s[i] = c}
LastAt(s, c) == Max(Places(s, c))

\* The last c of s is at m.
IsLastAt(s, c, m) ==
  /\ m \in 1..Len(s) /\ s[m] = c /\ \A i \in 1..Len(s) : s[i] = c => i <= m

\* A text is what is ahead of its last c, that c, and what follows it.
Around(s, c, m, d, dc, t) ==
  /\ d \in Seq(STRING) /\ t \in Seq(STRING) /\ dc = Append(d, c) /\ s = dc \o t
  /\ Lacks(t, c) /\ Len(t) = Len(s) - m /\ \A i \in 1..(Len(s) - m) : t[i] = s[m + i]

LEMMA LastCuts ==
  ASSUME NEW s \in Seq(STRING), NEW c \in STRING, NEW m, IsLastAt(s, c, m)
  PROVE  Around(s, c, m, SubSeq(s, 1, m - 1), SubSeq(s, 1, m), SubSeq(s, m + 1, Len(s)))
<1> DEFINE d == SubSeq(s, 1, m - 1)
           t == SubSeq(s, m + 1, Len(s))
<1>1. m \in 1..Len(s) /\ s[m] = c /\ \A i \in 1..Len(s) : s[i] = c => i <= m
  BY DEF IsLastAt
<1>l. Len(s) \in Nat
  OBVIOUS
<1>2. d \in Seq(STRING)
  <2>1. m - 1 \in 0..Len(s)
    BY <1>1, <1>l
  <2> QED BY <2>1, HeadOf
<1>3. SubSeq(s, 1, m) = Append(d, c)
  <2>1. 1 \in 1..Len(s) /\ m \in 1..Len(s)
    BY <1>1, <1>l
  <2>2. SubSeq(s, 1, m) = SubSeq(s, 1, m - 1) \o <<s[m]>>
    BY <2>1, SubSeqRecursiveSecond
  <2> HIDE DEF d
  <2>3. SubSeq(s, 1, m) = d \o <<c>>
    BY <1>1, <2>2 DEF d
  <2>4. Append(d, c) = d \o <<c>>
    BY <1>2, AppendIsConcat
  <2> QED BY <2>3, <2>4
<1>4. t \in Seq(STRING) /\ Len(t) = Len(s) - m /\ \A i \in 1..(Len(s) - m) : t[i] = s[m + i]
  <2>1. m + 1 \in 1..(Len(s) + 1) /\ Len(s) \in 0..Len(s) /\ m + 1 <= Len(s) + 1
        /\ Len(s) - (m + 1) + 1 = Len(s) - m /\ \A i \in 1..(Len(s) - m) : m + 1 + i - 1 = m + i
    BY <1>1, <1>l
  <2>2. t \in Seq(STRING) /\ Len(t) = Len(s) - (m + 1) + 1
        /\ \A i \in 1..(Len(s) - (m + 1) + 1) : t[i] = s[m + 1 + i - 1]
    BY <2>1, CutOf
  <2> HIDE DEF t
  <2> QED BY <2>1, <2>2
<1>5. s = SubSeq(s, 1, m) \o t
  <2>1. 1 \in 1..(Len(s) + 1) /\ m \in (1 - 1)..Len(s) /\ Len(s) \in m..Len(s)
    BY <1>1, <1>l
  <2>2. SubSeq(s, 1, m) \o SubSeq(s, m + 1, Len(s)) = SubSeq(s, 1, Len(s))
    BY <2>1, CutsJoin
  <2> QED BY <2>2, SubSeqFull
<1> HIDE DEF t, d
<1>6. Lacks(t, c)
  <2>1. ASSUME NEW i \in 1..Len(t), t[i] = c PROVE FALSE
    <3>1. i \in 1..(Len(s) - m) /\ m + i \in 1..Len(s) /\ ~(m + i <= m)
      BY <1>1, <1>4, <1>l
    <3>2. s[m + i] = c
      BY <1>4, <2>1, <3>1
    <3> QED BY <1>1, <3>1, <3>2
  <2> QED BY <2>1 DEF Lacks
<1> QED BY <1>2, <1>3, <1>4, <1>5, <1>6 DEF Around, t, d

LEMMA TailJoin ==
  ASSUME NEW C, NEW x \in Seq(C), x # <<>>, NEW y \in Seq(C)
  PROVE  Tail(x \o y) = Tail(x) \o y /\ Tail(x) \in Seq(C)
<1> DEFINE h == <<Head(x)>>
           t == Tail(x)
           ty == t \o y
<1>1. t \in Seq(C) /\ Head(x) \in C /\ h \in Seq(C)
  BY HeadTailProperties, OneOf
<1>2. x = h \o t
  OBVIOUS
<1> HIDE DEF t
<1>3. Regroups(h, t, y) /\ ty \in Seq(C)
  BY <1>1, Regrouped
<1>4. x \o y = h \o ty
  BY <1>2, <1>3, Zenon DEF Regroups
<1> HIDE DEF ty
<1>5. Tail(h \o ty) = ty
  BY <1>1, <1>3
<1> QED BY <1>1, <1>4, <1>5 DEF ty, t

JoinOfFive(a, p, x, v, w) == a \o p \o x \o (v \o w) = a \o ((p \o (x \o v)) \o w)

LEMMA JoinFive ==
  ASSUME NEW C, NEW a \in Seq(C), NEW p \in Seq(C), NEW x \in Seq(C), NEW v \in Seq(C), NEW w \in Seq(C)
  PROVE  JoinOfFive(a, p, x, v, w)
<1> DEFINE ap == a \o p
           vw == v \o w
           xv == x \o v
           xvw == xv \o w
           pxv == p \o xv
<1>1. ap \in Seq(C) /\ vw \in Seq(C) /\ xv \in Seq(C) /\ Regroups(x, v, w)
  BY Regrouped
<1> HIDE DEF ap, vw, xv
<1>2. xvw \in Seq(C) /\ pxv \in Seq(C) /\ Regroups(ap, x, vw) /\ Regroups(p, xv, w)
  BY <1>1, Regrouped
<1> HIDE DEF xvw, pxv
<1>3. Regroups(a, p, xvw)
  BY <1>2, Regrouped
<1>4. ap \o x \o vw = ap \o (x \o vw)
  BY <1>2 DEF Regroups
<1>5. x \o vw = xvw
  BY <1>1 DEF Regroups, xvw, xv, vw
<1>6. ap \o xvw = a \o (p \o xvw)
  BY <1>3 DEF Regroups, ap
<1>7. p \o xvw = pxv \o w
  BY <1>2 DEF Regroups, pxv, xvw
<1>8. ap \o x \o vw = a \o (pxv \o w)
  BY <1>4, <1>5, <1>6, <1>7
<1> QED BY <1>8 DEF JoinOfFive, ap, vw, pxv, xv

LEMMA ThreePieces ==
  ASSUME NEW C, NEW a \in C, NEW b \in C
  PROVE  <<a>> \o Append(<<b>>, a) = <<a, b, a>>
<1> DEFINE o == <<a>>
           p == <<b>>
           t == Append(p, a)
           s == o \o t
           u == <<a, b, a>>
<1>1. o \in Seq(C) /\ Len(o) = 1 /\ o[1] = a /\ p \in Seq(C) /\ Len(p) = 1 /\ p[1] = b
  BY OneOf
<1>2. u \in Seq(C) /\ Len(u) = 3 /\ u[1] = a /\ u[2] = b /\ u[3] = a
  OBVIOUS
<1> HIDE DEF o, p, u
<1>3. t \in Seq(C) /\ Lengthened(t, p, a)
  BY <1>1, OneMore
<1> HIDE DEF t
<1>4. Len(t) = 2 /\ t[1] = b /\ t[2] = a
  BY <1>1, <1>3 DEF Lengthened
<1>5. /\ s \in Seq(C) /\ Len(s) = Len(o) + Len(t)
      /\ \A i \in 1..(Len(o) + Len(t)) : s[i] = IF i <= Len(o) THEN o[i] ELSE t[i - Len(o)]
  BY <1>1, <1>3, ConcatProperties
<1> HIDE DEF s
<1>6. Len(s) = 3 /\ s[1] = a /\ s[2] = b /\ s[3] = a
  BY <1>1, <1>4, <1>5
<1>7. \A i \in 1..Len(s) : s[i] = u[i]
  <2>1. \A i \in 1..Len(s) : i = 1 \/ i = 2 \/ i = 3
    BY <1>6
  <2> QED BY <1>2, <1>6, <2>1
<1>8. s = u
  BY <1>2, <1>5, <1>6, <1>7, SeqEqual
<1> QED BY <1>8 DEF s, u, t, o, p

Marked == Seq(STRING \X Int)

LEMMA MarkedJoin ==
  ASSUME NEW x \in Marked, NEW y \in Marked
  PROVE  /\ x \o y \in Marked /\ Len(x) \in Nat /\ Len(y) \in Nat
         /\ Len(x \o y) = Len(x) + Len(y)
         /\ \A i \in 1..(Len(x) + Len(y)) :
              (x \o y)[i] = IF i <= Len(x) THEN x[i] ELSE y[i - Len(x)]
<1> DEFINE E == STRING \X Int
<1>1. x \in Seq(E) /\ y \in Seq(E)
  BY DEF Marked
<1> HIDE DEF E
<1>2. x \o y \in Seq(E) /\ Len(x) \in Nat /\ Len(y) \in Nat
  BY <1>1, ConcatProperties, LenProperties
<1>3. /\ Len(x \o y) = Len(x) + Len(y)
      /\ \A i \in 1..(Len(x) + Len(y)) :
           (x \o y)[i] = IF i <= Len(x) THEN x[i] ELSE y[i - Len(x)]
  BY <1>1, ConcatProperties
<1> QED BY <1>2, <1>3 DEF Marked, E

\* The text behind its first n elements.
Remainder(s, n) == SubSeq(s, n + 1, Len(s))

\* t is that text.
IsAfter(t, s, n) == Len(t) = Len(s) - n /\ \A j \in 1..(Len(s) - n) : t[j] = s[n + j]

LEMMA AfterIs ==
  ASSUME NEW C, NEW s \in Seq(C), NEW n \in 0..Len(s)
  PROVE  Remainder(s, n) \in Seq(C) /\ IsAfter(Remainder(s, n), s, n)
<1>1. Len(s) \in Nat /\ n + 1 \in Int /\ Len(s) \in Int /\ \A i \in (n + 1)..Len(s) : s[i] \in C
  OBVIOUS
<1>2. /\ SubSeq(s, n + 1, Len(s)) \in Seq(C)
      /\ Len(SubSeq(s, n + 1, Len(s))) = IF n + 1 <= Len(s) THEN Len(s) - (n + 1) + 1 ELSE 0
      /\ \A i \in 1..(Len(s) - (n + 1) + 1) : SubSeq(s, n + 1, Len(s))[i] = s[n + 1 + i - 1]
  BY <1>1, SubSeqProperties
<1>3. Len(Remainder(s, n)) = Len(s) - n
  BY <1>1, <1>2 DEF Remainder
<1>4. \A j \in 1..(Len(s) - n) : Remainder(s, n)[j] = s[n + j]
  <2> SUFFICES ASSUME NEW j \in 1..(Len(s) - n) PROVE Remainder(s, n)[j] = s[n + j]
    OBVIOUS
  <2>1. j \in 1..(Len(s) - (n + 1) + 1) /\ n + 1 + j - 1 = n + j
    BY <1>1
  <2> QED BY <1>2, <2>1 DEF Remainder
<1> QED BY <1>2, <1>3, <1>4 DEF IsAfter, Remainder

LEMMA ThreeAndFour ==
  ASSUME NEW C, NEW a \in C, NEW b \in C, NEW c \in C, NEW e \in C
  PROVE  /\ <<a, b>> \in Seq(C) /\ Len(<<a, b>>) = 2 /\ <<a, b>>[1] = a /\ <<a, b>>[2] = b
         /\ <<a, b, c>> \in Seq(C) /\ Len(<<a, b, c>>) = 3
         /\ <<a, b, c>>[1] = a /\ <<a, b, c>>[2] = b /\ <<a, b, c>>[3] = c
         /\ <<a, b, c, e>> \in Seq(C) /\ Len(<<a, b, c, e>>) = 4
         /\ <<a, b, c, e>>[1] = a /\ <<a, b, c, e>>[2] = b /\ <<a, b, c, e>>[3] = c /\ <<a, b, c, e>>[4] = e
OBVIOUS

\* Of the texts that something does not hold for there is a shortest one.
LEMMA ShortestOne ==
  ASSUME NEW C, NEW B \in SUBSET Seq(C), B # {}
  PROVE  \E s \in B : \A t \in Seq(C) : Len(t) < Len(s) => t \notin B
<1> DEFINE T == {n \in Nat : \E s \in B : Len(s) = n}
<1>1. \A s \in Seq(C) : Len(s) \in Nat
  OBVIOUS
<1>2. T \in SUBSET Nat /\ T # {}
  BY <1>1
<1>3. PICK n \in T : \A y \in T : n <= y
  <2> HIDE DEF T
  <2> QED BY <1>2, LeastNat
<1>4. PICK s \in B : Len(s) = n
  OBVIOUS
<1>5. ASSUME NEW t \in Seq(C), Len(t) < Len(s) PROVE t \notin B
  <2>1. t \in B => Len(t) \in T
    BY <1>1
  <2>2. n \in Nat /\ Len(t) \in Nat /\ ~(n <= Len(t))
    BY <1>1, <1>4, <1>5
  <2> HIDE DEF T
  <2> QED BY <1>3, <2>1, <2>2
<1> QED BY <1>4, <1>5

\* u is s with t behind it.
IsJoin(u, s, t) ==
  /\ Len(u) = Len(s) + Len(t)
  /\ \A i \in 1..Len(s) : u[i] = s[i]
  /\ \A i \in 1..Len(t) : u[Len(s) + i] = t[i]

LEMMA JoinIs ==
  ASSUME NEW C, NEW s \in Seq(C), NEW t \in Seq(C)
  PROVE  s \o t \in Seq(C) /\ IsJoin(s \o t, s, t)
<1> DEFINE n == Len(s)
           m == Len(t)
           u == s \o t
<1>1. /\ u \in Seq(C) /\ Len(u) = n + m
      /\ \A i \in 1..(n + m) : u[i] = IF i <= n THEN s[i] ELSE t[i - n]
  BY ConcatProperties
<1>2. n \in Nat /\ m \in Nat
  OBVIOUS
<1> HIDE DEF n, m, u
<1>3. \A i \in 1..n : i \in 1..(n + m) /\ i <= n
  BY <1>2
<1>4. \A i \in 1..m : n + i \in 1..(n + m) /\ ~(n + i <= n) /\ (n + i) - n = i
  BY <1>2
<1>5. \A i \in 1..n : u[i] = s[i]
  BY <1>1, <1>3
<1>6. \A i \in 1..m : u[n + i] = t[i]
  BY <1>1, <1>4
<1> QED BY <1>1, <1>5, <1>6 DEF IsJoin, n, m, u

LEMMA AfterJoin ==
  ASSUME NEW C, NEW a \in Seq(C), NEW b \in Seq(C), NEW d \in 0..Len(a)
  PROVE  Remainder(a \o b, d) = Remainder(a, d) \o b
<1> DEFINE ab == a \o b
           t == Remainder(a, d)
           tb == t \o b
           u == Remainder(ab, d)
           n == Len(a)
           m == Len(b)
<1>1. ab \in Seq(C) /\ IsJoin(ab, a, b) /\ n \in Nat /\ m \in Nat /\ d \in 0..n
  BY JoinIs
<1>2. t \in Seq(C) /\ IsAfter(t, a, d)
  BY AfterIs
<1> HIDE DEF ab, t
<1>3. tb \in Seq(C) /\ IsJoin(tb, t, b)
  BY <1>2, JoinIs
<1>4. Len(ab) = n + m /\ (\A i \in 1..n : ab[i] = a[i]) /\ (\A i \in 1..m : ab[n + i] = b[i])
  BY <1>1 DEF IsJoin
<1>5. d \in 0..Len(ab)
  <2> HIDE DEF n, m
  <2> QED BY <1>1, <1>4
<1>6. u \in Seq(C) /\ IsAfter(u, ab, d)
  BY <1>1, <1>5, AfterIs
<1> HIDE DEF u, tb
<1>7. Len(t) = n - d /\ \A j \in 1..(n - d) : t[j] = a[d + j]
  BY <1>2 DEF IsAfter
<1>8. Len(tb) = (n - d) + m /\ (\A i \in 1..(n - d) : tb[i] = t[i]) /\ (\A i \in 1..m : tb[(n - d) + i] = b[i])
  BY <1>3, <1>7 DEF IsJoin
<1>9. Len(u) = (n + m) - d /\ \A j \in 1..((n + m) - d) : u[j] = ab[d + j]
  BY <1>4, <1>6 DEF IsAfter
<1> HIDE DEF n, m
<1>10. Len(u) = Len(tb)
  BY <1>1, <1>8, <1>9
<1>11. ASSUME NEW j \in 1..Len(u) PROVE u[j] = tb[j]
  <2>1. CASE j <= n - d
    <3>1. j \in 1..((n + m) - d) /\ j \in 1..(n - d) /\ d + j \in 1..n
      BY <1>1, <1>9, <2>1
    <3> QED BY <1>4, <1>7, <1>8, <1>9, <3>1
  <2>2. CASE ~(j <= n - d)
    <3>1. j \in 1..((n + m) - d) /\ j - (n - d) \in 1..m
          /\ (n - d) + (j - (n - d)) = j /\ n + (j - (n - d)) = d + j
      BY <1>1, <1>9, <2>2
    <3> DEFINE i == j - (n - d)
    <3>2. tb[(n - d) + i] = b[i] /\ ab[n + i] = b[i] /\ u[j] = ab[d + j]
      <4> HIDE DEF i
      <4>1. i \in 1..m
        BY <3>1 DEF i
      <4> QED BY <1>4, <1>8, <1>9, <3>1, <4>1
    <3> QED BY <3>1, <3>2
  <2> QED BY <2>1, <2>2
<1>12. u = tb
  BY <1>3, <1>6, <1>10, <1>11, SeqEqual
<1> QED BY <1>12 DEF u, tb, t, ab

LEMMA JoinOnly ==
  ASSUME NEW C, NEW x \in Seq(C), NEW y \in Seq(C), NEW z \in Seq(C), IsJoin(z, x, y)
  PROVE  x \o y = z
<1> DEFINE u == x \o y
           n == Len(x)
           m == Len(y)
<1>1. u \in Seq(C) /\ IsJoin(u, x, y)
  BY JoinIs
<1>2. n \in Nat /\ m \in Nat
  OBVIOUS
<1> HIDE DEF u
<1>3. /\ Len(u) = n + m /\ (\A i \in 1..n : u[i] = x[i]) /\ (\A i \in 1..m : u[n + i] = y[i])
      /\ Len(z) = n + m /\ (\A i \in 1..n : z[i] = x[i]) /\ (\A i \in 1..m : z[n + i] = y[i])
  BY <1>1 DEF IsJoin
<1> HIDE DEF n, m
<1>4. ASSUME NEW i \in 1..Len(u) PROVE u[i] = z[i]
  <2>1. CASE i <= n
    <3>1. i \in 1..n
      BY <1>2, <1>3, <2>1
    <3> QED BY <1>3, <3>1
  <2>2. CASE ~(i <= n)
    <3> DEFINE j == i - n
    <3>1. j \in 1..m /\ n + j = i
      BY <1>2, <1>3, <2>2
    <3> HIDE DEF j
    <3> QED BY <1>3, <3>1
  <2> QED BY <2>1, <2>2
<1>5. u = z
  BY <1>1, <1>3, <1>4, SeqEqual
<1> QED BY <1>5 DEF u

LEMMA TwoJoined ==
  ASSUME NEW C, NEW a \in C, NEW b \in C
  PROVE  <<a>> \o <<b>> = <<a, b>>
<1>1. <<a>> \in Seq(C) /\ <<b>> \in Seq(C) /\ <<a, b>> \in Seq(C)
  BY OneOf, ThreeAndFour
<1>2. IsJoin(<<a, b>>, <<a>>, <<b>>)
  <2>1. \A i \in 1..1 : i = 1
    OBVIOUS
  <2>2. Len(<<a, b>>) = 2 /\ Len(<<a>>) = 1 /\ Len(<<b>>) = 1 /\ 1 + 1 = 2
    OBVIOUS
  <2>3. <<a, b>>[1] = a /\ <<a, b>>[2] = b /\ <<a>>[1] = a /\ <<b>>[1] = b
    OBVIOUS
  <2> QED BY <2>1, <2>2, <2>3 DEF IsJoin
<1> QED BY <1>1, <1>2, JoinOnly

LEMMA ThreeJoined ==
  ASSUME NEW C, NEW a \in C, NEW b \in C, NEW c \in C
  PROVE  <<a, b>> \o <<c>> = <<a, b, c>>
<1>1. <<a, b>> \in Seq(C) /\ <<c>> \in Seq(C) /\ <<a, b, c>> \in Seq(C)
  BY OneOf, ThreeAndFour
<1>2. IsJoin(<<a, b, c>>, <<a, b>>, <<c>>)
  <2>1. (\A i \in 1..2 : i = 1 \/ i = 2) /\ \A i \in 1..1 : i = 1
    OBVIOUS
  <2> QED BY <2>1 DEF IsJoin
<1> QED BY <1>1, <1>2, JoinOnly

LEMMA FourJoined ==
  ASSUME NEW C, NEW a \in C, NEW b \in C, NEW c \in C, NEW e \in C
  PROVE  <<a, b>> \o <<c, e>> = <<a, b, c, e>> /\ <<a, b, c>> \o <<e>> = <<a, b, c, e>>
<1>1. /\ <<e>> \in Seq(C) /\ <<a, b>> \in Seq(C) /\ <<c, e>> \in Seq(C)
      /\ <<a, b, c>> \in Seq(C) /\ <<a, b, c, e>> \in Seq(C)
  BY OneOf, ThreeAndFour
<1>2. IsJoin(<<a, b, c, e>>, <<a, b>>, <<c, e>>)
  <2>1. \A i \in 1..2 : i = 1 \/ i = 2
    OBVIOUS
  <2> QED BY <2>1 DEF IsJoin
<1>3. IsJoin(<<a, b, c, e>>, <<a, b, c>>, <<e>>)
  <2>1. (\A i \in 1..3 : i = 1 \/ i = 2 \/ i = 3) /\ \A i \in 1..1 : i = 1
    OBVIOUS
  <2> QED BY <2>1 DEF IsJoin
<1> QED BY <1>1, <1>2, <1>3, JoinOnly

\* A text behind another one.
LEMMA AfterHead ==
  ASSUME NEW C, NEW h \in Seq(C), NEW x \in Seq(C)
  PROVE  Remainder(h \o x, Len(h)) = x
<1> DEFINE hx == h \o x
           t == Remainder(hx, Len(h))
           n == Len(h)
           m == Len(x)
<1>1. hx \in Seq(C) /\ IsJoin(hx, h, x) /\ n \in Nat /\ m \in Nat
  BY JoinIs
<1>2. Len(hx) = n + m /\ \A i \in 1..m : hx[n + i] = x[i]
  BY <1>1 DEF IsJoin
<1>3. n \in 0..Len(hx)
  <2> HIDE DEF n, m, hx
  <2> QED BY <1>1, <1>2
<1>4. t \in Seq(C) /\ IsAfter(t, hx, n)
  BY <1>1, <1>3, AfterIs
<1> HIDE DEF hx, t, n
<1>5. Len(t) = Len(hx) - n /\ \A j \in 1..(Len(hx) - n) : t[j] = hx[n + j]
  BY <1>4 DEF IsAfter
<1> HIDE DEF m
<1>6. Len(hx) - n = m
  BY <1>1, <1>2
<1>7. Len(t) = m /\ \A j \in 1..m : t[j] = x[j]
  BY <1>2, <1>5, <1>6
<1>8. t = x
  BY <1>4, <1>7, SeqEqual DEF m
<1> QED BY <1>8 DEF t, hx, n

LEMMA HeadAndAfter ==
  ASSUME NEW C, NEW s \in Seq(C), NEW h \in Seq(C), Len(h) <= Len(s),
         \A i \in 1..Len(h) : s[i] = h[i]
  PROVE  h \o Remainder(s, Len(h)) = s
<1> DEFINE n == Len(h)
           m == Len(s)
           t == Remainder(s, n)
<1>1. n \in Nat /\ m \in Nat
  OBVIOUS
<1>2. n \in 0..m
  <2> HIDE DEF n, m
  <2> QED BY <1>1 DEF n, m
<1>3. t \in Seq(C) /\ IsAfter(t, s, n)
  BY <1>2, AfterIs
<1> HIDE DEF t
<1>4. Len(t) = m - n /\ \A j \in 1..(m - n) : t[j] = s[n + j]
  BY <1>3 DEF IsAfter
<1>5. IsJoin(s, h, t)
  <2>1. Len(s) = Len(h) + Len(t)
    <3> HIDE DEF n, m
    <3>1. m = n + Len(t)
      BY <1>1, <1>2, <1>4
    <3> QED BY <3>1 DEF n, m
  <2>2. \A j \in 1..Len(t) : s[Len(h) + j] = t[j]
    BY <1>4
  <2> QED BY <2>1, <2>2 DEF IsJoin
<1>6. h \o t = s
  BY <1>3, <1>5, JoinOnly
<1> QED BY <1>6 DEF t, n

\* The place of a byte on a circle, turned back and forth.
LEMMA AroundAndBack ==
  ASSUME NEW L \in Nat \ {0}, NEW a \in 0..(L - 1), NEW n \in Int
  PROVE  /\ (a - n) % L \in 0..(L - 1) /\ (((a - n) % L) + n) % L = a
         /\ (a + 0) % L = a
<1>1. \A x \in Int : x % L \in 0..(L - 1) /\ \E q \in Int : x = q * L + (x % L)
  <2> TAKE x \in Int
  <2> DEFINE q == x \div L
             r == x % L
  <2>1. x = L * q + r /\ q \in Int /\ r \in 0..(L - 1)
    OBVIOUS
  <2> HIDE DEF q, r
  <2>2. x = q * L + r
    BY <2>1
  <2> QED BY <2>1, <2>2 DEF r
<1>2. ASSUME NEW x \in Int, NEW q \in Int, NEW r \in 0..(L - 1), x = q * L + r
      PROVE  x % L = r
  <2>1. PICK p \in Int : x = p * L + (x % L)
    BY <1>1
  <2>2. x % L \in 0..(L - 1)
    BY <1>1
  <2> DEFINE y == x % L
  <2> HIDE DEF y
  <2>3. q * L + r = p * L + y /\ y \in 0..(L - 1)
    BY <1>2, <2>1, <2>2 DEF y
  <2>4. (q - p) * L = y - r
    BY <2>3
  <2> DEFINE e == q - p
  <2>5. e \in Int
    OBVIOUS
  <2> HIDE DEF e
  <2>6. e * L = y - r /\ y - r < L /\ y - r > -L
    BY <2>3, <2>4 DEF e
  <2>7. e = 0
    <3>1. e >= 1 => e * L >= L
      BY <2>5
    <3>2. e <= -1 => e * L <= -L
      BY <2>5
    <3>3. e * L \in Int
      BY <2>5
    <3> DEFINE w == e * L
    <3> HIDE DEF w
    <3> QED BY <2>3, <2>5, <2>6, <3>1, <3>2, <3>3 DEF w
  <2>8. y = r
    BY <2>3, <2>6, <2>7
  <2> QED BY <2>8 DEF y
<1>3. PICK q \in Int : a - n = q * L + ((a - n) % L)
  <2> DEFINE x == a - n
  <2>1. x \in Int
    OBVIOUS
  <2> HIDE DEF x
  <2>2. \E q \in Int : x = q * L + (x % L)
    BY <1>1, <2>1
  <2> QED BY <2>2 DEF x
<1> DEFINE b == (a - n) % L
<1>4. b \in 0..(L - 1)
  BY <1>1
<1> HIDE DEF b
<1>5. b + n = (-q) * L + a
  <2>1. a - n = q * L + b
    BY <1>3 DEF b
  <2>2. q * L \in Int /\ (-q) * L = -(q * L)
    OBVIOUS
  <2> DEFINE w == q * L
  <2> HIDE DEF w
  <2> QED BY <1>4, <2>1, <2>2 DEF w
<1>6. (b + n) % L = a
  <2>1. -q \in Int /\ b + n \in Int
    BY <1>4
  <2> QED BY <1>2, <1>5, <2>1
<1>7. a + 0 = 0 * L + a
  OBVIOUS
<1>8. (a + 0) % L = a
  BY <1>2, <1>7
<1> QED BY <1>4, <1>6, <1>8 DEF b

\* What g makes of the elements of s, one after the other.
Told(g, s) == FlattenSeq([k \in DOMAIN s |-> g[s[k]]])

\* What g makes of x is what it makes of c, and then of s.
TellsOn(g, x, c, s) == Told(g, x) = g[c] \o Told(g, s)

LEMMA ToldFront ==
  ASSUME NEW D, NEW T, NEW g \in [D -> Seq(T)], NEW c \in D, NEW s \in Seq(D)
  PROVE  /\ Told(g, s) \in Seq(T) /\ Told(g, <<>>) = <<>>
         /\ TellsOn(g, <<c>> \o s, c, s)
<1> DEFINE cs == <<c>> \o s
           L(x) == [k \in DOMAIN x |-> g[x[k]]]
           n == Len(s)
<1>1. n \in Nat /\ <<c>> \in Seq(D) /\ Len(<<c>>) = 1 /\ <<c>>[1] = c
  OBVIOUS
<1>2. ASSUME NEW x \in Seq(D)
      PROVE  L(x) \in Seq(Seq(T)) /\ Len(L(x)) = Len(x) /\ \A k \in 1..Len(x) : L(x)[k] = g[x[k]]
  <2>1. DOMAIN x = 1..Len(x) /\ \A k \in 1..Len(x) : g[x[k]] \in Seq(T)
    OBVIOUS
  <2> QED BY <2>1
<1>3. cs \in Seq(D) /\ IsJoin(cs, <<c>>, s)
  BY <1>1, JoinIs
<1> HIDE DEF cs
<1>4. Len(cs) = 1 + n /\ cs[1] = c /\ \A i \in 1..n : cs[1 + i] = s[i]
  <2>1. 1 \in 1..Len(<<c>>)
    BY <1>1
  <2> QED BY <1>1, <1>3, <2>1 DEF IsJoin
<1>5. <<g[c]>> \in Seq(Seq(T)) /\ Len(<<g[c]>>) = 1 /\ <<g[c]>>[1] = g[c]
  OBVIOUS
<1>6. L(cs) = <<g[c]>> \o L(s)
  <2>1. /\ L(cs) \in Seq(Seq(T)) /\ Len(L(cs)) = 1 + n /\ \A k \in 1..(1 + n) : L(cs)[k] = g[cs[k]]
        /\ L(s) \in Seq(Seq(T)) /\ Len(L(s)) = n /\ \A k \in 1..n : L(s)[k] = g[s[k]]
    BY <1>2, <1>3, <1>4
  <2> DEFINE x == L(cs)
             y == L(s)
             h == <<g[c]>>
  <2> HIDE DEF n, x, y, h
  <2>2. x[1] = h[1]
    BY <1>1, <1>4, <1>5, <2>1 DEF x, h
  <2>3. \A i \in 1..n : x[1 + i] = y[i]
    <3> TAKE i \in 1..n
    <3>1. 1 + i \in 1..(1 + n)
      BY <1>1
    <3> QED BY <1>4, <2>1, <3>1 DEF x, y
  <2>4. Len(x) = 1 + n /\ Len(y) = n /\ Len(h) = 1
    BY <1>5, <2>1 DEF x, y, h
  <2>5. IsJoin(x, h, y)
    BY <2>2, <2>3, <2>4 DEF IsJoin
  <2>6. h \o y = x
    <3>1. x \in Seq(Seq(T)) /\ y \in Seq(Seq(T)) /\ h \in Seq(Seq(T))
      BY <1>5, <2>1 DEF x, y, h
    <3> QED BY <2>5, <3>1, JoinOnly
  <2> QED BY <2>6 DEF x, y, h
<1>7. L(s) \in Seq(Seq(T)) /\ g[c] \in Seq(T)
  BY <1>2
<1>8. FlattenSeq(L(s)) \in Seq(T) /\ FlattenSeq(<<g[c]>> \o L(s)) = g[c] \o FlattenSeq(L(s))
  <2> DEFINE x == L(s)
             y == g[c]
  <2> HIDE DEF x, y
  <2>1. x \in Seq(Seq(T)) /\ y \in Seq(T)
    BY <1>7 DEF x, y
  <2>2. FlattenSeq(x) \in Seq(T) /\ FlattenSeq(<<y>> \o x) = y \o FlattenSeq(x)
    BY <2>1, FlattenFront
  <2> QED BY <2>2 DEF x, y
<1>9. FlattenSeq(L(<<>>)) = <<>>
  <2>1. L(<<>>) = <<>>
    OBVIOUS
  <2>2. Len(<<>>) = 0
    OBVIOUS
  <2> QED BY <2>1, <2>2 DEF FlattenSeq
<1> QED BY <1>6, <1>8, <1>9 DEF Told, TellsOn, cs

\* x is c with s behind it.
Leads(x, c, s) == x = <<c>> \o s

LEMMA ToldNext ==
  ASSUME NEW D, NEW T, NEW g \in [D -> Seq(T)]
  PROVE  /\ Told(g, <<>>) = <<>> /\ \A s \in Seq(D) : Told(g, s) \in Seq(T)
         /\ \A x, s \in Seq(D) : \A c \in D : Leads(x, c, s) => TellsOn(g, x, c, s)
<1>1. Told(g, <<>>) = <<>> /\ <<>> \in Seq(T)
  <2>1. [k \in DOMAIN <<>> |-> g[<<>>[k]]] = <<>> /\ Len(<<>>) = 0
    OBVIOUS
  <2> QED BY <2>1 DEF Told, FlattenSeq
<1>2. ASSUME NEW s \in Seq(D) PROVE Told(g, s) \in Seq(T)
  <2>1. CASE s = <<>>
    BY <1>1, <2>1
  <2>2. CASE s # <<>>
    <3>1. s[1] \in D
      BY <2>2, EmptySeq
    <3> QED BY <3>1, ToldFront
  <2> QED BY <2>1, <2>2
<1>3. ASSUME NEW x \in Seq(D), NEW s \in Seq(D), NEW c \in D, Leads(x, c, s)
      PROVE  TellsOn(g, x, c, s)
  <2>1. TellsOn(g, <<c>> \o s, c, s)
    BY ToldFront
  <2> QED BY <1>3, <2>1 DEF Leads
<1> QED BY <1>1, <1>2, <1>3

\* A text with elements is its first one and the rest.
LEMMA FirstAndRest ==
  ASSUME NEW C, NEW s \in Seq(C), s # <<>>
  PROVE  /\ s[1] \in C /\ Remainder(s, 1) \in Seq(C) /\ Len(Remainder(s, 1)) < Len(s)
         /\ s = <<s[1]>> \o Remainder(s, 1) /\ IsAfter(Remainder(s, 1), s, 1)
<1>1. Len(s) \in Nat \ {0} /\ s[1] \in C /\ 1 \in 0..Len(s)
  BY EmptySeq
<1>2. Remainder(s, 1) \in Seq(C) /\ IsAfter(Remainder(s, 1), s, 1)
  BY <1>1, AfterIs
<1>3. Len(Remainder(s, 1)) < Len(s)
  BY <1>1, <1>2 DEF IsAfter
<1>4. <<s[1]>> \o Remainder(s, 1) = s
  <2> DEFINE h == <<s[1]>>
  <2>1. h \in Seq(C) /\ Len(h) = 1 /\ h[1] = s[1]
    BY <1>1
  <2> HIDE DEF h
  <2>2. Len(h) <= Len(s) /\ \A i \in 1..Len(h) : s[i] = h[i]
    BY <1>1, <2>1
  <2>3. h \o Remainder(s, Len(h)) = s
    BY <2>1, <2>2, HeadAndAfter
  <2> QED BY <2>1, <2>3 DEF h
<1> QED BY <1>1, <1>2, <1>3, <1>4

LEMMA ToldJoin ==
  ASSUME NEW D, NEW T, NEW g \in [D -> Seq(T)], NEW b \in Seq(D)
  PROVE  \A a \in Seq(D) : Told(g, a \o b) = Told(g, a) \o Told(g, b)
<1> DEFINE B == {a \in Seq(D) : Told(g, a \o b) # Told(g, a) \o Told(g, b)}
<1>1. SUFFICES ASSUME B # {} PROVE FALSE
  OBVIOUS
<1>2. PICK a \in B : \A t \in Seq(D) : Len(t) < Len(a) => t \notin B
  <2>1. B \in SUBSET Seq(D)
    OBVIOUS
  <2> HIDE DEF B
  <2> QED BY <1>1, <2>1, ShortestOne
<1>3. a \in Seq(D) /\ Told(g, a \o b) # Told(g, a) \o Told(g, b)
  OBVIOUS
<1>4. \A t \in Seq(D) : Len(t) < Len(a) => Told(g, t \o b) = Told(g, t) \o Told(g, b)
  BY <1>2
<1> HIDE DEF B
<1>5. ASSUME NEW s \in Seq(D) PROVE Told(g, s) \in Seq(T)
  BY ToldNext
<1>6. CASE a = <<>>
  <2>1. Told(g, <<>>) = <<>>
    BY ToldNext
  <2>2. <<>> \o b = b /\ <<>> \o Told(g, b) = Told(g, b)
    BY <1>5, ConcatEmptySeq
  <2> QED BY <1>3, <1>6, <2>1, <2>2
<1>7. CASE a # <<>>
  <2> DEFINE c == a[1]
             r == Remainder(a, 1)
  <2>1. c \in D /\ r \in Seq(D) /\ Len(r) < Len(a) /\ a = <<c>> \o r
    BY <1>3, <1>7, FirstAndRest
  <2> HIDE DEF c, r
  <2>2. r \o b \in Seq(D)
    BY <2>1, ConcatProperties
  <2>3. a \o b = <<c>> \o (r \o b)
    <3>1. <<c>> \in Seq(D)
      BY <2>1
    <3>2. Regroups(<<c>>, r, b)
      BY <2>1, <3>1, Regrouped
    <3> QED BY <2>1, <3>2 DEF Regroups
  <2>4. Told(g, a \o b) = g[c] \o Told(g, r \o b)
    <3>1. a \o b \in Seq(D) /\ Leads(a \o b, c, r \o b)
      BY <1>3, <2>3, ConcatProperties DEF Leads
    <3>2. TellsOn(g, a \o b, c, r \o b)
      BY <2>1, <2>2, <3>1, ToldNext
    <3> QED BY <3>2 DEF TellsOn
  <2>5. Told(g, a) = g[c] \o Told(g, r)
    <3>1. Leads(a, c, r)
      BY <2>1 DEF Leads
    <3>2. TellsOn(g, a, c, r)
      BY <1>3, <2>1, <3>1, ToldNext
    <3> QED BY <3>2 DEF TellsOn
  <2>6. Told(g, r \o b) = Told(g, r) \o Told(g, b)
    BY <1>4, <2>1
  <2>7. Regroups(g[c], Told(g, r), Told(g, b))
    <3> DEFINE x == g[c]
               y == Told(g, r)
               z == Told(g, b)
    <3>1. x \in Seq(T) /\ y \in Seq(T) /\ z \in Seq(T)
      BY <1>5, <2>1
    <3> HIDE DEF x, y, z
    <3>2. Regroups(x, y, z)
      BY <3>1, Regrouped
    <3> QED BY <3>2 DEF x, y, z
  <2> QED BY <1>3, <2>4, <2>5, <2>6, <2>7 DEF Regroups
<1> QED BY <1>6, <1>7

\* What g makes of c alone, and behind s.
TellsOne(g, c)     == Told(g, <<c>>) = g[c]
TellsAlso(g, s, c) == Told(g, Append(s, c)) = Told(g, s) \o g[c]

LEMMA ToldLast ==
  ASSUME NEW D, NEW T, NEW g \in [D -> Seq(T)], NEW c \in D, NEW s \in Seq(D)
  PROVE  TellsOne(g, c) /\ TellsAlso(g, s, c)
<1>1. Told(g, s) \in Seq(T) /\ Told(g, <<>>) = <<>>
  BY ToldNext
<1>2. Told(g, <<c>>) = g[c]
  <2>1. <<>> \in Seq(D) /\ <<c>> \in Seq(D)
    OBVIOUS
  <2>2. <<c>> \o <<>> = <<c>> /\ g[c] \o <<>> = g[c]
    <3>1. g[c] \in Seq(T)
      OBVIOUS
    <3> QED BY <2>1, <3>1, ConcatEmptySeq
  <2> DEFINE x == <<c>>
  <2>3. x \in Seq(D) /\ Leads(x, c, <<>>)
    BY <2>1, <2>2 DEF Leads
  <2> HIDE DEF x
  <2>4. TellsOn(g, x, c, <<>>)
    BY <2>1, <2>3, ToldNext
  <2> QED BY <1>1, <2>2, <2>4 DEF x, TellsOn
<1>3. <<c>> \in Seq(D)
  OBVIOUS
<1>4. Told(g, s \o <<c>>) = Told(g, s) \o Told(g, <<c>>)
  BY <1>3, ToldJoin
<1>5. Append(s, c) = s \o <<c>>
  BY AppendIsConcat
<1> QED BY <1>1, <1>2, <1>4, <1>5 DEF TellsOne, TellsAlso

-----------------------------------------------------------------------------
(* A text with parts of it rewritten                                           *)

\* The elements at J and the two behind each are replaced by what X has there.
RewriteHead(s, J, X) == [k \in 1..Len(s) |-> IF k \in J THEN X[k] ELSE <<s[k]>>]
RewriteNext(s, J)    == [k \in 1..Len(s) |-> IF k \in J THEN k + 3 ELSE k + 1]
NothingLeft(s)       == [k \in 1..(Len(s) + 1) |-> <<>>]

Rewrites(g, s, J, X) ==
  Glues(g, Len(s) + 1, {Len(s) + 1}, NothingLeft(s), RewriteHead(s, J, X), RewriteNext(s, J))

\* The rewriting can be done.
Rewritable(s, J, X, C) ==
  /\ s \in Seq(C) /\ J \subseteq 1..(Len(s) - 2) /\ \A k \in J : X[k] \in Seq(C)

LEMMA RewritesGlue ==
  ASSUME NEW C, NEW s, NEW J, NEW X, Rewritable(s, J, X, C)
  PROVE  Gluable(Len(s) + 1, C, {Len(s) + 1}, NothingLeft(s), RewriteHead(s, J, X), RewriteNext(s, J))
<1> DEFINE h == RewriteHead(s, J, X)
           n == Len(s) + 1
<1>1. s \in Seq(C) /\ J \subseteq 1..(Len(s) - 2) /\ \A k \in J : X[k] \in Seq(C)
  BY DEF Rewritable
<1>2. Len(s) \in Nat
  BY <1>1
<1>3. Forward(n, {n}, RewriteNext(s, J))
  BY <1>1, <1>2 DEF Forward, RewriteNext
<1>4. \A k \in 1..Len(s) : <<s[k]>> \in Seq(C)
  BY <1>1
<1>5. \A k \in 1..Len(s) : h[k] \in Seq(C)
  BY <1>1, <1>4 DEF RewriteHead
<1>6. NothingLeft(s)[n] \in Seq(C)
  BY <1>2, EmptySeq DEF NothingLeft
<1>7. \A k \in 1..n : k \in {n} \/ k \in 1..Len(s)
  BY <1>2
<1> QED BY <1>2, <1>3, <1>5, <1>6, <1>7 DEF Gluable

LEMMA RewriteGoesOn ==
  ASSUME NEW C, NEW s, NEW J, NEW X, Rewritable(s, J, X, C), NEW g, Rewrites(g, s, J, X)
  PROVE  /\ \A k \in 1..(Len(s) + 1) : g[k] \in Seq(C)
         /\ g[Len(s) + 1] = <<>>
         /\ \A k \in 1..Len(s) : g[k] = IF k \in J THEN X[k] \o g[k + 3] ELSE <<s[k]>> \o g[k + 1]
<1>1. Gluable(Len(s) + 1, C, {Len(s) + 1}, NothingLeft(s), RewriteHead(s, J, X), RewriteNext(s, J))
  BY RewritesGlue
<1> DEFINE n == Len(s) + 1
           ends == {n}
           base == NothingLeft(s)
           head == RewriteHead(s, J, X)
           next == RewriteNext(s, J)
<1>2. Glues(g, n, ends, base, head, next)
  BY DEF Rewrites
<1>3. Gluable(n, C, ends, base, head, next)
  BY <1>1
<1> HIDE DEF n, ends, base, head, next
<1>4. /\ \A k \in 1..n : g[k] \in Seq(C)
      /\ \A k \in 1..n : g[k] = IF k \in ends THEN base[k] ELSE head[k] \o g[next[k]]
  BY <1>2, <1>3, GlueTyped
<1>5. Len(s) \in Nat
  BY DEF Rewritable
<1>6. n \in 1..n /\ n = Len(s) + 1 /\ \A k \in 1..Len(s) : k \in 1..n /\ k # n
  BY <1>5 DEF n
<1>7. n \in ends /\ base[n] = <<>> /\ \A k \in 1..Len(s) : k \notin ends
  BY <1>6 DEF ends, base, NothingLeft
<1>8. \A k \in 1..Len(s) : /\ head[k] = IF k \in J THEN X[k] ELSE <<s[k]>>
                           /\ next[k] = IF k \in J THEN k + 3 ELSE k + 1
  BY DEF head, next, RewriteHead, RewriteNext
<1>9. g[n] = <<>>
  BY <1>4, <1>6, <1>7
<1>10. ASSUME NEW k \in 1..Len(s)
       PROVE  g[k] = IF k \in J THEN X[k] \o g[k + 3] ELSE <<s[k]>> \o g[k + 1]
  <2>1. g[k] = head[k] \o g[next[k]]
    BY <1>4, <1>6, <1>7
  <2> QED BY <1>8, <2>1
<1> QED BY <1>4, <1>6, <1>9, <1>10

\* A rewriting of what is behind d elements.
LEMMA RewriteAfter ==
  ASSUME NEW C, NEW s, NEW J, NEW X, Rewritable(s, J, X, C), NEW g, Rewrites(g, s, J, X),
         NEW d \in 0..Len(s), NEW K, NEW Y, Rewritable(Remainder(s, d), K, Y, C),
         NEW h, Rewrites(h, Remainder(s, d), K, Y),
         \A j \in 1..(Len(s) - d) : /\ d + j \in J <=> j \in K
                                    /\ j \in K => X[d + j] = Y[j]
  PROVE  g[d + 1] = h[1]
<1> DEFINE t == Remainder(s, d)
           m == Len(t) + 1
<1>1. s \in Seq(C)
  BY DEF Rewritable
<1>2. t \in Seq(C) /\ IsAfter(t, s, d)
  BY <1>1, AfterIs
<1> HIDE DEF t
<1>3. Len(s) \in Nat /\ d \in Nat /\ Len(t) = Len(s) - d /\ \A j \in 1..Len(t) : t[j] = s[d + j]
  BY <1>1, <1>2 DEF IsAfter
<1>4. d + m = Len(s) + 1
  BY <1>3
<1>5. Gluable(d + m, C, {Len(s) + 1}, NothingLeft(s), RewriteHead(s, J, X), RewriteNext(s, J))
  BY <1>4, RewritesGlue
<1>6. Gluable(m, C, {Len(t) + 1}, NothingLeft(t), RewriteHead(t, K, Y), RewriteNext(t, K))
  BY RewritesGlue DEF t
<1>7. /\ Glues(g, d + m, {Len(s) + 1}, NothingLeft(s), RewriteHead(s, J, X), RewriteNext(s, J))
      /\ Glues(h, m, {Len(t) + 1}, NothingLeft(t), RewriteHead(t, K, Y), RewriteNext(t, K))
  BY <1>4 DEF Rewrites, t
<1>8. ShiftedBy(d, m, {Len(s) + 1}, NothingLeft(s), RewriteHead(s, J, X), RewriteNext(s, J),
              {Len(t) + 1}, NothingLeft(t), RewriteHead(t, K, Y), RewriteNext(t, K))
  <2>1. ASSUME NEW j \in 1..m, j = Len(t) + 1
        PROVE  d + j = Len(s) + 1 /\ NothingLeft(s)[d + j] = NothingLeft(t)[j]
    BY <1>3, <2>1 DEF NothingLeft
  <2>2. ASSUME NEW j \in 1..m, j # Len(t) + 1
        PROVE  /\ d + j # Len(s) + 1
               /\ RewriteHead(s, J, X)[d + j] = RewriteHead(t, K, Y)[j]
               /\ RewriteNext(s, J)[d + j] = d + RewriteNext(t, K)[j]
    <3>1. j \in 1..Len(t) /\ d + j \in 1..Len(s) /\ j \in 1..(Len(s) - d)
      <4> DEFINE l == Len(t)
                 n == Len(s)
      <4>1. n \in Nat /\ d \in Nat /\ l = n - d /\ j \in 1..(l + 1) /\ j # l + 1
        BY <1>3, <2>2
      <4> HIDE DEF l, n
      <4>2. j \in 1..l /\ d + j \in 1..n /\ j \in 1..(n - d)
        BY <4>1
      <4> QED BY <4>2 DEF l, n
    <3>2. RewriteHead(s, J, X)[d + j] = RewriteHead(t, K, Y)[j]
      BY <1>3, <3>1 DEF RewriteHead
    <3>3. RewriteNext(s, J)[d + j] = d + RewriteNext(t, K)[j]
      <4>1. (d + j) + 3 = d + (j + 3) /\ (d + j) + 1 = d + (j + 1)
        BY <1>3
      <4> QED BY <3>1, <4>1 DEF RewriteNext
    <3> QED BY <1>3, <3>1, <3>2, <3>3
  <2> QED BY <2>1, <2>2 DEF ShiftedBy
<1>9. \A j \in 1..m : g[d + j] = h[j]
  <2> DEFINE ends == {Len(s) + 1}
             lasts == {Len(t) + 1}
  <2> HIDE DEF ends, lasts, m
  <2>1. /\ Gluable(d + m, C, ends, NothingLeft(s), RewriteHead(s, J, X), RewriteNext(s, J))
        /\ Gluable(m, C, lasts, NothingLeft(t), RewriteHead(t, K, Y), RewriteNext(t, K))
        /\ Glues(g, d + m, ends, NothingLeft(s), RewriteHead(s, J, X), RewriteNext(s, J))
        /\ Glues(h, m, lasts, NothingLeft(t), RewriteHead(t, K, Y), RewriteNext(t, K))
        /\ ShiftedBy(d, m, ends, NothingLeft(s), RewriteHead(s, J, X), RewriteNext(s, J),
                   lasts, NothingLeft(t), RewriteHead(t, K, Y), RewriteNext(t, K))
    BY <1>5, <1>6, <1>7, <1>8 DEF ends, lasts
  <2> QED BY <1>3, <2>1, GlueShifts
<1>10. 1 \in 1..m
  BY <1>3
<1> QED BY <1>9, <1>10

LEMMA RewritingExists ==
  ASSUME NEW C, NEW s, NEW J, NEW X, Rewritable(s, J, X, C)
  PROVE  \E g : Rewrites(g, s, J, X)
BY RewritesGlue, GlueExists DEF Rewrites

LEMMA RewriteStays ==
  ASSUME NEW C, NEW s, NEW J, NEW X, NEW g, Rewritable(s, J, X, C), Rewrites(g, s, J, X)
  PROVE  J = {} => g[1] = s
<1> DEFINE n == Len(s)
<1>a. s \in Seq(C)
  BY DEF Rewritable
<1>1. s \in Seq(C) /\ n \in Nat
  BY <1>a
<1>b. /\ g[n + 1] = <<>>
      /\ \A k \in 1..n : g[k] = IF k \in J THEN X[k] \o g[k + 3] ELSE <<s[k]>> \o g[k + 1]
  BY RewriteGoesOn
<1>2. ASSUME J = {} PROVE g[1] = s
  <2>1. g[n + 1] = <<>> /\ \A k \in 1..n : g[k] = <<s[k]>> \o g[k + 1]
    <3> HIDE DEF n
    <3> QED BY <1>2, <1>b
  <2> DEFINE T == {k \in 1..(n + 1) : g[k] = SubSeq(s, k, n)}
  <2>2. ASSUME NEW k \in 1..(n + 1), \A j \in 1..(n + 1) : j > k => j \in T PROVE k \in T
    <3>1. CASE k = n + 1
      <4>1. SubSeq(s, n + 1, n) = <<>>
        <5> HIDE DEF n
        <5> QED BY <1>1, SubSeqEmpty
      <4> QED BY <2>1, <3>1, <4>1
    <3>2. CASE k # n + 1
      <4>1. k \in 1..n /\ k + 1 \in 1..(n + 1) /\ k + 1 > k
        <5> HIDE DEF n
        <5> QED BY <1>1, <3>2
      <4>2. g[k + 1] = SubSeq(s, k + 1, n)
        BY <2>2, <4>1
      <4>3. n \in k..Len(s)
        BY <1>1, <4>1
      <4>4. SubSeq(s, k, n) = <<s[k]>> \o SubSeq(s, k + 1, n)
        BY <1>1, <4>1, <4>3, SubSeqRecursiveFirst
      <4>5. g[k] = SubSeq(s, k, n)
        BY <2>1, <4>1, <4>2, <4>4
      <4> QED BY <4>5
    <3> QED BY <3>1, <3>2
  <2>3. T = 1..(n + 1)
    <3>1. T \in SUBSET (1..(n + 1)) /\ n + 1 \in Nat
      OBVIOUS
    <3> HIDE DEF T, n
    <3> QED BY <2>2, <3>1, DownInduction
  <2>4. g[1] = SubSeq(s, 1, n)
    <3>1. 1 \in 1..(n + 1)
      BY <1>1
    <3> QED BY <2>3, <3>1
  <2> QED BY <1>1, <2>4, SubSeqFull
<1> QED BY <1>2
=============================================================================
