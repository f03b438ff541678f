------------------------------ MODULE SetSums ------------------------------
(***************************************************************************)
(* What SumFunctionOnSet of the community modules computes: the sum of the *)
(* values of a function over a finite set.  It is defined by recursion: it *)
(* takes an element out of the set and adds its value to the sum of the    *)
(* rest.  The components use it for portions and for money, and what they  *)
(* promise is that changing one term changes the sum by as much.           *)
(*                                                                         *)
(* What recursion computes is shown by looking at a smallest set for which *)
(* it would not: naturals have minima.                                     *)
(***************************************************************************)
EXTENDS Functions, FiniteSetTheorems, TLAPS

Smaller == {p \in Nat \X Nat : p[1] < p[2]}

\* A set of natural numbers that has a member has a least one.
LEMMA LeastOf ==
  ASSUME NEW T \in SUBSET Nat, T # {}
  PROVE  \E x \in T : \A y \in T : x <= y
<1>1. IsWellFoundedOn(Smaller, Nat)
  BY NatLessThanWellFounded DEF OpToRel, Smaller
<1>2. PICK x \in T : \A y \in T : ~(<<y, x>> \in Smaller)
  BY <1>1, WFMin
<1>3. \A y \in T : x <= y
  <2> SUFFICES ASSUME NEW y \in T PROVE ~(y < x)
    OBVIOUS
  <2>1. <<y, x>> \notin Smaller
    BY <1>2
  <2>2. x \in Nat /\ y \in Nat
    OBVIOUS
  <2> QED BY <2>1, <2>2 DEF Smaller
<1> QED BY <1>3

\* A set of finite sets that has a member has one with the fewest elements.
LEMMA FewestOf ==
  ASSUME NEW C, C # {}, \A s \in C : IsFiniteSet(s)
  PROVE  \E s \in C : \A t \in C : Cardinality(s) <= Cardinality(t)
<1> DEFINE T == {Cardinality(s) : s \in C}
<1>1. T \in SUBSET Nat /\ T # {}
  BY FS_CardinalityType
<1>2. PICK x \in T : \A y \in T : x <= y
  BY <1>1, LeastOf
<1> QED BY <1>2

----------------------------------------------------------------------------
(* The recursion. *)

Pick(s) == CHOOSE x \in s : TRUE
Plus(f, g, s) == IF s = {} THEN 0 ELSE f[Pick(s)] + g[s \ {Pick(s)}]

\* g is the sum of f on every set of C.
Sums(f, g, C) == g = [s \in C |-> Plus(f, g, s)]

\* ... and on every subset of S.
SumsWithin(f, g, S) == Sums(f, g, SUBSET S)

LEMMA SumIsChosen ==
  ASSUME NEW f, NEW S
  PROVE  SumFunctionOnSet(f, S) = (CHOOSE g : SumsWithin(f, g, S))[S]
BY DEF SumFunctionOnSet, FoldFunctionOnSet, MapThenFoldSet, SumsWithin, Sums, Plus, Pick

LEMMA PickIsIn == ASSUME NEW s, s # {} PROVE Pick(s) \in s
BY DEF Pick

\* A set with one element less has a count one less.
LEMMA OneLess ==
  ASSUME NEW s, IsFiniteSet(s), NEW x \in s
  PROVE  /\ IsFiniteSet(s \ {x}) /\ Cardinality(s) \in Nat
         /\ Cardinality(s \ {x}) = Cardinality(s) - 1
         /\ Cardinality(s \ {x}) \in Nat
BY FS_RemoveElement, FS_CardinalityType

Small(S, n) == {s \in SUBSET S : Cardinality(s) <= n}

LEMMA SmallSumsExist ==
  ASSUME NEW f, NEW S, IsFiniteSet(S), NEW n \in Nat
  PROVE  \E g : Sums(f, g, Small(S, n))
<1> DEFINE Bad == {m \in Nat : ~\E g : Sums(f, g, Small(S, m))}
<1>1. SUFFICES ASSUME Bad # {} PROVE FALSE
  OBVIOUS
<1>2. PICK m \in Bad : \A k \in Bad : m <= k
  BY <1>1, LeastOf
<1>3. \A s \in SUBSET S : IsFiniteSet(s) /\ Cardinality(s) \in Nat
  BY FS_Subset, FS_CardinalityType
<1>4. CASE m = 0
  <2>1. \A s \in Small(S, m) : s = {}
    BY <1>3, <1>4, FS_EmptySet DEF Small
  <2> DEFINE g == [s \in Small(S, m) |-> 0]
  <2>2. Sums(f, g, Small(S, m))
    BY <2>1 DEF Sums, Plus
  <2> QED BY <2>2, <1>2
<1>5. CASE m # 0
  <2>1. m - 1 \in Nat /\ m - 1 \notin Bad
    BY <1>2, <1>5
  <2>2. PICK g : Sums(f, g, Small(S, m - 1))
    BY <2>1
  <2> DEFINE h == [s \in Small(S, m) |-> Plus(f, g, s)]
  <2>3. \A s \in Small(S, m - 1) : s \in Small(S, m) /\ h[s] = g[s]
    BY <1>3, <2>2 DEF Small, Sums
  <2>4. ASSUME NEW s \in Small(S, m), s # {}
        PROVE  s \ {Pick(s)} \in Small(S, m - 1)
    BY <1>3, <2>4, PickIsIn, OneLess DEF Small
  <2>5. \A s \in Small(S, m) : Plus(f, g, s) = Plus(f, h, s)
    BY <2>3, <2>4 DEF Plus
  <2>6. Sums(f, h, Small(S, m))
    BY <2>5 DEF Sums
  <2> QED BY <2>6, <1>2
<1> QED BY <1>4, <1>5

LEMMA SumsExist ==
  ASSUME NEW f, NEW S, IsFiniteSet(S)
  PROVE  \E g : SumsWithin(f, g, S)
<1>1. Cardinality(S) \in Nat
  BY FS_CardinalityType
<1>2. Small(S, Cardinality(S)) = SUBSET S
  BY FS_Subset DEF Small
<1>3. \E g : Sums(f, g, Small(S, Cardinality(S)))
  BY <1>1, SmallSumsExist
<1> QED BY <1>2, <1>3 DEF SumsWithin

\* The sum of a set does not depend on what surrounds it, nor on values elsewhere.
LEMMA SumsAgree ==
  ASSUME NEW f, NEW g, NEW C, SumsWithin(f, g, C),
         NEW f2, NEW g2, NEW D, SumsWithin(f2, g2, D),
         NEW U, IsFiniteSet(U), U \subseteq C, U \subseteq D,
         \A x \in U : f[x] = f2[x]
  PROVE  g[U] = g2[U]
<1> DEFINE Bad == {s \in SUBSET U : g[s] # g2[s]}
<1>1. SUFFICES ASSUME Bad # {} PROVE FALSE
  OBVIOUS
<1>2. \A s \in Bad : IsFiniteSet(s)
  BY FS_Subset
<1> HIDE DEF Bad
<1>3. PICK s \in Bad : \A t \in Bad : Cardinality(s) <= Cardinality(t)
  BY <1>1, <1>2, FewestOf
<1> USE DEF Bad
<1>4. s \in SUBSET C /\ s \in SUBSET D /\ g[s] = Plus(f, g, s) /\ g2[s] = Plus(f2, g2, s)
  BY DEF SumsWithin, Sums
<1>5. s # {}
  BY <1>4 DEF Plus
<1>6. Pick(s) \in s /\ f[Pick(s)] = f2[Pick(s)]
  BY <1>5, PickIsIn
<1>7. s \ {Pick(s)} \in SUBSET U /\ s \ {Pick(s)} \notin Bad
  BY <1>2, <1>3, <1>6, OneLess
<1>8. g[s \ {Pick(s)}] = g2[s \ {Pick(s)}]
  BY <1>7
<1> QED BY <1>4, <1>5, <1>6, <1>8 DEF Plus

\* The sum over a set, by the recursion on any finite set around it.
LEMMA SumIs ==
  ASSUME NEW f, NEW S, IsFiniteSet(S), NEW g, SumsWithin(f, g, S), NEW s \in SUBSET S
  PROVE  SumFunctionOnSet(f, s) = g[s]
<1>1. IsFiniteSet(s)
  BY FS_Subset
<1> DEFINE h == CHOOSE h : SumsWithin(f, h, s)
<1>2. SumsWithin(f, h, s)
  BY <1>1, SumsExist
<1>3. SumFunctionOnSet(f, s) = h[s]
  BY SumIsChosen
<1> HIDE DEF h
<1>4. h[s] = g[s]
  BY <1>1, <1>2, SumsAgree
<1> QED BY <1>3, <1>4

----------------------------------------------------------------------------
(* What the components use. *)

LEMMA SumOfNothing == ASSUME NEW f PROVE SumFunctionOnSet(f, {}) = 0
<1>1. IsFiniteSet({})
  BY FS_EmptySet
<1>2. PICK g : SumsWithin(f, g, {})
  BY <1>1, SumsExist
<1>3. g[{}] = 0
  BY <1>2 DEF SumsWithin, Sums, Plus
<1>4. SumFunctionOnSet(f, {}) = g[{}]
  BY <1>1, <1>2, SumIs
<1> QED BY <1>3, <1>4

\* Two functions with the same values on a set have the same sum over it.
LEMMA SameSum ==
  ASSUME NEW S, IsFiniteSet(S), NEW f, NEW f2, \A x \in S : f[x] = f2[x]
  PROVE  SumFunctionOnSet(f, S) = SumFunctionOnSet(f2, S)
<1>1. PICK g : SumsWithin(f, g, S)
  BY SumsExist
<1>2. PICK g2 : SumsWithin(f2, g2, S)
  BY SumsExist
<1>3. g[S] = g2[S]
  BY <1>1, <1>2, SumsAgree
<1> QED BY <1>1, <1>2, <1>3, SumIs

LEMMA SumIsNatural ==
  ASSUME NEW S, IsFiniteSet(S), NEW f, \A x \in S : f[x] \in Nat
  PROVE  SumFunctionOnSet(f, S) \in Nat
<1>1. PICK g : SumsWithin(f, g, S)
  BY SumsExist
<1> DEFINE Bad == {s \in SUBSET S : g[s] \notin Nat}
<1>2. Bad = {}
  <2> SUFFICES ASSUME Bad # {} PROVE FALSE
    OBVIOUS
  <2>1. \A s \in Bad : IsFiniteSet(s)
    BY FS_Subset
  <2> HIDE DEF Bad
  <2>2. PICK s \in Bad : \A t \in Bad : Cardinality(s) <= Cardinality(t)
    BY <2>1, FewestOf
  <2> USE DEF Bad
  <2>3. g[s] = Plus(f, g, s)
    BY <1>1 DEF SumsWithin, Sums
  <2>4. s # {}
    BY <2>3 DEF Plus
  <2>5. Pick(s) \in s /\ f[Pick(s)] \in Nat
    BY <2>4, PickIsIn
  <2>6. s \ {Pick(s)} \in SUBSET S /\ s \ {Pick(s)} \notin Bad
    BY <2>1, <2>2, <2>5, OneLess
  <2>7. g[s \ {Pick(s)}] \in Nat
    BY <2>6
  <2> QED BY <2>3, <2>4, <2>5, <2>7 DEF Plus
<1> QED BY <1>1, <1>2, SumIs

\* Whichever element is taken out, its value is what the sum loses.
LEMMA SumWithout ==
  ASSUME NEW S, IsFiniteSet(S), NEW f, \A x \in S : f[x] \in Nat, NEW x \in S
  PROVE  SumFunctionOnSet(f, S) = f[x] + SumFunctionOnSet(f, S \ {x})
<1>1. PICK g : SumsWithin(f, g, S)
  BY SumsExist
<1>2. \A s \in SUBSET S : g[s] \in Nat
  <2> SUFFICES ASSUME NEW s \in SUBSET S PROVE g[s] \in Nat
    OBVIOUS
  <2>1. IsFiniteSet(s)
    BY FS_Subset
  <2>2. SumFunctionOnSet(f, s) \in Nat
    BY <2>1, SumIsNatural
  <2> QED BY <1>1, <2>2, SumIs
<1> DEFINE Bad == {s \in SUBSET S : \E y \in s : g[s] # f[y] + g[s \ {y}]}
<1>3. Bad = {}
  <2> SUFFICES ASSUME Bad # {} PROVE FALSE
    OBVIOUS
  <2>1. \A s \in Bad : IsFiniteSet(s)
    BY FS_Subset
  <2> HIDE DEF Bad
  <2>2. PICK s \in Bad : \A t \in Bad : Cardinality(s) <= Cardinality(t)
    BY <2>1, FewestOf
  <2> USE DEF Bad
  <2>3. PICK y \in s : g[s] # f[y] + g[s \ {y}]
    OBVIOUS
  <2> DEFINE z == Pick(s)
  <2>4. z \in s
    BY PickIsIn
  <2>5. g[s] = f[z] + g[s \ {z}]
    BY <1>1, <2>4 DEF SumsWithin, Sums, Plus
  <2> HIDE DEF z
  <2>6. y # z
    BY <2>3, <2>5
  <2>7. s \ {z} \notin Bad /\ s \ {y} \notin Bad
    <3>1. ASSUME NEW w \in s PROVE s \ {w} \notin Bad
      <4>1. IsFiniteSet(s)
        BY <2>1
      <4>2. Cardinality(s \ {w}) \in Nat /\ Cardinality(s \ {w}) = Cardinality(s) - 1
        BY <4>1, OneLess
      <4> HIDE DEF Bad
      <4>3. Cardinality(s) \in Nat
        BY <4>1, OneLess
      <4> QED BY <2>2, <4>2, <4>3
    <3> QED BY <2>4, <3>1
  <2>8. g[s \ {z}] = f[y] + g[(s \ {z}) \ {y}]
    BY <2>6, <2>7
  <2>9. g[s \ {y}] = f[z] + g[(s \ {y}) \ {z}]
    BY <2>4, <2>6, <2>7
  <2>10. (s \ {z}) \ {y} = (s \ {y}) \ {z}
    OBVIOUS
  <2>11. /\ f[y] \in Nat /\ f[z] \in Nat /\ g[s \ {y}] \in Nat /\ g[s \ {z}] \in Nat
         /\ g[(s \ {y}) \ {z}] \in Nat
    <3>1. y \in S /\ z \in S
      BY <2>4
    <3>2. s \ {y} \in SUBSET S /\ s \ {z} \in SUBSET S /\ (s \ {y}) \ {z} \in SUBSET S
      OBVIOUS
    <3> QED BY <1>2, <3>1, <3>2
  <2>12. g[s \ {z}] = f[y] + g[(s \ {y}) \ {z}]
    BY <2>8, <2>10
  <2> HIDE DEF Bad
  <2> QED BY <2>3, <2>5, <2>9, <2>11, <2>12
<1>4. g[S] = f[x] + g[S \ {x}]
  BY <1>3
<1> QED BY <1>1, <1>4, SumIs

\* One term changes: the sum changes by as much.
LEMMA SumChanges ==
  ASSUME NEW S, IsFiniteSet(S), NEW x \in S,
         NEW f, \A y \in S : f[y] \in Nat,
         NEW f2, f2[x] \in Nat, \A y \in S \ {x} : f2[y] = f[y]
  PROVE  SumFunctionOnSet(f2, S) + f[x] = SumFunctionOnSet(f, S) + f2[x]
<1>1. IsFiniteSet(S \ {x})
  BY FS_Subset
<1>2. SumFunctionOnSet(f2, S \ {x}) = SumFunctionOnSet(f, S \ {x})
  BY <1>1, SameSum
<1>3. \A y \in S : f2[y] \in Nat
  OBVIOUS
<1>4. /\ SumFunctionOnSet(f, S) = f[x] + SumFunctionOnSet(f, S \ {x})
      /\ SumFunctionOnSet(f2, S) = f2[x] + SumFunctionOnSet(f2, S \ {x})
  BY <1>3, SumWithout
<1>5. SumFunctionOnSet(f, S \ {x}) \in Nat
  BY <1>1, SumIsNatural
<1> QED BY <1>2, <1>4, <1>5

\* No term is more than the sum, and it is 0 if all of them are.
LEMMA SumCoversItsTerms ==
  ASSUME NEW S, IsFiniteSet(S), NEW f, \A x \in S : f[x] \in Nat, NEW x \in S
  PROVE  f[x] <= SumFunctionOnSet(f, S)
<1>1. IsFiniteSet(S \ {x})
  BY FS_Subset
<1>2. SumFunctionOnSet(f, S \ {x}) \in Nat
  BY <1>1, SumIsNatural
<1> QED BY <1>2, SumWithout

LEMMA SumOfZeros ==
  ASSUME NEW S, IsFiniteSet(S), NEW f, \A x \in S : f[x] = 0
  PROVE  SumFunctionOnSet(f, S) = 0
<1>1. PICK g : SumsWithin(f, g, S)
  BY SumsExist
<1> DEFINE Bad == {s \in SUBSET S : g[s] # 0}
<1>2. Bad = {}
  <2> SUFFICES ASSUME Bad # {} PROVE FALSE
    OBVIOUS
  <2>1. \A s \in Bad : IsFiniteSet(s)
    BY FS_Subset
  <2> HIDE DEF Bad
  <2>2. PICK s \in Bad : \A t \in Bad : Cardinality(s) <= Cardinality(t)
    BY <2>1, FewestOf
  <2> USE DEF Bad
  <2>3. g[s] = Plus(f, g, s)
    BY <1>1 DEF SumsWithin, Sums
  <2>4. s # {}
    BY <2>3 DEF Plus
  <2>5. Pick(s) \in s /\ f[Pick(s)] = 0
    BY <2>4, PickIsIn
  <2>6. s \ {Pick(s)} \in SUBSET S /\ s \ {Pick(s)} \notin Bad
    BY <2>1, <2>2, <2>5, OneLess
  <2>7. g[s \ {Pick(s)}] = 0
    BY <2>6
  <2> QED BY <2>3, <2>4, <2>5, <2>7 DEF Plus
<1> QED BY <1>1, <1>2, SumIs

\* Larger terms, a larger sum.
LEMMA SumIsMonotone ==
  ASSUME NEW S, IsFiniteSet(S), NEW f, NEW f2,
         \A x \in S : f[x] \in Nat /\ f2[x] \in Nat /\ f[x] <= f2[x]
  PROVE  SumFunctionOnSet(f, S) <= SumFunctionOnSet(f2, S)
<1>1. PICK g : SumsWithin(f, g, S)
  BY SumsExist
<1>2. PICK g2 : SumsWithin(f2, g2, S)
  BY SumsExist
<1>3. ASSUME NEW s \in SUBSET S PROVE g[s] \in Nat /\ g2[s] \in Nat
  <2>1. IsFiniteSet(s)
    BY FS_Subset
  <2>2. SumFunctionOnSet(f, s) \in Nat
    BY <2>1, SumIsNatural
  <2>3. SumFunctionOnSet(f2, s) \in Nat
    BY <2>1, SumIsNatural
  <2>4. SumFunctionOnSet(f, s) = g[s]
    BY <1>1, SumIs
  <2>5. SumFunctionOnSet(f2, s) = g2[s]
    BY <1>2, SumIs
  <2> QED BY <2>2, <2>3, <2>4, <2>5
<1> DEFINE Bad == {s \in SUBSET S : ~(g[s] <= g2[s])}
<1>4. Bad = {}
  <2> SUFFICES ASSUME Bad # {} PROVE FALSE
    OBVIOUS
  <2>1. \A s \in Bad : IsFiniteSet(s)
    BY FS_Subset
  <2> HIDE DEF Bad
  <2>2. PICK s \in Bad : \A t \in Bad : Cardinality(s) <= Cardinality(t)
    BY <2>1, FewestOf
  <2> USE DEF Bad
  <2>3. g[s] = Plus(f, g, s) /\ g2[s] = Plus(f2, g2, s)
    BY <1>1, <1>2 DEF SumsWithin, Sums
  <2>4. s # {}
    BY <2>3 DEF Plus
  <2>5. /\ Pick(s) \in s /\ f[Pick(s)] \in Nat /\ f2[Pick(s)] \in Nat
        /\ f[Pick(s)] <= f2[Pick(s)]
    BY <2>4, PickIsIn
  <2>6. s \ {Pick(s)} \in SUBSET S /\ s \ {Pick(s)} \notin Bad
    BY <2>1, <2>2, <2>5, OneLess
  <2>7. g[s \ {Pick(s)}] <= g2[s \ {Pick(s)}]
    BY <2>6
  <2>8. g[s \ {Pick(s)}] \in Nat /\ g2[s \ {Pick(s)}] \in Nat
    BY <1>3, <2>6
  <2>9. g[s] = f[Pick(s)] + g[s \ {Pick(s)}] /\ g2[s] = f2[Pick(s)] + g2[s \ {Pick(s)}]
    BY <2>3, <2>4 DEF Plus
  <2>10. ~(g[s] <= g2[s])
    OBVIOUS
  <2> HIDE DEF Bad
  <2> QED BY <2>5, <2>7, <2>8, <2>9, <2>10
<1>5. g[S] <= g2[S]
  BY <1>4
<1>6. SumFunctionOnSet(f, S) = g[S]
  BY <1>1, SumIs
<1>7. SumFunctionOnSet(f2, S) = g2[S]
  BY <1>2, SumIs
<1> QED BY <1>5, <1>6, <1>7
=============================================================================
