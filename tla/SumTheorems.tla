---------------------------- MODULE SumTheorems ----------------------------
(***************************************************************************)
(* What the sums of the models obey, for all functions and all finite      *)
(* sets.                                                                   *)
(*                                                                         *)
(* An induction is put here as the search for a smallest counterexample    *)
(* (LeastNatural, SmallestSet): the induction theorems of the library have *)
(* an operator as a parameter, which the provers at hand do not            *)
(* instantiate.  That the recursion of the fold has a solution at all is   *)
(* shown the same way, level by level of the subsets' sizes.               *)
(***************************************************************************)
EXTENDS Sums, TLAPS, FiniteSetTheorems, WellFoundedInduction

\* Among natural numbers the ones of a non-empty set have a least element.
LEMMA LeastNatural ==
    ASSUME NEW T \in SUBSET Nat, T # {}
    PROVE  \E n \in T : \A m \in T : n <= m
<1> DEFINE R == {ss \in Nat \X Nat : ss[1] < ss[2]}
<1>1. IsWellFoundedOn(R, Nat)
  BY NatLessThanWellFounded DEF OpToRel
<1>2. PICK n \in T : \A m \in T : ~(<<m, n>> \in R)
  <2> HIDE DEF R
  <2> QED BY WFMin, <1>1
<1>3. \A m \in T : ~(m < n)
  <2> SUFFICES ASSUME NEW m \in T, m < n PROVE FALSE
    OBVIOUS
  <2>1. /\ <<m, n>> \in Nat \X Nat
        /\ <<m, n>>[1] < <<m, n>>[2]
    OBVIOUS
  <2>2. <<m, n>> \in R
    BY <2>1
  <2> QED BY <1>2, <2>2
<1> QED BY <1>3

\* Induction over finite sets: a non-empty family of finite sets has a member of which
\* no element can be removed without leaving the family.
LEMMA SmallestSet ==
  ASSUME NEW F, F # {}, \A s \in F : IsFiniteSet(s)
  PROVE  \E s \in F : \A x \in s : s \ {x} \notin F
<1> DEFINE T == {Cardinality(s) : s \in F}
<1>1. T \in SUBSET Nat /\ T # {}
  BY FS_CardinalityType
<1>2. \E n \in T : \A m \in T : n <= m
  <2> HIDE DEF T
  <2> QED BY <1>1, LeastNatural
<1>3. PICK s \in F : \A t \in F : Cardinality(s) <= Cardinality(t)
  BY <1>2
<1>4. ASSUME NEW x \in s PROVE s \ {x} \notin F
  <2>1. Cardinality(s \ {x}) = Cardinality(s) - 1 /\ Cardinality(s) \in Nat
    BY FS_RemoveElement, FS_CardinalityType
  <2> QED BY <1>3, <2>1
<1> QED BY <1>4

\* The element the fold takes first.
First(s) == CHOOSE x \in s : TRUE

\* One step of the fold, with g for what the recursion gives, and g as that recursion
\* on the sets of D.
Step(f, g, s) == IF s = {} THEN 0 ELSE f[First(s)] + g[s \ {First(s)}]

IsIteration(f, g, D) == g = [s \in D |-> Step(f, g, s)]

\* The sum is what the recursion, if it has a solution, gives for the whole set.
LEMMA Unfolded ==
  ASSUME NEW f, NEW S
  PROVE  SumOver(f, S) = (CHOOSE g : IsIteration(f, g, SUBSET S))[S]
BY DEF SumOver, MapThenFoldSet, IsIteration, Step, First

\* It is one of the set.
LEMMA FirstIn == ASSUME NEW s, s # {} PROVE First(s) \in s
BY DEF First

\* The subsets of S with at most n elements.
Level(S, n) == {s \in SUBSET S : Cardinality(s) <= n}

\* Without its first element a finite set has one element less.
LEMMA Smaller ==
  ASSUME NEW S, IsFiniteSet(S), S # {}
  PROVE  /\ IsFiniteSet(S \ {First(S)})
         /\ Cardinality(S \ {First(S)}) = Cardinality(S) - 1
         /\ Cardinality(S) \in Nat \ {0}
         /\ First(S) \in S
BY FirstIn, FS_RemoveElement, FS_CardinalityType, FS_EmptySet

\* A solution for the sets of at most n elements gives one for n + 1.
LEMMA IterationExtends ==
  ASSUME NEW f, NEW S, IsFiniteSet(S), NEW n \in Nat, NEW g, IsIteration(f, g, Level(S, n))
  PROVE  \E h : IsIteration(f, h, Level(S, n + 1))
<1> DEFINE h == [s \in Level(S, n + 1) |-> Step(f, g, s)]
<1>1. ASSUME NEW s \in Level(S, n + 1) PROVE h[s] = Step(f, h, s)
  <2>1. CASE s = {}
    BY <2>1 DEF Step
  <2>2. CASE s # {}
    <3>1. IsFiniteSet(s)
      BY FS_Subset DEF Level
    <3>2. s \ {First(s)} \in Level(S, n) /\ s \ {First(s)} \in Level(S, n + 1)
      <4>1. s \in SUBSET S /\ Cardinality(s) <= n + 1
        BY DEF Level
      <4>2. Cardinality(s \ {First(s)}) = Cardinality(s) - 1 /\ Cardinality(s) \in Nat
        BY <2>2, <3>1, Smaller
      <4>3. Cardinality(s \ {First(s)}) <= n /\ Cardinality(s \ {First(s)}) <= n + 1
        BY <4>1, <4>2
      <4>4. s \ {First(s)} \in SUBSET S
        BY <4>1
      <4> QED BY <4>3, <4>4 DEF Level
    <3>3. h[s \ {First(s)}] = g[s \ {First(s)}]
      BY <3>2 DEF IsIteration
    <3> QED BY <2>2, <3>3 DEF Step
  <2> QED BY <2>1, <2>2
<1> QED BY <1>1 DEF IsIteration

\* So there is one for every n ...
LEMMA IterationOfLevel ==
  ASSUME NEW f, NEW S, IsFiniteSet(S)
  PROVE  \A n \in Nat : \E g : IsIteration(f, g, Level(S, n))
<1> DEFINE T == {n \in Nat : ~\E g : IsIteration(f, g, Level(S, n))}
<1> SUFFICES ASSUME T # {} PROVE FALSE
  OBVIOUS
<1>1. PICK n \in T : \A m \in T : n <= m
  BY LeastNatural
<1>2. CASE n = 0
  <2>1. Level(S, 0) = {{}}
    BY FS_EmptySet, FS_Subset, FS_CardinalityType DEF Level
  <2>2. IsIteration(f, [s \in {{}} |-> 0], Level(S, 0))
    BY <2>1 DEF IsIteration, Step
  <2> QED BY <1>2, <2>2
<1>3. CASE n # 0
  <2>1. n - 1 \in Nat \ T
    BY <1>1, <1>3
  <2>2. PICK g : IsIteration(f, g, Level(S, n - 1))
    BY <2>1
  <2>3. \E h : IsIteration(f, h, Level(S, (n - 1) + 1))
    BY <2>1, <2>2, IterationExtends
  <2>4. (n - 1) + 1 = n
    OBVIOUS
  <2> QED BY <2>3, <2>4
<1> QED BY <1>2, <1>3

\* ... and one for all subsets of a finite set.
LEMMA IterationExists ==
  ASSUME NEW f, NEW S, IsFiniteSet(S)
  PROVE  \E g : IsIteration(f, g, SUBSET S)
<1>1. SUBSET S = Level(S, Cardinality(S))
  BY FS_Subset DEF Level
<1>2. Cardinality(S) \in Nat
  BY FS_CardinalityType
<1>3. PICK g : IsIteration(f, g, Level(S, Cardinality(S)))
  BY <1>2, IterationOfLevel
<1> QED BY <1>1, <1>3

\* Two solutions agree where both are defined, on whatever sets they were built.
LEMMA IterationUnique ==
  ASSUME NEW f, NEW S, NEW R, NEW g, NEW h,
         IsIteration(f, g, SUBSET S), IsIteration(f, h, SUBSET R)
  PROVE  \A s \in SUBSET (S \cap R) : IsFiniteSet(s) => g[s] = h[s]
<1> DEFINE Bad == {s \in SUBSET (S \cap R) : IsFiniteSet(s) /\ g[s] # h[s]}
<1> SUFFICES ASSUME Bad # {} PROVE FALSE
  OBVIOUS
<1>1. \A s \in Bad : IsFiniteSet(s)
  BY FS_Subset
<1>2. PICK s \in Bad : \A z \in s : s \ {z} \notin Bad
  <2> HIDE DEF Bad
  <2> QED BY <1>1, SmallestSet
<1>3. g[s] = Step(f, g, s) /\ h[s] = Step(f, h, s)
  BY <1>2 DEF IsIteration
<1>4. s # {}
  BY <1>2, <1>3 DEF Step
<1>5. s \ {First(s)} \notin Bad
  BY <1>2, <1>4, Smaller
<1>6. g[s \ {First(s)}] = h[s \ {First(s)}]
  BY <1>2, <1>4, <1>5, Smaller
<1> QED BY <1>2, <1>3, <1>6 DEF Step

-----------------------------------------------------------------------------
\* The sum of a non-empty set is its first element's value and the sum of the rest.
LEMMA SumUnfolds ==
  ASSUME NEW f, NEW S, IsFiniteSet(S)
  PROVE  SumOver(f, S) = IF S = {} THEN 0
                         ELSE f[First(S)] + SumOver(f, S \ {First(S)})
<1> DEFINE G(R) == CHOOSE g : IsIteration(f, g, SUBSET R)
<1>1. IsIteration(f, G(S), SUBSET S)
  BY IterationExists
<1>2. SumOver(f, S) = Step(f, G(S), S)
  BY <1>1, Unfolded DEF IsIteration
<1>3. CASE S = {}
  BY <1>2, <1>3 DEF Step
<1>4. CASE S # {}
  <2> DEFINE R == S \ {First(S)}
  <2>1. IsFiniteSet(R)
    BY <1>4, Smaller
  <2>2. IsIteration(f, G(R), SUBSET R)
    BY <2>1, IterationExists
  <2>3. G(S)[R] = G(R)[R]
    <3>1. R \in SUBSET (S \cap R)
      OBVIOUS
    <3>2. PICK g, h : g = G(S) /\ h = G(R)
      OBVIOUS
    <3>3. IsIteration(f, g, SUBSET S) /\ IsIteration(f, h, SUBSET R)
      BY <1>1, <2>2, <3>2
    <3> HIDE DEF G, R
    <3>4. g[R] = h[R]
      BY <2>1, <3>1, <3>3, IterationUnique
    <3> QED BY <3>2, <3>4
  <2>4. SumOver(f, R) = G(R)[R]
    BY Unfolded
  <2> QED BY <1>2, <1>4, <2>3, <2>4 DEF Step
<1> QED BY <1>3, <1>4

\* Nothing adds up to nothing.
THEOREM SumEmpty == ASSUME NEW f PROVE SumOver(f, {}) = 0
BY SumUnfolds, FS_EmptySet

\* Sums of integers are integers.
THEOREM SumType ==
  ASSUME NEW f, NEW S, IsFiniteSet(S), \A x \in S : f[x] \in Int
  PROVE  SumOver(f, S) \in Int
<1> DEFINE Bad == {s \in SUBSET S : SumOver(f, s) \notin Int}
<1> SUFFICES ASSUME Bad # {} PROVE FALSE
  OBVIOUS
<1>1. \A s \in Bad : IsFiniteSet(s)
  BY FS_Subset
<1>2. PICK s \in Bad : \A z \in s : s \ {z} \notin Bad
  <2> HIDE DEF Bad
  <2> QED BY <1>1, SmallestSet
<1>3. IsFiniteSet(s)
  BY FS_Subset
<1>4. s # {}
  BY <1>2, <1>3, SumEmpty
<1>5. s \ {First(s)} \notin Bad
  BY <1>2, <1>3, <1>4, Smaller
<1>6. SumOver(f, s \ {First(s)}) \in Int /\ f[First(s)] \in Int
  BY <1>3, <1>4, <1>5, Smaller
<1> QED BY <1>2, <1>3, <1>4, <1>6, SumUnfolds

\* A new element adds its value.
THEOREM SumAdd ==
  ASSUME NEW f, NEW S, IsFiniteSet(S), NEW x, x \notin S,
         \A y \in S \cup {x} : f[y] \in Int
  PROVE  SumOver(f, S \cup {x}) = SumOver(f, S) + f[x]
<1> DEFINE Bad == {s \in SUBSET S : \E y \in (S \cup {x}) \ s :
                      SumOver(f, s \cup {y}) # SumOver(f, s) + f[y]}
<1> SUFFICES ASSUME Bad # {} PROVE FALSE
  OBVIOUS
<1>1. \A s \in Bad : IsFiniteSet(s)
  BY FS_Subset
<1>2. PICK s \in Bad : \A z \in s : s \ {z} \notin Bad
  <2> HIDE DEF Bad
  <2> QED BY <1>1, SmallestSet
<1>3. PICK y \in (S \cup {x}) \ s : SumOver(f, s \cup {y}) # SumOver(f, s) + f[y]
  BY <1>2
<1>4. IsFiniteSet(s) /\ IsFiniteSet(s \cup {y})
  BY FS_Subset, FS_AddElement
<1> DEFINE c == First(s \cup {y})
<1>5. c \in s \cup {y} /\ SumOver(f, s \cup {y}) = f[c] + SumOver(f, (s \cup {y}) \ {c})
  BY <1>4, SumUnfolds, FirstIn
<1>6. SumOver(f, s) \in Int /\ f[y] \in Int /\ f[c] \in Int
  BY <1>3, <1>4, <1>5, SumType
<1>7. CASE c = y
  <2>1. (s \cup {y}) \ {y} = s
    BY <1>3
  <2>2. SumOver(f, s \cup {y}) = f[y] + SumOver(f, s)
    BY <1>5, <1>7, <2>1
  <2> HIDE DEF c
  <2> QED BY <1>3, <1>6, <2>2
<1>8. CASE c # y
  <2> DEFINE r == s \ {c}
  <2>0. c \in s
    BY <1>5, <1>8
  <2>1. /\ (s \cup {y}) \ {c} = r \cup {y}
        /\ r \cup {c} = s
        /\ c \notin r /\ y \notin r /\ r \in SUBSET S
    BY <1>2, <1>3, <1>8, <2>0
  <2>2. IsFiniteSet(r)
    BY <2>1, FS_Subset
  <2>3. r \notin Bad
    BY <1>2, <2>0
  <2>4. /\ SumOver(f, r \cup {y}) = SumOver(f, r) + f[y]
        /\ SumOver(f, r \cup {c}) = SumOver(f, r) + f[c]
    <3> HIDE DEF c
    <3> QED BY <1>2, <1>3, <2>0, <2>1, <2>3
  <2>5. SumOver(f, r) \in Int
    BY <2>1, <2>2, SumType
  <2> HIDE DEF c, r
  <2> QED BY <1>3, <1>5, <1>6, <2>1, <2>4, <2>5
<1> QED BY <1>7, <1>8

\* Only the values of the elements count.
THEOREM SumSame ==
  ASSUME NEW f, NEW g, NEW S, IsFiniteSet(S), \A x \in S : f[x] = g[x]
  PROVE  SumOver(f, S) = SumOver(g, S)
<1> DEFINE Bad == {s \in SUBSET S : SumOver(f, s) # SumOver(g, s)}
<1> SUFFICES ASSUME Bad # {} PROVE FALSE
  OBVIOUS
<1>1. \A s \in Bad : IsFiniteSet(s)
  BY FS_Subset
<1>2. PICK s \in Bad : \A z \in s : s \ {z} \notin Bad
  <2> HIDE DEF Bad
  <2> QED BY <1>1, SmallestSet
<1>3. IsFiniteSet(s)
  BY FS_Subset
<1>4. s # {}
  BY <1>2, <1>3, SumEmpty
<1>5. s \ {First(s)} \notin Bad
  BY <1>2, <1>3, <1>4, Smaller
<1>6. /\ SumOver(f, s \ {First(s)}) = SumOver(g, s \ {First(s)})
      /\ f[First(s)] = g[First(s)]
  BY <1>3, <1>4, <1>5, Smaller
<1> QED BY <1>2, <1>3, <1>4, <1>6, SumUnfolds

\* A sum of zeros is zero.
THEOREM SumZero ==
  ASSUME NEW f, NEW S, IsFiniteSet(S), \A x \in S : f[x] = 0
  PROVE  SumOver(f, S) = 0
<1> DEFINE Bad == {s \in SUBSET S : SumOver(f, s) # 0}
<1> SUFFICES ASSUME Bad # {} PROVE FALSE
  OBVIOUS
<1>1. \A s \in Bad : IsFiniteSet(s)
  BY FS_Subset
<1>2. PICK s \in Bad : \A z \in s : s \ {z} \notin Bad
  <2> HIDE DEF Bad
  <2> QED BY <1>1, SmallestSet
<1>3. IsFiniteSet(s)
  BY FS_Subset
<1>4. s # {}
  BY <1>2, <1>3, SumEmpty
<1>5. s \ {First(s)} \notin Bad
  BY <1>2, <1>3, <1>4, Smaller
<1>6. SumOver(f, s \ {First(s)}) = 0 /\ f[First(s)] = 0
  BY <1>3, <1>4, <1>5, Smaller
<1> QED BY <1>2, <1>3, <1>4, <1>6, SumUnfolds

\* What is never less, element by element, does not sum up to less.
THEOREM SumAtMost ==
  ASSUME NEW f, NEW g, NEW S, IsFiniteSet(S),
         \A x \in S : f[x] \in Int /\ g[x] \in Int /\ f[x] <= g[x]
  PROVE  SumOver(f, S) <= SumOver(g, S)
<1> DEFINE Bad == {s \in SUBSET S : ~(SumOver(f, s) <= SumOver(g, s))}
<1> SUFFICES ASSUME Bad # {} PROVE FALSE
  OBVIOUS
<1>1. \A s \in Bad : IsFiniteSet(s)
  BY FS_Subset
<1>2. PICK s \in Bad : \A z \in s : s \ {z} \notin Bad
  <2> HIDE DEF Bad
  <2> QED BY <1>1, SmallestSet
<1>3. IsFiniteSet(s)
  BY FS_Subset
<1>4. s # {}
  BY <1>2, <1>3, SumEmpty
<1>5. s \ {First(s)} \notin Bad
  BY <1>2, <1>3, <1>4, Smaller
<1>6. /\ SumOver(f, s \ {First(s)}) <= SumOver(g, s \ {First(s)})
      /\ f[First(s)] \in Int /\ g[First(s)] \in Int /\ f[First(s)] <= g[First(s)]
  BY <1>3, <1>4, <1>5, Smaller
<1>7. IsFiniteSet(s \ {First(s)})
  BY <1>3, <1>4, Smaller
<1>8. SumOver(f, s \ {First(s)}) \in Int /\ SumOver(g, s \ {First(s)}) \in Int
  BY <1>7, SumType
<1> QED BY <1>2, <1>3, <1>4, <1>6, <1>8, SumUnfolds

\* A common factor goes before the sum.
THEOREM SumScaled ==
  ASSUME NEW f, NEW g, NEW S, IsFiniteSet(S), NEW c \in Int,
         \A x \in S : f[x] \in Int /\ g[x] = f[x] * c
  PROVE  SumOver(g, S) = SumOver(f, S) * c
<1> DEFINE Bad == {s \in SUBSET S : SumOver(g, s) # SumOver(f, s) * c}
<1> SUFFICES ASSUME Bad # {} PROVE FALSE
  OBVIOUS
<1>1. \A s \in Bad : IsFiniteSet(s)
  BY FS_Subset
<1>2. PICK s \in Bad : \A z \in s : s \ {z} \notin Bad
  <2> HIDE DEF Bad
  <2> QED BY <1>1, SmallestSet
<1>3. IsFiniteSet(s)
  BY FS_Subset
<1>4. s # {}
  <2>1. SumOver(f, {}) = 0 /\ SumOver(g, {}) = 0 /\ 0 * c = 0
    BY SumEmpty
  <2> QED BY <1>2, <2>1
<1>5. s \ {First(s)} \notin Bad
  BY <1>2, <1>3, <1>4, Smaller
<1>6. /\ SumOver(g, s \ {First(s)}) = SumOver(f, s \ {First(s)}) * c
      /\ f[First(s)] \in Int /\ g[First(s)] = f[First(s)] * c
  BY <1>3, <1>4, <1>5, Smaller
<1>7. IsFiniteSet(s \ {First(s)})
  BY <1>3, <1>4, Smaller
<1>8. SumOver(f, s \ {First(s)}) \in Int
  BY <1>7, SumType
<1>9. PICK a, b : /\ a = f[First(s)] /\ b = SumOver(f, s \ {First(s)})
                  /\ a \in Int /\ b \in Int
  BY <1>6, <1>8
<1>10. SumOver(f, s) = a + b /\ SumOver(g, s) = a * c + b * c
  BY <1>3, <1>4, <1>6, <1>9, SumUnfolds
<1>11. a * c + b * c = (a + b) * c
  BY <1>9
<1> QED BY <1>2, <1>10, <1>11
=============================================================================
