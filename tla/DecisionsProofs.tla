--------------------------- MODULE DecisionsProofs ---------------------------
(***************************************************************************)
(* Theorems about Decisions, for every book, fee, quantity, number of      *)
(* records and number of runs.                                             *)
(***************************************************************************)
EXTENDS Decisions, SumTheorems, SequenceTheorems

-----------------------------------------------------------------------------
(* Sums along a list *)

\* The sum of f over what comes before the k-th.
Upto(f, k) == SumOver(f, 1 .. k - 1)

LEMMA UptoNext ==
    ASSUME NEW n \in Nat, NEW f, \A j \in 1 .. n : f[j] \in Int
    PROVE  /\ Upto(f, 1) = 0
           /\ \A k \in 1 .. n + 1 : Upto(f, k) \in Int
           /\ \A k \in 1 .. n : Upto(f, k + 1) = Upto(f, k) + f[k]
<1>1. Upto(f, 1) = 0
  <2>1. 1 .. 1 - 1 = {}
    OBVIOUS
  <2> QED BY <2>1, SumEmpty DEF Upto
<1>2. ASSUME NEW k \in 1 .. n + 1 PROVE Upto(f, k) \in Int
  <2>1. IsFiniteSet(1 .. k - 1) /\ \A j \in 1 .. k - 1 : f[j] \in Int
    BY FS_Interval
  <2> QED BY <2>1, SumType DEF Upto
<1>3. ASSUME NEW k \in 1 .. n PROVE Upto(f, k + 1) = Upto(f, k) + f[k]
  <2> DEFINE S == 1 .. k - 1
  <2>1. IsFiniteSet(S) /\ k \notin S /\ 1 .. (k + 1) - 1 = S \cup {k}
    <3>1. k \in Int /\ (k + 1) - 1 = k /\ k - 1 \in Int
      OBVIOUS
    <3>2. IsFiniteSet(S)
      BY <3>1, FS_Interval
    <3>3. 1 .. k = S \cup {k} /\ k \notin S
      BY <3>1
    <3> QED BY <3>1, <3>2, <3>3
  <2>2. \A j \in S \cup {k} : f[j] \in Int
    BY <2>1
  <2> HIDE DEF S
  <2>3. SumOver(f, S \cup {k}) = SumOver(f, S) + f[k]
    BY <2>1, <2>2, SumAdd
  <2> QED BY <2>1, <2>3 DEF Upto, S
<1> QED BY <1>1, <1>2, <1>3

\* It never falls where nothing is negative.
LEMMA UptoGrows ==
    ASSUME NEW n \in Nat, NEW f, \A j \in 1 .. n : f[j] \in Nat, NEW i \in 1 .. n + 1
    PROVE  \A j \in i .. n + 1 : Upto(f, i) <= Upto(f, j)
<1> DEFINE T == {j \in i .. n + 1 : ~(Upto(f, i) <= Upto(f, j))}
<1> SUFFICES ASSUME T # {} PROVE FALSE
  OBVIOUS
<1>1. PICK j \in T : \A m \in T : j <= m
  <2>1. T \in SUBSET Nat
    OBVIOUS
  <2> HIDE DEF T
  <2> QED BY <2>1, LeastNatural
<1>2. /\ \A k \in 1 .. n + 1 : Upto(f, k) \in Int
      /\ \A k \in 1 .. n : Upto(f, k + 1) = Upto(f, k) + f[k]
  BY UptoNext
<1>3. j # i
  BY <1>1, <1>2
<1>4. j - 1 \in i .. n + 1 /\ j - 1 \in 1 .. n /\ (j - 1) + 1 = j
  BY <1>1, <1>3
<1>5. Upto(f, i) <= Upto(f, j - 1)
  BY <1>1, <1>4
<1>6. Upto(f, j) = Upto(f, j - 1) + f[j - 1] /\ f[j - 1] \in Nat
  BY <1>2, <1>4
<1>7. Upto(f, i) \in Int /\ Upto(f, j - 1) \in Int
  BY <1>2, <1>4
<1> QED BY <1>1, <1>5, <1>6, <1>7

\* Where it is the same p after the a-th, it grows by p with each.
LEMMA UptoBlock ==
    ASSUME NEW n \in Nat, NEW f, \A j \in 1 .. n : f[j] \in Int, NEW p \in Int,
           NEW a \in 0 .. n, \A j \in a + 1 .. n : f[j] = p
    PROVE  Upto(f, n + 1) = Upto(f, a + 1) + (n - a) * p
<1> DEFINE T == {b \in a .. n : Upto(f, b + 1) # Upto(f, a + 1) + (b - a) * p}
<1>1. /\ \A k \in 1 .. n + 1 : Upto(f, k) \in Int
      /\ \A k \in 1 .. n : Upto(f, k + 1) = Upto(f, k) + f[k]
  BY UptoNext
<1>2. ASSUME T # {} PROVE FALSE
  <2>1. PICK b \in T : \A m \in T : b <= m
    <3>1. T \in SUBSET Nat
      OBVIOUS
    <3> HIDE DEF T
    <3> QED BY <1>2, <3>1, LeastNatural
  <2>2. b \in a .. n /\ Upto(f, a + 1) \in Int
    BY <1>1
  <2>3. b # a
    BY <2>1, <2>2
  <2>4. b - 1 \in a .. n /\ b \in a + 1 .. n /\ b \in 1 .. n /\ (b - 1) + 1 = b
    BY <2>2, <2>3
  <2>5. b - 1 \notin T
    BY <2>1, <2>4
  <2>6. Upto(f, b) = Upto(f, a + 1) + ((b - 1) - a) * p
    BY <2>4, <2>5
  <2>7. Upto(f, b + 1) = Upto(f, b) + p
    BY <1>1, <2>4
  <2>8. /\ ((b - 1) - a) * p \in Int
        /\ ((b - 1) - a) * p + p = (b - a) * p
    BY <2>2
  <2>9. Upto(f, b + 1) = Upto(f, a + 1) + (b - a) * p
    BY <2>2, <2>6, <2>7, <2>8
  <2> QED BY <2>1, <2>9
<1>3. n \in a .. n
  OBVIOUS
<1>4. n \notin T
  <2> HIDE DEF T
  <2> QED BY <1>2
<1> QED BY <1>3, <1>4

-----------------------------------------------------------------------------
(* A side of a book *)

\* What a valid book says of each of its sides.
Side(levels) ==
    /\ levels \in Scanner!Levels
    /\ \A i \in DOMAIN levels : levels[i].price > 0 /\ levels[i].quantity > 0

\* The quantities of its levels, and the prices of the units of Quantity.
Quantities(levels) == [j \in DOMAIN levels |-> levels[j].quantity]
Prices(levels) == [k \in 1 .. Quantity |-> Scanner!UnitPrice(levels, k)]

LEMMA ScanSums == ASSUME NEW f, NEW S PROVE Scanner!SumOver(f, S) = SumOver(f, S)
BY DEF Scanner!SumOver, SumOver, Scanner!MapThenFoldSet, MapThenFoldSet

LEMMA SideFields ==
    ASSUME NEW levels, Side(levels)
    PROVE  /\ Len(levels) \in Nat /\ DOMAIN levels = 1 .. Len(levels)
           /\ \A j \in 1 .. Len(levels) : /\ levels[j].price \in Nat \ {0}
                                          /\ levels[j].quantity \in Nat \ {0}
<1> DEFINE R == [price : Int, quantity : Int]
<1>1. levels \in Seq(R)
  BY DEF Side, Scanner!Levels
<1>2. /\ Len(levels) \in Nat /\ DOMAIN levels = 1 .. Len(levels)
      /\ \A j \in 1 .. Len(levels) : levels[j] \in R
  <2> HIDE DEF R
  <2> QED BY <1>1, LenProperties, ElementOfSeq
<1> QED BY <1>2 DEF Side

\* What the levels before the i-th hold.
LEMMA Held ==
    ASSUME NEW levels, Side(levels)
    PROVE  /\ Upto(Quantities(levels), 1) = 0
           /\ \A i \in 1 .. Len(levels) + 1 : Upto(Quantities(levels), i) \in Nat
           /\ \A i \in 1 .. Len(levels) :
                 Upto(Quantities(levels), i + 1) = Upto(Quantities(levels), i) + levels[i].quantity
           /\ \A i \in 1 .. Len(levels) + 1 : \A j \in i .. Len(levels) + 1 :
                 Upto(Quantities(levels), i) <= Upto(Quantities(levels), j)
           /\ \A i : Scanner!Before(levels, i) = Upto(Quantities(levels), i)
<1>1. Len(levels) \in Nat
  BY SideFields
<1>2. \A j \in 1 .. Len(levels) : /\ Quantities(levels)[j] = levels[j].quantity
                                  /\ Quantities(levels)[j] \in Nat
  BY SideFields DEF Quantities
<1>3. \A i : Scanner!Before(levels, i) = Upto(Quantities(levels), i)
  BY ScanSums DEF Scanner!Before, Upto, Quantities
<1> DEFINE q == Quantities(levels)
<1>4. \A j \in 1 .. Len(levels) : q[j] \in Nat /\ q[j] \in Int
  BY <1>2
<1>5. \A j \in 1 .. Len(levels) : q[j] = levels[j].quantity
  BY <1>2
<1> HIDE DEF q
<1>6. /\ Upto(q, 1) = 0
      /\ \A i \in 1 .. Len(levels) + 1 : Upto(q, i) \in Int
      /\ \A i \in 1 .. Len(levels) : Upto(q, i + 1) = Upto(q, i) + q[i]
  BY <1>1, <1>4, UptoNext
<1>7. \A i \in 1 .. Len(levels) + 1 : \A j \in i .. Len(levels) + 1 : Upto(q, i) <= Upto(q, j)
  BY <1>1, <1>4, UptoGrows
<1>8. \A i \in 1 .. Len(levels) + 1 : Upto(q, i) \in Nat
  BY <1>1, <1>6, <1>7
<1>9. \A i \in 1 .. Len(levels) : Upto(q, i + 1) = Upto(q, i) + levels[i].quantity
  BY <1>5, <1>6
<1> QED BY <1>3, <1>6, <1>7, <1>8, <1>9 DEF q

\* A unit that the i-th level reaches first has the price of that level.
LEMMA UnitOfLevel ==
    ASSUME NEW levels, Side(levels), NEW i \in 1 .. Len(levels), NEW k \in Nat,
           Upto(Quantities(levels), i) < k, k <= Upto(Quantities(levels), i + 1)
    PROVE  Scanner!UnitPrice(levels, k) = levels[i].price
<1> DEFINE B(j) == Upto(Quantities(levels), j)
           Of(j) == Scanner!Before(levels, j) < k /\ k <= Scanner!Before(levels, j) + levels[j].quantity
<1>1. /\ Len(levels) \in Nat /\ DOMAIN levels = 1 .. Len(levels)
      /\ \A j \in 1 .. Len(levels) + 1 : B(j) \in Nat
      /\ \A j \in 1 .. Len(levels) : B(j + 1) = B(j) + levels[j].quantity
      /\ \A j \in 1 .. Len(levels) + 1 : \A m \in j .. Len(levels) + 1 : B(j) <= B(m)
      /\ \A j : Scanner!Before(levels, j) = B(j)
  BY SideFields, Held
<1>2. B(i) < k /\ k <= B(i + 1)
  OBVIOUS
<1> HIDE DEF B
<1>3. Of(i)
  BY <1>1, <1>2
<1>4. ASSUME NEW j \in DOMAIN levels, Of(j) PROVE j = i
  <2>1. j \in 1 .. Len(levels) /\ B(j) < k /\ k <= B(j + 1)
    BY <1>1, <1>4
  <2>2. CASE j < i
    <3>1. j + 1 \in 1 .. Len(levels) + 1 /\ i \in (j + 1) .. Len(levels) + 1
      BY <1>1, <2>1, <2>2
    <3>2. B(j + 1) <= B(i) /\ B(j + 1) \in Nat /\ B(i) \in Nat
      BY <1>1, <3>1
    <3> QED BY <1>2, <2>1, <3>2
  <2>3. CASE i < j
    <3>1. i + 1 \in 1 .. Len(levels) + 1 /\ j \in (i + 1) .. Len(levels) + 1
      BY <1>1, <2>1, <2>3
    <3>2. B(i + 1) <= B(j) /\ B(i + 1) \in Nat /\ B(j) \in Nat
      BY <1>1, <3>1
    <3> QED BY <1>2, <2>1, <3>2
  <2> QED BY <2>1, <2>2, <2>3
<1>5. i \in DOMAIN levels
  BY <1>1
<1>6. (CHOOSE j \in DOMAIN levels : Of(j)) = i
  BY <1>3, <1>4, <1>5
<1> QED BY <1>6 DEF Scanner!UnitPrice

\* Every unit the levels up to the n-th hold is one of a level.
LEMMA LevelOfUnit ==
    ASSUME NEW levels, Side(levels), NEW n \in 0 .. Len(levels), NEW k \in Nat \ {0},
           k <= Upto(Quantities(levels), n + 1)
    PROVE  \E i \in 1 .. n : Scanner!UnitPrice(levels, k) = levels[i].price
<1> DEFINE B(j) == Upto(Quantities(levels), j)
           T == {j \in 1 .. n + 1 : k <= B(j)}
<1>1. n + 1 \in T
  OBVIOUS
<1>2. PICK j \in T : \A m \in T : j <= m
  <2>1. T \in SUBSET Nat /\ T # {}
    BY <1>1
  <2> HIDE DEF T
  <2> QED BY <2>1, LeastNatural
<1>3. /\ Len(levels) \in Nat /\ B(1) = 0
      /\ \A m \in 1 .. Len(levels) + 1 : B(m) \in Nat
  BY SideFields, Held
<1> HIDE DEF B
<1>4. j # 1
  BY <1>2, <1>3
<1>5. j - 1 \in 1 .. n /\ (j - 1) + 1 = j /\ j - 1 \notin T
  BY <1>2, <1>4
<1>6. B(j - 1) < k /\ k <= B(j)
  BY <1>2, <1>3, <1>5
<1>7. j - 1 \in 1 .. Len(levels)
  BY <1>3, <1>5
<1>8. Scanner!UnitPrice(levels, k) = levels[j - 1].price
  BY <1>5, <1>6, <1>7, UnitOfLevel DEF B
<1> QED BY <1>5, <1>8

\* What of Quantity the levels before the i-th fill, and where the loop of sweep is
\* after each level: the units filled, at their prices.
Reach(levels, i) == Scanner!Least(Quantity, Upto(Quantities(levels), i))
After(levels) ==
    [n \in 0 .. Len(levels) |->
        [quote |-> Upto(Prices(levels), Reach(levels, n + 1) + 1),
         remaining |-> Quantity - Reach(levels, n + 1)]]

LEMMA Reached ==
    ASSUME NEW levels, Side(levels)
    PROVE  /\ Quantity \in Nat \ {0}
           /\ Reach(levels, 1) = 0
           /\ \A n \in 0 .. Len(levels) :
                 /\ Reach(levels, n + 1) \in 0 .. Quantity
                 /\ \A k \in 1 .. Reach(levels, n + 1) :
                       \E i \in 1 .. n : Prices(levels)[k] = levels[i].price
           /\ \A n \in 1 .. Len(levels) :
                 /\ Reach(levels, n) <= Reach(levels, n + 1)
                 /\ Reach(levels, n + 1) - Reach(levels, n)
                       = Scanner!Least(Quantity - Reach(levels, n), levels[n].quantity)
                 /\ \A k \in Reach(levels, n) + 1 .. Reach(levels, n + 1) :
                       Prices(levels)[k] = levels[n].price
<1>1. Quantity \in Nat \ {0}
  BY DecisionsAssumption DEF Scanner!ScanAssumption, Scanner!ValidateConfig
<1> DEFINE B(j) == Upto(Quantities(levels), j)
<1>2. /\ Len(levels) \in Nat /\ B(1) = 0
      /\ \A m \in 1 .. Len(levels) + 1 : B(m) \in Nat
      /\ \A m \in 1 .. Len(levels) : B(m + 1) = B(m) + levels[m].quantity
      /\ \A m \in 1 .. Len(levels) : levels[m].quantity \in Nat
  BY SideFields, Held
<1> HIDE DEF B
<1>3. \A j : Reach(levels, j) = IF Quantity <= B(j) THEN Quantity ELSE B(j)
  BY DEF Reach, Scanner!Least, B
<1>4. Reach(levels, 1) = 0
  BY <1>1, <1>2, <1>3
<1>5. ASSUME NEW n \in 0 .. Len(levels)
      PROVE  /\ Reach(levels, n + 1) \in 0 .. Quantity
             /\ \A k \in 1 .. Reach(levels, n + 1) :
                   \E i \in 1 .. n : Prices(levels)[k] = levels[i].price
  <2>1. n + 1 \in 1 .. Len(levels) + 1
    BY <1>2
  <2>2. Reach(levels, n + 1) \in 0 .. Quantity /\ Reach(levels, n + 1) <= B(n + 1)
    BY <1>1, <1>2, <1>3, <2>1
  <2>3. ASSUME NEW k \in 1 .. Reach(levels, n + 1)
        PROVE  \E i \in 1 .. n : Prices(levels)[k] = levels[i].price
    <3>1. k \in Nat \ {0} /\ k \in 1 .. Quantity /\ k <= B(n + 1)
      <4>1. PICK r, b : /\ r = Reach(levels, n + 1) /\ b = B(n + 1)
                        /\ r \in 0 .. Quantity /\ b \in Nat /\ r <= b
        BY <1>2, <2>1, <2>2
      <4>2. k \in 1 .. r
        BY <4>1
      <4>3. k \in Nat \ {0} /\ k \in 1 .. Quantity /\ k <= b
        BY <1>1, <4>1, <4>2
      <4> QED BY <4>1, <4>3
    <3>2. \E i \in 1 .. n : Scanner!UnitPrice(levels, k) = levels[i].price
      BY <3>1, LevelOfUnit DEF B
    <3> QED BY <3>1, <3>2 DEF Prices
  <2> QED BY <2>2, <2>3
<1>6. ASSUME NEW n \in 1 .. Len(levels)
      PROVE  /\ Reach(levels, n) <= Reach(levels, n + 1)
             /\ Reach(levels, n + 1) - Reach(levels, n)
                   = Scanner!Least(Quantity - Reach(levels, n), levels[n].quantity)
             /\ \A k \in Reach(levels, n) + 1 .. Reach(levels, n + 1) :
                   Prices(levels)[k] = levels[n].price
  <2>1. n \in 1 .. Len(levels) + 1 /\ n + 1 \in 1 .. Len(levels) + 1
    BY <1>2
  <2>2. PICK b, c, q : /\ b = B(n) /\ c = B(n + 1) /\ q = levels[n].quantity
                       /\ b \in Nat /\ q \in Nat /\ c = b + q
    BY <1>2, <2>1
  <2>a. Quantity \in Nat /\ b \in Nat /\ q \in Nat /\ c = b + q
    BY <1>1, <2>2
  <2>3. PICK s, t : /\ s = Reach(levels, n) /\ t = Reach(levels, n + 1)
                    /\ s = (IF Quantity <= b THEN Quantity ELSE b)
                    /\ t = (IF Quantity <= c THEN Quantity ELSE c)
    BY <1>3, <2>2
  <2>b. /\ s = (IF Quantity <= b THEN Quantity ELSE b)
        /\ t = (IF Quantity <= c THEN Quantity ELSE c)
    BY <2>3
  <2>4. s <= t /\ t - s = (IF Quantity - s <= q THEN Quantity - s ELSE q)
    BY <2>a, <2>b
  <2>5. ASSUME NEW k \in s + 1 .. t PROVE Prices(levels)[k] = levels[n].price
    <3>1. k \in 1 .. Quantity /\ k \in Nat /\ b < k /\ k <= c
      <4>1. s \in Int /\ t \in Int
        BY <2>a, <2>b
      <4> QED BY <2>a, <2>b, <4>1
    <3>2. Scanner!UnitPrice(levels, k) = levels[n].price
      BY <2>2, <3>1, UnitOfLevel DEF B
    <3> QED BY <3>1, <3>2 DEF Prices
  <2> QED BY <2>2, <2>3, <2>4, <2>5 DEF Scanner!Least
<1> QED BY <1>1, <1>4, <1>5, <1>6

\* One turn of the loop takes it from one place to the next.
LEMMA AfterNext ==
    ASSUME NEW levels, Side(levels), NEW n \in 1 .. Len(levels)
    PROVE  After(levels)[n] = Scanner!SweepLevel(After(levels)[n - 1], levels[n])
<1> DEFINE f == Prices(levels)
<1>1. PICK s, t, q, p : /\ s = Reach(levels, n) /\ t = Reach(levels, n + 1)
                        /\ q = levels[n].quantity /\ p = levels[n].price
  OBVIOUS
<1>2. /\ Len(levels) \in Nat /\ Quantity \in Nat /\ q \in Nat /\ p \in Nat
      /\ n \in 0 .. Len(levels) /\ n - 1 \in 0 .. Len(levels) /\ (n - 1) + 1 = n
  <2>1. Quantity \in Nat
    BY Reached
  <2>2. Len(levels) \in Nat /\ q \in Nat /\ p \in Nat
    BY <1>1, SideFields
  <2> QED BY <2>1, <2>2
<1>3. s \in 0 .. Quantity /\ t \in 0 .. Quantity /\ s <= t
  BY <1>1, <1>2, Reached
<1>4. t - s = Scanner!Least(Quantity - s, q) /\ \A k \in s + 1 .. t : f[k] = p
  BY <1>1, Reached
<1>5. \A k \in 1 .. t : f[k] \in Int
  <2> SUFFICES ASSUME NEW k \in 1 .. t PROVE f[k] \in Int
    OBVIOUS
  <2>1. PICK i \in 1 .. n : f[k] = levels[i].price
    BY <1>1, <1>2, Reached
  <2>2. i \in 1 .. Len(levels)
    BY <1>2
  <2> QED BY <2>1, <2>2, SideFields
<1> HIDE DEF f
<1>6. Upto(f, t + 1) = Upto(f, s + 1) + (t - s) * p
  <2>1. t \in Nat /\ s \in 0 .. t /\ p \in Int
    BY <1>2, <1>3
  <2> QED BY <1>4, <1>5, <2>1, UptoBlock
<1>7. Quantity - t = (Quantity - s) - (t - s)
  BY <1>2, <1>3
<1>8. /\ After(levels)[n] = [quote |-> Upto(f, t + 1), remaining |-> Quantity - t]
      /\ After(levels)[n - 1] = [quote |-> Upto(f, s + 1), remaining |-> Quantity - s]
  BY <1>1, <1>2 DEF After, f
<1> QED BY <1>1, <1>4, <1>6, <1>7, <1>8 DEF Scanner!SweepLevel

\* So the loop of sweep ends where the last level has taken it.
LEMMA Sweeps ==
    ASSUME NEW levels, Side(levels)
    PROVE  Scanner!Sweep(levels, Quantity) = After(levels)[Len(levels)]
<1> DEFINE Rec(g) == [n \in 0 .. Len(levels) |->
                         IF n = 0 THEN [quote |-> 0, remaining |-> Quantity]
                         ELSE Scanner!SweepLevel(g[n - 1], levels[n])]
<1>1. Scanner!Sweep(levels, Quantity) = (CHOOSE g : g = Rec(g))[Len(levels)]
  BY DEF Scanner!Sweep
<1>2. Len(levels) \in Nat
  BY SideFields
<1>3. After(levels)[0] = [quote |-> 0, remaining |-> Quantity]
  <2>1. Reach(levels, 1) = 0 /\ Quantity \in Nat
    BY Reached
  <2>2. Upto(Prices(levels), 1) = 0
    <3>1. 1 .. 1 - 1 = {}
      OBVIOUS
    <3> QED BY <3>1, SumEmpty DEF Upto
  <2>3. 0 \in 0 .. Len(levels) /\ 0 + 1 = 1 /\ Quantity - 0 = Quantity
    BY <1>2, <2>1
  <2> QED BY <2>1, <2>2, <2>3 DEF After
<1>4. After(levels) = Rec(After(levels))
  <2>1. ASSUME NEW n \in 0 .. Len(levels) PROVE After(levels)[n] = Rec(After(levels))[n]
    <3>1. CASE n = 0
      BY <1>3, <3>1
    <3>2. CASE n # 0
      <4>1. n \in 1 .. Len(levels)
        BY <1>2, <3>2
      <4> QED BY <3>2, <4>1, AfterNext
    <3> QED BY <3>1, <3>2
  <2>2. DOMAIN After(levels) = 0 .. Len(levels) /\ DOMAIN Rec(After(levels)) = 0 .. Len(levels)
    BY DEF After
  <2>3. After(levels) = [n \in 0 .. Len(levels) |-> After(levels)[n]]
    BY DEF After
  <2> QED BY <2>1, <2>3
<1>5. PICK g : g = (CHOOSE h : h = Rec(h)) /\ g = Rec(g)
  <2> HIDE DEF Rec
  <2> QED BY <1>4
<1>6. \A n \in 0 .. Len(levels) : g[n] = After(levels)[n]
  <2> DEFINE T == {n \in 0 .. Len(levels) : g[n] # After(levels)[n]}
  <2> SUFFICES ASSUME T # {} PROVE FALSE
    OBVIOUS
  <2>1. PICK n \in T : \A m \in T : n <= m
    <3>1. T \in SUBSET Nat
      OBVIOUS
    <3> HIDE DEF T
    <3> QED BY <3>1, LeastNatural
  <2>2. CASE n = 0
    <3>1. 0 \in 0 .. Len(levels)
      BY <1>2
    <3>2. Rec(g)[0] = [quote |-> 0, remaining |-> Quantity]
      BY <3>1
    <3>3. g[0] = [quote |-> 0, remaining |-> Quantity]
      <4> HIDE DEF Rec
      <4> QED BY <1>5, <3>2
    <3> QED BY <1>3, <2>1, <2>2, <3>3
  <2>3. CASE n # 0
    <3>1. n \in 1 .. Len(levels) /\ n - 1 \in 0 .. Len(levels) /\ n - 1 \notin T
      BY <1>2, <2>1, <2>3
    <3>2. g[n - 1] = After(levels)[n - 1]
      BY <3>1
    <3>3. g[n] = Scanner!SweepLevel(g[n - 1], levels[n])
      BY <1>5, <2>3, <3>1
    <3> QED BY <2>1, <3>1, <3>2, <3>3, AfterNext
  <2> QED BY <2>2, <2>3
<1>7. Len(levels) \in 0 .. Len(levels)
  BY <1>2
<1> HIDE DEF Rec
<1> QED BY <1>1, <1>5, <1>6, <1>7

\* The sum of the prices of the units: what a side is worth, whatever the rate.
Total(levels) == SumOver(Prices(levels), 1 .. Quantity)

\* A side that is not too thin is swept for exactly that, each unit at the price of one
\* of its levels.
LEMMA Filled ==
    ASSUME NEW levels, Side(levels), Scanner!Sweep(levels, Quantity).remaining = 0
    PROVE  /\ Scanner!Sweep(levels, Quantity).quote = Total(levels)
           /\ \A k \in 1 .. Quantity :
                 \E i \in 1 .. Len(levels) : Prices(levels)[k] = levels[i].price
           /\ Total(levels) \in Int
           /\ \A bps \in Int : Scanner!Worth(levels, bps) = Total(levels) * (Bps + bps)
<1> DEFINE n == Len(levels)
<1>1. n \in Nat /\ n \in 0 .. n /\ Quantity \in Nat
  BY SideFields, Reached
<1>2. PICK t : t = Reach(levels, n + 1) /\ t \in 0 .. Quantity
  BY <1>1, Reached
<1>3. Scanner!Sweep(levels, Quantity) =
        [quote |-> Upto(Prices(levels), t + 1), remaining |-> Quantity - t]
  BY <1>1, <1>2, Sweeps DEF After
<1>4. t = Quantity
  BY <1>1, <1>2, <1>3
<1>5. Scanner!Sweep(levels, Quantity).quote = Total(levels)
  <2>1. (Quantity + 1) - 1 = Quantity
    BY <1>1
  <2> QED BY <1>3, <1>4, <2>1 DEF Upto, Total
<1>6. \A k \in 1 .. Quantity : \E i \in 1 .. n : Prices(levels)[k] = levels[i].price
  BY <1>1, <1>2, <1>4, Reached
<1>7. \A k \in 1 .. Quantity : Prices(levels)[k] \in Int
  BY <1>6, SideFields
<1>8. IsFiniteSet(1 .. Quantity)
  BY <1>1, FS_Interval
<1>9. Total(levels) \in Int
  BY <1>7, <1>8, SumType DEF Total
<1>10. ASSUME NEW bps \in Int PROVE Scanner!Worth(levels, bps) = Total(levels) * (Bps + bps)
  <2> DEFINE g == [k \in 1 .. Quantity |-> Scanner!UnitPrice(levels, k) * (Bps + bps)]
             c == Bps + bps
  <2>1. c \in Int
    BY DecisionsAssumption DEF Scanner!ScanAssumption
  <2>2. \A k \in 1 .. Quantity : g[k] = Prices(levels)[k] * c
    BY DEF Prices
  <2>3. Scanner!Worth(levels, bps) = SumOver(g, 1 .. Quantity)
    BY ScanSums DEF Scanner!Worth
  <2> HIDE DEF g, c
  <2>4. SumOver(g, 1 .. Quantity) = SumOver(Prices(levels), 1 .. Quantity) * c
    <3>1. PICK h, S : h = Prices(levels) /\ S = 1 .. Quantity
      OBVIOUS
    <3>2. IsFiniteSet(S) /\ \A k \in S : h[k] \in Int /\ g[k] = h[k] * c
      BY <1>7, <1>8, <2>2, <3>1
    <3>3. SumOver(g, S) = SumOver(h, S) * c
      BY <2>1, <3>2, SumScaled
    <3> QED BY <3>1, <3>3
  <2> QED BY <2>3, <2>4 DEF Total, c
<1> QED BY <1>5, <1>6, <1>9, <1>10

\* What is the same for all adds up to a product.
LEMMA AllTheSame ==
    ASSUME NEW n \in Nat, NEW p \in Int
    PROVE  SumOver([k \in 1 .. n |-> p], 1 .. n) = n * p
<1> DEFINE f == [k \in 1 .. n |-> p]
<1>1. PICK a : a = 0 /\ a \in 0 .. n
  OBVIOUS
<1>2. (\A j \in 1 .. n : f[j] \in Int) /\ (\A j \in a + 1 .. n : f[j] = p)
  BY <1>1
<1> HIDE DEF f
<1>3. Upto(f, n + 1) = Upto(f, a + 1) + (n - a) * p
  BY <1>1, <1>2, UptoBlock
<1>4. Upto(f, 1) = 0
  BY <1>2, UptoNext
<1>5. a + 1 = 1 /\ (n + 1) - 1 = n /\ 0 + (n - a) * p = n * p
  BY <1>1
<1> QED BY <1>3, <1>4, <1>5 DEF Upto, f

\* It is worth no more than all units at the dearest of its prices ...
LEMMA TotalAtMost ==
    ASSUME NEW levels, Side(levels), Scanner!Sweep(levels, Quantity).remaining = 0,
           NEW p \in Int, \A i \in 1 .. Len(levels) : levels[i].price <= p
    PROVE  Total(levels) <= Quantity * p
<1> DEFINE f == [k \in 1 .. Quantity |-> p]
<1>1. PICK h, S : h = Prices(levels) /\ S = 1 .. Quantity
  OBVIOUS
<1>2. Quantity \in Nat /\ IsFiniteSet(S)
  BY <1>1, Reached, FS_Interval
<1>3. \A k \in S : h[k] \in Int /\ f[k] \in Int /\ h[k] <= f[k]
  BY <1>1, Filled, SideFields
<1>4. SumOver(f, S) = Quantity * p
  BY <1>1, <1>2, AllTheSame
<1> HIDE DEF f
<1>5. SumOver(h, S) <= SumOver(f, S)
  BY <1>2, <1>3, SumAtMost
<1> QED BY <1>1, <1>4, <1>5 DEF Total

\* ... and no less than all at the cheapest.
LEMMA TotalAtLeast ==
    ASSUME NEW levels, Side(levels), Scanner!Sweep(levels, Quantity).remaining = 0,
           NEW p \in Int, \A i \in 1 .. Len(levels) : p <= levels[i].price
    PROVE  Quantity * p <= Total(levels)
<1> DEFINE f == [k \in 1 .. Quantity |-> p]
<1>1. PICK h, S : h = Prices(levels) /\ S = 1 .. Quantity
  OBVIOUS
<1>2. Quantity \in Nat /\ IsFiniteSet(S)
  BY <1>1, Reached, FS_Interval
<1>3. \A k \in S : h[k] \in Int /\ f[k] \in Int /\ f[k] <= h[k]
  BY <1>1, Filled, SideFields
<1>4. SumOver(f, S) = Quantity * p
  BY <1>1, <1>2, AllTheSame
<1> HIDE DEF f
<1>5. SumOver(f, S) <= SumOver(h, S)
  BY <1>2, <1>3, SumAtMost
<1> QED BY <1>1, <1>4, <1>5 DEF Total

\* The first level of a sorted side has the best price.
LEMMA BestFirst ==
    ASSUME NEW levels, Side(levels), NEW descending \in BOOLEAN,
           Scanner!ValidLevels(levels, descending)
    PROVE  \A i \in 1 .. Len(levels) : IF descending THEN levels[i].price <= levels[1].price
                                       ELSE levels[1].price <= levels[i].price
<1> DEFINE Good(i) == IF descending THEN levels[i].price <= levels[1].price
                      ELSE levels[1].price <= levels[i].price
           T == {i \in 1 .. Len(levels) : ~Good(i)}
<1>1. /\ Len(levels) \in Nat
      /\ \A i \in 1 .. Len(levels) : levels[i].price \in Int
  BY SideFields
<1>2. ASSUME T # {} PROVE FALSE
  <2>1. PICK i \in T : \A m \in T : i <= m
    <3>1. T \in SUBSET Nat
      OBVIOUS
    <3> HIDE DEF T
    <3> QED BY <1>2, <3>1, LeastNatural
  <2>2. i # 1
    BY <1>1, <2>1
  <2>3. i - 1 \in 1 .. Len(levels) - 1 /\ i - 1 \in 1 .. Len(levels) /\ (i - 1) + 1 = i
    BY <1>1, <2>1, <2>2
  <2>4. i - 1 \notin T
    BY <2>1, <2>3
  <2>5. Good(i - 1)
    BY <2>3, <2>4
  <2>6. IF descending THEN levels[i - 1].price > levels[i].price
        ELSE levels[i - 1].price < levels[i].price
    BY <2>3 DEF Scanner!ValidLevels
  <2>7. /\ levels[i].price \in Int /\ levels[i - 1].price \in Int /\ levels[1].price \in Int
    BY <1>1, <2>1, <2>3
  <2>8. Good(i)
    <3>1. PICK x, y, z : /\ x = levels[1].price /\ y = levels[i - 1].price
                         /\ z = levels[i].price /\ x \in Int /\ y \in Int /\ z \in Int
      BY <2>7
    <3>2. IF descending THEN y <= x /\ y > z ELSE x <= y /\ y < z
      BY <2>5, <2>6, <3>1
    <3> QED BY <3>1, <3>2
  <2> QED BY <2>1, <2>8
<1>3. \A i \in 1 .. Len(levels) : Good(i)
  <2> HIDE DEF Good
  <2> QED BY <1>2
<1> QED BY <1>3

\* A book that validate has let through: what its sides are worth does not cross either.
LEMMA BookSides ==
    ASSUME NEW b \in Books, Scanner!ValidBook(b)
    PROVE  Side(b.bids) /\ Side(b.asks)
<1>1. b.bids \in Scanner!Levels /\ b.asks \in Scanner!Levels
  BY DecisionsAssumption DEF Scanner!ScanAssumption, Scanner!BookType
<1> QED BY <1>1 DEF Scanner!ValidBook, Scanner!ValidLevels, Side

LEMMA NotCrossed ==
    ASSUME NEW b \in Books, Scanner!ValidBook(b),
           Scanner!Sweep(b.bids, Quantity).remaining = 0,
           Scanner!Sweep(b.asks, Quantity).remaining = 0
    PROVE  /\ Total(b.bids) \in Nat /\ Total(b.asks) \in Nat
           /\ Total(b.bids) < Total(b.asks)
<1>1. PICK bids, asks : bids = b.bids /\ asks = b.asks
  OBVIOUS
<1>2. /\ Side(bids) /\ Side(asks)
      /\ Scanner!ValidLevels(bids, TRUE) /\ Scanner!ValidLevels(asks, FALSE)
      /\ bids # <<>> /\ asks # <<>> /\ bids[1].price < asks[1].price
      /\ Scanner!Sweep(bids, Quantity).remaining = 0
      /\ Scanner!Sweep(asks, Quantity).remaining = 0
  BY <1>1, BookSides DEF Scanner!ValidBook
<1>3. 1 \in 1 .. Len(bids) /\ 1 \in 1 .. Len(asks)
  <2>1. Len(bids) # 0 /\ Len(asks) # 0
    BY <1>2, EmptySeq DEF Side, Scanner!Levels
  <2> QED BY <1>2, <2>1, SideFields
<1>4. PICK x, y : /\ x = bids[1].price /\ y = asks[1].price
                  /\ x \in Nat /\ y \in Nat /\ x < y
  BY <1>2, <1>3, SideFields
<1>5. \A i \in 1 .. Len(bids) : bids[i].price <= x
  BY <1>2, <1>4, BestFirst
<1>6. \A i \in 1 .. Len(asks) : y <= asks[i].price
  BY <1>2, <1>4, BestFirst
<1>7. Total(bids) <= Quantity * x /\ Quantity * y <= Total(asks)
  <2>1. x \in Int /\ y \in Int
    BY <1>4
  <2>2. Total(bids) <= Quantity * x
    BY <1>2, <1>5, <2>1, TotalAtMost
  <2>3. Quantity * y <= Total(asks)
    BY <1>2, <1>6, <2>1, TotalAtLeast
  <2> QED BY <2>2, <2>3
<1>8. Quantity * 0 <= Total(bids)
  <2>1. \A i \in 1 .. Len(bids) : 0 <= bids[i].price
    BY <1>2, SideFields
  <2> QED BY <1>2, <2>1, TotalAtLeast
<1>9. Quantity \in Nat \ {0} /\ Total(bids) \in Int /\ Total(asks) \in Int
  BY <1>2, Reached, Filled
<1>10. Quantity * x < Quantity * y /\ Quantity * 0 = 0 /\ Quantity * x \in Int /\ Quantity * y \in Int
  BY <1>4, <1>9
<1> QED BY <1>1, <1>7, <1>8, <1>9, <1>10

-----------------------------------------------------------------------------
(* The scan *)

\* The books the scan can read have been validated, and what was accepted on them
\* was admitted, pays and goes in one direction.
ScanInv ==
    /\ now \in Nat /\ asked \in Nat
    /\ feed \in [Scanner!Venues -> Scanner!Status]
    /\ \A v \in Scanner!Venues : feed[v].state = "valid" => Scanner!ValidBook(feed[v].book)
    /\ answer \in Scanner!Refreshes
    /\ Scanner!AcceptedIsAdmitted
    /\ Scanner!AcceptedPaysOff
    /\ Scanner!OneDirection

\* The two venues.
LEMMA TwoVenues == Scanner!Venues = {"binance", "bybit"}
BY DEF Scanner!Venues

\* An account without rejections answered with an actual rate, and may only read.
LEMMA Admitted ==
    ASSUME NEW v \in Scanner!Venues, answer \in Scanner!Refreshes, asked \in Nat, now \in Nat,
           Scanner!AdmissionRejections(v) = {}
    PROVE  /\ answer[v].credentials = "set" /\ ~answer[v].error /\ answer[v].reading
           /\ "withdraw" \notin answer[v].scopes
           /\ v \in Eligible
           /\ now <= asked + MaxFeeAge
           /\ answer[v].buy \in 0 .. Bps - 1 /\ answer[v].sell \in 0 .. Bps - 1
           /\ Scanner!Account(v).fee.buy = answer[v].buy
           /\ Scanner!Account(v).fee.sell = answer[v].sell
<1>1. answer[v] \in Scanner!AnswerType
  BY DecisionsAssumption DEF Scanner!Refreshes, Scanner!AnswersOf, Scanner!ScanAssumption
<1>2. Scanner!Account(v).rejections = {} /\ Scanner!Account(v).fee.actual
  BY DEF Scanner!AdmissionRejections
<1>3. answer[v].credentials = "set" /\ ~answer[v].error
  BY <1>1, <1>2 DEF Scanner!Account, Scanner!AccountData, Scanner!Fallback, Scanner!AnswerType
<1>4. Scanner!Account(v) =
        [fee |-> [buy |-> answer[v].buy, sell |-> answer[v].sell, actual |-> TRUE,
                  expires |-> asked + MaxFeeAge],
         rejections |-> Scanner!EligibilityRejections(v)
                        \cup Scanner!PermissionRejections(v, answer[v])]
  BY <1>3 DEF Scanner!Account, Scanner!AccountData
<1>5. Scanner!EligibilityRejections(v) = {} /\ Scanner!PermissionRejections(v, answer[v]) = {}
  BY <1>2, <1>4
<1>6. v \in Eligible
  BY <1>5 DEF Scanner!EligibilityRejections
<1>7. answer[v].reading /\ "withdraw" \notin answer[v].scopes
  BY <1>5 DEF Scanner!PermissionRejections
<1>8. ~(now > asked + MaxFeeAge)
  BY <1>2, <1>4 DEF Scanner!AdmissionRejections
<1>9. MaxFeeAge \in Nat
  BY DecisionsAssumption DEF Scanner!ScanAssumption
<1>10. answer[v].buy \in 0 .. Bps - 1 /\ answer[v].sell \in 0 .. Bps - 1
  BY <1>1, <1>3 DEF Scanner!AnswerType
<1>11. /\ Scanner!Account(v).fee.buy = answer[v].buy
       /\ Scanner!Account(v).fee.sell = answer[v].sell
  BY <1>4
<1>12. now <= asked + MaxFeeAge
  BY <1>8, <1>9
<1> QED BY <1>3, <1>6, <1>7, <1>10, <1>11, <1>12

LEMMA ScanInit == Scanner!Init => ScanInv
<1> SUFFICES ASSUME Scanner!Init PROVE ScanInv
  OBVIOUS
<1>1. feed \in [Scanner!Venues -> Scanner!Status]
  <2>1. 0 \in 0 .. MaxTime
    BY DecisionsAssumption DEF Scanner!ScanAssumption
  <2> QED BY <2>1 DEF Scanner!Init, Scanner!Status
<1>2. Scanner!AcceptedIsAdmitted
  BY DEF Scanner!Init, Scanner!AcceptedIsAdmitted
<1>3. \A v \in Scanner!Venues : feed[v].state = "valid" => Scanner!ValidBook(feed[v].book)
  BY DEF Scanner!Init
<1>4. Scanner!AcceptedPaysOff /\ Scanner!OneDirection
  BY DEF Scanner!Init, Scanner!AcceptedPaysOff, Scanner!OneDirection
<1> QED BY <1>1, <1>2, <1>3, <1>4 DEF ScanInv, Scanner!Init

\* A feed that has stopped stays out of the decision, and one that is old is a reason.
LEMMA DecideAdmits == ASSUME ScanInv, Scanner!Decide PROVE Scanner!AcceptedIsAdmitted'
<1>1. /\ \A v \in Scanner!Venues : feed[v].state = "valid"
      /\ UNCHANGED <<now, feed, answer, asked>>
      /\ decision' = Scanner!DecisionEvent
  BY DEF Scanner!Decide
<1>2. SUFFICES ASSUME NEW b \in Scanner!Accepted PROVE Scanner!AcceptedIsAdmitted'
  BY <1>1 DEF ScanInv, Scanner!AcceptedIsAdmitted, Scanner!DecisionEvent
<1>3. /\ Scanner!FreshnessRejections = {}
      /\ \A v \in Scanner!Venues : Scanner!AdmissionRejections(v) = {}
  BY <1>2 DEF Scanner!Accepted, Scanner!RejectionReasons
<1>4. \A v \in Scanner!Venues : feed[v].received \in Nat
  BY <1>1, DecisionsAssumption DEF ScanInv, Scanner!Status, Scanner!Down, Scanner!ScanAssumption
<1>5. {MaxAge, MaxSkew, MaxFeeAge} \subseteq Nat
  BY DecisionsAssumption DEF Scanner!ScanAssumption
<1>6. \A v \in Scanner!Venues : feed[v].received + MaxAge >= now
  BY <1>3, <1>4, <1>5 DEF ScanInv, Scanner!FreshnessRejections, Scanner!Age
<1>7. \A v, w \in Scanner!Venues : feed[v].received <= feed[w].received + MaxSkew
  <2>1. ~(Scanner!Skew > MaxSkew)
    BY <1>3 DEF Scanner!FreshnessRejections
  <2>2. /\ feed["binance"].received <= feed["bybit"].received + MaxSkew
        /\ feed["bybit"].received <= feed["binance"].received + MaxSkew
    BY <1>4, <1>5, <2>1, TwoVenues DEF Scanner!Skew
  <2> QED BY <1>4, <1>5, <2>2, TwoVenues
<1>8. \A v \in Scanner!Venues :
         /\ answer[v].credentials = "set" /\ ~answer[v].error /\ answer[v].reading
         /\ "withdraw" \notin answer[v].scopes
         /\ v \in Eligible
         /\ now <= asked + MaxFeeAge
  BY <1>3, Admitted DEF ScanInv
<1>9. asked + MaxFeeAge >= now
  BY <1>5, <1>8, TwoVenues DEF ScanInv
<1> QED BY <1>1, <1>6, <1>7, <1>8, <1>9 DEF Scanner!AcceptedIsAdmitted, Scanner!DecisionEvent, ScanInv

\* The sides a decision to buy at v sweeps: the asks of v and the bids of the other venue.
Asks(v) == feed[v].book.asks
Bids(v) == feed[Scanner!Other(v)].book.bids

LEMMA OtherVenue ==
    ASSUME NEW v \in Scanner!Venues
    PROVE  /\ Scanner!Other(v) \in Scanner!Venues /\ Scanner!Other(v) # v
           /\ Scanner!Other(Scanner!Other(v)) = v
           /\ \A w \in Scanner!Venues : w = v \/ w = Scanner!Other(v)
BY TwoVenues DEF Scanner!Other

\* Both are swept for what their units are worth.
LEMMA DecideSweeps ==
    ASSUME ScanInv, Scanner!Decide, NEW v \in Scanner!Venues
    PROVE  /\ Side(Asks(v)) /\ Scanner!Sweep(Asks(v), Quantity).remaining = 0
           /\ Side(Bids(v)) /\ Scanner!Sweep(Bids(v), Quantity).remaining = 0
           /\ Scanner!Cost(v).quote = Total(Asks(v))
           /\ Scanner!Proceeds(v).quote = Total(Bids(v))
           /\ Total(Asks(v)) \in Nat /\ Total(Bids(v)) \in Nat
           /\ Total(Bids(Scanner!Other(v))) < Total(Asks(v))
<1>1. ASSUME NEW w \in Scanner!Venues
      PROVE  feed[w].book \in Books /\ Scanner!ValidBook(feed[w].book)
  <2>1. feed[w].state = "valid" /\ feed[w] \in Scanner!Status
    BY DEF ScanInv, Scanner!Decide
  <2>2. feed[w].book \in Books
    BY <2>1 DEF Scanner!Status, Scanner!Down
  <2> QED BY <2>1, <2>2 DEF ScanInv
<1>2. PICK o : o = Scanner!Other(v)
  OBVIOUS
<1>3. o \in Scanner!Venues /\ Scanner!Other(o) = v
  BY <1>2, OtherVenue
<1>4. \A w \in Scanner!Venues : Scanner!Cost(w).remaining = 0 /\ Scanner!Proceeds(w).remaining = 0
  BY DEF Scanner!Decide
<1>5. /\ Scanner!Sweep(Asks(v), Quantity).remaining = 0
      /\ Scanner!Sweep(Bids(v), Quantity).remaining = 0
      /\ Scanner!Sweep(Asks(o), Quantity).remaining = 0
      /\ Scanner!Sweep(Bids(o), Quantity).remaining = 0
  BY <1>3, <1>4 DEF Scanner!Cost, Scanner!Proceeds, Asks, Bids
<1>6. /\ Asks(v) = feed[v].book.asks /\ Bids(o) = feed[v].book.bids
      /\ Asks(o) = feed[o].book.asks /\ Bids(v) = feed[o].book.bids
  BY <1>2, <1>3 DEF Asks, Bids
<1>7. Side(Asks(v)) /\ Side(Bids(v))
  BY <1>1, <1>3, <1>6, BookSides
<1>8. Total(Asks(v)) \in Nat /\ Total(Bids(o)) < Total(Asks(v))
  BY <1>1, <1>5, <1>6, NotCrossed
<1>9. Total(Bids(v)) \in Nat
  BY <1>1, <1>3, <1>5, <1>6, NotCrossed
<1>10. Scanner!Cost(v).quote = Total(Asks(v)) /\ Scanner!Proceeds(v).quote = Total(Bids(v))
  BY <1>5, <1>7, Filled DEF Scanner!Cost, Scanner!Proceeds, Asks, Bids
<1> QED BY <1>2, <1>5, <1>7, <1>8, <1>9, <1>10

\* The terms of a profit: what the units cost and yield, the rates, the bps lost to
\* latency and kept for risk, and the other costs.
Terms == [cost : Nat, proceeds : Nat, buy : Nat, sell : Nat, latency : Nat, risk : Nat,
          other : Nat]

TermsOf(v) ==
    [cost |-> Total(Asks(v)), proceeds |-> Total(Bids(v)),
     buy |-> answer[v].buy, sell |-> answer[Scanner!Other(v)].sell,
     latency |-> Strategy.latency_loss_bps, risk |-> Strategy.risk_buffer_bps,
     other |-> Strategy.rebalance_cost + Strategy.other_direct_cost]

\* The profit as the scan computes it, and unit by unit at the rates each is charged.
Profit(t) ==
    Bps * (t.proceeds - t.cost) - (t.cost * t.buy + t.proceeds * t.sell)
    - t.cost * t.latency - Bps * t.other - t.cost * t.risk
ByUnit(t) ==
    t.proceeds * (Bps + (-t.sell)) - t.cost * (Bps + (t.buy + t.latency + t.risk)) - Bps * t.other

\* Both come to the same, and only who sells for no less than he buys for has any.
LEMMA ProfitByUnit ==
    ASSUME NEW t \in Terms
    PROVE  /\ Profit(t) = ByUnit(t)
           /\ Profit(t) \in Int
           /\ Profit(t) >= 0 => t.proceeds >= t.cost
<1>1. Bps \in Nat \ {0}
  BY DecisionsAssumption DEF Scanner!ScanAssumption
<1>2. PICK c, r, b, s, l, k, o :
         /\ c = t.cost /\ r = t.proceeds /\ b = t.buy /\ s = t.sell
         /\ l = t.latency /\ k = t.risk /\ o = t.other
         /\ c \in Nat /\ r \in Nat /\ b \in Nat /\ s \in Nat
         /\ l \in Nat /\ k \in Nat /\ o \in Nat
  BY DEF Terms
<1>3. /\ Profit(t) = Bps * (r - c) - (c * b + r * s) - c * l - Bps * o - c * k
      /\ ByUnit(t) = r * (Bps + (-s)) - c * (Bps + (b + l + k)) - Bps * o
  BY <1>2 DEF Profit, ByUnit
<1>4. /\ r * (Bps + (-s)) = r * Bps - r * s
      /\ c * (Bps + (b + l + k)) = c * Bps + c * b + c * l + c * k
      /\ Bps * (r - c) = r * Bps - c * Bps
  <2>0. PICK d : d = Bps /\ d \in Int
    BY <1>1
  <2>1. r * (d + (-s)) = r * d - r * s
    BY <1>2, <2>0
  <2>2. c * (d + (b + l + k)) = c * d + c * b + c * l + c * k
    BY <1>2, <2>0
  <2>3. d * (r - c) = r * d - c * d
    BY <1>2, <2>0
  <2> QED BY <2>0, <2>1, <2>2, <2>3
<1>5. PICK x, y, z, u, w, q, m : /\ x = r * Bps /\ y = c * Bps /\ z = r * s /\ u = c * b
                              /\ w = c * l /\ q = c * k /\ m = Bps * o
                              /\ x \in Nat /\ y \in Nat /\ z \in Nat /\ u \in Nat
                              /\ w \in Nat /\ q \in Nat /\ m \in Nat
  BY <1>1, <1>2
<1>6. Profit(t) = (x - y) - (u + z) - w - m - q
  BY <1>3, <1>4, <1>5
<1>7. ByUnit(t) = (x - z) - (y + u + w + q) - m
  BY <1>3, <1>4, <1>5
<1>8. Profit(t) >= 0 => x >= y
  BY <1>5, <1>6
<1>9. x >= y => r >= c
  BY <1>1, <1>2, <1>5
<1> QED BY <1>2, <1>5, <1>6, <1>7, <1>8, <1>9

\* What the strategy and the venues' answers leave of a direction that is accepted.
LEMMA Accepts ==
    ASSUME ScanInv, Scanner!Decide, NEW v \in Scanner!Accepted
    PROVE  /\ v \in Scanner!Venues /\ TermsOf(v) \in Terms
           /\ Profit(TermsOf(v)) >= Bps * Strategy.min_net_profit
           /\ Profit(TermsOf(v)) >= Total(Asks(v)) * Strategy.min_net_bps
<1>1. v \in Scanner!Venues /\ Scanner!RejectionReasons(v) = {}
  BY DEF Scanner!Accepted
<1>2. PICK o : o = Scanner!Other(v) /\ o \in Scanner!Venues
  BY <1>1, OtherVenue
<1>3. Scanner!AdmissionRejections(v) = {} /\ Scanner!AdmissionRejections(o) = {}
  BY <1>1, <1>2 DEF Scanner!RejectionReasons
<1>4. /\ Strategy.latency_loss_bps \in Nat /\ Strategy.risk_buffer_bps \in Nat
      /\ Strategy.rebalance_cost \in Nat /\ Strategy.other_direct_cost \in Nat
      /\ Strategy.min_net_profit \in Nat /\ Strategy.min_net_bps \in Nat
      /\ Bps \in Nat \ {0}
  BY DecisionsAssumption DEF Scanner!ScanAssumption, Scanner!ValidateConfig
<1>5. /\ answer[v].buy \in Nat /\ answer[o].sell \in Nat
      /\ Scanner!Account(v).fee.buy = answer[v].buy
      /\ Scanner!Account(o).fee.sell = answer[o].sell
  BY <1>1, <1>2, <1>3, <1>4, Admitted DEF ScanInv
<1>6. PICK c, r : /\ c = Total(Asks(v)) /\ r = Total(Bids(v))
                  /\ c \in Nat /\ r \in Nat
                  /\ Scanner!Cost(v).quote = c /\ Scanner!Proceeds(v).quote = r
  BY <1>1, DecideSweeps
<1>7. PICK t : t = TermsOf(v)
  OBVIOUS
<1>8. t \in Terms
  <2>1. Strategy.rebalance_cost + Strategy.other_direct_cost \in Nat
    BY <1>4
  <2> QED BY <1>2, <1>4, <1>5, <1>6, <1>7, <2>1 DEF TermsOf, Terms
<1>9. Scanner!AdmissionProfit(v, c, r) = Profit(t)
  BY <1>2, <1>5, <1>6, <1>7 DEF Scanner!AdmissionProfit, Scanner!Fees, Profit, TermsOf
<1>10. ~(Profit(t) < Bps * Strategy.min_net_profit) /\ ~(Profit(t) < c * Strategy.min_net_bps)
  BY <1>1, <1>6, <1>9 DEF Scanner!RejectionReasons
<1>11. /\ Profit(t) \in Int
       /\ Bps * Strategy.min_net_profit \in Int /\ c * Strategy.min_net_bps \in Int
  BY <1>4, <1>6, <1>8, ProfitByUnit
<1>12. Profit(t) >= Bps * Strategy.min_net_profit /\ Profit(t) >= c * Strategy.min_net_bps
  BY <1>10, <1>11
<1> QED BY <1>1, <1>6, <1>7, <1>8, <1>12

\* What AcceptedPaysOff says of one accepted direction.
Pays(d, buy) ==
    LET sell == Scanner!Other(buy)
        asks == d.feed[buy].book.asks
        net == Scanner!Worth(d.feed[sell].book.bids, -d.answer[sell].sell)
               - Scanner!Worth(asks, d.answer[buy].buy + Strategy.latency_loss_bps
                                     + Strategy.risk_buffer_bps)
               - Bps * (Strategy.rebalance_cost + Strategy.other_direct_cost)
    IN  /\ net >= Bps * Strategy.min_net_profit
        /\ Bps * net >= Scanner!Worth(asks, 0) * Strategy.min_net_bps

LEMMA DecidePays == ASSUME ScanInv, Scanner!Decide PROVE Scanner!AcceptedPaysOff'
<1>1. decision' = Scanner!DecisionEvent
  BY DEF Scanner!Decide
<1>2. ASSUME NEW v \in Scanner!Accepted PROVE Pays(Scanner!DecisionEvent, v)
  <2>1. PICK t, p : t = TermsOf(v) /\ p = Profit(t)
    OBVIOUS
  <2>2. /\ v \in Scanner!Venues /\ t \in Terms
        /\ p >= Bps * Strategy.min_net_profit /\ p >= Total(Asks(v)) * Strategy.min_net_bps
    BY <2>1, Accepts
  <2>3. p = ByUnit(t) /\ p \in Int
    BY <2>1, <2>2, ProfitByUnit
  <2>4. Bps \in Nat \ {0} /\ Strategy.min_net_bps \in Nat
    BY DecisionsAssumption DEF Scanner!ScanAssumption, Scanner!ValidateConfig
  <2>5. PICK c, r, s, a : /\ c = t.cost /\ r = t.proceeds /\ s = -t.sell
                          /\ a = t.buy + t.latency + t.risk
                          /\ c \in Nat /\ r \in Nat /\ s \in Int /\ a \in Int
    BY <2>2 DEF Terms
  <2>6. /\ c = Total(Asks(v)) /\ r = Total(Bids(v)) /\ s = -answer[Scanner!Other(v)].sell
        /\ a = answer[v].buy + Strategy.latency_loss_bps + Strategy.risk_buffer_bps
        /\ t.other = Strategy.rebalance_cost + Strategy.other_direct_cost
    BY <2>1, <2>5 DEF TermsOf
  <2>7. /\ Side(Asks(v)) /\ Scanner!Sweep(Asks(v), Quantity).remaining = 0
        /\ Side(Bids(v)) /\ Scanner!Sweep(Bids(v), Quantity).remaining = 0
    BY <2>2, DecideSweeps
  <2>8. /\ Scanner!Worth(Bids(v), s) = r * (Bps + s)
        /\ Scanner!Worth(Asks(v), a) = c * (Bps + a)
        /\ Scanner!Worth(Asks(v), 0) = c * (Bps + 0)
    BY <2>5, <2>6, <2>7, Filled
  <2>9. p = Scanner!Worth(Bids(v), s) - Scanner!Worth(Asks(v), a) - Bps * t.other
    BY <2>3, <2>5, <2>8 DEF ByUnit
  <2>10. Bps * p >= Scanner!Worth(Asks(v), 0) * Strategy.min_net_bps
    <3>1. PICK m, x : m = Strategy.min_net_bps /\ x = c * m /\ m \in Nat /\ x \in Nat /\ p >= x
      BY <2>2, <2>4, <2>5, <2>6
    <3>2. Bps * p >= Bps * x
      BY <2>3, <2>4, <3>1
    <3>3. (c * (Bps + 0)) * m = Bps * x
      BY <2>4, <2>5, <3>1
    <3> QED BY <2>8, <3>1, <3>2, <3>3
  <2>11. PICK net : /\ net = Scanner!Worth(Bids(v), s) - Scanner!Worth(Asks(v), a) - Bps * t.other
                    /\ net >= Bps * Strategy.min_net_profit
                    /\ Bps * net >= Scanner!Worth(Asks(v), 0) * Strategy.min_net_bps
    BY <2>2, <2>9, <2>10
  <2> QED BY <2>6, <2>11 DEF Pays, Asks, Bids, Scanner!DecisionEvent
<1>3. Scanner!DecisionEvent.accepted = Scanner!Accepted
  BY DEF Scanner!DecisionEvent
<1> DEFINE e == Scanner!DecisionEvent
<1>4. decision' = e /\ \A v \in e.accepted : Pays(e, v)
  BY <1>1, <1>2, <1>3
<1> HIDE DEF e
<1> QED BY <1>4 DEF Scanner!AcceptedPaysOff, Pays

LEMMA DecideOnce == ASSUME ScanInv, Scanner!Decide PROVE Scanner!OneDirection'
<1>1. decision' = Scanner!DecisionEvent /\ Scanner!DecisionEvent.accepted = Scanner!Accepted
  BY DEF Scanner!Decide, Scanner!DecisionEvent
<1>2. ASSUME NEW v \in Scanner!Accepted PROVE Total(Bids(v)) >= Total(Asks(v))
  <2>1. PICK t, p : t = TermsOf(v) /\ p = Profit(t)
    OBVIOUS
  <2>2. t \in Terms /\ p >= Bps * Strategy.min_net_profit
    BY <2>1, Accepts
  <2>3. p \in Int /\ (p >= 0 => t.proceeds >= t.cost)
    BY <2>1, <2>2, ProfitByUnit
  <2>4. p >= 0
    <3>1. Bps \in Nat /\ Strategy.min_net_profit \in Nat
      BY DecisionsAssumption DEF Scanner!ScanAssumption, Scanner!ValidateConfig
    <3>2. Bps * Strategy.min_net_profit \in Nat
      BY <3>1
    <3> QED BY <2>2, <2>3, <3>2
  <2> QED BY <2>1, <2>3, <2>4 DEF TermsOf
<1>3. ASSUME Scanner!Accepted = Scanner!Venues PROVE FALSE
  <2>1. PICK v, o : /\ v \in Scanner!Venues /\ o = Scanner!Other(v)
                    /\ o \in Scanner!Venues /\ Scanner!Other(o) = v
    BY TwoVenues, OtherVenue
  <2>2. /\ Total(Bids(v)) >= Total(Asks(v)) /\ Total(Bids(o)) >= Total(Asks(o))
    BY <1>2, <1>3, <2>1
  <2>3. /\ Total(Bids(o)) < Total(Asks(v)) /\ Total(Bids(v)) < Total(Asks(o))
        /\ Total(Asks(v)) \in Nat /\ Total(Bids(v)) \in Nat
        /\ Total(Asks(o)) \in Nat /\ Total(Bids(o)) \in Nat
    BY <2>1, DecideSweeps
  <2> QED BY <2>2, <2>3
<1> QED BY <1>1, <1>3 DEF Scanner!OneDirection

LEMMA DecideStep == ASSUME ScanInv, Scanner!Decide PROVE ScanInv'
<1>1. UNCHANGED <<now, feed, answer, asked>>
  BY DEF Scanner!Decide
<1> QED BY <1>1, DecideAdmits, DecidePays, DecideOnce DEF ScanInv

LEMMA ScanStep == ScanInv /\ [Scanner!Next]_scanVars => ScanInv'
<1> SUFFICES ASSUME ScanInv, [Scanner!Next]_scanVars PROVE ScanInv'
  OBVIOUS
<1>1. ASSUME decision' = Scanner!NoDecision
      PROVE  Scanner!AcceptedIsAdmitted' /\ Scanner!AcceptedPaysOff' /\ Scanner!OneDirection'
  BY <1>1 DEF Scanner!AcceptedIsAdmitted, Scanner!AcceptedPaysOff, Scanner!OneDirection
<1>2. CASE Scanner!Tick
  BY <1>1, <1>2 DEF Scanner!Tick, ScanInv
<1>3. ASSUME NEW v \in Scanner!Venues, NEW s \in Scanner!Status, Scanner!Publish(v, s) PROVE ScanInv'
  <2>1. /\ s = Scanner!Down \/ Scanner!ValidBook(s.book)
        /\ feed' = [feed EXCEPT ![v] = s]
        /\ decision' = Scanner!NoDecision
        /\ UNCHANGED <<now, answer, asked>>
    BY <1>3 DEF Scanner!Publish
  <2>2. feed' \in [Scanner!Venues -> Scanner!Status]
    BY <2>1 DEF ScanInv
  <2>3. s.state = "valid" => Scanner!ValidBook(s.book)
    BY <2>1 DEF Scanner!Down
  <2>4. \A w \in Scanner!Venues : feed'[w].state = "valid" => Scanner!ValidBook(feed'[w].book)
    BY <2>1, <2>3 DEF ScanInv
  <2> QED BY <1>1, <2>1, <2>2, <2>4 DEF ScanInv
<1>4. CASE Scanner!AccountTick
  BY <1>1, <1>4 DEF Scanner!AccountTick, ScanInv
<1>5. ASSUME NEW a \in Scanner!Refreshes, Scanner!AccountsLoaded(a) PROVE ScanInv'
  BY <1>1, <1>5 DEF Scanner!AccountsLoaded, ScanInv
<1>6. CASE Scanner!Skip \/ Scanner!TooThin
  BY <1>1, <1>6 DEF Scanner!Skip, Scanner!TooThin, ScanInv
<1>7. CASE Scanner!Decide
  BY <1>7, DecideStep
<1>8. CASE UNCHANGED scanVars
  BY <1>8 DEF scanVars, ScanInv, Scanner!AcceptedIsAdmitted, Scanner!AcceptedPaysOff,
              Scanner!OneDirection
<1> QED BY <1>2, <1>3, <1>4, <1>5, <1>6, <1>7, <1>8 DEF Scanner!Next

LEMMA ScanAlways == Spec => [](part = "scan" => ScanInv)
<1> DEFINE Inv == part = "scan" => ScanInv
<1>1. Init => Inv
  BY ScanInit DEF Init
<1>2. Inv /\ [Next]_vars => Inv'
  <2> SUFFICES ASSUME Inv, [Next]_vars, part' = "scan" PROVE ScanInv'
    OBVIOUS
  <2>1. part = "scan" /\ ScanInv
    BY DEF Next, vars, OfScan, OfArchive, OfLeg, OfRun, OfQuery
  <2>2. [Scanner!Next]_scanVars
    BY <2>1 DEF Next, vars, scanVars, OfScan, OfArchive, OfLeg, OfRun, OfQuery
  <2> QED BY <2>1, <2>2, ScanStep
<1> QED BY <1>1, <1>2, PTL DEF Spec

\* What the scan accepts was decided on fresh books, of about the same time, and on
\* actual fees of read-only accounts of an eligible owner, loaded recently enough:
\* for every book, clock, limit and answer of the venues.
THEOREM OnlyAdmittedIsAccepted == Spec => []AcceptedIsAdmitted
<1>1. (part = "scan" => ScanInv) => AcceptedIsAdmitted
  BY DEF ScanInv, AcceptedIsAdmitted
<1> QED BY <1>1, ScanAlways, PTL

\* What the scan accepts earns the minimum profit and the minimum rate unit by unit, at
\* the prices of the levels the sweep takes it from and after every fee and cost, and
\* it is never accepted in both directions: for every book that validate lets through,
\* of any depth, and every quantity, rate and strategy.
THEOREM AcceptedAlwaysPays == Spec => []AcceptedPaysOff
<1>1. (part = "scan" => ScanInv) => AcceptedPaysOff
  BY DEF ScanInv, AcceptedPaysOff
<1> QED BY <1>1, ScanAlways, PTL

-----------------------------------------------------------------------------
(* The run *)

\* Where a run goes leaves all but its place as it was.
MovedTo(r, place) ==
    /\ simulation' \in [Simulations -> [pc : Simulation!Steps, stamp : Simulation!Stamps,
                          dir : {"a", "b"}, content : Contents \cup {None},
                          accepted : SUBSET Simulation!Legs,
                          fill : [Simulation!Legs -> 0 .. Target]]]
    /\ simulation'[r].pc = place
    /\ simulation'[r].stamp = simulation[r].stamp /\ simulation'[r].dir = simulation[r].dir
    /\ simulation'[r].content = simulation[r].content
    /\ \A q \in Simulations \ {r} : simulation'[q] = simulation[q]

SameBooks(r) ==
    /\ simulation'[r].accepted = simulation[r].accepted
    /\ simulation'[r].fill = simulation[r].fill

LEMMA PlacesAreSteps ==
    /\ Simulation!Legs = {"buy", "sell"}
    /\ {"off", "fund", "precheck", "reject", "reserve", "replay", "initialize", "submit_buy",
        "answer_buy", "query_buy", "submit_sell", "answer_sell", "query_sell", "match",
        "book_buy", "book_sell", "evaluate", "persist", "done", "failed"} = Simulation!Steps
    /\ Simulation!SubmitStep["buy"] = "submit_buy" /\ Simulation!SubmitStep["sell"] = "submit_sell"
    /\ Simulation!AnswerStep["buy"] = "answer_buy" /\ Simulation!AnswerStep["sell"] = "answer_sell"
    /\ Simulation!QueryStep["buy"] = "query_buy" /\ Simulation!QueryStep["sell"] = "query_sell"
    /\ Simulation!BookStep["buy"] = "book_buy" /\ Simulation!BookStep["sell"] = "book_sell"
    /\ Simulation!AfterConfirm["buy"] = "submit_sell" /\ Simulation!AfterConfirm["sell"] = "match"
    /\ Simulation!AfterBook["buy"] = "book_sell" /\ Simulation!AfterBook["sell"] = "evaluate"
<1>1. Simulation!Legs = {"buy", "sell"}
  BY DEF Simulation!Legs
<1>2. /\ Simulation!SubmitStep["buy"] = "submit_buy" /\ Simulation!SubmitStep["sell"] = "submit_sell"
      /\ Simulation!AnswerStep["buy"] = "answer_buy" /\ Simulation!AnswerStep["sell"] = "answer_sell"
      /\ Simulation!QueryStep["buy"] = "query_buy" /\ Simulation!QueryStep["sell"] = "query_sell"
      /\ Simulation!BookStep["buy"] = "book_buy" /\ Simulation!BookStep["sell"] = "book_sell"
  BY DEF Simulation!SubmitStep, Simulation!AnswerStep, Simulation!QueryStep, Simulation!BookStep
<1>3. {f[l] : f \in {Simulation!SubmitStep, Simulation!AnswerStep, Simulation!QueryStep,
                     Simulation!BookStep}, l \in Simulation!Legs}
      = {"submit_buy", "answer_buy", "query_buy", "submit_sell", "answer_sell", "query_sell",
         "book_buy", "book_sell"}
  BY <1>1, <1>2
<1>4. /\ Simulation!AfterConfirm["buy"] = "submit_sell" /\ Simulation!AfterConfirm["sell"] = "match"
      /\ Simulation!AfterBook["buy"] = "book_sell" /\ Simulation!AfterBook["sell"] = "evaluate"
  BY DEF Simulation!AfterConfirm, Simulation!AfterBook
<1>5. Simulation!Steps =
        {"off", "fund", "precheck", "reject", "reserve", "replay", "initialize", "match",
         "evaluate", "persist", "done", "failed"}
        \cup {"submit_buy", "answer_buy", "query_buy", "submit_sell", "answer_sell", "query_sell",
              "book_buy", "book_sell"}
  BY <1>3 DEF Simulation!Steps
<1>6. {"off", "fund", "precheck", "reject", "reserve", "replay", "initialize", "submit_buy",
        "answer_buy", "query_buy", "submit_sell", "answer_sell", "query_sell", "match",
        "book_buy", "book_sell", "evaluate", "persist", "done", "failed"} = Simulation!Steps
  BY <1>5
<1> QED BY <1>1, <1>2, <1>4, <1>6

LEMMA GoMoves ==
    ASSUME Simulation!TypeOK, NEW r \in Simulations, NEW place \in Simulation!Steps,
           Simulation!Go(r, place)
    PROVE  MovedTo(r, place) /\ SameBooks(r)
<1>1. PICK old \in [pc : Simulation!Steps, stamp : Simulation!Stamps,
                    dir : {"a", "b"}, content : Contents \cup {None},
                    accepted : SUBSET Simulation!Legs,
                    fill : [Simulation!Legs -> 0 .. Target]] : old = simulation[r]
  BY DEF Simulation!TypeOK
<1>2. PICK new : new = [old EXCEPT !.pc = place]
  OBVIOUS
<1>3. simulation' = [simulation EXCEPT ![r] = new]
  BY <1>1, <1>2 DEF Simulation!Go
<1>4. /\ new \in [pc : Simulation!Steps, stamp : Simulation!Stamps,
                   dir : {"a", "b"}, content : Contents \cup {None},
                   accepted : SUBSET Simulation!Legs,
                   fill : [Simulation!Legs -> 0 .. Target]]
      /\ new.pc = place /\ new.stamp = old.stamp /\ new.dir = old.dir
      /\ new.content = old.content /\ new.accepted = old.accepted /\ new.fill = old.fill
  BY <1>2
<1> QED BY <1>1, <1>3, <1>4 DEF Simulation!TypeOK, MovedTo, SameBooks

\* At such a place a run writes to the plan it has reserved.
Drives(place) == place \notin {"off", "fund", "precheck", "reject", "reserve", "replay", "done", "failed"}

\* A stamp has one plan, a plan the run that reserved it and no other: that run goes on
\* with it or has ended.
PlansInv ==
    /\ \A p, q \in plans : p.key.stamp = q.key.stamp => p = q
    /\ \A p \in plans : /\ p.key = Simulation!KeyOf(p.by)
                        /\ \/ Drives(simulation[p.by].pc)
                           \/ simulation[p.by].pc \in {"done", "failed"}
    /\ \A r \in Simulations : Drives(simulation[r].pc) => \E p \in plans : p.by = r

Sent(i) == submission[i] \in {"ACCEPTED", "UNKNOWN"}

\* Where a run has sent its order of a leg, and where it has booked the leg.
PastLeg == [buy |-> {"submit_sell", "answer_sell", "query_sell", "match", "book_buy",
                     "book_sell", "evaluate", "persist"},
            sell |-> {"match", "book_buy", "book_sell", "evaluate", "persist"}]
BookedLeg == [buy |-> {"book_sell", "evaluate", "persist"}, sell |-> {"evaluate", "persist"}]

\* What is in the tables of orders and plans goes back to a plan.
TablesInv ==
    /\ \A i \in Simulation!Intents : submission[i] # "NOT_SENT" =>
          \E p \in plans : p.key.stamp = i.stamp /\ facts[p.key] # None
    /\ \A k \in Simulation!Keys : facts[k] # None =>
          /\ \E p \in plans : p.key = k
          /\ facts[k] # "PLANNED" => \A l \in Simulation!Legs : Sent([stamp |-> k.stamp, leg |-> l])
    /\ \A t \in trades : order[t.intent] = t.trade.order /\ submission[t.intent] = "ACCEPTED"

\* What the run that goes on with a plan knows of its orders.
DriverInv(r) ==
    /\ simulation[r].pc = "off" => simulation[r].accepted = {}
    /\ simulation[r].pc # "off" => simulation[r].content \in Contents
    /\ \A l \in simulation[r].accepted : submission[Simulation!IntentOf(r, l)] = "ACCEPTED"
    /\ Drives(simulation[r].pc) =>
        /\ simulation[r].pc # "initialize" => facts[Simulation!KeyOf(r)] # None
        /\ \A l \in Simulation!Legs :
             /\ simulation[r].pc = Simulation!AnswerStep[l] =>
                   submission[Simulation!IntentOf(r, l)] = "IN_FLIGHT"
             /\ simulation[r].pc = Simulation!QueryStep[l] =>
                   submission[Simulation!IntentOf(r, l)] = "UNKNOWN"
             /\ simulation[r].pc \in PastLeg[l] => Sent(Simulation!IntentOf(r, l))
             /\ submission[Simulation!IntentOf(r, l)] = "ACCEPTED" => l \in simulation[r].accepted
             /\ simulation[r].pc \notin BookedLeg[l] =>
                   \A t \in trades : t.intent # Simulation!IntentOf(r, l)
             /\ simulation[r].pc \in BookedLeg[l] /\ submission[Simulation!IntentOf(r, l)] = "ACCEPTED" =>
                   Simulation!Booked(Simulation!KeyOf(r), l)
                     = (IF simulation[r].fill[l] > 0 THEN {simulation[r].fill[l]} ELSE {})

\* A report is of a run that has ended, and says what it left.
ReportInv(q) ==
    /\ simulation[q.by].pc = "done"
    /\ IF q.kind = "persist"
       THEN /\ \E p \in plans : p.key = q.key /\ p.by = q.by
            /\ facts[q.key] = q.state
            /\ \A l \in Simulation!Legs : submission[[stamp |-> q.key.stamp, leg |-> l]] = "ACCEPTED" =>
                  Simulation!Booked(q.key, l) = (IF q.fill[l] > 0 THEN {q.fill[l]} ELSE {})
       ELSE \A p \in plans : p.by # q.by

RunInv ==
    /\ Simulation!TypeOK
    /\ PlansInv
    /\ TablesInv
    /\ \A r \in Simulations : DriverInv(r)
    /\ \A q \in reports : ReportInv(q)

LEMMA RunInit == Simulation!Init => RunInv
<1> SUFFICES ASSUME Simulation!Init PROVE RunInv
  OBVIOUS
<1>1. Simulation!TypeOK
  <2>1. 1 \in Simulation!Stamps /\ 0 \in 0 .. Target
    BY DecisionsAssumption DEF Simulation!RunAssumption, Simulation!Stamps
  <2>2. "off" \in Simulation!Steps
    BY PlacesAreSteps
  <2>3. /\ submission \in [Simulation!Intents -> {"NOT_SENT", "IN_FLIGHT", "UNKNOWN", "ACCEPTED"}]
        /\ cancel \in [Simulation!Intents -> {"NONE"}]
        /\ order \in [Simulation!Intents -> Simulation!Intents \cup {None}]
        /\ trades = {}
    BY DEF Simulation!Init, Simulation!Orders!Init
  <2>4. simulation \in [Simulations -> [pc : Simulation!Steps, stamp : Simulation!Stamps,
                          dir : {"a", "b"}, content : Contents \cup {None},
                          accepted : SUBSET Simulation!Legs,
                          fill : [Simulation!Legs -> 0 .. Target]]]
    BY <2>1, <2>2 DEF Simulation!Init
  <2> QED BY <2>1, <2>3, <2>4 DEF Simulation!Init, Simulation!TypeOK
<1>2. PlansInv
  BY DEF Simulation!Init, PlansInv, Drives
<1>3. TablesInv
  BY DEF Simulation!Init, Simulation!Orders!Init, TablesInv
<1>4. \A r \in Simulations : DriverInv(r)
  BY DEF Simulation!Init, DriverInv, Drives
<1> QED BY <1>1, <1>2, <1>3, <1>4 DEF RunInv, Simulation!Init

\* The promises that follow.
LEMMA RunPromise ==
    RunInv => Simulation!OneDriver /\ Simulation!FactsInOrder /\ Simulation!ReportsMatchFacts
<1> SUFFICES ASSUME RunInv
             PROVE  Simulation!OneDriver /\ Simulation!FactsInOrder /\ Simulation!ReportsMatchFacts
  OBVIOUS
<1>1. Simulation!OneDriver
  <2> SUFFICES ASSUME NEW r \in Simulations, NEW q \in Simulations, r # q,
                      Simulation!Driving(r), Simulation!Driving(q),
                      simulation[r].stamp = simulation[q].stamp
               PROVE  FALSE
    BY DEF Simulation!OneDriver
  <2>1. PICK p \in plans : p.by = r
    BY DEF RunInv, PlansInv, Simulation!Driving, Drives
  <2>2. PICK s \in plans : s.by = q
    BY DEF RunInv, PlansInv, Simulation!Driving, Drives
  <2>3. p.key.stamp = simulation[r].stamp /\ s.key.stamp = simulation[q].stamp
    <3>1. p.key = Simulation!KeyOf(r) /\ s.key = Simulation!KeyOf(q)
      BY <2>1, <2>2 DEF RunInv, PlansInv
    <3> QED BY <3>1 DEF Simulation!KeyOf
  <2> QED BY <2>1, <2>2, <2>3 DEF RunInv, PlansInv
<1>2. Simulation!FactsInOrder
  BY DEF RunInv, TablesInv, Sent, Simulation!FactsInOrder
<1>3. Simulation!ReportsMatchFacts
  BY DEF RunInv, ReportInv, Simulation!ReportsMatchFacts
<1> QED BY <1>1, <1>2, <1>3

\* No two runs go on with the same plan or have orders in common.
LEMMA OwnPlans ==
    ASSUME RunInv, NEW r \in Simulations, NEW q \in Simulations, r # q,
           Drives(simulation[r].pc), Drives(simulation[q].pc)
    PROVE  simulation[r].stamp # simulation[q].stamp
BY RunPromise DEF Simulation!OneDriver, Simulation!Driving, Drives

\* What a run that goes on finds of itself.
LEMMA DriverFacts ==
    ASSUME RunInv, NEW r \in Simulations
    PROVE  /\ simulation[r].stamp \in Simulation!Stamps
           /\ Simulation!KeyOf(r) \in Simulation!Keys
           /\ \A l \in Simulation!Legs : Simulation!IntentOf(r, l) \in Simulation!Intents
           /\ Drives(simulation[r].pc) =>
                \E p \in plans : p.by = r /\ p.key = Simulation!KeyOf(r)
<1>1. simulation[r].stamp \in Simulation!Stamps /\ simulation[r].dir \in {"a", "b"}
  BY DEF RunInv, Simulation!TypeOK
<1>2. Drives(simulation[r].pc) => \E p \in plans : p.by = r /\ p.key = Simulation!KeyOf(r)
  BY DEF RunInv, PlansInv
<1> QED BY <1>1, <1>2 DEF Simulation!KeyOf, Simulation!Keys, Simulation!IntentOf, Simulation!Intents

\* A step of a run that moves on with the plans as they are.
LEMMA PlansKept ==
    ASSUME RunInv, NEW r \in Simulations, NEW place, MovedTo(r, place), plans' = plans,
           Drives(place) => Drives(simulation[r].pc),
           Drives(simulation[r].pc) \/ simulation[r].pc \in {"done", "failed"} =>
              Drives(place) \/ place \in {"done", "failed"}
    PROVE  PlansInv'
<1>1. \A p \in plans : p.by \in Simulations
  BY DEF RunInv, Simulation!TypeOK
<1>2. \A q \in Simulations : Simulation!KeyOf(q)' = Simulation!KeyOf(q)
  BY DEF MovedTo, Simulation!KeyOf
<1>3. ASSUME NEW p \in plans
      PROVE  /\ p.key = Simulation!KeyOf(p.by)'
             /\ Drives(simulation'[p.by].pc) \/ simulation'[p.by].pc \in {"done", "failed"}
  <2>1. PICK q \in Simulations : q = p.by
    BY <1>1
  <2>2. p.key = Simulation!KeyOf(q) /\ (Drives(simulation[q].pc) \/ simulation[q].pc \in {"done", "failed"})
    BY <2>1 DEF RunInv, PlansInv
  <2>3. Drives(simulation'[q].pc) \/ simulation'[q].pc \in {"done", "failed"}
    BY <2>2 DEF MovedTo
  <2>4. p.key = Simulation!KeyOf(q)'
    BY <1>2, <2>2
  <2> QED BY <2>1, <2>3, <2>4
<1>4. ASSUME NEW q \in Simulations, Drives(simulation'[q].pc) PROVE \E p \in plans : p.by = q
  <2>1. Drives(simulation[q].pc)
    BY <1>4 DEF MovedTo
  <2> QED BY <2>1 DEF RunInv, PlansInv
<1> QED BY <1>3, <1>4 DEF RunInv, PlansInv

\* Such a step of r writes to no rows but those of its plan, and takes nothing back.
OwnRows(r) ==
    /\ plans' = plans
    /\ \A i \in Simulation!Intents :
          /\ i.stamp # simulation[r].stamp => submission'[i] = submission[i]
          /\ submission[i] = "ACCEPTED" => submission'[i] = "ACCEPTED"
    /\ \A k \in Simulation!Keys :
          /\ k # Simulation!KeyOf(r) => facts'[k] = facts[k]
          /\ facts[k] # None => facts'[k] # None
    /\ trades \subseteq trades'
    /\ \A t \in trades' \ trades : t.intent.stamp = simulation[r].stamp

\* Then the trades of another stamp stay as they are.
LEMMA OtherTrades ==
    ASSUME NEW r \in Simulations, OwnRows(r), NEW i, i.stamp # simulation[r].stamp
    PROVE  {u \in trades' : u.intent = i} = {u \in trades : u.intent = i}
BY DEF OwnRows

LEMMA OtherDrivers ==
    ASSUME RunInv, NEW r \in Simulations, Drives(simulation[r].pc), OwnRows(r),
           NEW q \in Simulations \ {r}, simulation'[q] = simulation[q]
    PROVE  DriverInv(q)'
<1>1. /\ Simulation!KeyOf(q)' = Simulation!KeyOf(q)
      /\ \A l \in Simulation!Legs : Simulation!IntentOf(q, l)' = Simulation!IntentOf(q, l)
  BY DEF Simulation!KeyOf, Simulation!IntentOf
<1>2. simulation[q].accepted \subseteq Simulation!Legs
  BY DEF RunInv, Simulation!TypeOK
<1>3. \A l \in simulation[q].accepted : submission'[Simulation!IntentOf(q, l)] = "ACCEPTED"
  BY <1>2, DriverFacts DEF RunInv, DriverInv, OwnRows
<1>4. CASE ~Drives(simulation[q].pc)
  BY <1>1, <1>2, <1>3, <1>4 DEF RunInv, DriverInv
<1>5. CASE Drives(simulation[q].pc)
  <2>1. simulation[q].stamp # simulation[r].stamp
    BY <1>5, OwnPlans
  <2>2. Simulation!KeyOf(q) # Simulation!KeyOf(r) /\ Simulation!KeyOf(q) \in Simulation!Keys
    <3>1. Simulation!KeyOf(q).stamp = simulation[q].stamp /\ Simulation!KeyOf(r).stamp = simulation[r].stamp
      BY DEF Simulation!KeyOf
    <3> QED BY <2>1, <3>1, DriverFacts
  <2>3. facts'[Simulation!KeyOf(q)] = facts[Simulation!KeyOf(q)]
    BY <2>2 DEF OwnRows
  <2>4. ASSUME NEW l \in Simulation!Legs
        PROVE  /\ Simulation!IntentOf(q, l).stamp # simulation[r].stamp
               /\ submission'[Simulation!IntentOf(q, l)] = submission[Simulation!IntentOf(q, l)]
               /\ \A t \in trades' : t.intent = Simulation!IntentOf(q, l) => t \in trades
               /\ Simulation!Booked(Simulation!KeyOf(q), l)' = Simulation!Booked(Simulation!KeyOf(q), l)
    <3>1. Simulation!IntentOf(q, l).stamp = simulation[q].stamp
      BY DEF Simulation!IntentOf
    <3>2. submission'[Simulation!IntentOf(q, l)] = submission[Simulation!IntentOf(q, l)]
      BY <2>1, <3>1, DriverFacts DEF OwnRows
    <3>3. \A t \in trades' : t.intent = Simulation!IntentOf(q, l) => t \in trades
      BY <2>1, <3>1 DEF OwnRows
    <3>4. [stamp |-> Simulation!KeyOf(q).stamp, leg |-> l].stamp # simulation[r].stamp
      BY <2>1 DEF Simulation!KeyOf
    <3>5. Simulation!Booked(Simulation!KeyOf(q), l)' = Simulation!Booked(Simulation!KeyOf(q), l)
      BY <1>1, <3>4, OtherTrades DEF Simulation!Booked
    <3> QED BY <2>1, <3>1, <3>2, <3>3, <3>5
  <2>5. DriverInv(q)
    BY DEF RunInv
  <2>6. /\ simulation[q].pc = "off" => simulation[q].accepted = {}
        /\ simulation[q].pc # "off" => simulation[q].content \in Contents
        /\ simulation[q].pc # "initialize" => facts'[Simulation!KeyOf(q)] # None
    BY <1>5, <2>3, <2>5 DEF DriverInv
  <2>7. ASSUME NEW l \in Simulation!Legs
        PROVE  /\ simulation[q].pc = Simulation!AnswerStep[l] =>
                     submission'[Simulation!IntentOf(q, l)] = "IN_FLIGHT"
               /\ simulation[q].pc = Simulation!QueryStep[l] =>
                     submission'[Simulation!IntentOf(q, l)] = "UNKNOWN"
               /\ simulation[q].pc \in PastLeg[l] =>
                     submission'[Simulation!IntentOf(q, l)] \in {"ACCEPTED", "UNKNOWN"}
               /\ submission'[Simulation!IntentOf(q, l)] = "ACCEPTED" => l \in simulation[q].accepted
    BY <1>5, <2>4, <2>5 DEF DriverInv, Sent
  <2>8. ASSUME NEW l \in Simulation!Legs
        PROVE  /\ simulation[q].pc \notin BookedLeg[l] =>
                     \A t \in trades' : t.intent # Simulation!IntentOf(q, l)
               /\ simulation[q].pc \in BookedLeg[l]
                  /\ submission'[Simulation!IntentOf(q, l)] = "ACCEPTED" =>
                     Simulation!Booked(Simulation!KeyOf(q), l)'
                       = (IF simulation[q].fill[l] > 0 THEN {simulation[q].fill[l]} ELSE {})
    BY <1>5, <2>4, <2>5 DEF DriverInv
  <2>9. \A l \in Simulation!Legs : Sent(Simulation!IntentOf(q, l))'
                                 <=> submission'[Simulation!IntentOf(q, l)] \in {"ACCEPTED", "UNKNOWN"}
    BY <1>1 DEF Sent
  <2>10. /\ simulation'[q].pc = "off" => simulation'[q].accepted = {}
         /\ simulation'[q].pc # "off" => simulation'[q].content \in Contents
         /\ \A l \in simulation'[q].accepted : submission'[Simulation!IntentOf(q, l)'] = "ACCEPTED"
    BY <1>1, <1>2, <1>3, <2>6
  <2>11. ASSUME NEW l \in Simulation!Legs
         PROVE (/\ simulation[q].pc = Simulation!AnswerStep[l] =>
                   submission[Simulation!IntentOf(q, l)] = "IN_FLIGHT"
                /\ simulation[q].pc = Simulation!QueryStep[l] =>
                   submission[Simulation!IntentOf(q, l)] = "UNKNOWN"
                /\ simulation[q].pc \in PastLeg[l] => Sent(Simulation!IntentOf(q, l))
                /\ submission[Simulation!IntentOf(q, l)] = "ACCEPTED" => l \in simulation[q].accepted)'
    BY <1>1, <2>7, <2>9
  <2>12. ASSUME NEW l \in Simulation!Legs
         PROVE (/\ simulation[q].pc \notin BookedLeg[l] =>
                   \A t \in trades : t.intent # Simulation!IntentOf(q, l)
                /\ simulation[q].pc \in BookedLeg[l] /\ submission[Simulation!IntentOf(q, l)] = "ACCEPTED" =>
                   Simulation!Booked(Simulation!KeyOf(q), l)
                     = (IF simulation[q].fill[l] > 0 THEN {simulation[q].fill[l]} ELSE {}))'
    BY <1>1, <2>8
  <2>13. (simulation[q].pc # "initialize" => facts[Simulation!KeyOf(q)] # None)'
    BY <1>1, <2>6
  <2> QED BY <2>10, <2>11, <2>12, <2>13 DEF DriverInv
<1> QED BY <1>4, <1>5

LEMMA OtherReports ==
    ASSUME RunInv, NEW r \in Simulations, Drives(simulation[r].pc), OwnRows(r),
           \A q \in Simulations \ {r} : simulation'[q] = simulation[q],
           NEW q \in reports
    PROVE  ReportInv(q)'
<1>1. q.by \in Simulations /\ simulation[q.by].pc = "done" /\ q.by # r /\ q.key \in Simulation!Keys
  BY DEF RunInv, ReportInv, Simulation!TypeOK, Drives
<1>2. simulation'[q.by].pc = "done"
  BY <1>1
<1>3. CASE q.kind # "persist"
  BY <1>2, <1>3 DEF RunInv, ReportInv, OwnRows
<1>4. CASE q.kind = "persist"
  <2>1. PICK p \in plans : p.key = q.key /\ p.by = q.by
    BY <1>4 DEF RunInv, ReportInv
  <2>2. PICK s \in plans : s.by = r /\ s.key = Simulation!KeyOf(r)
    BY DriverFacts
  <2>3. q.key.stamp # simulation[r].stamp /\ q.key # Simulation!KeyOf(r)
    <3>1. s.key.stamp = simulation[r].stamp
      BY <2>2 DEF Simulation!KeyOf
    <3>2. s.key.stamp # p.key.stamp
      BY <1>1, <2>1, <2>2 DEF RunInv, PlansInv
    <3> QED BY <2>1, <2>2, <3>1, <3>2
  <2>4. facts'[q.key] = facts[q.key]
    BY <1>1, <2>3 DEF OwnRows
  <2>5. ASSUME NEW l \in Simulation!Legs
        PROVE  /\ submission'[[stamp |-> q.key.stamp, leg |-> l]] = submission[[stamp |-> q.key.stamp, leg |-> l]]
               /\ Simulation!Booked(q.key, l)' = Simulation!Booked(q.key, l)
    <3> DEFINE i == [stamp |-> q.key.stamp, leg |-> l]
    <3>1. i \in Simulation!Intents /\ i.stamp # simulation[r].stamp
      BY <1>1, <2>3 DEF Simulation!Intents, Simulation!Keys
    <3>2. submission'[i] = submission[i]
      BY <3>1 DEF OwnRows
    <3>3. {u \in trades' : u.intent = i} = {u \in trades : u.intent = i}
      BY <3>1, OtherTrades
    <3> QED BY <3>2, <3>3 DEF Simulation!Booked
  <2>6. ReportInv(q)
    BY DEF RunInv
  <2>7. plans' = plans
    BY DEF OwnRows
  <2> QED BY <1>2, <1>4, <2>4, <2>5, <2>6, <2>7 DEF ReportInv
<1> QED BY <1>3, <1>4

\* A run that has no plan moves on and writes to none of these tables.
LEMMA AsideStep ==
    ASSUME RunInv, NEW r \in Simulations, Simulation!TypeOK',
           ~Drives(simulation[r].pc), simulation[r].pc \notin {"done", "failed"},
           ~Drives(simulation'[r].pc), simulation'[r].pc # "off",
           simulation'[r].accepted = simulation[r].accepted,
           simulation'[r].content \in Contents,
           \/ simulation[r].pc = "off"
           \/ simulation'[r].stamp = simulation[r].stamp /\ simulation'[r].dir = simulation[r].dir,
           \A q \in Simulations \ {r} : simulation'[q] = simulation[q],
           UNCHANGED <<plans, facts, submission, order, trades>>
    PROVE  /\ PlansInv' /\ TablesInv'
           /\ \A q \in Simulations : DriverInv(q)'
           /\ \A q \in reports : ReportInv(q)'
<1>1. \A p \in plans : p.by \in Simulations /\ p.by # r
  BY DEF RunInv, PlansInv, Simulation!TypeOK
<1>2. PlansInv'
  <2>1. ASSUME NEW p \in plans
        PROVE  /\ p.key = Simulation!KeyOf(p.by)'
               /\ Drives(simulation'[p.by].pc) \/ simulation'[p.by].pc \in {"done", "failed"}
    <3>1. simulation'[p.by] = simulation[p.by]
      BY <1>1
    <3> QED BY <3>1 DEF RunInv, PlansInv, Simulation!KeyOf
  <2>2. ASSUME NEW q \in Simulations, Drives(simulation'[q].pc) PROVE \E p \in plans : p.by = q
    BY <2>2 DEF RunInv, PlansInv
  <2> QED BY <2>1, <2>2 DEF RunInv, PlansInv
<1>3. TablesInv'
  BY DEF RunInv, TablesInv, Sent
<1>4. ASSUME NEW q \in Simulations \ {r} PROVE DriverInv(q)'
  <2>1. DriverInv(q) /\ simulation'[q] = simulation[q]
    BY DEF RunInv
  <2>2. /\ Simulation!KeyOf(q)' = Simulation!KeyOf(q)
        /\ \A l \in Simulation!Legs : Simulation!IntentOf(q, l)' = Simulation!IntentOf(q, l)
    BY DEF Simulation!KeyOf, Simulation!IntentOf
  <2>3. \A l \in Simulation!Legs :
           Simulation!Booked(Simulation!KeyOf(q), l)' = Simulation!Booked(Simulation!KeyOf(q), l)
    BY <2>2 DEF Simulation!Booked
  <2>4. simulation[q].accepted \subseteq Simulation!Legs
    BY DEF RunInv, Simulation!TypeOK
  <2> QED BY <2>1, <2>2, <2>3, <2>4 DEF DriverInv, Sent
<1>5. DriverInv(r)'
  BY DEF RunInv, DriverInv, Simulation!IntentOf
<1>6. ASSUME NEW q \in reports PROVE ReportInv(q)'
  <2>1. ReportInv(q) /\ q.by \in Simulations
    BY DEF RunInv, Simulation!TypeOK
  <2>2. simulation'[q.by] = simulation[q.by]
    BY <2>1 DEF ReportInv
  <2> QED BY <2>1, <2>2 DEF ReportInv, Simulation!Booked
<1> QED BY <1>2, <1>3, <1>4, <1>5, <1>6

LEMMA StartStep ==
    ASSUME RunInv, NEW r \in Simulations, NEW d \in {"a", "b"}, NEW c \in Contents,
           Simulation!Start(r, d, c)
    PROVE  RunInv'
<1>1. /\ simulation[r].pc = "off"
      /\ simulation' = [simulation EXCEPT ![r].pc = "fund", ![r].stamp = clock, ![r].dir = d,
                                          ![r].content = c]
      /\ UNCHANGED <<clock, funds, plans, facts, submission, cancel, order, trades, reports>>
  BY DEF Simulation!Start, Simulation!At, Simulation!orders
<1>2. "fund" \in Simulation!Steps /\ clock \in Simulation!Stamps
  BY PlacesAreSteps DEF RunInv, Simulation!TypeOK
<1>3. /\ simulation' \in [Simulations -> [pc : Simulation!Steps, stamp : Simulation!Stamps,
                          dir : {"a", "b"}, content : Contents \cup {None},
                          accepted : SUBSET Simulation!Legs,
                          fill : [Simulation!Legs -> 0 .. Target]]]
      /\ simulation'[r].pc = "fund" /\ simulation'[r].accepted = simulation[r].accepted
      /\ simulation'[r].content = c
      /\ \A q \in Simulations \ {r} : simulation'[q] = simulation[q]
  <2>1. simulation \in [Simulations -> [pc : Simulation!Steps, stamp : Simulation!Stamps,
                          dir : {"a", "b"}, content : Contents \cup {None},
                          accepted : SUBSET Simulation!Legs,
                          fill : [Simulation!Legs -> 0 .. Target]]]
    BY DEF RunInv, Simulation!TypeOK
  <2> DEFINE moved == [simulation EXCEPT ![r].pc = "fund", ![r].stamp = clock]
  <2>2. /\ moved \in [Simulations -> [pc : Simulation!Steps, stamp : Simulation!Stamps,
                          dir : {"a", "b"}, content : Contents \cup {None},
                          accepted : SUBSET Simulation!Legs,
                          fill : [Simulation!Legs -> 0 .. Target]]]
        /\ moved[r].pc = "fund" /\ moved[r].accepted = simulation[r].accepted
        /\ \A q \in Simulations \ {r} : moved[q] = simulation[q]
    <3>1. PICK new : new = [simulation[r] EXCEPT !.pc = "fund", !.stamp = clock]
      OBVIOUS
    <3>2. moved = [simulation EXCEPT ![r] = new]
      BY <2>1, <3>1
    <3> HIDE DEF moved
    <3>3. /\ new \in [pc : Simulation!Steps, stamp : Simulation!Stamps,
                      dir : {"a", "b"}, content : Contents \cup {None},
                      accepted : SUBSET Simulation!Legs,
                      fill : [Simulation!Legs -> 0 .. Target]]
          /\ new.pc = "fund" /\ new.accepted = simulation[r].accepted
      BY <1>2, <2>1, <3>1
    <3> QED BY <2>1, <3>2, <3>3
  <2>3. simulation' = [moved EXCEPT ![r].dir = d, ![r].content = c]
    BY <1>1
  <2> HIDE DEF moved
  <2>4. /\ simulation' \in [Simulations -> [pc : Simulation!Steps, stamp : Simulation!Stamps,
                          dir : {"a", "b"}, content : Contents \cup {None},
                          accepted : SUBSET Simulation!Legs,
                          fill : [Simulation!Legs -> 0 .. Target]]]
        /\ simulation'[r].pc = moved[r].pc /\ simulation'[r].accepted = moved[r].accepted
        /\ simulation'[r].content = c
        /\ \A q \in Simulations \ {r} : simulation'[q] = moved[q]
    <3>1. PICK new : new = [moved[r] EXCEPT !.dir = d, !.content = c]
      OBVIOUS
    <3>2. simulation' = [moved EXCEPT ![r] = new]
      BY <2>2, <2>3, <3>1
    <3>3. /\ new \in [pc : Simulation!Steps, stamp : Simulation!Stamps,
                      dir : {"a", "b"}, content : Contents \cup {None},
                      accepted : SUBSET Simulation!Legs,
                      fill : [Simulation!Legs -> 0 .. Target]]
          /\ new.pc = moved[r].pc /\ new.accepted = moved[r].accepted /\ new.content = c
      BY <2>2, <3>1
    <3> QED BY <2>2, <3>2, <3>3
  <2> QED BY <2>2, <2>4
<1>4. Simulation!TypeOK'
  BY <1>1, <1>3 DEF RunInv, Simulation!TypeOK
<1> QED BY <1>1, <1>3, <1>4, AsideStep DEF RunInv, Drives

LEMMA BeforePlanSteps ==
    ASSUME RunInv, NEW r \in Simulations,
           \/ \E enough \in BOOLEAN : Simulation!Fund(r, enough)
           \/ Simulation!Precheck(r) \/ Simulation!Replay(r)
           \/ Simulation!Fail(r) /\ ~Drives(simulation[r].pc)
    PROVE  RunInv'
<1>1. /\ simulation[r].pc \in Simulation!Steps
      /\ {"precheck", "reserve", "reject", "replay", "failed"} \subseteq Simulation!Steps
  BY PlacesAreSteps DEF RunInv, Simulation!TypeOK
<1>2. PICK place \in {"precheck", "reserve", "reject", "replay", "failed"} : Simulation!Go(r, place)
  BY DEF Simulation!Fund, Simulation!Precheck, Simulation!Replay, Simulation!Fail
<1>3. MovedTo(r, place) /\ SameBooks(r)
  BY <1>1, <1>2, GoMoves DEF RunInv
<1>4. /\ \/ simulation[r].pc \in {"fund", "precheck", "reserve"}
         \/ simulation[r].pc \notin {"off", "done", "failed"} /\ ~Drives(simulation[r].pc)
      /\ UNCHANGED <<clock, plans, facts, submission, cancel, order, trades, reports>>
  <2>1. ASSUME NEW enough \in BOOLEAN, Simulation!Fund(r, enough)
        PROVE  /\ simulation[r].pc = "fund"
               /\ UNCHANGED <<clock, plans, facts, submission, cancel, order, trades, reports>>
    BY <2>1 DEF Simulation!Fund, Simulation!At, Simulation!orders
  <2>2. ASSUME Simulation!Precheck(r) \/ Simulation!Replay(r)
        PROVE  /\ simulation[r].pc \in {"precheck", "reserve"}
               /\ UNCHANGED <<clock, plans, facts, submission, cancel, order, trades, reports>>
    BY <2>2 DEF Simulation!Precheck, Simulation!Replay, Simulation!At, Simulation!orders
  <2>3. ASSUME Simulation!Fail(r)
        PROVE  /\ simulation[r].pc \notin {"off", "done", "failed"}
               /\ UNCHANGED <<clock, plans, facts, submission, cancel, order, trades, reports>>
    BY <2>3 DEF Simulation!Fail, Simulation!orders
  <2>4. CASE \E enough \in BOOLEAN : Simulation!Fund(r, enough)
    BY <2>1, <2>4
  <2>5. CASE Simulation!Precheck(r) \/ Simulation!Replay(r)
    BY <2>2, <2>5
  <2>6. CASE Simulation!Fail(r) /\ ~Drives(simulation[r].pc)
    BY <2>3, <2>6
  <2> QED BY <2>4, <2>5, <2>6
<1>5. ~Drives(simulation[r].pc) /\ simulation[r].pc \notin {"off", "done", "failed"}
  BY <1>4 DEF Drives
<1>6. funds' \in [Simulation!Keys -> [Contents -> BOOLEAN \cup {None}]]
  <2>1. CASE UNCHANGED funds
    BY <2>1 DEF RunInv, Simulation!TypeOK
  <2>2. ASSUME NEW enough \in BOOLEAN, Simulation!Fund(r, enough)
        PROVE  funds' \in [Simulation!Keys -> [Contents -> BOOLEAN \cup {None}]]
    BY <2>2 DEF RunInv, Simulation!TypeOK, Simulation!Fund
  <2> QED BY <2>1, <2>2 DEF Simulation!Precheck, Simulation!Replay, Simulation!Fail
<1>7. Simulation!TypeOK'
  BY <1>3, <1>4, <1>6 DEF RunInv, Simulation!TypeOK, MovedTo
<1>8. /\ PlansInv' /\ TablesInv'
      /\ \A q \in Simulations : DriverInv(q)'
      /\ \A q \in reports : ReportInv(q)'
  <2>1. simulation'[r].content \in Contents
    BY <1>3, <1>5 DEF MovedTo, RunInv, DriverInv
  <2> QED BY <1>3, <1>4, <1>5, <1>7, <2>1, AsideStep DEF MovedTo, SameBooks, Drives
<1> QED BY <1>4, <1>7, <1>8 DEF RunInv

LEMMA ReserveStep == ASSUME RunInv, NEW r \in Simulations, Simulation!Reserve(r) PROVE RunInv'
<1> DEFINE new == [key |-> Simulation!KeyOf(r), content |-> simulation[r].content, by |-> r]
<1>1. /\ simulation[r].pc = "reserve" /\ Simulation!Go(r, "initialize")
      /\ \A p \in plans : p.key.stamp # simulation[r].stamp
      /\ plans' = plans \cup {new}
      /\ Simulation!Suffice(r)
      /\ UNCHANGED <<clock, funds, facts, submission, cancel, order, trades, reports>>
  BY DEF Simulation!Reserve, Simulation!At, Simulation!orders
<1>2. MovedTo(r, "initialize") /\ SameBooks(r)
  BY <1>1, PlacesAreSteps, GoMoves DEF RunInv
<1>3. Simulation!KeyOf(r) \in Simulation!Keys /\ Simulation!KeyOf(r).stamp = simulation[r].stamp
  BY DriverFacts DEF Simulation!KeyOf
<1>4. \A q \in Simulations :
         /\ Simulation!KeyOf(q)' = Simulation!KeyOf(q)
         /\ \A l \in Simulation!Legs : Simulation!IntentOf(q, l)' = Simulation!IntentOf(q, l)
  BY <1>2 DEF MovedTo, Simulation!KeyOf, Simulation!IntentOf
<1>5. simulation[r].content \in Contents
  BY <1>1 DEF RunInv, DriverInv
<1>6. Simulation!TypeOK'
  BY <1>1, <1>2, <1>3, <1>5 DEF RunInv, Simulation!TypeOK, MovedTo
<1>7. PlansInv'
  <2>1. \A p, q \in plans' : p.key.stamp = q.key.stamp => p = q
    BY <1>1, <1>3 DEF RunInv, PlansInv
  <2>2. ASSUME NEW p \in plans'
        PROVE  /\ p.key = Simulation!KeyOf(p.by)'
               /\ Drives(simulation'[p.by].pc) \/ simulation'[p.by].pc \in {"done", "failed"}
    <3>1. CASE p = new
      <4>1. p.key = Simulation!KeyOf(r) /\ p.by = r
        BY <3>1
      <4>2. Drives(simulation'[r].pc)
        BY <1>2 DEF MovedTo, Drives
      <4> QED BY <1>4, <4>1, <4>2
    <3>2. CASE p \in plans
      <4>1. PICK q \in Simulations : q = p.by
        BY <3>2 DEF RunInv, Simulation!TypeOK
      <4>2. p.key = Simulation!KeyOf(q) /\ (Drives(simulation[q].pc) \/ simulation[q].pc \in {"done", "failed"})
        BY <3>2, <4>1 DEF RunInv, PlansInv
      <4>3. q # r
        BY <1>1, <4>2 DEF Drives
      <4> QED BY <1>2, <1>4, <4>1, <4>2, <4>3 DEF MovedTo
    <3> QED BY <1>1, <3>1, <3>2
  <2>3. ASSUME NEW q \in Simulations, Drives(simulation'[q].pc) PROVE \E p \in plans' : p.by = q
    <3>1. CASE q = r
      <4>1. new \in plans' /\ new.by = r
        BY <1>1
      <4> QED BY <3>1, <4>1
    <3>2. CASE q # r
      BY <1>1, <1>2, <2>3, <3>2 DEF MovedTo, RunInv, PlansInv
    <3> QED BY <3>1, <3>2
  <2> QED BY <2>1, <2>2, <2>3 DEF PlansInv
<1>8. TablesInv'
  BY <1>1 DEF RunInv, TablesInv, Sent
<1>9. ASSUME NEW q \in Simulations \ {r} PROVE DriverInv(q)'
  <2>1. DriverInv(q) /\ simulation'[q] = simulation[q]
    BY <1>2 DEF RunInv, MovedTo
  <2>2. \A l \in Simulation!Legs :
           Simulation!Booked(Simulation!KeyOf(q), l)' = Simulation!Booked(Simulation!KeyOf(q), l)
    BY <1>1, <1>4 DEF Simulation!Booked
  <2>3. simulation[q].accepted \subseteq Simulation!Legs
    BY DEF RunInv, Simulation!TypeOK
  <2> QED BY <1>1, <1>4, <2>1, <2>2, <2>3 DEF DriverInv, Sent
<1>10. DriverInv(r)'
  <2>1. \A l \in Simulation!Legs : submission[Simulation!IntentOf(r, l)] = "NOT_SENT"
    <3>1. \A l \in Simulation!Legs : Simulation!IntentOf(r, l).stamp = simulation[r].stamp
      BY DEF Simulation!IntentOf
    <3> QED BY <1>1, <3>1, DriverFacts DEF RunInv, TablesInv
  <2>2. \A l \in Simulation!Legs : \A t \in trades : t.intent # Simulation!IntentOf(r, l)
    BY <2>1 DEF RunInv, TablesInv
  <2>3. simulation[r].accepted = {}
    BY <2>1 DEF RunInv, DriverInv, Simulation!TypeOK
  <2>4. /\ simulation'[r].pc = "initialize" /\ simulation'[r].accepted = {}
        /\ simulation'[r].content \in Contents
    BY <1>2, <1>5, <2>3 DEF MovedTo, SameBooks
  <2>5. \A l \in Simulation!Legs : /\ Simulation!AnswerStep[l] # "initialize"
                                   /\ Simulation!QueryStep[l] # "initialize"
                                   /\ "initialize" \notin PastLeg[l] /\ "initialize" \notin BookedLeg[l]
    BY PlacesAreSteps DEF PastLeg, BookedLeg
  <2> QED BY <1>1, <1>4, <2>1, <2>2, <2>4, <2>5 DEF DriverInv
<1>11. ASSUME NEW q \in reports PROVE ReportInv(q)'
  <2>1. ReportInv(q) /\ q.by \in Simulations /\ q.by # r
    BY <1>1 DEF RunInv, Simulation!TypeOK, ReportInv
  <2>2. simulation'[q.by] = simulation[q.by]
    BY <1>2, <2>1 DEF MovedTo
  <2>3. \A l \in Simulation!Legs : Simulation!Booked(q.key, l)' = Simulation!Booked(q.key, l)
    BY <1>1 DEF Simulation!Booked
  <2> QED BY <1>1, <2>1, <2>2, <2>3 DEF ReportInv
<1> QED BY <1>1, <1>6, <1>7, <1>8, <1>9, <1>10, <1>11 DEF RunInv

\* A step of a run with its plan: what has to be shown of it.
LEMMA DriverStep ==
    ASSUME RunInv, NEW r \in Simulations, Drives(simulation[r].pc), NEW place,
           MovedTo(r, place), Drives(place) \/ place \in {"done", "failed"},
           OwnRows(r), Simulation!TypeOK', TablesInv', DriverInv(r)', reports' = reports
    PROVE  RunInv'
<1>1. \A q \in Simulations \ {r} : simulation'[q] = simulation[q]
  BY DEF MovedTo
<1>2. PlansInv'
  BY PlansKept DEF OwnRows
<1>3. \A q \in Simulations \ {r} : DriverInv(q)'
  BY <1>1, OtherDrivers
<1>4. \A q \in reports : ReportInv(q)'
  BY <1>1, OtherReports
<1> QED BY <1>2, <1>3, <1>4 DEF RunInv

LEMMA InitializeStep == ASSUME RunInv, NEW r \in Simulations, Simulation!Initialize(r) PROVE RunInv'
<1>1. /\ simulation[r].pc = "initialize" /\ Simulation!Go(r, "submit_buy")
      /\ facts' = [facts EXCEPT ![Simulation!KeyOf(r)] = IF @ = None THEN "PLANNED" ELSE @]
      /\ UNCHANGED <<clock, funds, plans, submission, cancel, order, trades, reports>>
  BY DEF Simulation!Initialize, Simulation!At, Simulation!orders
<1>2. MovedTo(r, "submit_buy") /\ SameBooks(r) /\ Drives("initialize") /\ Drives("submit_buy")
  BY <1>1, PlacesAreSteps, GoMoves DEF RunInv, Drives
<1>3. /\ facts \in [Simulation!Keys -> Simulation!States \cup {None}]
      /\ Simulation!KeyOf(r) \in Simulation!Keys
      /\ "PLANNED" \in Simulation!States /\ None \notin Simulation!States
  BY DriverFacts, DecisionsAssumption
     DEF RunInv, Simulation!TypeOK, Simulation!States, Simulation!RunAssumption
<1>4. /\ facts' \in [Simulation!Keys -> Simulation!States \cup {None}]
      /\ facts'[Simulation!KeyOf(r)] # None
      /\ \A k \in Simulation!Keys : facts[k] # None \/ k # Simulation!KeyOf(r) => facts'[k] = facts[k]
      /\ \A k \in Simulation!Keys : facts'[k] = facts[k] \/ facts'[k] = "PLANNED"
  BY <1>1, <1>3
<1>5. Simulation!TypeOK'
  BY <1>1, <1>2, <1>4 DEF RunInv, Simulation!TypeOK, MovedTo
<1>6. OwnRows(r)
  BY <1>1, <1>4 DEF OwnRows
<1>7. TablesInv'
  <2>1. PICK p \in plans : p.by = r /\ p.key = Simulation!KeyOf(r)
    BY <1>1, <1>2, DriverFacts
  <2>2. \A s \in plans : s.key \in Simulation!Keys
    BY DEF RunInv, Simulation!TypeOK
  <2>3. TablesInv
    BY DEF RunInv
  <2>4. ASSUME NEW k \in Simulation!Keys, facts'[k] # None
        PROVE  /\ \E s \in plans : s.key = k
               /\ facts'[k] # "PLANNED" => \A l \in Simulation!Legs : Sent([stamp |-> k.stamp, leg |-> l])
    <3>1. CASE k = Simulation!KeyOf(r) /\ facts[k] = None
      BY <1>4, <2>1, <3>1
    <3>2. CASE ~(k = Simulation!KeyOf(r) /\ facts[k] = None)
      <4>1. facts'[k] = facts[k]
        BY <1>4, <3>2
      <4> QED BY <2>3, <2>4, <4>1 DEF TablesInv
    <3> QED BY <3>1, <3>2
  <2>5. ASSUME NEW i \in Simulation!Intents, submission[i] # "NOT_SENT"
        PROVE  \E s \in plans : s.key.stamp = i.stamp /\ facts'[s.key] # None
    BY <1>4, <2>2, <2>3, <2>5 DEF TablesInv
  <2> QED BY <1>1, <2>3, <2>4, <2>5 DEF TablesInv, Sent
<1>8. DriverInv(r)'
  <2>1. /\ Simulation!KeyOf(r)' = Simulation!KeyOf(r)
        /\ \A l \in Simulation!Legs : Simulation!IntentOf(r, l)' = Simulation!IntentOf(r, l)
    BY <1>2 DEF MovedTo, Simulation!KeyOf, Simulation!IntentOf
  <2>2. \A l \in Simulation!Legs : /\ Simulation!AnswerStep[l] # "submit_buy"
                                   /\ Simulation!QueryStep[l] # "submit_buy"
                                   /\ "submit_buy" \notin PastLeg[l] /\ "submit_buy" \notin BookedLeg[l]
                                   /\ "initialize" \notin BookedLeg[l]
    BY PlacesAreSteps DEF PastLeg, BookedLeg
  <2>3. simulation[r].accepted \subseteq Simulation!Legs /\ DriverInv(r)
    BY DEF RunInv, Simulation!TypeOK
  <2> QED BY <1>1, <1>2, <1>4, <2>1, <2>2, <2>3 DEF DriverInv, MovedTo, SameBooks
<1> QED BY <1>1, <1>2, <1>5, <1>6, <1>7, <1>8, DriverStep

\* One order of the run becomes known to have been sent, or to be at its venue.
LEMMA OrderMoves ==
    ASSUME RunInv, NEW r \in Simulations, NEW l \in Simulation!Legs, NEW y,
           Drives(simulation[r].pc), simulation[r].pc # "initialize",
           submission[Simulation!IntentOf(r, l)] # "ACCEPTED",
           submission[Simulation!IntentOf(r, l)] = "UNKNOWN" => y \in {"UNKNOWN", "ACCEPTED"},
           y \in {"IN_FLIGHT", "UNKNOWN", "ACCEPTED"},
           submission' = [submission EXCEPT ![Simulation!IntentOf(r, l)] = y],
           \A j \in Simulation!Intents \ {Simulation!IntentOf(r, l)} : order'[j] = order[j],
           UNCHANGED <<plans, facts, trades>>
    PROVE  /\ OwnRows(r) /\ TablesInv'
           /\ submission'[Simulation!IntentOf(r, l)] = y
           /\ \A m \in Simulation!Legs \ {l} :
                 submission'[Simulation!IntentOf(r, m)] = submission[Simulation!IntentOf(r, m)]
<1> DEFINE i == Simulation!IntentOf(r, l)
<1>1. /\ i \in Simulation!Intents /\ i.stamp = simulation[r].stamp
      /\ \A m \in Simulation!Legs : /\ Simulation!IntentOf(r, m) \in Simulation!Intents
                                    /\ m # l => Simulation!IntentOf(r, m) # i
  <2>1. \A m \in Simulation!Legs : Simulation!IntentOf(r, m).leg = m
    BY DEF Simulation!IntentOf
  <2> QED BY <2>1, DriverFacts DEF Simulation!IntentOf
<1>2. submission \in [Simulation!Intents -> {"NOT_SENT", "IN_FLIGHT", "UNKNOWN", "ACCEPTED"}]
  BY DEF RunInv, Simulation!TypeOK
<1> HIDE DEF i
<1>3. /\ submission'[i] = y
      /\ \A j \in Simulation!Intents \ {i} : submission'[j] = submission[j]
  BY <1>1, <1>2 DEF i
<1>4. submission[i] # "ACCEPTED" /\ (submission[i] = "UNKNOWN" => y \in {"UNKNOWN", "ACCEPTED"})
  BY DEF i
<1>5. OwnRows(r)
  BY <1>1, <1>3, <1>4 DEF OwnRows
<1>6. TablesInv
  BY DEF RunInv
<1>7. ASSUME NEW j \in Simulation!Intents, submission'[j] # "NOT_SENT"
      PROVE  \E p \in plans : p.key.stamp = j.stamp /\ facts[p.key] # None
  <2>1. CASE j # i
    BY <1>3, <1>6, <1>7, <2>1 DEF TablesInv
  <2>2. CASE j = i
    <3>1. PICK p \in plans : p.by = r /\ p.key = Simulation!KeyOf(r)
      BY DriverFacts
    <3>2. facts[Simulation!KeyOf(r)] # None
      BY DEF RunInv, DriverInv
    <3>3. Simulation!KeyOf(r).stamp = simulation[r].stamp
      BY DEF Simulation!KeyOf
    <3> QED BY <1>1, <2>2, <3>1, <3>2, <3>3
  <2> QED BY <2>1, <2>2
<1>8. ASSUME NEW k \in Simulation!Keys, facts[k] # None, facts[k] # "PLANNED", NEW m \in Simulation!Legs
      PROVE  submission'[[stamp |-> k.stamp, leg |-> m]] \in {"ACCEPTED", "UNKNOWN"}
  <2> DEFINE j == [stamp |-> k.stamp, leg |-> m]
  <2>1. j \in Simulation!Intents /\ submission[j] \in {"ACCEPTED", "UNKNOWN"}
    BY <1>6, <1>8 DEF TablesInv, Sent, Simulation!Intents, Simulation!Keys
  <2> HIDE DEF j
  <2>2. submission'[j] \in {"ACCEPTED", "UNKNOWN"}
    BY <1>3, <1>4, <2>1
  <2> QED BY <2>2 DEF j
<1>9. \A t \in trades : t.intent \in Simulation!Intents \ {i} /\ order[t.intent] = t.trade.order
                        /\ submission[t.intent] = "ACCEPTED"
  BY <1>4, <1>6 DEF TablesInv, RunInv, Simulation!TypeOK
<1>10. \A t \in trades : order'[t.intent] = t.trade.order /\ submission'[t.intent] = "ACCEPTED"
  BY <1>3, <1>9 DEF i
<1>11. TablesInv'
  BY <1>6, <1>7, <1>8, <1>10 DEF TablesInv, Sent
<1> QED BY <1>1, <1>3, <1>5, <1>11 DEF i

\* What is left to show of the run itself.
LEMMA DriverNow ==
    ASSUME RunInv, NEW r \in Simulations, NEW place, MovedTo(r, place), Drives(simulation[r].pc),
           \A l \in simulation'[r].accepted : submission'[Simulation!IntentOf(r, l)] = "ACCEPTED",
           place # "off",
           place # "initialize" => facts'[Simulation!KeyOf(r)] # None,
           Drives(place) =>
             \A l \in Simulation!Legs :
               /\ place = Simulation!AnswerStep[l] => submission'[Simulation!IntentOf(r, l)] = "IN_FLIGHT"
               /\ place = Simulation!QueryStep[l] => submission'[Simulation!IntentOf(r, l)] = "UNKNOWN"
               /\ place \in PastLeg[l] =>
                     submission'[Simulation!IntentOf(r, l)] \in {"ACCEPTED", "UNKNOWN"}
               /\ submission'[Simulation!IntentOf(r, l)] = "ACCEPTED" => l \in simulation'[r].accepted
               /\ place \notin BookedLeg[l] => \A t \in trades' : t.intent # Simulation!IntentOf(r, l)
               /\ place \in BookedLeg[l] /\ submission'[Simulation!IntentOf(r, l)] = "ACCEPTED" =>
                     {t.trade.quantity : t \in {u \in trades' : u.intent = Simulation!IntentOf(r, l)}}
                       = (IF simulation'[r].fill[l] > 0 THEN {simulation'[r].fill[l]} ELSE {})
    PROVE  DriverInv(r)'
<1>1. /\ Simulation!KeyOf(r)' = Simulation!KeyOf(r)
      /\ \A l \in Simulation!Legs : Simulation!IntentOf(r, l)' = Simulation!IntentOf(r, l)
  BY DEF MovedTo, Simulation!KeyOf, Simulation!IntentOf
<1>2. simulation'[r].accepted \subseteq Simulation!Legs /\ simulation'[r].pc = place
  BY DEF MovedTo
<1>3. simulation'[r].content \in Contents
  BY DEF RunInv, DriverInv, MovedTo, Drives
<1>4. \A l \in Simulation!Legs :
         Simulation!Booked(Simulation!KeyOf(r), l)'
           = {t.trade.quantity : t \in {u \in trades' : u.intent = Simulation!IntentOf(r, l)}}
  BY <1>1 DEF Simulation!Booked, Simulation!KeyOf, Simulation!IntentOf, MovedTo
<1>5. \A l \in simulation'[r].accepted : submission'[Simulation!IntentOf(r, l)'] = "ACCEPTED"
  BY <1>1, <1>2
<1>6. ASSUME Drives(place), NEW l \in Simulation!Legs
      PROVE (/\ simulation[r].pc = Simulation!AnswerStep[l] =>
                   submission[Simulation!IntentOf(r, l)] = "IN_FLIGHT"
             /\ simulation[r].pc = Simulation!QueryStep[l] =>
                   submission[Simulation!IntentOf(r, l)] = "UNKNOWN"
             /\ simulation[r].pc \in PastLeg[l] => Sent(Simulation!IntentOf(r, l))
             /\ submission[Simulation!IntentOf(r, l)] = "ACCEPTED" => l \in simulation[r].accepted)'
  BY <1>1, <1>2, <1>6 DEF Sent
<1>7. ASSUME Drives(place), NEW l \in Simulation!Legs
      PROVE (/\ simulation[r].pc \notin BookedLeg[l] =>
                   \A t \in trades : t.intent # Simulation!IntentOf(r, l)
             /\ simulation[r].pc \in BookedLeg[l] /\ submission[Simulation!IntentOf(r, l)] = "ACCEPTED" =>
                   Simulation!Booked(Simulation!KeyOf(r), l)
                     = (IF simulation[r].fill[l] > 0 THEN {simulation[r].fill[l]} ELSE {}))'
  BY <1>1, <1>2, <1>4, <1>7
<1>8. (simulation[r].pc # "initialize" => facts[Simulation!KeyOf(r)] # None)'
  BY <1>1, <1>2
<1> QED BY <1>2, <1>3, <1>5, <1>6, <1>7, <1>8 DEF DriverInv

LEMMA SubmitStep ==
    ASSUME RunInv, NEW r \in Simulations, NEW l \in Simulation!Legs, Simulation!Submit(r, l)
    PROVE  RunInv'
<1> DEFINE i == Simulation!IntentOf(r, l)
<1>1. /\ simulation[r].pc = Simulation!SubmitStep[l] /\ Simulation!Go(r, Simulation!AnswerStep[l])
      /\ submission[i] = "NOT_SENT" /\ submission' = [submission EXCEPT ![i] = "IN_FLIGHT"]
      /\ UNCHANGED <<clock, funds, plans, facts, cancel, order, trades, reports>>
  BY DEF Simulation!Submit, Simulation!At, Simulation!Orders!Submit
<1>2. /\ MovedTo(r, Simulation!AnswerStep[l]) /\ SameBooks(r)
      /\ Drives(simulation[r].pc) /\ simulation[r].pc # "initialize" /\ Drives(Simulation!AnswerStep[l])
  BY <1>1, PlacesAreSteps, GoMoves DEF RunInv, Drives
<1>3. i \in Simulation!Intents
  BY DriverFacts
<1>4. /\ OwnRows(r) /\ TablesInv' /\ submission'[i] = "IN_FLIGHT"
      /\ \A m \in Simulation!Legs \ {l} :
            submission'[Simulation!IntentOf(r, m)] = submission[Simulation!IntentOf(r, m)]
  BY <1>1, <1>2, OrderMoves
<1>5. Simulation!TypeOK'
  BY <1>1, <1>2, <1>3 DEF RunInv, Simulation!TypeOK, MovedTo
<1>6. DriverInv(r)'
  <2>1. simulation[r].accepted \subseteq Simulation!Legs \ {l} /\ DriverInv(r)
    BY <1>1 DEF RunInv, Simulation!TypeOK, DriverInv
  <2>2. \A m \in Simulation!Legs :
           /\ Simulation!AnswerStep[m] = Simulation!AnswerStep[l] => m = l
           /\ Simulation!QueryStep[m] # Simulation!AnswerStep[l]
           /\ Simulation!AnswerStep[l] \in PastLeg[m] => m # l /\ simulation[r].pc \in PastLeg[m]
           /\ Simulation!AnswerStep[l] \notin BookedLeg[m] /\ simulation[r].pc \notin BookedLeg[m]
    BY <1>1, PlacesAreSteps DEF PastLeg, BookedLeg
  <2>3. \A m \in simulation'[r].accepted : submission'[Simulation!IntentOf(r, m)] = "ACCEPTED"
    BY <1>2, <1>4, <2>1 DEF SameBooks, DriverInv
  <2>4. facts'[Simulation!KeyOf(r)] # None
    BY <1>1, <1>2, <2>1 DEF DriverInv
  <2>5. ASSUME NEW m \in Simulation!Legs
        PROVE  /\ Simulation!AnswerStep[l] = Simulation!AnswerStep[m] =>
                     submission'[Simulation!IntentOf(r, m)] = "IN_FLIGHT"
               /\ Simulation!AnswerStep[l] \in PastLeg[m] =>
                     submission'[Simulation!IntentOf(r, m)] \in {"ACCEPTED", "UNKNOWN"}
               /\ submission'[Simulation!IntentOf(r, m)] = "ACCEPTED" => m \in simulation'[r].accepted
               /\ \A t \in trades' : t.intent # Simulation!IntentOf(r, m)
    <3>1. /\ simulation[r].pc \in PastLeg[m] => Sent(Simulation!IntentOf(r, m))
          /\ submission[Simulation!IntentOf(r, m)] = "ACCEPTED" => m \in simulation[r].accepted
          /\ \A t \in trades : t.intent # Simulation!IntentOf(r, m)
      <4>1. simulation[r].pc \notin BookedLeg[m]
        BY <2>2
      <4>2. Drives(simulation[r].pc) /\ DriverInv(r)
        BY <1>2, <2>1
      <4> QED BY <4>1, <4>2 DEF DriverInv
    <3>2. simulation'[r].accepted = simulation[r].accepted /\ trades' = trades
      BY <1>1, <1>2 DEF SameBooks
    <3>3. CASE m = l
      BY <1>4, <2>2, <3>1, <3>2, <3>3
    <3>4. CASE m # l
      BY <1>4, <2>2, <3>1, <3>2, <3>4 DEF Sent
    <3> QED BY <3>3, <3>4
  <2> QED BY <1>2, <2>2, <2>3, <2>4, <2>5, DriverNow DEF Drives
<1> QED BY <1>1, <1>2, <1>4, <1>5, <1>6, DriverStep

\* Where the answer to an order takes the new.
LEMMA AfterConfirmPlaces ==
    ASSUME NEW l \in Simulation!Legs, NEW m \in Simulation!Legs,
           NEW place \in {Simulation!AnswerStep[l], Simulation!QueryStep[l]}
    PROVE  /\ Simulation!AfterConfirm[l] \in Simulation!Steps /\ Drives(Simulation!AfterConfirm[l])
           /\ Drives(place) /\ place # "initialize" /\ place # "off" /\ Simulation!AfterConfirm[l] # "off"
           /\ Simulation!AfterConfirm[l] # Simulation!AnswerStep[m]
           /\ Simulation!AfterConfirm[l] # Simulation!QueryStep[m]
           /\ Simulation!AfterConfirm[l] \in PastLeg[m] => m = l \/ place \in PastLeg[m]
           /\ Simulation!AfterConfirm[l] \notin BookedLeg[m] /\ place \notin BookedLeg[m]
BY PlacesAreSteps DEF PastLeg, BookedLeg, Drives

LEMMA ConfirmStep ==
    ASSUME RunInv, NEW r \in Simulations, NEW l \in Simulation!Legs, Simulation!Confirm(r, l)
    PROVE  RunInv'
<1> DEFINE i == Simulation!IntentOf(r, l)
           place == Simulation!AfterConfirm[l]
<1>1. /\ simulation[r].pc \in {Simulation!AnswerStep[l], Simulation!QueryStep[l]}
      /\ simulation' = [simulation EXCEPT ![r].pc = place, ![r].accepted = @ \cup {l}]
      /\ submission[i] \in {"IN_FLIGHT", "UNKNOWN"}
      /\ submission' = [submission EXCEPT ![i] = "ACCEPTED"]
      /\ order' = [order EXCEPT ![i] = i]
      /\ UNCHANGED <<clock, funds, plans, facts, cancel, trades, reports>>
  BY DEF Simulation!Confirm, Simulation!At, Simulation!Orders!Bind
<1>2. /\ \A m \in Simulation!Legs :
           /\ place # Simulation!AnswerStep[m] /\ place # Simulation!QueryStep[m]
           /\ place \in PastLeg[m] => m = l \/ simulation[r].pc \in PastLeg[m]
           /\ place \notin BookedLeg[m] /\ simulation[r].pc \notin BookedLeg[m]
      /\ place \in Simulation!Steps /\ Drives(place) /\ Drives(simulation[r].pc)
      /\ simulation[r].pc # "initialize" /\ place # "off"
  BY <1>1, AfterConfirmPlaces
<1>3. i \in Simulation!Intents
  BY DriverFacts
<1>4. /\ OwnRows(r) /\ TablesInv' /\ submission'[i] = "ACCEPTED"
      /\ \A m \in Simulation!Legs \ {l} :
            submission'[Simulation!IntentOf(r, m)] = submission[Simulation!IntentOf(r, m)]
  <2>1. \A j \in Simulation!Intents \ {i} : order'[j] = order[j]
    BY <1>1 DEF RunInv, Simulation!TypeOK
  <2>2. submission[i] # "ACCEPTED" /\ UNCHANGED <<plans, facts, trades>>
    BY <1>1
  <2>3. submission' = [submission EXCEPT ![i] = "ACCEPTED"]
    BY <1>1
  <2>4. Drives(simulation[r].pc) /\ simulation[r].pc # "initialize"
    BY <1>2
  <2> HIDE DEF place
  <2> QED BY <2>1, <2>2, <2>3, <2>4, OrderMoves
<1> HIDE DEF place
<1>5. MovedTo(r, place) /\ simulation'[r].accepted = simulation[r].accepted \cup {l}
  <2>1. simulation \in [Simulations -> [pc : Simulation!Steps, stamp : Simulation!Stamps,
                          dir : {"a", "b"}, content : Contents \cup {None},
                          accepted : SUBSET Simulation!Legs,
                          fill : [Simulation!Legs -> 0 .. Target]]]
    BY DEF RunInv, Simulation!TypeOK
  <2>2. simulation[r].accepted \cup {l} \in SUBSET Simulation!Legs
    BY <2>1
  <2> DEFINE more == simulation[r].accepted \cup {l}
  <2>3. simulation' = [simulation EXCEPT ![r].pc = place, ![r].accepted = more]
    BY <1>1
  <2> HIDE DEF more
  <2>4. MovedTo(r, place) /\ simulation'[r].accepted = more
    <3>1. PICK new : new = [simulation[r] EXCEPT !.pc = place, !.accepted = more]
      OBVIOUS
    <3>2. simulation' = [simulation EXCEPT ![r] = new]
      BY <2>1, <2>3, <3>1
    <3>3. /\ new \in [pc : Simulation!Steps, stamp : Simulation!Stamps,
                      dir : {"a", "b"}, content : Contents \cup {None},
                      accepted : SUBSET Simulation!Legs,
                      fill : [Simulation!Legs -> 0 .. Target]]
          /\ new.pc = place /\ new.accepted = more /\ new.stamp = simulation[r].stamp
          /\ new.dir = simulation[r].dir /\ new.content = simulation[r].content
          /\ new.fill = simulation[r].fill
      BY <1>2, <2>1, <2>2, <3>1 DEF more
    <3> QED BY <2>1, <3>2, <3>3 DEF MovedTo
  <2> QED BY <2>4 DEF more
<1>6. Simulation!TypeOK'
  BY <1>1, <1>3, <1>5 DEF RunInv, Simulation!TypeOK, MovedTo
<1>7. DriverInv(r)'
  <2>1. simulation[r].accepted \subseteq Simulation!Legs /\ DriverInv(r)
    BY DEF RunInv, Simulation!TypeOK
  <2>2. \A m \in simulation'[r].accepted : submission'[Simulation!IntentOf(r, m)] = "ACCEPTED"
    BY <1>4, <1>5, <2>1 DEF DriverInv
  <2>3. facts'[Simulation!KeyOf(r)] # None
    BY <1>1, <1>2, <2>1 DEF DriverInv
  <2>4. ASSUME NEW m \in Simulation!Legs
        PROVE  /\ place \in PastLeg[m] => submission'[Simulation!IntentOf(r, m)] \in {"ACCEPTED", "UNKNOWN"}
               /\ submission'[Simulation!IntentOf(r, m)] = "ACCEPTED" => m \in simulation'[r].accepted
               /\ \A t \in trades' : t.intent # Simulation!IntentOf(r, m)
    BY <1>1, <1>2, <1>4, <1>5, <2>1 DEF DriverInv, Sent
  <2> QED BY <1>2, <1>5, <2>2, <2>3, <2>4, DriverNow
<1> QED BY <1>1, <1>2, <1>4, <1>5, <1>6, <1>7, DriverStep

LEMMA LoseAnswerStep ==
    ASSUME RunInv, NEW r \in Simulations, NEW l \in Simulation!Legs, Simulation!LoseAnswer(r, l)
    PROVE  RunInv'
<1> DEFINE i == Simulation!IntentOf(r, l)
           place == Simulation!QueryStep[l]
<1>1. /\ simulation[r].pc = Simulation!AnswerStep[l] /\ Simulation!Go(r, place)
      /\ submission[i] = "IN_FLIGHT"
      /\ submission' = [submission EXCEPT ![i] = "UNKNOWN"]
      /\ UNCHANGED <<clock, funds, plans, facts, cancel, order, trades, reports>>
  BY DEF Simulation!LoseAnswer, Simulation!At, Simulation!Orders!LoseAnswer
<1>2. /\ \A m \in Simulation!Legs :
           /\ place # Simulation!AnswerStep[m] /\ (place = Simulation!QueryStep[m] => m = l)
           /\ place \in PastLeg[m] => simulation[r].pc \in PastLeg[m] /\ m # l
           /\ place \notin BookedLeg[m] /\ simulation[r].pc \notin BookedLeg[m]
      /\ place \in Simulation!Steps /\ Drives(place) /\ Drives(simulation[r].pc)
      /\ simulation[r].pc # "initialize" /\ place # "off"
  BY <1>1, PlacesAreSteps DEF PastLeg, BookedLeg, Drives
<1>3. i \in Simulation!Intents
  BY DriverFacts
<1>4. /\ OwnRows(r) /\ TablesInv' /\ submission'[i] = "UNKNOWN"
      /\ \A m \in Simulation!Legs \ {l} :
            submission'[Simulation!IntentOf(r, m)] = submission[Simulation!IntentOf(r, m)]
  <2>1. submission[i] = "IN_FLIGHT" /\ UNCHANGED <<order, plans, facts, trades>>
    BY <1>1
  <2>2. submission' = [submission EXCEPT ![i] = "UNKNOWN"]
    BY <1>1
  <2>3. Drives(simulation[r].pc) /\ simulation[r].pc # "initialize"
    BY <1>2
  <2>4. PICK y : y = "UNKNOWN"
    OBVIOUS
  <2>5. /\ submission[i] # "ACCEPTED" /\ (submission[i] = "UNKNOWN" => y \in {"UNKNOWN", "ACCEPTED"})
        /\ y \in {"IN_FLIGHT", "UNKNOWN", "ACCEPTED"}
        /\ submission' = [submission EXCEPT ![i] = y]
    BY <2>1, <2>2, <2>4
  <2>6. \A j \in Simulation!Intents \ {i} : order'[j] = order[j]
    BY <2>1
  <2>7. UNCHANGED <<plans, facts, trades>>
    BY <2>1
  <2> HIDE DEF place
  <2> QED BY <2>3, <2>4, <2>5, <2>6, <2>7, OrderMoves
<1> HIDE DEF place
<1>5. MovedTo(r, place) /\ SameBooks(r)
  BY <1>1, <1>2, GoMoves DEF RunInv
<1>6. Simulation!TypeOK'
  BY <1>1, <1>3, <1>5 DEF RunInv, Simulation!TypeOK, MovedTo
<1>7. DriverInv(r)'
  <2>1. simulation[r].accepted \subseteq Simulation!Legs \ {l} /\ DriverInv(r)
    BY <1>1 DEF RunInv, Simulation!TypeOK, DriverInv
  <2>2. \A m \in simulation'[r].accepted : submission'[Simulation!IntentOf(r, m)] = "ACCEPTED"
    BY <1>4, <1>5, <2>1 DEF DriverInv, SameBooks
  <2>3. facts'[Simulation!KeyOf(r)] # None
    BY <1>1, <1>2, <2>1 DEF DriverInv
  <2>4. ASSUME NEW m \in Simulation!Legs
        PROVE  /\ place = Simulation!QueryStep[m] => submission'[Simulation!IntentOf(r, m)] = "UNKNOWN"
               /\ place \in PastLeg[m] => submission'[Simulation!IntentOf(r, m)] \in {"ACCEPTED", "UNKNOWN"}
               /\ submission'[Simulation!IntentOf(r, m)] = "ACCEPTED" => m \in simulation'[r].accepted
               /\ \A t \in trades' : t.intent # Simulation!IntentOf(r, m)
    BY <1>1, <1>2, <1>4, <1>5, <2>1 DEF DriverInv, Sent, SameBooks
  <2> QED BY <1>2, <1>5, <2>2, <2>3, <2>4, DriverNow
<1> QED BY <1>1, <1>2, <1>4, <1>5, <1>6, <1>7, DriverStep

\* The steps that write to no table: an order that is not found, the fills, and a leg
\* that is not booked.
LEMMA QuietStep ==
    ASSUME RunInv, NEW r \in Simulations, Drives(simulation[r].pc),
           NEW place, MovedTo(r, place), Drives(place) \/ place = "failed",
           UNCHANGED <<clock, funds, plans, facts, submission, cancel, order, trades, reports>>,
           DriverInv(r)'
    PROVE  RunInv'
<1>1. OwnRows(r)
  BY DEF OwnRows
<1>2. TablesInv'
  BY DEF RunInv, TablesInv, Sent
<1>3. Simulation!TypeOK'
  BY DEF RunInv, Simulation!TypeOK, MovedTo
<1> QED BY <1>1, <1>2, <1>3, DriverStep

LEMMA NotFoundStep ==
    ASSUME RunInv, NEW r \in Simulations, NEW l \in Simulation!Legs, Simulation!NotFound(r, l)
    PROVE  RunInv'
<1> DEFINE place == Simulation!AfterConfirm[l]
<1>1. /\ simulation[r].pc = Simulation!QueryStep[l] /\ Simulation!Go(r, place)
      /\ UNCHANGED <<clock, funds, plans, facts, submission, cancel, order, trades, reports>>
  BY DEF Simulation!NotFound, Simulation!At, Simulation!orders
<1>2. /\ \A m \in Simulation!Legs :
           /\ place # Simulation!AnswerStep[m] /\ place # Simulation!QueryStep[m]
           /\ place \in PastLeg[m] => m = l \/ simulation[r].pc \in PastLeg[m]
           /\ place \notin BookedLeg[m] /\ simulation[r].pc \notin BookedLeg[m]
      /\ place \in Simulation!Steps /\ Drives(place) /\ Drives(simulation[r].pc)
      /\ simulation[r].pc # "initialize" /\ place # "off"
  BY <1>1, AfterConfirmPlaces
<1> HIDE DEF place
<1>3. MovedTo(r, place) /\ SameBooks(r)
  BY <1>1, <1>2, GoMoves DEF RunInv
<1>4. DriverInv(r)'
  <2>1. simulation[r].accepted \subseteq Simulation!Legs /\ DriverInv(r)
    BY DEF RunInv, Simulation!TypeOK
  <2>2. /\ \A m \in simulation'[r].accepted : submission'[Simulation!IntentOf(r, m)] = "ACCEPTED"
        /\ facts'[Simulation!KeyOf(r)] # None
    BY <1>1, <1>2, <1>3, <2>1 DEF DriverInv, SameBooks
  <2>3. ASSUME NEW m \in Simulation!Legs
        PROVE  /\ place \in PastLeg[m] => submission'[Simulation!IntentOf(r, m)] \in {"ACCEPTED", "UNKNOWN"}
               /\ submission'[Simulation!IntentOf(r, m)] = "ACCEPTED" => m \in simulation'[r].accepted
               /\ \A t \in trades' : t.intent # Simulation!IntentOf(r, m)
    BY <1>1, <1>2, <1>3, <2>1 DEF DriverInv, Sent, SameBooks
  <2> QED BY <1>2, <1>3, <2>2, <2>3, DriverNow
<1> QED BY <1>1, <1>2, <1>3, <1>4, QuietStep

LEMMA MatchStep ==
    ASSUME RunInv, NEW r \in Simulations, NEW buy \in 0 .. Target, NEW sell \in 0 .. Target,
           Simulation!Match(r, buy, sell)
    PROVE  RunInv'
<1> DEFINE fills == [buy |-> buy, sell |-> sell]
<1>1. /\ simulation[r].pc = "match"
      /\ simulation' = [simulation EXCEPT ![r].pc = "book_buy", ![r].fill = fills]
      /\ UNCHANGED <<clock, funds, plans, facts, submission, cancel, order, trades, reports>>
  BY DEF Simulation!Match, Simulation!At, Simulation!orders
<1>2. fills \in [Simulation!Legs -> 0 .. Target]
  BY PlacesAreSteps
<1> HIDE DEF fills
<1>3. MovedTo(r, "book_buy") /\ simulation'[r].accepted = simulation[r].accepted
  <2>1. simulation \in [Simulations -> [pc : Simulation!Steps, stamp : Simulation!Stamps,
                          dir : {"a", "b"}, content : Contents \cup {None},
                          accepted : SUBSET Simulation!Legs,
                          fill : [Simulation!Legs -> 0 .. Target]]]
    BY DEF RunInv, Simulation!TypeOK
  <2>2. "book_buy" \in Simulation!Steps
    BY PlacesAreSteps
  <2> QED BY <1>1, <1>2, <2>1, <2>2 DEF MovedTo
<1>4. \A m \in Simulation!Legs :
        /\ Simulation!AnswerStep[m] # "book_buy" /\ Simulation!QueryStep[m] # "book_buy"
        /\ "match" \in PastLeg[m] /\ "match" \notin BookedLeg[m] /\ "book_buy" \notin BookedLeg[m]
  BY PlacesAreSteps DEF PastLeg, BookedLeg
<1>5. Drives("match") /\ Drives("book_buy")
  BY DEF Drives
<1>6. DriverInv(r)'
  <2>1. DriverInv(r) /\ simulation[r].accepted \subseteq Simulation!Legs
    BY DEF RunInv, Simulation!TypeOK
  <2>2. /\ \A m \in simulation'[r].accepted : submission'[Simulation!IntentOf(r, m)] = "ACCEPTED"
        /\ facts'[Simulation!KeyOf(r)] # None
    BY <1>1, <1>3, <1>5, <2>1 DEF DriverInv
  <2>3. ASSUME NEW m \in Simulation!Legs
        PROVE  /\ submission'[Simulation!IntentOf(r, m)] \in {"ACCEPTED", "UNKNOWN"}
               /\ submission'[Simulation!IntentOf(r, m)] = "ACCEPTED" => m \in simulation'[r].accepted
               /\ \A t \in trades' : t.intent # Simulation!IntentOf(r, m)
    BY <1>1, <1>3, <1>4, <1>5, <2>1 DEF DriverInv, Sent
  <2> QED BY <1>1, <1>3, <1>4, <1>5, <2>2, <2>3, DriverNow
<1> QED BY <1>1, <1>3, <1>5, <1>6, QuietStep

\* The two places at which a leg is booked or passed over.
LEMMA BookPlaces ==
    ASSUME NEW l \in Simulation!Legs, NEW m \in Simulation!Legs
    PROVE  /\ Simulation!AfterBook[l] \in Simulation!Steps /\ Drives(Simulation!AfterBook[l])
           /\ Drives(Simulation!BookStep[l]) /\ Simulation!BookStep[l] # "initialize"
           /\ Simulation!AfterBook[l] # "off" /\ Simulation!AfterBook[l] # "initialize"
           /\ Simulation!AfterBook[l] # Simulation!AnswerStep[m]
           /\ Simulation!AfterBook[l] # Simulation!QueryStep[m]
           /\ Simulation!BookStep[l] \in PastLeg[m]
           /\ Simulation!BookStep[l] \notin BookedLeg[l]
           /\ m # l => (Simulation!AfterBook[l] \in BookedLeg[m] <=> Simulation!BookStep[l] \in BookedLeg[m])
           /\ Simulation!AfterBook[l] \in BookedLeg[l]
BY PlacesAreSteps DEF PastLeg, BookedLeg, Drives

\* The trades of an order of r, as DriverInv counts them.
LEMMA BookedNow ==
    ASSUME NEW r \in Simulations, NEW m
    PROVE  Simulation!Booked(Simulation!KeyOf(r), m)
             = {t.trade.quantity : t \in {u \in trades : u.intent = Simulation!IntentOf(r, m)}}
BY DEF Simulation!Booked, Simulation!KeyOf, Simulation!IntentOf

LEMMA SkipTradeStep ==
    ASSUME RunInv, NEW r \in Simulations, NEW l \in Simulation!Legs, Simulation!SkipTrade(r, l)
    PROVE  RunInv'
<1> DEFINE place == Simulation!AfterBook[l]
<1>1. /\ simulation[r].pc = Simulation!BookStep[l] /\ Simulation!Go(r, place)
      /\ l \notin simulation[r].accepted \/ simulation[r].fill[l] = 0
      /\ UNCHANGED <<clock, funds, plans, facts, submission, cancel, order, trades, reports>>
  BY DEF Simulation!SkipTrade, Simulation!At, Simulation!orders
<1>2. /\ \A m \in Simulation!Legs :
           /\ place # Simulation!AnswerStep[m] /\ place # Simulation!QueryStep[m]
           /\ simulation[r].pc \in PastLeg[m]
           /\ m # l => (place \in BookedLeg[m] <=> simulation[r].pc \in BookedLeg[m])
      /\ simulation[r].pc \notin BookedLeg[l] /\ place \in BookedLeg[l]
      /\ place \in Simulation!Steps /\ Drives(place) /\ Drives(simulation[r].pc)
      /\ simulation[r].pc # "initialize" /\ place # "off"
  BY <1>1, BookPlaces
<1> HIDE DEF place
<1>3. MovedTo(r, place) /\ SameBooks(r)
  BY <1>1, <1>2, GoMoves DEF RunInv
<1>4. DriverInv(r)'
  <2>1. DriverInv(r) /\ simulation[r].accepted \subseteq Simulation!Legs
    BY DEF RunInv, Simulation!TypeOK
  <2>2. /\ \A m \in simulation'[r].accepted : submission'[Simulation!IntentOf(r, m)] = "ACCEPTED"
        /\ facts'[Simulation!KeyOf(r)] # None
    BY <1>1, <1>2, <1>3, <2>1 DEF DriverInv, SameBooks
  <2>3. ASSUME NEW m \in Simulation!Legs
        PROVE  /\ submission'[Simulation!IntentOf(r, m)] \in {"ACCEPTED", "UNKNOWN"}
               /\ submission'[Simulation!IntentOf(r, m)] = "ACCEPTED" => m \in simulation'[r].accepted
    BY <1>1, <1>2, <1>3, <2>1 DEF DriverInv, Sent, SameBooks
  <2>4. ASSUME NEW m \in Simulation!Legs
        PROVE  /\ place \notin BookedLeg[m] => \A t \in trades' : t.intent # Simulation!IntentOf(r, m)
               /\ place \in BookedLeg[m] /\ submission'[Simulation!IntentOf(r, m)] = "ACCEPTED" =>
                     {t.trade.quantity : t \in {u \in trades' : u.intent = Simulation!IntentOf(r, m)}}
                       = (IF simulation'[r].fill[m] > 0 THEN {simulation'[r].fill[m]} ELSE {})
    <3>1. CASE m # l
      BY <1>1, <1>2, <1>3, <2>1, <3>1, BookedNow DEF DriverInv, SameBooks
    <3>2. CASE m = l
      <4>1. \A t \in trades : t.intent # Simulation!IntentOf(r, l)
        BY <1>2, <2>1 DEF DriverInv
      <4>2. {t.trade.quantity : t \in {u \in trades : u.intent = Simulation!IntentOf(r, l)}} = {}
        BY <4>1
      <4>3. submission[Simulation!IntentOf(r, l)] = "ACCEPTED" => simulation[r].fill[l] = 0
        BY <1>1, <1>2, <2>1 DEF DriverInv
      <4> QED BY <1>1, <1>2, <1>3, <3>2, <4>2, <4>3 DEF SameBooks
    <3> QED BY <3>1, <3>2
  <2> QED BY <1>2, <1>3, <2>2, <2>3, <2>4, DriverNow
<1> QED BY <1>1, <1>2, <1>3, <1>4, QuietStep

\* Booking a fill adds one trade to the order of the leg, which had none.
LEMMA RecordTradeStep ==
    ASSUME RunInv, NEW r \in Simulations, NEW l \in Simulation!Legs, Simulation!RecordTrade(r, l)
    PROVE  RunInv'
<1> DEFINE place == Simulation!AfterBook[l]
           i == Simulation!IntentOf(r, l)
           trade == Simulation!TradeOf(r, l, simulation[r].fill[l])
           booked == [intent |-> i, trade |-> trade]
<1>1. /\ simulation[r].pc = Simulation!BookStep[l] /\ Simulation!Go(r, place)
      /\ l \in simulation[r].accepted /\ simulation[r].fill[l] > 0
      /\ order[i] = trade.order
      /\ trades' = trades \cup {booked}
      /\ UNCHANGED <<clock, funds, plans, facts, submission, cancel, order, reports>>
  BY DEF Simulation!RecordTrade, Simulation!At, Simulation!Orders!Book
<1>2. /\ \A m \in Simulation!Legs :
           /\ place # Simulation!AnswerStep[m] /\ place # Simulation!QueryStep[m]
           /\ simulation[r].pc \in PastLeg[m]
           /\ m # l => (place \in BookedLeg[m] <=> simulation[r].pc \in BookedLeg[m])
      /\ simulation[r].pc \notin BookedLeg[l] /\ place \in BookedLeg[l]
      /\ place \in Simulation!Steps /\ Drives(place) /\ Drives(simulation[r].pc)
      /\ simulation[r].pc # "initialize" /\ place # "off"
  BY <1>1, BookPlaces
<1> HIDE DEF place
<1>3. MovedTo(r, place) /\ SameBooks(r)
  BY <1>1, <1>2, GoMoves DEF RunInv
<1>4. /\ i \in Simulation!Intents /\ i.stamp = simulation[r].stamp
      /\ \A m \in Simulation!Legs : m # l => Simulation!IntentOf(r, m) # i
  <2>1. \A m \in Simulation!Legs : Simulation!IntentOf(r, m).leg = m
    BY DEF Simulation!IntentOf
  <2> QED BY <2>1, DriverFacts DEF Simulation!IntentOf
<1>5. DriverInv(r) /\ simulation[r].accepted \subseteq Simulation!Legs /\ submission[i] = "ACCEPTED"
  BY <1>1 DEF RunInv, Simulation!TypeOK, DriverInv
<1>6. booked.intent = i /\ booked.trade.order = i /\ booked.trade.quantity = simulation[r].fill[l]
  BY DEF Simulation!TradeOf
<1>7. booked \in [intent : Simulation!Intents, trade : Simulation!Trades]
  <2>1. simulation[r].fill[l] \in 1 .. Target
    BY <1>1 DEF RunInv, Simulation!TypeOK
  <2>2. trade \in Simulation!Trades
    BY <1>4, <2>1 DEF Simulation!TradeOf, Simulation!Trades
  <2> QED BY <1>4, <2>2
<1> HIDE DEF booked
<1>8. Simulation!TypeOK'
  BY <1>1, <1>3, <1>7 DEF RunInv, Simulation!TypeOK, MovedTo
<1>9. OwnRows(r)
  BY <1>1, <1>4, <1>6 DEF OwnRows
<1>10. TablesInv'
  <2>1. TablesInv /\ order[i] = booked.trade.order
    BY <1>1, <1>6 DEF RunInv, Simulation!TradeOf
  <2>2. \A t \in trades' : order'[t.intent] = t.trade.order /\ submission'[t.intent] = "ACCEPTED"
    BY <1>1, <1>5, <1>6, <2>1 DEF TablesInv
  <2> QED BY <1>1, <2>1, <2>2 DEF TablesInv, Sent
<1>11. DriverInv(r)'
  <2>1. /\ \A m \in simulation'[r].accepted : submission'[Simulation!IntentOf(r, m)] = "ACCEPTED"
        /\ facts'[Simulation!KeyOf(r)] # None
    BY <1>1, <1>2, <1>3, <1>5 DEF DriverInv, SameBooks
  <2>2. ASSUME NEW m \in Simulation!Legs
        PROVE  /\ submission'[Simulation!IntentOf(r, m)] \in {"ACCEPTED", "UNKNOWN"}
               /\ submission'[Simulation!IntentOf(r, m)] = "ACCEPTED" => m \in simulation'[r].accepted
    BY <1>1, <1>2, <1>3, <1>5 DEF DriverInv, Sent, SameBooks
  <2>3. ASSUME NEW m \in Simulation!Legs
        PROVE  /\ place \notin BookedLeg[m] => \A t \in trades' : t.intent # Simulation!IntentOf(r, m)
               /\ place \in BookedLeg[m] /\ submission'[Simulation!IntentOf(r, m)] = "ACCEPTED" =>
                     {t.trade.quantity : t \in {u \in trades' : u.intent = Simulation!IntentOf(r, m)}}
                       = (IF simulation'[r].fill[m] > 0 THEN {simulation'[r].fill[m]} ELSE {})
    <3>1. CASE m # l
      <4>1. {u \in trades' : u.intent = Simulation!IntentOf(r, m)}
              = {u \in trades : u.intent = Simulation!IntentOf(r, m)}
        BY <1>1, <1>4, <1>6, <3>1
      <4>2. /\ place \notin BookedLeg[m] => \A t \in trades : t.intent # Simulation!IntentOf(r, m)
            /\ place \in BookedLeg[m] /\ submission[Simulation!IntentOf(r, m)] = "ACCEPTED" =>
                 {t.trade.quantity : t \in {u \in trades : u.intent = Simulation!IntentOf(r, m)}}
                       = (IF simulation[r].fill[m] > 0 THEN {simulation[r].fill[m]} ELSE {})
        BY <1>2, <1>5, <3>1, BookedNow DEF DriverInv
      <4>3. \A t \in trades' : t.intent = Simulation!IntentOf(r, m) => t \in trades
        BY <4>1
      <4> QED BY <1>1, <1>3, <4>1, <4>2, <4>3 DEF SameBooks
    <3>2. CASE m = l
      <4>1. \A t \in trades : t.intent # i
        BY <1>2, <1>5 DEF DriverInv
      <4>2. {u \in trades' : u.intent = i} = {booked}
        BY <1>1, <1>6, <4>1
      <4>3. {t.trade.quantity : t \in {u \in trades' : u.intent = i}} = {simulation[r].fill[l]}
        BY <1>6, <4>2
      <4> QED BY <1>1, <1>2, <1>3, <3>2, <4>3 DEF SameBooks
    <3> QED BY <3>1, <3>2
  <2> QED BY <1>2, <1>3, <2>1, <2>2, <2>3, DriverNow
<1> QED BY <1>1, <1>2, <1>3, <1>8, <1>9, <1>10, <1>11, DriverStep

\* The evaluation changes the state of the run's own plan, whose orders were both sent.
LEMMA EvaluateStep ==
    ASSUME RunInv, NEW r \in Simulations, NEW state \in Simulation!States,
           Simulation!Evaluate(r, state)
    PROVE  RunInv'
<1>1. /\ simulation[r].pc = "evaluate" /\ Simulation!Go(r, "persist")
      /\ facts' = [facts EXCEPT ![Simulation!KeyOf(r)] = state]
      /\ UNCHANGED <<clock, funds, plans, submission, cancel, order, trades, reports>>
  BY DEF Simulation!Evaluate, Simulation!At, Simulation!orders
<1>2. MovedTo(r, "persist") /\ SameBooks(r) /\ Drives("evaluate") /\ Drives("persist")
  BY <1>1, PlacesAreSteps, GoMoves DEF RunInv, Drives
<1>3. /\ facts \in [Simulation!Keys -> Simulation!States \cup {None}]
      /\ Simulation!KeyOf(r) \in Simulation!Keys /\ Simulation!KeyOf(r).stamp = simulation[r].stamp
      /\ state # None
  BY DriverFacts, DecisionsAssumption
     DEF RunInv, Simulation!TypeOK, Simulation!RunAssumption, Simulation!KeyOf
<1>4. /\ facts' \in [Simulation!Keys -> Simulation!States \cup {None}]
      /\ facts'[Simulation!KeyOf(r)] = state
      /\ \A k \in Simulation!Keys : k # Simulation!KeyOf(r) => facts'[k] = facts[k]
  BY <1>1, <1>3
<1>5. Simulation!TypeOK'
  BY <1>1, <1>2, <1>4 DEF RunInv, Simulation!TypeOK, MovedTo
<1>6. OwnRows(r)
  BY <1>1, <1>3, <1>4 DEF OwnRows
<1>7. \A l \in Simulation!Legs :
        /\ Simulation!AnswerStep[l] # "persist" /\ Simulation!QueryStep[l] # "persist"
        /\ "evaluate" \in PastLeg[l] /\ "persist" \in PastLeg[l]
        /\ "evaluate" \in BookedLeg[l] /\ "persist" \in BookedLeg[l]
  BY PlacesAreSteps DEF PastLeg, BookedLeg
<1>8. DriverInv(r) /\ simulation[r].accepted \subseteq Simulation!Legs
  BY DEF RunInv, Simulation!TypeOK
<1>9. TablesInv'
  <2>1. PICK p \in plans : p.by = r /\ p.key = Simulation!KeyOf(r)
    BY <1>1, <1>2, DriverFacts
  <2>2. \A s \in plans : s.key \in Simulation!Keys
    BY DEF RunInv, Simulation!TypeOK
  <2>3. TablesInv
    BY DEF RunInv
  <2>4. \A l \in Simulation!Legs : Sent(Simulation!IntentOf(r, l))
    BY <1>1, <1>2, <1>7, <1>8 DEF DriverInv
  <2>5. ASSUME NEW k \in Simulation!Keys, facts'[k] # None
        PROVE  /\ \E s \in plans : s.key = k
               /\ facts'[k] # "PLANNED" => \A l \in Simulation!Legs : Sent([stamp |-> k.stamp, leg |-> l])
    <3>1. CASE k = Simulation!KeyOf(r)
      <4>1. \A l \in Simulation!Legs : [stamp |-> k.stamp, leg |-> l] = Simulation!IntentOf(r, l)
        BY <1>3, <3>1 DEF Simulation!IntentOf
      <4> QED BY <2>1, <2>4, <3>1, <4>1
    <3>2. CASE k # Simulation!KeyOf(r)
      BY <1>4, <2>3, <2>5, <3>2 DEF TablesInv
    <3> QED BY <3>1, <3>2
  <2>6. ASSUME NEW j \in Simulation!Intents, submission[j] # "NOT_SENT"
        PROVE  \E s \in plans : s.key.stamp = j.stamp /\ facts'[s.key] # None
    BY <1>3, <1>4, <2>2, <2>3, <2>6 DEF TablesInv
  <2> QED BY <1>1, <2>3, <2>5, <2>6 DEF TablesInv, Sent
<1>10. DriverInv(r)'
  <2>1. /\ \A m \in simulation'[r].accepted : submission'[Simulation!IntentOf(r, m)] = "ACCEPTED"
        /\ facts'[Simulation!KeyOf(r)] # None
    BY <1>1, <1>2, <1>3, <1>4, <1>8 DEF DriverInv, SameBooks
  <2>2. ASSUME NEW m \in Simulation!Legs
        PROVE  /\ submission'[Simulation!IntentOf(r, m)] \in {"ACCEPTED", "UNKNOWN"}
               /\ submission'[Simulation!IntentOf(r, m)] = "ACCEPTED" => m \in simulation'[r].accepted
               /\ submission'[Simulation!IntentOf(r, m)] = "ACCEPTED" =>
                     {t.trade.quantity : t \in {u \in trades' : u.intent = Simulation!IntentOf(r, m)}}
                       = (IF simulation'[r].fill[m] > 0 THEN {simulation'[r].fill[m]} ELSE {})
    BY <1>1, <1>2, <1>7, <1>8, BookedNow DEF DriverInv, Sent, SameBooks
  <2> QED BY <1>1, <1>2, <1>7, <2>1, <2>2, DriverNow
<1> QED BY <1>1, <1>2, <1>5, <1>6, <1>9, <1>10, DriverStep

\* A run that fails with its plan leaves what it has written as it is.
LEMMA FailStep ==
    ASSUME RunInv, NEW r \in Simulations, Simulation!Fail(r), Drives(simulation[r].pc)
    PROVE  RunInv'
<1>1. /\ Simulation!Go(r, "failed")
      /\ UNCHANGED <<clock, funds, plans, facts, submission, cancel, order, trades, reports>>
  BY DEF Simulation!Fail, Simulation!orders
<1>2. MovedTo(r, "failed") /\ SameBooks(r) /\ ~Drives("failed")
  BY <1>1, PlacesAreSteps, GoMoves DEF RunInv, Drives
<1>3. DriverInv(r)'
  BY <1>1, <1>2 DEF RunInv, DriverInv, MovedTo, SameBooks, Drives, Simulation!IntentOf
<1> QED BY <1>1, <1>2, <1>3, QuietStep

\* A report, of a run that went through to the end or of one that reserved nothing,
\* says what is in the tables.
LEMMA PersistStep == ASSUME RunInv, NEW r \in Simulations, Simulation!Persist(r) PROVE RunInv'
<1> DEFINE new == [by |-> r, key |-> Simulation!KeyOf(r), kind |-> simulation[r].pc,
                   fill |-> simulation[r].fill,
                   state |-> IF simulation[r].pc = "persist" THEN facts[Simulation!KeyOf(r)]
                             ELSE "PLANNED"]
<1>0. PICK report : report = new
  OBVIOUS
<1>1. /\ simulation[r].pc \in {"reject", "replay", "persist"} /\ Simulation!Go(r, "done")
      /\ UNCHANGED <<clock, funds, plans, facts, submission, cancel, order, trades>>
      /\ reports' = reports \/ reports' = reports \cup {report}
  BY <1>0 DEF Simulation!Persist, Simulation!At, Simulation!orders
<1>2. MovedTo(r, "done") /\ SameBooks(r) /\ ~Drives("done") /\ ~Drives("reject") /\ ~Drives("replay")
      /\ Drives("persist")
  BY <1>1, PlacesAreSteps, GoMoves DEF RunInv, Drives
<1>3. DriverInv(r) /\ Simulation!KeyOf(r) \in Simulation!Keys
      /\ simulation[r].fill \in [Simulation!Legs -> 0 .. Target]
  BY DriverFacts DEF RunInv, Simulation!TypeOK
<1>4. /\ report.by = r /\ report.key = Simulation!KeyOf(r) /\ report.kind = simulation[r].pc
      /\ report.fill = simulation[r].fill
      /\ report.state = IF simulation[r].pc = "persist" THEN facts[Simulation!KeyOf(r)]
                        ELSE "PLANNED"
  BY <1>0
<1>5. report \in [by : Simulations, key : Simulation!Keys, kind : {"reject", "replay", "persist"},
                  fill : [Simulation!Legs -> 0 .. Target], state : Simulation!States]
  <2>1. report.state \in Simulation!States
    <3>1. facts[Simulation!KeyOf(r)] \in Simulation!States \cup {None} /\ "PLANNED" \in Simulation!States
      BY <1>3 DEF RunInv, Simulation!TypeOK, Simulation!States
    <3> QED BY <1>2, <1>3, <1>4, <3>1 DEF DriverInv
  <2> QED BY <1>0, <1>1, <1>3, <2>1
<1> HIDE DEF new
<1>6. Simulation!TypeOK'
  BY <1>1, <1>2, <1>5 DEF RunInv, Simulation!TypeOK, MovedTo
<1>7. CASE simulation[r].pc = "persist"
  <2>1. OwnRows(r) /\ \A q \in Simulations \ {r} : simulation'[q] = simulation[q]
    BY <1>1, <1>2 DEF OwnRows, MovedTo
  <2>2. PlansInv'
    BY <1>1, <1>2, <1>7, PlansKept
  <2>3. TablesInv'
    BY <1>1 DEF RunInv, TablesInv, Sent
  <2>4. \A q \in Simulations \ {r} : DriverInv(q)'
    BY <1>2, <1>7, <2>1, OtherDrivers
  <2>5. DriverInv(r)'
    BY <1>1, <1>2, <1>7 DEF RunInv, DriverInv, MovedTo, SameBooks, Drives, Simulation!IntentOf
  <2>6. \A q \in reports : ReportInv(q)'
    BY <1>2, <1>7, <2>1, OtherReports
  <2>7. ReportInv(report)'
    <3>1. PICK p \in plans : p.by = r /\ p.key = Simulation!KeyOf(r)
      BY <1>2, <1>7, DriverFacts
    <3>2. \A l \in Simulation!Legs :
             submission[Simulation!IntentOf(r, l)] = "ACCEPTED" =>
                Simulation!Booked(Simulation!KeyOf(r), l)
                  = (IF simulation[r].fill[l] > 0 THEN {simulation[r].fill[l]} ELSE {})
      BY <1>2, <1>3, <1>7, PlacesAreSteps DEF DriverInv, BookedLeg
    <3>3. \A l \in Simulation!Legs :
             [stamp |-> Simulation!KeyOf(r).stamp, leg |-> l] = Simulation!IntentOf(r, l)
      BY DEF Simulation!KeyOf, Simulation!IntentOf
    <3>4. \A l \in Simulation!Legs :
             Simulation!Booked(Simulation!KeyOf(r), l)
               = {t.trade.quantity : t \in {u \in trades :
                     u.intent = [stamp |-> Simulation!KeyOf(r).stamp, leg |-> l]}}
      BY DEF Simulation!Booked
    <3> DEFINE k == Simulation!KeyOf(r)
    <3>5. /\ simulation'[r].pc = "done"
          /\ \E q \in plans' : q.key = k /\ q.by = r
          /\ facts'[k] = facts[k]
      BY <1>1, <1>2, <3>1 DEF MovedTo
    <3>6. ASSUME NEW l \in Simulation!Legs, submission'[[stamp |-> k.stamp, leg |-> l]] = "ACCEPTED"
          PROVE {t.trade.quantity : t \in {u \in trades' : u.intent = [stamp |-> k.stamp, leg |-> l]}}
                  = (IF simulation[r].fill[l] > 0 THEN {simulation[r].fill[l]} ELSE {})
      BY <1>1, <3>2, <3>3, <3>4, <3>6
    <3> HIDE DEF k
    <3>7. /\ report.by = r /\ report.key = k /\ report.kind = "persist"
          /\ report.fill = simulation[r].fill /\ report.state = facts[k]
      BY <1>4, <1>7 DEF k
    <3> QED BY <3>5, <3>6, <3>7 DEF ReportInv, Simulation!Booked
  <2> QED BY <1>1, <1>6, <2>2, <2>3, <2>4, <2>5, <2>6, <2>7 DEF RunInv
<1>8. CASE simulation[r].pc \in {"reject", "replay"}
  <2>1. /\ PlansInv' /\ TablesInv'
        /\ \A q \in Simulations : DriverInv(q)'
        /\ \A q \in reports : ReportInv(q)'
    <3>1. simulation[r].content \in Contents
      BY <1>3, <1>8 DEF DriverInv
    <3> QED BY <1>1, <1>2, <1>6, <1>8, <3>1, AsideStep DEF MovedTo, SameBooks
  <2>2. \A p \in plans : p.by # r
    BY <1>2, <1>8 DEF RunInv, PlansInv
  <2>3. ReportInv(report)'
    BY <1>1, <1>2, <1>4, <1>8, <2>2 DEF ReportInv, MovedTo
  <2> QED BY <1>1, <1>6, <2>1, <2>3 DEF RunInv
<1> QED BY <1>1, <1>7, <1>8

\* Where nothing but the clock moves.
LEMMA StillStep ==
    ASSUME RunInv, clock' \in Simulation!Stamps,
           UNCHANGED <<simulation, funds, plans, facts, submission, cancel, order, trades, reports>>
    PROVE  RunInv'
<1>1. Simulation!TypeOK'
  BY DEF RunInv, Simulation!TypeOK
<1>2. PlansInv'
  BY DEF RunInv, PlansInv, Simulation!KeyOf
<1>3. TablesInv'
  BY DEF RunInv, TablesInv, Sent
<1>4. ASSUME NEW r \in Simulations PROVE DriverInv(r)'
  <2>1. /\ Simulation!KeyOf(r)' = Simulation!KeyOf(r)
        /\ \A l : Simulation!IntentOf(r, l)' = Simulation!IntentOf(r, l)
    BY DEF Simulation!KeyOf, Simulation!IntentOf
  <2>2. \A l : Simulation!Booked(Simulation!KeyOf(r), l)' = Simulation!Booked(Simulation!KeyOf(r), l)
    BY <2>1 DEF Simulation!Booked
  <2> QED BY <2>1, <2>2 DEF RunInv, DriverInv, Sent
<1>5. ASSUME NEW q \in reports PROVE ReportInv(q)'
  <2>1. ReportInv(q)
    BY DEF RunInv
  <2>2. \A l : Simulation!Booked(q.key, l)' = Simulation!Booked(q.key, l)
    BY DEF Simulation!Booked
  <2> QED BY <2>1, <2>2 DEF ReportInv
<1> QED BY <1>1, <1>2, <1>3, <1>4, <1>5 DEF RunInv

LEMMA RunStep == RunInv /\ [Simulation!Next]_runVars => RunInv'
<1> SUFFICES ASSUME RunInv, [Simulation!Next]_runVars PROVE RunInv'
  OBVIOUS
<1>1. CASE Simulation!Tick
  <2>1. /\ clock' \in Simulation!Stamps
        /\ UNCHANGED <<simulation, funds, plans, facts, submission, cancel, order, trades, reports>>
    BY <1>1, DecisionsAssumption
       DEF Simulation!Tick, RunInv, Simulation!TypeOK, Simulation!Stamps, Simulation!RunAssumption,
           Simulation!orders
  <2> QED BY <2>1, StillStep
<1>2. CASE UNCHANGED runVars
  BY <1>2, StillStep DEF runVars, RunInv, Simulation!TypeOK
<1>3. ASSUME NEW r \in Simulations,
             \/ \E d \in {"a", "b"}, c \in Contents : Simulation!Start(r, d, c)
             \/ \E enough \in BOOLEAN : Simulation!Fund(r, enough)
             \/ Simulation!Precheck(r) \/ Simulation!Reserve(r) \/ Simulation!Replay(r)
             \/ Simulation!Initialize(r)
      PROVE  RunInv'
  BY <1>3, StartStep, BeforePlanSteps, ReserveStep, InitializeStep
<1>4. ASSUME NEW r \in Simulations, NEW l \in Simulation!Legs,
             \/ Simulation!Submit(r, l) \/ Simulation!Confirm(r, l) \/ Simulation!LoseAnswer(r, l)
             \/ Simulation!NotFound(r, l) \/ Simulation!RecordTrade(r, l) \/ Simulation!SkipTrade(r, l)
      PROVE  RunInv'
  BY <1>4, SubmitStep, ConfirmStep, LoseAnswerStep, NotFoundStep, RecordTradeStep, SkipTradeStep
<1>5. ASSUME NEW r \in Simulations,
             \/ \E buy, sell \in 0 .. Target : Simulation!Match(r, buy, sell)
             \/ \E state \in Simulation!States : Simulation!Evaluate(r, state)
             \/ Simulation!Persist(r) \/ Simulation!Fail(r)
      PROVE  RunInv'
  BY <1>5, MatchStep, EvaluateStep, PersistStep, FailStep, BeforePlanSteps
<1> QED BY <1>1, <1>2, <1>3, <1>4, <1>5 DEF Simulation!Next

\* However many runs of the engine and of the smoke command start in the same
\* millisecond, and wherever each fails: a plan has one driver, a trade has its order,
\* an order its plan, an evaluation two orders sent, and a report says what was booked.
THEOREM RunsStayInOrder == Spec => []RunsInOrder
<1> DEFINE Inv == part = "run" => RunInv
<1>1. Init => Inv
  BY RunInit DEF Init
<1>2. Inv /\ [Next]_vars => Inv'
  <2> SUFFICES ASSUME Inv, [Next]_vars, part' = "run" PROVE RunInv'
    OBVIOUS
  <2>1. part = "run" /\ RunInv
    BY DEF Next, vars, OfScan, OfArchive, OfLeg, OfRun, OfQuery
  <2>2. [Simulation!Next]_runVars
    BY <2>1 DEF Next, vars, runVars, OfScan, OfArchive, OfLeg, OfRun, OfQuery
  <2> QED BY <2>1, <2>2, RunStep
<1>3. Inv => RunsInOrder
  BY RunPromise DEF RunsInOrder
<1> QED BY <1>1, <1>2, <1>3, PTL DEF Spec

-----------------------------------------------------------------------------
(* The leg *)

LEMMA LegSums == ASSUME NEW f, NEW S PROVE Leg!SumOver(f, S) = SumOver(f, S)
BY DEF Leg!SumOver, SumOver, Leg!MapThenFoldSet, MapThenFoldSet

\* What a competitor leaves of n, rounded down to whole steps, is no more than n.
LEMMA LeftOver ==
    ASSUME NEW n \in Nat, NEW u \in Nat \ {0}, NEW s \in Nat \ {0}, NEW m \in 0 .. u
    PROVE  ((n * (u - m)) \div (u * s)) * s \in 0 .. n
<1> DEFINE x == n * (u - m)
           d == u * s
           q == x \div d
           y == q * s
<1>1. x \in Nat /\ x <= n * u
  OBVIOUS
<1>2. d \in Nat \ {0}
  OBVIOUS
<1>3. q \in Nat /\ q * d <= x
  <2> HIDE DEF x, d
  <2> QED BY <1>1, <1>2
<1> HIDE DEF x, q
<1>4. q * d = (q * s) * u
  BY <1>3
<1>5. y \in Nat /\ y * u <= n * u
  BY <1>1, <1>3, <1>4
<1> HIDE DEF y
<1>6. y <= n
  BY <1>5
<1> QED BY <1>5, <1>6 DEF q, x, y

\* A price moved down and rounded down to the tick is no higher.
LEMMA Lowered ==
    ASSUME NEW p \in Nat, NEW u \in Nat \ {0}, NEW t \in Nat \ {0}, NEW a \in 0 .. u
    PROVE  /\ ((p * (u - a)) \div (u * t)) * t \in 0 .. p
           /\ (((p * (u - a)) \div (u * t)) * t) % t = 0
<1>1. ((p * (u - a)) \div (u * t)) * t \in 0 .. p
  BY LeftOver
<1> DEFINE q == (p * (u - a)) \div (u * t)
<1>2. q \in Nat
  <2> DEFINE x == p * (u - a)
             d == u * t
  <2>1. x \in Nat /\ d \in Nat \ {0}
    OBVIOUS
  <2> HIDE DEF x, d
  <2>2. x \div d \in Nat
    BY <2>1
  <2> QED BY <2>2 DEF x, d
<1> HIDE DEF q
<1>3. (q * t) % t = 0
  BY <1>2
<1> QED BY <1>1, <1>3 DEF q

\* A price moved up and rounded up to the tick is no lower.
LEMMA Raised ==
    ASSUME NEW p \in Nat, NEW u \in Nat \ {0}, NEW t \in Nat \ {0}, NEW a \in 0 .. u
    PROVE  /\ ((p * (u + a) + u * t - 1) \div (u * t)) * t \in Nat
           /\ ((p * (u + a) + u * t - 1) \div (u * t)) * t >= p
           /\ (((p * (u + a) + u * t - 1) \div (u * t)) * t) % t = 0
<1> DEFINE x == p * (u + a)
           d == u * t
           q == (x + d - 1) \div d
           y == q * t
<1>1. x \in Nat /\ p * u <= x
  OBVIOUS
<1>2. d \in Nat \ {0}
  OBVIOUS
<1>3. q \in Nat /\ x <= q * d
  <2> HIDE DEF x, d
  <2>1. x + d - 1 \in Nat
    BY <1>1, <1>2
  <2> DEFINE z == x + d - 1
  <2>2. z \in Nat /\ z - d + 1 = x
    BY <1>1, <1>2, <2>1
  <2> HIDE DEF z
  <2>3. z \div d \in Nat /\ z < (z \div d) * d + d
    BY <1>2, <2>2
  <2> QED BY <1>1, <1>2, <2>2, <2>3 DEF z
<1> HIDE DEF x, q
<1>4. q * d = (q * t) * u
  BY <1>3
<1>5. y \in Nat /\ p * u <= y * u /\ y % t = 0
  BY <1>1, <1>3, <1>4
<1> HIDE DEF y
<1>6. y >= p
  BY <1>5
<1> QED BY <1>5, <1>6 DEF q, x, y

\* The legs of the inputs, field by field.
LEMMA LegFields ==
    ASSUME leg \in Inputs
    PROVE  /\ leg.side \in {"Asks", "Bids"} /\ leg.requested \in Nat \ {0}
           /\ leg.step \in Nat \ {0} /\ leg.tick \in Nat \ {0}
           /\ leg.adverse \in 0 .. Unit /\ leg.take \in 0 .. Unit /\ Unit \in Nat \ {0}
           /\ Len(leg.levels) \in Nat /\ DOMAIN leg.levels = 1 .. Len(leg.levels)
           /\ \A k \in 1 .. Len(leg.levels) : /\ leg.levels[k].price \in Nat \ {0}
                                              /\ leg.levels[k].quantity \in Nat \ {0}
<1>1. leg \in Leg!InputType /\ Unit \in Nat \ {0}
  BY DecisionsAssumption DEF Leg!SimulateLegAssumption
<1>2. leg.levels \in Seq([price : Nat \ {0}, quantity : Nat \ {0}])
  BY <1>1 DEF Leg!InputType
<1>3. /\ Len(leg.levels) \in Nat /\ DOMAIN leg.levels = 1 .. Len(leg.levels)
      /\ \A k \in 1 .. Len(leg.levels) : leg.levels[k] \in [price : Nat \ {0}, quantity : Nat \ {0}]
  <2> DEFINE seq == leg.levels
             R == [price : Nat \ {0}, quantity : Nat \ {0}]
  <2>1. seq \in Seq(R)
    BY <1>2
  <2> HIDE DEF seq, R
  <2>2. Len(seq) \in Nat /\ DOMAIN seq = 1 .. Len(seq) /\ \A k \in 1 .. Len(seq) : seq[k] \in R
    BY <2>1, LenProperties, ElementOfSeq
  <2> QED BY <2>2 DEF seq, R
<1> QED BY <1>1, <1>3 DEF Leg!InputType

\* What a level has left, and what it costs.
Left(k) == Leg!Available(leg, leg.levels[k])
Cost(k) == Leg!OffsetLevelPrice(leg, leg.levels[k].price)

LEMMA LevelFacts ==
    ASSUME leg \in Inputs, NEW k \in 1 .. Len(leg.levels)
    PROVE  /\ Left(k) \in Nat /\ Left(k) <= leg.levels[k].quantity
           /\ Cost(k) \in Nat /\ Cost(k) % leg.tick = 0
           /\ leg.side = "Asks" => Cost(k) >= leg.levels[k].price
           /\ leg.side = "Bids" => Cost(k) <= leg.levels[k].price
           /\ leg.levels[k].price \in Nat
<1> DEFINE n == leg.levels[k].quantity
           p == leg.levels[k].price
<1>1. n \in Nat /\ p \in Nat
  BY LegFields
<1>2. Left(k) \in 0 .. n
  BY <1>1, LegFields, LeftOver DEF Left, Leg!Available
<1>3. Unit \in Nat \ {0} /\ leg.tick \in Nat \ {0} /\ leg.adverse \in 0 .. Unit
  BY LegFields
<1> HIDE DEF p
<1>4. CASE leg.side = "Asks"
  <2>1. Cost(k) = ((p * (Unit + leg.adverse) + Unit * leg.tick - 1) \div (Unit * leg.tick)) * leg.tick
    BY <1>4 DEF Cost, Leg!OffsetLevelPrice, p
  <2>2. /\ ((p * (Unit + leg.adverse) + Unit * leg.tick - 1) \div (Unit * leg.tick)) * leg.tick \in Nat
        /\ ((p * (Unit + leg.adverse) + Unit * leg.tick - 1) \div (Unit * leg.tick)) * leg.tick >= p
        /\ (((p * (Unit + leg.adverse) + Unit * leg.tick - 1) \div (Unit * leg.tick)) * leg.tick)
              % leg.tick = 0
    BY <1>1, <1>3, Raised, Zenon
  <2>3. Cost(k) \in Nat /\ Cost(k) >= p /\ Cost(k) % leg.tick = 0
    BY <2>1, <2>2, Zenon
  <2> QED BY <1>1, <1>2, <1>4, <2>3 DEF p
<1>5. CASE leg.side = "Bids"
  <2>1. Cost(k) = ((p * (Unit - leg.adverse)) \div (Unit * leg.tick)) * leg.tick
    BY <1>5 DEF Cost, Leg!OffsetLevelPrice, p
  <2>2. /\ ((p * (Unit - leg.adverse)) \div (Unit * leg.tick)) * leg.tick \in 0 .. p
        /\ (((p * (Unit - leg.adverse)) \div (Unit * leg.tick)) * leg.tick) % leg.tick = 0
    BY <1>1, <1>3, Lowered, Zenon
  <2>3. Cost(k) \in 0 .. p /\ Cost(k) % leg.tick = 0
    BY <2>1, <2>2, Zenon
  <2> QED BY <1>1, <1>2, <1>5, <2>3 DEF p
<1> QED BY <1>4, <1>5, LegFields

\* What the levels leave, the share of the k-th level, and what the levels cost.
Offers == [j \in DOMAIN leg.levels |-> Left(j)]
Share(k) == Leg!Least(leg.requested, Upto(Offers, k + 1)) - Leg!Least(leg.requested, Upto(Offers, k))
Costs == [k \in DOMAIN leg.levels |-> Share(k) * Cost(k)]

LEMMA Offered ==
    ASSUME leg \in Inputs
    PROVE  /\ Upto(Offers, 1) = 0
           /\ \A k \in 1 .. Len(leg.levels) + 1 : Upto(Offers, k) \in Nat
           /\ \A k \in 1 .. Len(leg.levels) : Upto(Offers, k + 1) = Upto(Offers, k) + Left(k)
           /\ \A k : Leg!AvailableBefore(k) = Upto(Offers, k)
<1>1. Len(leg.levels) \in Nat /\ DOMAIN leg.levels = 1 .. Len(leg.levels)
  BY LegFields
<1>2. \A j \in 1 .. Len(leg.levels) : Offers[j] = Left(j) /\ Left(j) \in Nat
  BY <1>1, LevelFacts DEF Offers
<1>3. ASSUME NEW k \in 1 .. Len(leg.levels) + 1 PROVE Upto(Offers, k) >= 0
  <2> DEFINE S == 1 .. k - 1
             zero == [j \in S |-> 0]
  <2>1. IsFiniteSet(S) /\ \A j \in S : zero[j] = 0 /\ Offers[j] \in Nat
    <3>1. k - 1 \in Int /\ \A j \in S : j \in 1 .. Len(leg.levels)
      BY <1>1
    <3>2. IsFiniteSet(S)
      BY <3>1, FS_Interval
    <3>3. \A j \in S : Offers[j] \in Nat
      <4> HIDE DEF S, Offers
      <4> QED BY <1>2, <3>1
    <3>4. \A j \in S : zero[j] = 0
      OBVIOUS
    <3> QED BY <3>2, <3>3, <3>4
  <2> HIDE DEF S, zero
  <2>2. SumOver(zero, S) = 0
    BY <2>1, SumZero
  <2>3. \A j \in S : zero[j] \in Int /\ Offers[j] \in Int /\ zero[j] <= Offers[j]
    BY <2>1
  <2>4. SumOver(zero, S) <= SumOver(Offers, S)
    BY <2>1, <2>3, SumAtMost
  <2> QED BY <2>2, <2>4 DEF Upto, S
<1>4. \A k : Leg!AvailableBefore(k) = Upto(Offers, k)
  BY LegSums DEF Leg!AvailableBefore, Upto, Offers, Left
<1>5. \A j \in 1 .. Len(leg.levels) : Offers[j] \in Int
  BY <1>2
<1> HIDE DEF Offers
<1>6. /\ Upto(Offers, 1) = 0
      /\ \A k \in 1 .. Len(leg.levels) + 1 : Upto(Offers, k) \in Int
      /\ \A k \in 1 .. Len(leg.levels) : Upto(Offers, k + 1) = Upto(Offers, k) + Offers[k]
  BY <1>1, <1>5, UptoNext
<1> QED BY <1>2, <1>3, <1>4, <1>6

LEMMA Shares ==
    ASSUME leg \in Inputs, NEW k \in 1 .. Len(leg.levels)
    PROVE  /\ Share(k) \in 0 .. Left(k)
           /\ Leg!ShareOf(k) = Share(k)
<1>1. /\ Upto(Offers, k) \in Nat /\ Upto(Offers, k + 1) = Upto(Offers, k) + Left(k)
      /\ Left(k) \in Nat /\ leg.requested \in Nat
  BY Offered, LevelFacts, LegFields
<1>2. Leg!ShareOf(k) = Share(k)
  BY Offered DEF Leg!ShareOf, Share
<1> QED BY <1>1, <1>2 DEF Share, Leg!Least

\* The leg so far is the sweep so far, and is paid for in whole ticks.
LegInv ==
    /\ leg \in Inputs
    /\ level \in 1 .. Len(leg.levels) + 1
    /\ remaining \in Nat /\ filled \in Nat
    /\ legPc = "loop" => /\ filled = Leg!Least(leg.requested, Upto(Offers, level))
                         /\ filled + remaining = leg.requested
    /\ quote_amount = Upto(Costs, level)
    /\ last_fill_price % leg.tick = 0

LEMMA LegInit == Leg!Init => LegInv
<1> SUFFICES ASSUME Leg!Init PROVE LegInv
  OBVIOUS
<1>1. leg \in Inputs /\ leg.requested \in Nat /\ Len(leg.levels) \in Nat /\ leg.tick \in Nat \ {0}
  BY LegFields DEF Leg!Init
<1>2. Upto(Offers, 1) = 0
  BY <1>1, Offered
<1>3. Upto(Costs, 1) = 0
  <2>1. 1 .. 1 - 1 = {}
    OBVIOUS
  <2> QED BY <2>1, SumEmpty DEF Upto
<1> QED BY <1>1, <1>2, <1>3 DEF Leg!Init, LegInv, Leg!Least

\* What is paid grows by the share of the level at its price.
LEMMA Payments ==
    ASSUME leg \in Inputs, NEW k \in 1 .. Len(leg.levels)
    PROVE  Upto(Costs, k + 1) = Upto(Costs, k) + Share(k) * Cost(k) /\ Upto(Costs, k) \in Int
<1>1. Len(leg.levels) \in Nat /\ DOMAIN leg.levels = 1 .. Len(leg.levels)
  BY LegFields
<1>2. \A j \in 1 .. Len(leg.levels) : Costs[j] = Share(j) * Cost(j) /\ Costs[j] \in Int
  <2> SUFFICES ASSUME NEW j \in 1 .. Len(leg.levels)
               PROVE  Costs[j] = Share(j) * Cost(j) /\ Costs[j] \in Int
    OBVIOUS
  <2>1. Costs[j] = Share(j) * Cost(j)
    BY <1>1 DEF Costs
  <2>2. Share(j) \in Int /\ Cost(j) \in Int
    BY Shares, LevelFacts
  <2> QED BY <2>1, <2>2
<1> HIDE DEF Costs
<1>3. /\ \A j \in 1 .. Len(leg.levels) + 1 : Upto(Costs, j) \in Int
      /\ \A j \in 1 .. Len(leg.levels) : Upto(Costs, j + 1) = Upto(Costs, j) + Costs[j]
  BY <1>1, <1>2, UptoNext
<1>4. k \in 1 .. Len(leg.levels) + 1
  BY <1>1
<1>5. Upto(Costs, k + 1) = Upto(Costs, k) + Costs[k] /\ Upto(Costs, k) \in Int
  BY <1>3, <1>4
<1>6. Costs[k] = Share(k) * Cost(k)
  BY <1>2
<1> QED BY <1>5, <1>6

LEMMA TakeStep == ASSUME LegInv, Leg!TakeLevel PROVE LegInv'
<1>1. /\ leg \in Inputs /\ Len(leg.levels) \in Nat /\ leg.requested \in Nat
      /\ level \in 1 .. Len(leg.levels) /\ level + 1 \in 1 .. Len(leg.levels) + 1
      /\ leg' = leg /\ level' = level + 1 /\ legPc' = legPc /\ legPc = "loop" /\ remaining # 0
  <2>1. leg \in Inputs /\ level \in 1 .. Len(leg.levels) + 1
    BY DEF LegInv
  <2>2. /\ legPc = "loop" /\ level <= Len(leg.levels) /\ remaining # 0
        /\ leg' = leg /\ level' = level + 1 /\ legPc' = legPc
    BY DEF Leg!TakeLevel
  <2> QED BY <2>1, <2>2, LegFields
<1> DEFINE take == Leg!Least(remaining, Left(level))
<1>2. /\ quote_amount' = quote_amount + take * Cost(level)
      /\ filled' = filled + take /\ remaining' = remaining - take
      /\ last_fill_price' = Cost(level)
  BY DEF Leg!TakeLevel, Left, Cost
<1>3. /\ Left(level) \in Nat /\ Cost(level) \in Nat /\ Cost(level) % leg.tick = 0
      /\ Upto(Offers, level) \in Nat /\ Upto(Offers, level + 1) = Upto(Offers, level) + Left(level)
      /\ Upto(Costs, level + 1) = Upto(Costs, level) + Share(level) * Cost(level)
  BY <1>1, LevelFacts, Offered, Payments
<1>4. /\ filled = Leg!Least(leg.requested, Upto(Offers, level))
      /\ filled + remaining = leg.requested /\ filled \in Nat /\ remaining \in Nat
      /\ quote_amount = Upto(Costs, level)
  BY <1>1 DEF LegInv
<1>5. /\ take = Share(level) /\ take \in 0 .. remaining
      /\ filled + take = Leg!Least(leg.requested, Upto(Offers, level + 1))
  BY <1>1, <1>3, <1>4 DEF Share, Leg!Least
<1> HIDE DEF take
<1>6. /\ filled' \in Nat /\ remaining' \in Nat /\ filled' + remaining' = leg.requested
      /\ filled' = Leg!Least(leg.requested, Upto(Offers, level + 1))
      /\ quote_amount' = Upto(Costs, level + 1)
  BY <1>2, <1>3, <1>4, <1>5
<1>7. /\ Upto(Offers, level)' = Upto(Offers, level + 1)
      /\ Upto(Costs, level)' = Upto(Costs, level + 1)
  BY <1>1 DEF Upto, Offers, Costs, Share, Left, Cost
<1> QED BY <1>1, <1>2, <1>3, <1>6, <1>7 DEF LegInv

LEMMA SkipStep == ASSUME LegInv, Leg!SkipLevel PROVE LegInv'
<1>1. /\ leg \in Inputs /\ Len(leg.levels) \in Nat /\ leg.requested \in Nat
      /\ level \in 1 .. Len(leg.levels) /\ level + 1 \in 1 .. Len(leg.levels) + 1
      /\ level' = level + 1 /\ legPc = "loop" /\ Left(level) = 0
      /\ UNCHANGED <<leg, remaining, filled, quote_amount, last_fill_price, legPc>>
  <2>1. leg \in Inputs /\ level \in 1 .. Len(leg.levels) + 1
    BY DEF LegInv
  <2>2. /\ legPc = "loop" /\ level <= Len(leg.levels) /\ level' = level + 1 /\ Left(level) = 0
        /\ UNCHANGED <<leg, remaining, filled, quote_amount, last_fill_price, legPc>>
    BY DEF Leg!SkipLevel, Left
  <2> QED BY <2>1, <2>2, LegFields
<1>2. /\ Cost(level) \in Nat
      /\ Upto(Offers, level) \in Nat /\ Upto(Offers, level + 1) = Upto(Offers, level)
      /\ Upto(Costs, level + 1) = Upto(Costs, level) + Share(level) * Cost(level)
      /\ Share(level) = 0 /\ Upto(Costs, level) \in Int
  <2>1. Share(level) \in 0 .. Left(level)
    BY <1>1, Shares
  <2>2. Upto(Offers, level) \in Nat /\ Upto(Offers, level + 1) = Upto(Offers, level) + Left(level)
    BY <1>1, Offered
  <2> QED BY <1>1, <2>1, <2>2, LevelFacts, Payments
<1>3. Upto(Costs, level + 1) = Upto(Costs, level)
  BY <1>2
<1>4. /\ Upto(Offers, level)' = Upto(Offers, level)
      /\ Upto(Costs, level)' = Upto(Costs, level)
  <2>1. /\ Upto(Offers, level)' = Upto(Offers, level + 1)
        /\ Upto(Costs, level)' = Upto(Costs, level + 1)
    BY <1>1 DEF Upto, Offers, Costs, Share, Left, Cost
  <2> QED BY <1>2, <1>3, <2>1
<1> QED BY <1>1, <1>4 DEF LegInv

LEMMA LegStep == LegInv /\ [Leg!Next]_legVars => LegInv'
<1> SUFFICES ASSUME LegInv, [Leg!Next]_legVars PROVE LegInv'
  OBVIOUS
<1>1. ASSUME UNCHANGED <<leg, level>>
      PROVE  Upto(Offers, level)' = Upto(Offers, level) /\ Upto(Costs, level)' = Upto(Costs, level)
  BY <1>1 DEF Upto, Offers, Costs, Share, Left, Cost
<1>2. CASE Leg!Finish
  BY <1>1, <1>2 DEF LegInv, Leg!Finish
<1>3. CASE UNCHANGED legVars
  BY <1>1, <1>3 DEF LegInv, legVars
<1> QED BY <1>2, <1>3, TakeStep, SkipStep DEF Leg!Next

\* The sweep and its price follow.
LEMMA LegPromise == LegInv => Leg!FillIsSweep /\ Leg!PricedAdversely
<1> SUFFICES ASSUME LegInv PROVE Leg!FillIsSweep /\ Leg!PricedAdversely
  OBVIOUS
<1>1. /\ leg \in Inputs /\ Len(leg.levels) \in Nat /\ DOMAIN leg.levels = 1 .. Len(leg.levels)
      /\ level \in 1 .. Len(leg.levels) + 1 /\ level - 1 \in Int
  BY LegFields DEF LegInv
<1>2. Leg!FillIsSweep
  <2>1. \A k \in 1 .. Len(leg.levels) : Leg!ShareOf(k) <= leg.levels[k].quantity
    <3> SUFFICES ASSUME NEW k \in 1 .. Len(leg.levels)
                 PROVE  Leg!ShareOf(k) <= leg.levels[k].quantity
      OBVIOUS
    <3>1. leg.levels[k].quantity \in Nat
      BY <1>1, LegFields
    <3> QED BY <1>1, <3>1, Shares, LevelFacts
  <2>2. Leg!AvailableBefore(level) = Upto(Offers, level)
    BY <1>1, Offered
  <2> QED BY <2>1, <2>2 DEF LegInv, Leg!FillIsSweep
<1>3. Leg!PricedAdversely
  <2> DEFINE S == 1 .. level - 1
             paid == [k \in DOMAIN leg.levels |->
                        Leg!ShareOf(k) * Leg!OffsetLevelPrice(leg, leg.levels[k].price)]
             book == [k \in DOMAIN leg.levels |-> Leg!ShareOf(k) * leg.levels[k].price]
  <2>1. IsFiniteSet(S) /\ \A k \in S : k \in 1 .. Len(leg.levels)
    <3>1. IsFiniteSet(S)
      BY <1>1, FS_Interval
    <3> QED BY <1>1, <3>1
  <2>2. \A k \in S : /\ paid[k] = Share(k) * Cost(k) /\ Costs[k] = Share(k) * Cost(k)
                     /\ book[k] = Share(k) * leg.levels[k].price
    BY <1>1, <2>1, Shares DEF Cost, Costs
  <2>3. \A k \in S : Share(k) \in Nat /\ Cost(k) \in Nat /\ leg.levels[k].price \in Nat
    BY <1>1, <2>1, Shares, LevelFacts
  <2>4. \A k \in S : /\ paid[k] \in Int /\ book[k] \in Int /\ paid[k] = Costs[k]
                     /\ leg.side = "Asks" => paid[k] >= book[k]
                     /\ leg.side = "Bids" => paid[k] <= book[k]
    <3> SUFFICES ASSUME NEW k \in S
                 PROVE  /\ paid[k] \in Int /\ book[k] \in Int /\ paid[k] = Costs[k]
                        /\ leg.side = "Asks" => paid[k] >= book[k]
                        /\ leg.side = "Bids" => paid[k] <= book[k]
      OBVIOUS
    <3> DEFINE s == Share(k)
               c == Cost(k)
               p == leg.levels[k].price
    <3>1. s \in Nat /\ c \in Nat /\ p \in Nat
      BY <2>3
    <3>2. leg.side = "Asks" => c >= p
      BY <1>1, <2>1, LevelFacts
    <3>3. leg.side = "Bids" => c <= p
      BY <1>1, <2>1, LevelFacts
    <3>4. paid[k] = s * c /\ Costs[k] = s * c /\ book[k] = s * p
      BY <2>2
    <3> HIDE DEF s, c, p, paid, book
    <3>5. c >= p => s * c >= s * p
      BY <3>1
    <3>6. c <= p => s * c <= s * p
      BY <3>1
    <3>7. s * c \in Int /\ s * p \in Int
      BY <3>1
    <3> QED BY <3>2, <3>3, <3>4, <3>5, <3>6, <3>7
  <2> HIDE DEF paid, book, S
  <2>5. quote_amount = SumOver(paid, S)
    <3>1. quote_amount = SumOver(Costs, S)
      BY DEF LegInv, Upto, S
    <3>2. SumOver(paid, S) = SumOver(Costs, S)
      BY <2>1, <2>4, SumSame
    <3> QED BY <3>1, <3>2
  <2>6. /\ leg.side = "Asks" => SumOver(paid, S) >= SumOver(book, S)
        /\ leg.side = "Bids" => SumOver(paid, S) <= SumOver(book, S)
    <3>1. SumOver(paid, S) \in Int /\ SumOver(book, S) \in Int
      BY <2>1, <2>4, SumType
    <3>2. CASE leg.side = "Asks"
      <4>1. SumOver(book, S) <= SumOver(paid, S)
        BY <2>1, <2>4, <3>2, SumAtMost
      <4> QED BY <3>1, <3>2, <4>1
    <3>3. CASE leg.side = "Bids"
      BY <2>1, <2>4, <3>3, SumAtMost
    <3> QED BY <1>1, <3>2, <3>3, LegFields
  <2>7. leg.side \in {"Asks", "Bids"} /\ last_fill_price % leg.tick = 0
    BY <1>1, LegFields DEF LegInv
  <2> QED BY <2>5, <2>6, <2>7, LegSums DEF Leg!PricedAdversely, paid, book, S
<1> QED BY <1>2, <1>3

\* For every book, quantity, step, tick and offset: the loop over the levels fills what a
\* sweep from the best level fills, and pays for every unit at a price in whole ticks that
\* is no better than the level's.
THEOREM EveryLegIsPriced == Spec => []LegIsPriced
<1> DEFINE Inv == part = "leg" => LegInv
<1>1. Init => Inv
  BY LegInit DEF Init
<1>2. Inv /\ [Next]_vars => Inv'
  <2> SUFFICES ASSUME Inv, [Next]_vars, part' = "leg" PROVE LegInv'
    OBVIOUS
  <2>1. part = "leg" /\ LegInv
    BY DEF Next, vars, OfScan, OfArchive, OfLeg, OfRun, OfQuery
  <2>2. [Leg!Next]_legVars
    BY <2>1 DEF Next, vars, legVars, OfScan, OfArchive, OfLeg, OfRun, OfQuery
  <2> QED BY <2>1, <2>2, LegStep
<1>3. Inv => LegIsPriced
  BY LegPromise DEF LegIsPriced
<1> QED BY <1>1, <1>2, <1>3, PTL DEF Spec

-----------------------------------------------------------------------------
(* The archive *)

\* An ordinal that is with the writer: queued, held by the worker, or refused and not
\* yet counted.
Waits(o) == o = held \/ o = refused \/ \E j \in 1 .. Len(queue) : queue[j] = o

\* The gaps that are in the journal or were printed, and those on their way there.
Told == Archive!Elements(journal) \cup printed
Untold == {todo[i] : i \in 1 .. Len(todo)} \cup ({pending} \ {None})

\* While no failed write leaves a part of its line, both files consist of lines that
\* can be read.
ArchiveTypes ==
    /\ run \in 0 .. MaxRuns /\ up \in {"open", "closing", "down"}
    /\ next \in 1 .. MaxOrdinal + 1 /\ refused \in Archive!Ordinals \cup {None}
    /\ pending \in Archive!Gap \cup {None}
    /\ queue \in Seq(Archive!Ordinals)
    /\ pc \in {"recv", "overflow", "write", "flush"}
    /\ held \in Archive!Ordinals \cup {None} /\ todo \in Seq(Archive!Gap)
    /\ archive \in [lines : Seq(Archive!Record), tail : Archive!Record \cup {None}]
    /\ journal \in [lines : Seq(Archive!Gap), tail : Archive!Gap \cup {None}]
    /\ printed \subseteq Archive!Gap /\ IsFiniteSet(printed)
    /\ clean \in [Archive!Runs -> 0 .. MaxOrdinal]

\* What the worker has where it stands; a process that is down has nothing, and one
\* that is up has whole lines in its files.
WorkerShape ==
    /\ up = "down" => /\ queue = <<>> /\ held = None /\ todo = <<>>
                      /\ pending = None /\ refused = None
    /\ up # "down" => /\ run \in Archive!Runs /\ archive.tail = None /\ journal.tail = None
                      /\ clean[run] = 0
    /\ \A r \in Archive!Runs : r > run => clean[r] = 0
    /\ pc = "recv" => held = None
    /\ pc = "write" => held # None
    /\ pc = "overflow" => todo = <<>>
    /\ pc \in {"overflow", "flush"} /\ held = None => up = "closing" /\ queue = <<>>
    /\ pc = "flush" => pending = None /\ held = None
    /\ refused # None => up = "open" /\ refused = next - 1

\* The records of a run come to the file in the order of their ordinals.
InOrder ==
    /\ \A i, j \in 1 .. Len(archive.lines) :
          i < j /\ archive.lines[i].run = archive.lines[j].run
             => archive.lines[i].ordinal < archive.lines[j].ordinal
    /\ \A i \in 1 .. Len(archive.lines) :
          /\ archive.lines[i].run <= run
          /\ archive.lines[i].run = run =>
               /\ held # None => archive.lines[i].ordinal < held
               /\ \A j \in 1 .. Len(queue) : archive.lines[i].ordinal < queue[j]
               /\ up # "down" => archive.lines[i].ordinal < next
    /\ \A j \in 1 .. Len(queue) :
          /\ queue[j] < next
          /\ held # None => held < queue[j]
          /\ refused # None => queue[j] < refused
          /\ \A k \in 1 .. Len(queue) : j < k => queue[j] < queue[k]
    /\ held # None => held < next /\ (refused # None => held < refused)

\* The last ordinal of a gap is settled, and no two gaps have the same.
GapsApart ==
    /\ \A g \in printed : g.run <= run
    /\ pending # None => /\ pending.run = run /\ 1 <= pending.first /\ 1 <= pending.dropped
                         /\ pending.dropped <= pending.last - pending.first + 1
                         /\ pending.last < next
    /\ \A i \in 1 .. Len(todo) : todo[i].run = run /\ (Len(todo) > 1 => todo[i].dropped = 0)
    /\ up # "down" => \A g \in printed \cup Untold :
          g.run = run /\ g.dropped > 0 => g.last < next /\ ~Waits(g.last)
    /\ up # "down" => \A g \in printed : g.run = run /\ g.dropped > 0 =>
          /\ pending # None => g.last # pending.last
          /\ todo # <<>> => todo[1].dropped = 0 \/ g.last # todo[1].last
    /\ pending # None /\ todo # <<>> => todo[1].dropped = 0 \/ pending.last # todo[1].last

\* What is neither in the archive nor with the writer lies in a gap, and the gaps count it.
Lost == {o \in 1 .. next - 1 : ~Waits(o) /\ [run |-> run, ordinal |-> o] \notin Archive!Elements(archive)}
DroppedBy(g) == IF g = None THEN 0 ELSE g.dropped
Accounted ==
    /\ Archive!NothingLostSilently
    /\ up # "down" =>
         /\ \A o \in Lost : \E g \in Told \cup Untold : g.run = run /\ g.first <= o /\ o <= g.last
         /\ Cardinality(Lost) <= Archive!Declared(run) + DroppedBy(pending)
                                  + (IF todo = <<>> THEN 0 ELSE todo[1].dropped)

ArchiveInv == ArchiveTypes /\ WorkerShape /\ InOrder /\ GapsApart /\ Accounted

LEMMA ArchiveConstants ==
    /\ MaxRuns \in Nat /\ MaxOrdinal \in Nat
    /\ None \notin Archive!Ordinals /\ None \notin 0 .. MaxOrdinal /\ None \notin Archive!Record /\ None \notin Archive!Gap
    /\ Corrupt \notin Archive!Record /\ Corrupt \notin Archive!Gap /\ None # Corrupt
    /\ Archive!Runs = 1 .. MaxRuns /\ Archive!Ordinals = 1 .. MaxOrdinal
BY DecisionsAssumption DEF Archive!ArchiveAssumption, Archive!Runs, Archive!Ordinals

LEMMA ArchiveSums == ASSUME NEW f, NEW S PROVE Archive!SumOver(f, S) = SumOver(f, S)
BY DEF Archive!SumOver, SumOver, Archive!MapThenFoldSet, MapThenFoldSet

LEMMA ArchiveCardinality == ASSUME NEW S PROVE Archive!Cardinality(S) = Cardinality(S)
BY DEF Archive!Cardinality, Cardinality

\* What an element added at the end does to a file.
LEMMA FileMoves ==
    ASSUME NEW E, Corrupt \notin E, NEW e \in E,
           NEW f \in [lines : Seq(E), tail : E \cup {None}], f.tail = None
    PROVE  /\ Archive!Line(f, e) = [lines |-> Append(f.lines, e), tail |-> None]
           /\ Archive!Left(f, e, FALSE) = {f, Archive!Line(f, e)}
           /\ \A h \in Archive!Left(f, e, TRUE) :
                 /\ h \in [lines : Seq(E), tail : E \cup {None}]
                 /\ h.lines \in {f.lines, Append(f.lines, e)}
<1>1. Archive!Begun(f, e) = [lines |-> f.lines, tail |-> e]
  BY DEF Archive!Begun
<1>2. Archive!Line(f, e) = [lines |-> Append(f.lines, e), tail |-> None]
  BY <1>1 DEF Archive!Line, Archive!Ended
<1>3. Append(f.lines, e) \in Seq(E) /\ f.lines \in Seq(E)
  BY AppendProperties
<1>4. Archive!Left(f, e, FALSE) = {f, Archive!Line(f, e)}
  BY DEF Archive!Left
<1>5. Archive!Left(f, e, TRUE) = {f, Archive!Line(f, e), Archive!Begun(f, e)}
  BY DEF Archive!Left
<1>6. ASSUME NEW h \in Archive!Left(f, e, TRUE)
      PROVE  /\ h \in [lines : Seq(E), tail : E \cup {None}]
             /\ h.lines \in {f.lines, Append(f.lines, e)}
  <2>1. CASE h = f
    BY <2>1
  <2>2. CASE h = [lines |-> Append(f.lines, e), tail |-> None]
    BY <1>3, <2>2
  <2>3. CASE h = [lines |-> f.lines, tail |-> e]
    BY <1>3, <2>3
  <2> QED BY <1>1, <1>2, <1>5, <2>1, <2>2, <2>3
<1> QED BY <1>2, <1>4, <1>6

LEMMA Appended ==
    ASSUME NEW E, NEW s \in Seq(E), NEW e \in E
    PROVE  /\ Append(s, e) \in Seq(E) /\ Len(s) \in Nat /\ Len(Append(s, e)) = Len(s) + 1
           /\ \A i \in 1 .. Len(s) : Append(s, e)[i] = s[i] /\ s[i] \in E
           /\ Append(s, e)[Len(s) + 1] = e
           /\ {Append(s, e)[i] : i \in 1 .. Len(s) + 1} = {s[i] : i \in 1 .. Len(s)} \cup {e}
<1>1. /\ Append(s, e) \in Seq(E) /\ Len(s) \in Nat /\ Len(Append(s, e)) = Len(s) + 1
      /\ \A i \in 1 .. Len(s) : Append(s, e)[i] = s[i]
      /\ Append(s, e)[Len(s) + 1] = e
  BY AppendProperties, LenProperties
<1>2. \A i \in 1 .. Len(s) : s[i] \in E
  BY ElementOfSeq
<1>3. \A i \in 1 .. Len(s) + 1 : i \in 1 .. Len(s) \/ i = Len(s) + 1
  BY <1>1
<1>4. {Append(s, e)[i] : i \in 1 .. Len(s) + 1} = {s[i] : i \in 1 .. Len(s)} \cup {e}
  BY <1>1, <1>3
<1> QED BY <1>1, <1>2, <1>4

LEMMA Tailed ==
    ASSUME NEW E, NEW s \in Seq(E), s # <<>>
    PROVE  /\ Head(s) = s[1] /\ s[1] \in E /\ Tail(s) \in Seq(E)
           /\ Len(s) \in Nat \ {0} /\ Len(Tail(s)) = Len(s) - 1
           /\ \A i \in 1 .. Len(s) - 1 : Tail(s)[i] = s[i + 1]
           /\ {s[i] : i \in 1 .. Len(s)} = {s[1]} \cup {Tail(s)[i] : i \in 1 .. Len(s) - 1}
<1>1. /\ Tail(s) \in Seq(E) /\ Len(s) \in Nat \ {0} /\ Len(Tail(s)) = Len(s) - 1
      /\ \A i \in 1 .. Len(s) - 1 : Tail(s)[i] = s[i + 1]
      /\ Head(s) = s[1]
  BY HeadTailProperties, EmptySeq, LenProperties
<1>2. s[1] \in E
  BY <1>1, ElementOfSeq
<1>3. \A i \in 1 .. Len(s) : i = 1 \/ (i - 1 \in 1 .. Len(s) - 1 /\ (i - 1) + 1 = i)
  BY <1>1
<1>4. {s[i] : i \in 1 .. Len(s)} = {s[1]} \cup {Tail(s)[i] : i \in 1 .. Len(s) - 1}
  <2>1. ASSUME NEW i \in 1 .. Len(s)
        PROVE  s[i] \in {s[1]} \cup {Tail(s)[j] : j \in 1 .. Len(s) - 1}
    BY <1>1, <1>3
  <2>2. ASSUME NEW i \in 1 .. Len(s) - 1
        PROVE  Tail(s)[i] \in {s[j] : j \in 1 .. Len(s)}
    BY <1>1
  <2>3. s[1] \in {s[j] : j \in 1 .. Len(s)}
    BY <1>1
  <2> QED BY <2>1, <2>2, <2>3
<1> QED BY <1>1, <1>2, <1>4

LEMMA GapFields ==
    ASSUME NEW g \in Archive!Gap
    PROVE  /\ g.run \in 1 .. MaxRuns /\ g.first \in Nat /\ g.last \in Nat /\ g.dropped \in Nat
           /\ g # None /\ g # Corrupt /\ g.last # None
BY ArchiveConstants DEF Archive!Gap

\* The dropped events in a journal, and in what was printed.
InJournal(s, r) == SumOver([i \in {j \in 1 .. Len(s) : s[j].run = r} |-> s[i].dropped],
                           {j \in 1 .. Len(s) : s[j].run = r})
InPrinted(S, r) == SumOver([g \in S |-> g.dropped], {g \in S : g.run = r})
CountOf(g, r) == IF g.run = r THEN g.dropped ELSE 0

LEMMA NaturalSum ==
    ASSUME NEW f, NEW S, IsFiniteSet(S), \A x \in S : f[x] \in Nat
    PROVE  SumOver(f, S) \in Nat
<1> DEFINE zero == [x \in S |-> 0]
<1>1. \A x \in S : zero[x] = 0
  OBVIOUS
<1> HIDE DEF zero
<1>2. SumOver(zero, S) = 0
  BY <1>1, SumZero
<1>3. SumOver(zero, S) <= SumOver(f, S)
  BY <1>1, SumAtMost
<1>4. SumOver(f, S) \in Int
  BY SumType
<1> QED BY <1>2, <1>3, <1>4

LEMMA JournalAdds ==
    ASSUME NEW s \in Seq(Archive!Gap), NEW g \in Archive!Gap, NEW r
    PROVE  /\ InJournal(s, r) \in Nat /\ CountOf(g, r) \in Nat
           /\ InJournal(Append(s, g), r) = InJournal(s, r) + CountOf(g, r)
<1> DEFINE n == Len(s)
           t == Append(s, g)
           L == {j \in 1 .. n : s[j].run = r}
           M == {j \in 1 .. n + 1 : t[j].run = r}
           f == [i \in L |-> s[i].dropped]
           h == [i \in M |-> t[i].dropped]
<1>1. /\ n \in Nat /\ Len(t) = n + 1 /\ t[n + 1] = g
      /\ \A i \in 1 .. n : t[i] = s[i] /\ s[i] \in Archive!Gap
  BY Appended
<1>2. /\ InJournal(s, r) = SumOver(f, L) /\ InJournal(t, r) = SumOver(h, M)
  BY <1>1 DEF InJournal
<1>3. g.dropped \in Nat /\ \A i \in 1 .. n : s[i].dropped \in Nat
  BY <1>1, GapFields
<1>4. IsFiniteSet(L) /\ n + 1 \notin L
  <2>1. IsFiniteSet(1 .. n)
    BY <1>1, FS_Interval
  <2>3. L \subseteq 1 .. n
    OBVIOUS
  <2>2. n + 1 \notin 1 .. n
    BY <1>1
  <2> QED BY <2>1, <2>2, <2>3, FS_Subset
<1>5. M = IF g.run = r THEN L \cup {n + 1} ELSE L
  <2>1. \A j \in 1 .. n + 1 : j \in 1 .. n \/ j = n + 1
    BY <1>1
  <2>2. n + 1 \in 1 .. n + 1 /\ \A j \in 1 .. n : j \in 1 .. n + 1
    BY <1>1
  <2> QED BY <1>1, <2>1, <2>2
<1>6. \A i \in L : h[i] = f[i] /\ f[i] \in Nat
  <2>1. L \subseteq M
    BY <1>5
  <2> QED BY <1>1, <1>3, <2>1
<1>7. g.run = r => h[n + 1] = g.dropped
  BY <1>1, <1>5
<1> HIDE DEF f, h, L, M
<1>8. SumOver(f, L) \in Nat /\ SumOver(h, L) = SumOver(f, L)
  BY <1>4, <1>6, NaturalSum, SumSame
<1>9. g.run = r => SumOver(h, L \cup {n + 1}) = SumOver(h, L) + h[n + 1]
  <2> SUFFICES ASSUME g.run = r PROVE SumOver(h, L \cup {n + 1}) = SumOver(h, L) + h[n + 1]
    OBVIOUS
  <2>1. \A i \in L \cup {n + 1} : h[i] \in Int
    BY <1>3, <1>6, <1>7
  <2> QED BY <1>4, <2>1, SumAdd
<1> QED BY <1>2, <1>3, <1>5, <1>7, <1>8, <1>9 DEF CountOf

LEMMA PrintedAdds ==
    ASSUME NEW S, S \subseteq Archive!Gap, IsFiniteSet(S), NEW g \in Archive!Gap, NEW r
    PROVE  /\ InPrinted(S, r) \in Nat
           /\ g \in S => InPrinted(S \cup {g}, r) = InPrinted(S, r)
           /\ g \notin S => InPrinted(S \cup {g}, r) = InPrinted(S, r) + CountOf(g, r)
<1> DEFINE T == S \cup {g}
           L == {x \in S : x.run = r}
           M == {x \in T : x.run = r}
           f == [x \in S |-> x.dropped]
           h == [x \in T |-> x.dropped]
<1>1. g.dropped \in Nat /\ \A x \in S : x.dropped \in Nat
  BY GapFields
<1>2. IsFiniteSet(L)
  BY FS_Subset
<1>3. \A x \in L : h[x] = f[x] /\ f[x] \in Nat
  BY <1>1
<1>4. h[g] = g.dropped
  OBVIOUS
<1>5. g \notin S => M = (IF g.run = r THEN L \cup {g} ELSE L) /\ g \notin L
  OBVIOUS
<1>6. g \in S => T = S
  OBVIOUS
<1>7. InPrinted(S, r) = SumOver(f, L) /\ InPrinted(T, r) = SumOver(h, M)
  BY DEF InPrinted
<1> HIDE DEF f, h, L, M, T
<1>8. SumOver(f, L) \in Nat /\ SumOver(h, L) = SumOver(f, L)
  BY <1>2, <1>3, NaturalSum, SumSame
<1>9. g \notin S => SumOver(h, L \cup {g}) = SumOver(h, L) + h[g]
  <2> SUFFICES ASSUME g \notin S PROVE SumOver(h, L \cup {g}) = SumOver(h, L) + h[g]
    OBVIOUS
  <2>1. g \notin L /\ \A x \in L \cup {g} : h[x] \in Int
    BY <1>1, <1>3, <1>4, <1>5
  <2> QED BY <1>2, <2>1, SumAdd
<1>10. /\ g \in S => InPrinted(T, r) = InPrinted(S, r)
       /\ g \notin S => InPrinted(T, r) = InPrinted(S, r) + CountOf(g, r)
  BY <1>1, <1>4, <1>5, <1>6, <1>7, <1>8, <1>9 DEF CountOf
<1> QED BY <1>7, <1>8, <1>10 DEF T

LEMMA DeclaredIs ==
    ASSUME journal.lines \in Seq(Archive!Gap), NEW r
    PROVE  Archive!Declared(r) = InJournal(journal.lines, r) + InPrinted(printed, r)
<1>1. \A i \in 1 .. Len(journal.lines) : journal.lines[i] # Corrupt
  BY ElementOfSeq, ArchiveConstants
<1>2. {i \in 1 .. Len(journal.lines) : journal.lines[i] # Corrupt /\ journal.lines[i].run = r}
      = {i \in 1 .. Len(journal.lines) : journal.lines[i].run = r}
  BY <1>1
<1> QED BY <1>2, ArchiveSums DEF Archive!Declared, InJournal, InPrinted

LEMMA ArchiveInit == Archive!Init => ArchiveInv
<1> SUFFICES ASSUME Archive!Init PROVE ArchiveInv
  OBVIOUS
<1>1. /\ run = 0 /\ up = "down" /\ next = 1 /\ refused = None /\ pending = None /\ queue = <<>>
      /\ pc = "recv" /\ held = None /\ todo = <<>>
      /\ archive = [lines |-> <<>>, tail |-> None] /\ journal = [lines |-> <<>>, tail |-> None]
      /\ printed = {} /\ clean = [r \in Archive!Runs |-> 0]
  BY DEF Archive!Init, Archive!Empty
<1>2. ArchiveTypes
  <2>1. \A S : <<>> \in Seq(S)
    OBVIOUS
  <2>2. IsFiniteSet({})
    BY FS_EmptySet
  <2> QED BY <1>1, <2>1, <2>2, ArchiveConstants DEF ArchiveTypes
<1>3. WorkerShape /\ InOrder /\ GapsApart
  BY <1>1 DEF WorkerShape, InOrder, GapsApart, Untold
<1>4. Accounted
  <2>1. ASSUME NEW r \in Archive!Runs PROVE Archive!Missing(r) = {}
    BY <1>1, <2>1 DEF Archive!Missing
  <2>2. ASSUME NEW r \in Archive!Runs PROVE Archive!Declared(r) \in Nat
    <3>1. InJournal(<<>>, r) = 0 /\ InPrinted({}, r) = 0
      <4>1. {j \in 1 .. Len(<<>>) : <<>>[j].run = r} = {} /\ {g \in {} : g.run = r} = {}
        OBVIOUS
      <4> QED BY <4>1, SumEmpty DEF InJournal, InPrinted
    <3> QED BY <1>1, <1>2, <3>1, DeclaredIs DEF ArchiveTypes
  <2>3. Cardinality({}) = 0
    BY FS_EmptySet
  <2>4. Archive!NothingLostSilently
    BY <2>1, <2>2, <2>3, ArchiveCardinality DEF Archive!NothingLostSilently
  <2> QED BY <1>1, <2>4 DEF Accounted
<1> QED BY <1>2, <1>3, <1>4 DEF ArchiveInv

\* The gap of one lost record, and the pending gap with one more.
LEMMA OneGap ==
    ASSUME NEW o \in Archive!Ordinals, run \in Archive!Runs
    PROVE  /\ Archive!GapOf(o) \in Archive!Gap
           /\ Archive!GapOf(o).run = run /\ Archive!GapOf(o).first = o /\ Archive!GapOf(o).last = o
           /\ Archive!GapOf(o).dropped = 1
<1>1. o \in 0 .. MaxOrdinal /\ 1 \in 0 .. MaxOrdinal
  BY ArchiveConstants
<1> QED BY <1>1 DEF Archive!GapOf, Archive!Gap

LEMMA MoreGap ==
    ASSUME ArchiveInv, up # "down", refused # None
    PROVE  LET g == Archive!Extended(pending, refused)
           IN  /\ g \in Archive!Gap /\ g.run = run /\ g.last = refused
               /\ 1 <= g.first /\ 1 <= g.dropped /\ g.dropped <= g.last - g.first + 1
               /\ pending = None => g.first = refused /\ g.dropped = 1
               /\ pending # None => /\ g.first = pending.first /\ g.dropped = pending.dropped + 1
                                    /\ pending.last < refused
<1>1. /\ refused \in Archive!Ordinals /\ run \in Archive!Runs /\ refused = next - 1
      /\ pending \in Archive!Gap \cup {None} /\ next \in 1 .. MaxOrdinal + 1
  BY DEF ArchiveInv, ArchiveTypes, WorkerShape
<1>2. CASE pending = None
  BY <1>1, <1>2, OneGap, ArchiveConstants DEF Archive!Extended
<1>3. CASE pending # None
  <2>1. /\ pending \in Archive!Gap /\ pending.run = run /\ 1 <= pending.first /\ 1 <= pending.dropped
        /\ pending.dropped <= pending.last - pending.first + 1 /\ pending.last < next
    BY <1>1, <1>3 DEF ArchiveInv, GapsApart
  <2>2. pending.last # refused
    <3>1. pending \in printed \cup Untold /\ pending.dropped > 0
      BY <1>3, <2>1, GapFields DEF Untold
    <3> QED BY <2>1, <3>1 DEF ArchiveInv, GapsApart, Waits
  <2>3. /\ pending.first \in Nat /\ pending.last \in Nat /\ pending.dropped \in Nat
        /\ refused \in 1 .. MaxOrdinal /\ MaxOrdinal \in Nat /\ pending.first \in 0 .. MaxOrdinal
        /\ next \in Nat /\ refused = next - 1
    BY <1>1, <2>1, GapFields, ArchiveConstants DEF Archive!Gap
  <2>4. pending.last < refused
    <3> DEFINE l == pending.last
    <3>1. l \in Nat /\ l < next /\ l # refused /\ next \in Nat /\ refused = next - 1
      BY <2>1, <2>2, <2>3
    <3> HIDE DEF l
    <3>2. l < refused
      BY <3>1
    <3> QED BY <3>2 DEF l
  <2>5. refused \in 0 .. MaxOrdinal /\ pending.dropped + 1 \in 0 .. MaxOrdinal
    BY <2>1, <2>3, <2>4
  <2>6. Archive!Extended(pending, refused)
          = [pending EXCEPT !.last = refused, !.dropped = pending.dropped + 1]
    BY <1>3 DEF Archive!Extended
  <2> DEFINE g == [pending EXCEPT !.last = refused, !.dropped = pending.dropped + 1]
  <2>7. /\ g \in Archive!Gap /\ g.run = run /\ g.last = refused /\ g.first = pending.first
        /\ g.dropped = pending.dropped + 1
    BY <2>1, <2>5 DEF Archive!Gap
  <2> HIDE DEF g
  <2>8. g.dropped <= g.last - g.first + 1 /\ 1 <= g.first /\ 1 <= g.dropped
    BY <2>1, <2>3, <2>4, <2>7
  <2> QED BY <1>3, <2>4, <2>6, <2>7, <2>8 DEF g
<1> QED BY <1>2, <1>3

\* What a file may hold after a write.
LEMMA ArchiveWrite ==
    ASSUME ArchiveInv, up # "down", held # None
    PROVE  /\ Archive!Current(held) \in Archive!Record
           /\ Archive!Current(held).run = run /\ Archive!Current(held).ordinal = held
           /\ Archive!Line(archive, Archive!Current(held))
                = [lines |-> Append(archive.lines, Archive!Current(held)), tail |-> None]
           /\ \A h \in Archive!Left(archive, Archive!Current(held), TRUE) :
                 /\ h \in [lines : Seq(Archive!Record), tail : Archive!Record \cup {None}]
                 /\ h.lines \in {archive.lines, Append(archive.lines, Archive!Current(held))}
           /\ \A h \in Archive!Left(archive, Archive!Current(held), FALSE) : h.tail = None
           /\ Archive!Left(archive, Archive!Current(held), FALSE)
                \subseteq Archive!Left(archive, Archive!Current(held), TRUE)
           /\ Archive!Line(archive, Archive!Current(held))
                \in Archive!Left(archive, Archive!Current(held), FALSE)
<1>1. /\ held \in Archive!Ordinals /\ run \in Archive!Runs /\ archive.tail = None
      /\ archive \in [lines : Seq(Archive!Record), tail : Archive!Record \cup {None}]
  BY DEF ArchiveInv, ArchiveTypes, WorkerShape
<1> DEFINE e == Archive!Current(held)
<1>2. e \in Archive!Record /\ e.run = run /\ e.ordinal = held
  BY <1>1 DEF Archive!Current, Archive!Record
<1> HIDE DEF e
<1>3. /\ Archive!Line(archive, e) = [lines |-> Append(archive.lines, e), tail |-> None]
      /\ Archive!Left(archive, e, FALSE) = {archive, Archive!Line(archive, e)}
      /\ \A h \in Archive!Left(archive, e, TRUE) :
            /\ h \in [lines : Seq(Archive!Record), tail : Archive!Record \cup {None}]
            /\ h.lines \in {archive.lines, Append(archive.lines, e)}
  BY <1>1, <1>2, FileMoves, ArchiveConstants
<1>4. Archive!Left(archive, e, FALSE) \subseteq Archive!Left(archive, e, TRUE)
  BY DEF Archive!Left
<1>5. ASSUME NEW h \in Archive!Left(archive, e, FALSE) PROVE h.tail = None
  <2>1. CASE h = archive
    BY <1>1, <2>1
  <2>2. CASE h = [lines |-> Append(archive.lines, e), tail |-> None]
    BY <2>2
  <2> QED BY <1>3, <2>1, <2>2
<1> QED BY <1>2, <1>3, <1>4, <1>5 DEF e

LEMMA JournalWrite ==
    ASSUME ArchiveInv, up # "down", todo # <<>>
    PROVE  /\ Head(todo) = todo[1] /\ todo[1] \in Archive!Gap /\ todo[1].run = run
           /\ Archive!Line(journal, todo[1])
                = [lines |-> Append(journal.lines, todo[1]), tail |-> None]
           /\ \A h \in Archive!Left(journal, todo[1], TRUE) :
                 /\ h \in [lines : Seq(Archive!Gap), tail : Archive!Gap \cup {None}]
                 /\ h.lines \in {journal.lines, Append(journal.lines, todo[1])}
           /\ \A h \in Archive!Left(journal, todo[1], FALSE) : h.tail = None
           /\ Archive!Left(journal, todo[1], FALSE) \subseteq Archive!Left(journal, todo[1], TRUE)
           /\ Archive!Line(journal, todo[1]) \in Archive!Left(journal, todo[1], FALSE)
<1>1. /\ todo \in Seq(Archive!Gap) /\ journal.tail = None
      /\ journal \in [lines : Seq(Archive!Gap), tail : Archive!Gap \cup {None}]
  BY DEF ArchiveInv, ArchiveTypes, WorkerShape
<1>2. Head(todo) = todo[1] /\ todo[1] \in Archive!Gap /\ 1 \in 1 .. Len(todo)
  BY <1>1, Tailed
<1>3. todo[1].run = run
  BY <1>2 DEF ArchiveInv, GapsApart
<1> DEFINE e == todo[1]
<1> HIDE DEF e
<1>4. /\ Archive!Line(journal, e) = [lines |-> Append(journal.lines, e), tail |-> None]
      /\ Archive!Left(journal, e, FALSE) = {journal, Archive!Line(journal, e)}
      /\ \A h \in Archive!Left(journal, e, TRUE) :
            /\ h \in [lines : Seq(Archive!Gap), tail : Archive!Gap \cup {None}]
            /\ h.lines \in {journal.lines, Append(journal.lines, e)}
  BY <1>1, <1>2, FileMoves, ArchiveConstants DEF e
<1>5. Archive!Left(journal, e, FALSE) \subseteq Archive!Left(journal, e, TRUE)
  BY DEF Archive!Left
<1>6. ASSUME NEW h \in Archive!Left(journal, e, FALSE) PROVE h.tail = None
  <2>1. CASE h = journal
    BY <1>1, <2>1
  <2>2. CASE h = [lines |-> Append(journal.lines, e), tail |-> None]
    BY <2>2
  <2> QED BY <1>4, <2>1, <2>2
<1> QED BY <1>2, <1>3, <1>4, <1>5, <1>6 DEF e

\* The gaps of a start say which tails were cut off, and count nothing.
LEMMA StartGaps ==
    ASSUME ArchiveInv, Archive!Start
    PROVE  /\ todo' \in Seq(Archive!Gap)
           /\ \A i \in 1 .. Len(todo') : todo'[i].run = run + 1 /\ todo'[i].dropped = 0
<1> DEFINE repair == [run |-> run + 1, first |-> 0, last |-> 0, dropped |-> 0]
           S == {f \in {"archive", "journal"} :
                   (IF f = "archive" THEN archive.tail ELSE journal.tail) # None}
<1>1. PICK n : n = Archive!Cardinality(S)
  OBVIOUS
<1>2. todo' = [i \in 1 .. n |-> repair]
  BY <1>1 DEF Archive!Start
<1>3. repair \in Archive!Gap
  <2>1. run + 1 \in Archive!Runs
    BY ArchiveConstants DEF ArchiveInv, ArchiveTypes, Archive!Start
  <2> QED BY <2>1, ArchiveConstants DEF Archive!Gap
<1>4. n \in Nat
  <2>1. IsFiniteSet({"archive"})
    BY FS_Singleton
  <2>2. IsFiniteSet({"archive"} \cup {"journal"})
    BY <2>1, FS_AddElement
  <2>3. S \subseteq {"archive"} \cup {"journal"}
    OBVIOUS
  <2> HIDE DEF S
  <2>4. Cardinality(S) \in Nat
    BY <2>2, <2>3, FS_Subset, FS_CardinalityType
  <2> QED BY <1>1, <2>4, ArchiveCardinality
<1>5. repair.run = run + 1 /\ repair.dropped = 0
  OBVIOUS
<1> HIDE DEF repair, S
<1>6. [i \in 1 .. n |-> repair] \in Seq(Archive!Gap) /\ Len([i \in 1 .. n |-> repair]) = n
  BY <1>3, <1>4
<1> QED BY <1>2, <1>5, <1>6

\* The variables stay in their ranges, and the worker has what its place says.
LEMMA ShapeStep ==
    ASSUME ArchiveInv, TornWrites = FALSE, Archive!Next
    PROVE  ArchiveTypes' /\ WorkerShape'
<1> USE DEF Archive!submitter, Archive!worker
<1>1. ArchiveTypes /\ WorkerShape
  BY DEF ArchiveInv
<1>2. CASE Archive!Start
  <2>1. /\ up = "down" /\ run < MaxRuns /\ run' = run + 1 /\ up' = "open" /\ next' = 1 /\ pc' = "recv"
        /\ archive' = [archive EXCEPT !.tail = None] /\ journal' = [journal EXCEPT !.tail = None]
        /\ UNCHANGED <<refused, pending, queue, held, printed, clean>>
    BY <1>2 DEF Archive!Start, Archive!Repaired
  <2>2. /\ run + 1 \in Archive!Runs /\ 1 \in 1 .. MaxOrdinal + 1
        /\ run \in Nat
    BY <1>1, <2>1, ArchiveConstants DEF ArchiveTypes
  <2>3. todo' \in Seq(Archive!Gap)
    BY <1>2, StartGaps
  <2>4. /\ archive' \in [lines : Seq(Archive!Record), tail : Archive!Record \cup {None}]
        /\ journal' \in [lines : Seq(Archive!Gap), tail : Archive!Gap \cup {None}]
        /\ archive'.tail = None /\ journal'.tail = None
    BY <1>1, <2>1 DEF ArchiveTypes
  <2>5. ArchiveTypes'
    BY <1>1, <2>1, <2>2, <2>3, <2>4, ArchiveConstants DEF ArchiveTypes
  <2>6. /\ \A r \in Archive!Runs : r > run + 1 => r > run
        /\ run + 1 > run
    BY <2>2, ArchiveConstants
  <2>7. WorkerShape'
    BY <1>1, <2>1, <2>2, <2>4, <2>6 DEF WorkerShape
  <2> QED BY <2>5, <2>7
<1>3. CASE Archive!Submit
  <2>1. /\ up = "open" /\ refused = None /\ next <= MaxOrdinal /\ next' = next + 1
        /\ \/ queue' = Append(queue, next) /\ UNCHANGED refused
           \/ refused' = next /\ UNCHANGED queue
        /\ UNCHANGED <<run, up, pending, pc, held, todo, open, archive, journal, printed, clean>>
    BY <1>3 DEF Archive!Submit
  <2>2. /\ next \in Archive!Ordinals /\ next + 1 \in 1 .. MaxOrdinal + 1 /\ (next + 1) - 1 = next
    BY <1>1, <2>1, ArchiveConstants DEF ArchiveTypes
  <2>3. queue' \in Seq(Archive!Ordinals)
    <3>1. queue \in Seq(Archive!Ordinals)
      BY <1>1 DEF ArchiveTypes
    <3>2. Append(queue, next) \in Seq(Archive!Ordinals)
      BY <2>2, <3>1, Appended
    <3> QED BY <2>1, <3>1, <3>2
  <2> QED BY <1>1, <2>1, <2>2, <2>3, ArchiveConstants DEF ArchiveTypes, WorkerShape
<1>4. CASE Archive!CountOverflow
  <2>1. /\ up = "open" /\ refused # None /\ refused' = None
        /\ pending' = Archive!Extended(pending, refused)
        /\ UNCHANGED <<run, up, next, queue, pc, held, todo, open, archive, journal, printed, clean>>
    BY <1>4 DEF Archive!CountOverflow
  <2>2. pending' \in Archive!Gap
    BY <2>1, MoreGap
  <2> QED BY <1>1, <2>1, <2>2 DEF ArchiveTypes, WorkerShape
<1>5. CASE Archive!Close
  BY <1>1, <1>5 DEF Archive!Close, ArchiveTypes, WorkerShape
<1>6. CASE Archive!Receive
  <2>1. /\ up # "down" /\ pc = "recv" /\ todo = <<>> /\ queue # <<>>
        /\ held' = Head(queue) /\ queue' = Tail(queue) /\ pc' = "overflow"
        /\ UNCHANGED <<run, up, next, refused, pending, todo, open, archive, journal, printed, clean>>
    BY <1>6 DEF Archive!Receive
  <2>2. held' \in Archive!Ordinals /\ queue' \in Seq(Archive!Ordinals)
    BY <1>1, <2>1, Tailed DEF ArchiveTypes
  <2> QED BY <1>1, <2>1, <2>2, ArchiveConstants DEF ArchiveTypes, WorkerShape
<1>7. CASE Archive!Drained
  BY <1>1, <1>7 DEF Archive!Drained, Archive!AfterDrain, ArchiveTypes, WorkerShape
<1>8. CASE Archive!TakeOverflow
  <2>1. /\ up # "down" /\ pc = "overflow" /\ pending' = None
        /\ todo' = IF pending = None THEN <<>> ELSE <<pending>>
        /\ pc' = IF held = None THEN "flush" ELSE "write"
        /\ UNCHANGED <<run, up, next, refused, queue, held, open, archive, journal, printed, clean>>
    BY <1>8 DEF Archive!TakeOverflow
  <2>2. todo' \in Seq(Archive!Gap)
    BY <1>1, <2>1 DEF ArchiveTypes
  <2> QED BY <1>1, <2>1, <2>2 DEF ArchiveTypes, WorkerShape
<1>9. CASE Archive!Write
  <2>1. /\ up # "down" /\ pc = "write" /\ held # None
        /\ archive' = Archive!Line(archive, Archive!Current(held))
        /\ held' = None /\ pc' = "recv"
        /\ UNCHANGED <<run, up, next, refused, pending, queue, todo, open, journal, printed, clean>>
    BY <1>1, <1>9 DEF Archive!Write, WorkerShape
  <2>2. /\ archive' \in [lines : Seq(Archive!Record), tail : Archive!Record \cup {None}]
        /\ archive'.tail = None
    BY <2>1, ArchiveWrite
  <2> QED BY <1>1, <2>1, <2>2 DEF ArchiveTypes, WorkerShape
<1>10. CASE Archive!WriteFails
  <2>1. /\ up # "down" /\ pc = "write" /\ held # None
        /\ archive' \in Archive!Left(archive, Archive!Current(held), FALSE) \cup {archive}
        /\ todo' = <<Archive!GapOf(held)>>
        /\ held' = None /\ pc' = "recv"
        /\ UNCHANGED <<run, up, next, refused, pending, queue, journal, printed, clean>>
    BY <1>1, <1>10 DEF Archive!WriteFails, WorkerShape
  <2>2. /\ archive' \in [lines : Seq(Archive!Record), tail : Archive!Record \cup {None}]
        /\ archive'.tail = None
    BY <1>1, <2>1, ArchiveWrite DEF ArchiveTypes, WorkerShape
  <2>3. Archive!GapOf(held) \in Archive!Gap
    BY <1>1, <2>1, OneGap DEF ArchiveTypes, WorkerShape
  <2>4. todo' \in Seq(Archive!Gap)
    BY <2>1, <2>3
  <2> QED BY <1>1, <2>1, <2>2, <2>4 DEF ArchiveTypes, WorkerShape
<1>11. CASE Archive!WriteGap \/ Archive!WriteGapFails
  <2>1. /\ up # "down" /\ todo # <<>>
        /\ journal' \in Archive!Left(journal, todo[1], FALSE)
        /\ printed' = printed \/ printed' = printed \cup {todo[1]}
        /\ todo' = Tail(todo)
        /\ UNCHANGED <<run, up, next, refused, pending, queue, pc, held, open, archive, clean>>
    BY <1>11, JournalWrite DEF Archive!WriteGap, Archive!WriteGapFails
  <2>2. /\ journal' \in [lines : Seq(Archive!Gap), tail : Archive!Gap \cup {None}]
        /\ journal'.tail = None
    BY <2>1, JournalWrite
  <2>3. printed' \subseteq Archive!Gap /\ IsFiniteSet(printed')
    <3>1. todo[1] \in Archive!Gap
      BY <2>1, JournalWrite
    <3>2. printed \subseteq Archive!Gap /\ IsFiniteSet(printed)
      BY <1>1 DEF ArchiveTypes
    <3>3. IsFiniteSet(printed \cup {todo[1]})
      BY <3>2, FS_AddElement
    <3> QED BY <2>1, <3>1, <3>2, <3>3
  <2>4. todo' \in Seq(Archive!Gap) /\ pc # "overflow"
    BY <1>1, <2>1, Tailed DEF ArchiveTypes, WorkerShape
  <2> QED BY <1>1, <2>1, <2>2, <2>3, <2>4 DEF ArchiveTypes, WorkerShape
<1>12. CASE Archive!Finish
  <2>1. /\ up # "down" /\ pc = "flush" /\ todo = <<>> /\ up' = "down" /\ pc' = "recv"
        /\ clean' = [clean EXCEPT ![run] = next - 1]
        /\ UNCHANGED <<run, next, refused, pending, queue, held, todo, archive, journal, printed>>
    BY <1>12 DEF Archive!Finish
  <2>2. next - 1 \in 0 .. MaxOrdinal /\ run \in Archive!Runs
    BY <1>1, <2>1, ArchiveConstants DEF ArchiveTypes, WorkerShape
  <2>3. /\ clean' \in [Archive!Runs -> 0 .. MaxOrdinal]
        /\ \A r \in Archive!Runs : r > run => clean'[r] = clean[r]
    BY <1>1, <2>1, <2>2, ArchiveConstants DEF ArchiveTypes
  <2> QED BY <1>1, <2>1, <2>3 DEF ArchiveTypes, WorkerShape
<1>13. CASE Archive!Crash
  <2>1. /\ up # "down" /\ up' = "down" /\ refused' = None /\ pending' = None /\ queue' = <<>>
        /\ pc' = "recv" /\ held' = None /\ todo' = <<>>
        /\ archive' = archive \/ (held # None /\ archive' \in Archive!Left(archive, Archive!Current(held), TRUE))
        /\ journal' = journal \/ (todo # <<>> /\ journal' \in Archive!Left(journal, todo[1], TRUE))
        /\ UNCHANGED <<run, next, printed, clean>>
    <3>1. todo # <<>> => Head(todo) = todo[1]
      BY <1>1, <1>13, JournalWrite DEF Archive!Crash
    <3> QED BY <1>1, <1>13, <3>1 DEF Archive!Crash, WorkerShape
  <2>2. /\ archive' \in [lines : Seq(Archive!Record), tail : Archive!Record \cup {None}]
        /\ journal' \in [lines : Seq(Archive!Gap), tail : Archive!Gap \cup {None}]
    BY <1>1, <2>1, ArchiveWrite, JournalWrite DEF ArchiveTypes
  <2>3. \A S : <<>> \in Seq(S)
    OBVIOUS
  <2> QED BY <1>1, <2>1, <2>2, <2>3 DEF ArchiveTypes, WorkerShape
<1> QED BY <1>2, <1>3, <1>4, <1>5, <1>6, <1>7, <1>8, <1>9, <1>10, <1>11, <1>12, <1>13
        DEF Archive!Next

\* A record written after the others of its new.
LEMMA RecordAdded ==
    ASSUME ArchiveInv, up # "down", held # None,
           NEW s \in {archive.lines, Append(archive.lines, Archive!Current(held))}
    PROVE  /\ \A i, j \in 1 .. Len(s) :
                 i < j /\ s[i].run = s[j].run => s[i].ordinal < s[j].ordinal
           /\ \A i \in 1 .. Len(s) :
                 /\ s[i].run <= run
                 /\ s[i].run = run => s[i].ordinal <= held
<1> DEFINE a == archive.lines
           e == Archive!Current(held)
<1>1. a \in Seq(Archive!Record) /\ e \in Archive!Record /\ e.run = run /\ e.ordinal = held
  BY ArchiveWrite DEF ArchiveInv, ArchiveTypes
<1>2. /\ \A i, j \in 1 .. Len(a) : i < j /\ a[i].run = a[j].run => a[i].ordinal < a[j].ordinal
      /\ \A i \in 1 .. Len(a) : a[i].run <= run /\ (a[i].run = run => a[i].ordinal < held)
  BY DEF ArchiveInv, InOrder
<1>3. run \in Int /\ held \in Int
  BY ArchiveConstants DEF ArchiveInv, ArchiveTypes
<1>4. Len(a) \in Nat /\ \A i \in 1 .. Len(a) : a[i] \in Archive!Record /\ a[i].ordinal \in Int
  <2>1. Len(a) \in Nat /\ \A i \in 1 .. Len(a) : a[i] \in Archive!Record
    BY <1>1, Appended
  <2> QED BY <2>1, ArchiveConstants DEF Archive!Record
<1>5. s \in {a, Append(a, e)}
  OBVIOUS
<1> HIDE DEF a, e
<1>6. CASE s = a
  BY <1>2, <1>3, <1>4, <1>6
<1>7. CASE s = Append(a, e)
  <2>1. /\ Len(s) = Len(a) + 1 /\ s[Len(a) + 1] = e
        /\ \A i \in 1 .. Len(a) : s[i] = a[i]
    BY <1>1, <1>7, Appended
  <2>2. \A i \in 1 .. Len(s) : i \in 1 .. Len(a) \/ i = Len(a) + 1
    BY <1>4, <2>1
  <2>3. ASSUME NEW i \in 1 .. Len(s), NEW j \in 1 .. Len(s), i < j, s[i].run = s[j].run
        PROVE  s[i].ordinal < s[j].ordinal
    <3>1. i \in 1 .. Len(a)
      BY <1>4, <2>1, <2>2, <2>3
    <3>2. CASE j \in 1 .. Len(a)
      BY <1>2, <2>1, <2>3, <3>1, <3>2
    <3>3. CASE j = Len(a) + 1
      BY <1>1, <1>2, <2>1, <2>3, <3>1, <3>3
    <3> QED BY <2>2, <3>2, <3>3
  <2>4. ASSUME NEW i \in 1 .. Len(s)
        PROVE  s[i].run <= run /\ (s[i].run = run => s[i].ordinal <= held)
    BY <1>1, <1>2, <1>3, <1>4, <2>1, <2>2
  <2> QED BY <2>3, <2>4
<1> QED BY <1>5, <1>6, <1>7

LEMMA OrderStep ==
    ASSUME ArchiveInv, TornWrites = FALSE, Archive!Next
    PROVE  InOrder'
<1> USE DEF Archive!submitter, Archive!worker
<1>1. ArchiveTypes /\ WorkerShape /\ InOrder
  BY DEF ArchiveInv
<1>2. /\ next \in Int /\ run \in Int /\ Len(queue) \in Nat
      /\ \A j \in 1 .. Len(queue) : queue[j] \in Int /\ queue[j] # None
      /\ held # None => held \in Int
      /\ \A i \in 1 .. Len(archive.lines) : archive.lines[i].run \in Int /\ archive.lines[i].ordinal \in Int
  <2>1. /\ queue \in Seq(Archive!Ordinals) /\ archive.lines \in Seq(Archive!Record)
        /\ next \in 1 .. MaxOrdinal + 1 /\ run \in 0 .. MaxRuns /\ held \in Archive!Ordinals \cup {None}
    BY <1>1 DEF ArchiveTypes
  <2>2. Len(queue) \in Nat /\ \A j \in 1 .. Len(queue) : queue[j] \in Archive!Ordinals
    BY <2>1, Appended
  <2>3. \A i \in 1 .. Len(archive.lines) : archive.lines[i] \in Archive!Record
    BY <2>1, Appended
  <2>4. \A x \in Archive!Record : x.run \in Int /\ x.ordinal \in Int
    BY ArchiveConstants DEF Archive!Record
  <2>5. \A o \in Archive!Ordinals : o \in Int /\ o # None
    BY ArchiveConstants
  <2>6. next \in Int /\ run \in Int
    BY <2>1, ArchiveConstants
  <2> QED BY <2>1, <2>2, <2>3, <2>4, <2>5, <2>6
<1>3. CASE Archive!Start
  <2>1. /\ up = "down" /\ run' = run + 1 /\ queue = <<>> /\ held = None
        /\ archive'.lines = archive.lines
        /\ UNCHANGED <<refused, queue, held>>
    <3>1. archive' = [archive EXCEPT !.tail = None]
      BY <1>3 DEF Archive!Start, Archive!Repaired
    <3>2. archive'.lines = archive.lines
      BY <1>1, <3>1 DEF ArchiveTypes
    <3> QED BY <1>1, <1>3, <3>2 DEF Archive!Start, WorkerShape
  <2>2. \A i \in 1 .. Len(archive.lines) : archive.lines[i].run <= run + 1 /\ archive.lines[i].run # run + 1
    BY <1>1, <1>2 DEF InOrder
  <2>3. Len(queue) = 0
    BY <2>1
  <2> QED BY <1>1, <2>1, <2>2, <2>3 DEF InOrder
<1>4. CASE Archive!Submit
  <2>1. /\ up = "open" /\ refused = None /\ next' = next + 1 /\ next # None
        /\ \/ queue' = Append(queue, next) /\ UNCHANGED refused
           \/ refused' = next /\ UNCHANGED queue
        /\ UNCHANGED <<run, up, held, archive>>
    <3>1. next \in Archive!Ordinals
      BY <1>1, <1>4, ArchiveConstants DEF Archive!Submit, ArchiveTypes
    <3> QED BY <1>4, <3>1, ArchiveConstants DEF Archive!Submit
  <2>2. \A i \in 1 .. Len(archive.lines) :
           archive.lines[i].run = run => archive.lines[i].ordinal < next
    BY <1>1, <2>1 DEF InOrder
  <2>3. CASE refused' = next /\ UNCHANGED queue
    BY <1>1, <1>2, <2>1, <2>3 DEF InOrder
  <2>4. CASE queue' = Append(queue, next) /\ UNCHANGED refused
    <3>1. /\ Len(queue') = Len(queue) + 1 /\ queue'[Len(queue) + 1] = next
          /\ \A j \in 1 .. Len(queue) : queue'[j] = queue[j]
      BY <2>4, AppendProperties, <1>1 DEF ArchiveTypes
    <3>2. \A j \in 1 .. Len(queue') : j \in 1 .. Len(queue) \/ j = Len(queue) + 1
      BY <1>2, <3>1
    <3>3. ASSUME NEW j \in 1 .. Len(queue')
          PROVE  /\ queue'[j] < next + 1
                 /\ held # None => held < queue'[j]
                 /\ \A i \in 1 .. Len(archive.lines) :
                       archive.lines[i].run = run => archive.lines[i].ordinal < queue'[j]
      <4>1. CASE j \in 1 .. Len(queue)
        <5>1. queue[j] < next
          BY <1>1, <4>1 DEF InOrder
        <5>2. queue[j] < next + 1
          BY <1>2, <4>1, <5>1
        <5> QED BY <1>1, <3>1, <4>1, <5>2 DEF InOrder
      <4>2. CASE j = Len(queue) + 1
        BY <1>1, <1>2, <2>2, <3>1, <4>2 DEF InOrder
      <4> QED BY <3>2, <4>1, <4>2
    <3>4. ASSUME NEW j \in 1 .. Len(queue'), NEW k \in 1 .. Len(queue'), j < k
          PROVE  queue'[j] < queue'[k]
      <4>1. j \in 1 .. Len(queue)
        BY <1>2, <3>1, <3>2, <3>4
      <4> QED BY <1>1, <3>1, <3>2, <3>4, <4>1 DEF InOrder
    <3>5. \A i \in 1 .. Len(archive.lines) :
             archive.lines[i].run = run => archive.lines[i].ordinal < next + 1
      BY <1>2, <2>2
    <3>6. held # None => held < next + 1
      BY <1>1, <1>2 DEF InOrder
    <3> QED BY <1>1, <2>1, <2>4, <3>3, <3>4, <3>5, <3>6 DEF InOrder
  <2> QED BY <2>1, <2>3, <2>4
<1>5. CASE Archive!CountOverflow
  <2>1. refused' = None /\ UNCHANGED <<run, up, next, queue, held, archive>>
    BY <1>5 DEF Archive!CountOverflow
  <2> QED BY <1>1, <2>1 DEF InOrder
<1>6. CASE Archive!Receive
  <2>1. /\ queue # <<>> /\ held = None /\ held' = Head(queue) /\ queue' = Tail(queue)
        /\ UNCHANGED <<run, up, next, refused, archive>> /\ up # "down"
    BY <1>1, <1>6 DEF Archive!Receive, WorkerShape
  <2>2. /\ held' = queue[1] /\ Len(queue') = Len(queue) - 1 /\ 1 \in 1 .. Len(queue)
        /\ \A j \in 1 .. Len(queue') : queue'[j] = queue[j + 1] /\ j + 1 \in 1 .. Len(queue)
    <3>1. queue \in Seq(Archive!Ordinals)
      BY <1>1 DEF ArchiveTypes
    <3>2. /\ Head(queue) = queue[1] /\ Len(queue) \in Nat \ {0} /\ Len(Tail(queue)) = Len(queue) - 1
          /\ \A i \in 1 .. Len(queue) - 1 : Tail(queue)[i] = queue[i + 1]
      BY <2>1, <3>1, Tailed
    <3> QED BY <2>1, <3>2
  <2>3. ASSUME NEW j \in 1 .. Len(queue')
        PROVE  /\ queue'[j] < next /\ held' < queue'[j]
               /\ refused # None => queue'[j] < refused
               /\ \A k \in 1 .. Len(queue') : j < k => queue'[j] < queue'[k]
               /\ \A i \in 1 .. Len(archive.lines) :
                     archive.lines[i].run = run => archive.lines[i].ordinal < queue'[j]
    <3>1. j + 1 \in 1 .. Len(queue) /\ queue'[j] = queue[j + 1] /\ 1 < j + 1
      BY <2>2
    <3>2. ASSUME NEW k \in 1 .. Len(queue'), j < k PROVE queue'[j] < queue'[k]
      <4>1. k + 1 \in 1 .. Len(queue) /\ queue'[k] = queue[k + 1] /\ j + 1 < k + 1
        BY <2>2, <3>2
      <4> QED BY <1>1, <3>1, <4>1 DEF InOrder
    <3>3. queue[1] < queue[j + 1]
      BY <1>1, <2>2, <3>1 DEF InOrder
    <3> QED BY <1>1, <2>2, <3>1, <3>2, <3>3 DEF InOrder
  <2>4. /\ held' < next /\ (refused # None => held' < refused)
        /\ \A i \in 1 .. Len(archive.lines) :
              archive.lines[i].run = run => archive.lines[i].ordinal < held'
    BY <1>1, <2>2 DEF InOrder
  <2> QED BY <1>1, <2>1, <2>3, <2>4 DEF InOrder
<1>7. CASE Archive!Write \/ Archive!WriteFails
  <2>1. /\ up # "down" /\ held # None /\ held' = None
        /\ archive'.lines \in {archive.lines, Append(archive.lines, Archive!Current(held))}
        /\ UNCHANGED <<run, up, next, refused, queue>>
    <3>1. up # "down" /\ held # None
      BY <1>1, <1>7 DEF Archive!Write, Archive!WriteFails, WorkerShape
    <3>2. archive' = archive \/ archive' \in Archive!Left(archive, Archive!Current(held), TRUE)
      BY <1>7, <3>1, ArchiveWrite DEF Archive!Write, Archive!WriteFails
    <3> QED BY <1>7, <3>1, <3>2, ArchiveWrite DEF Archive!Write, Archive!WriteFails
  <2> DEFINE s == archive'.lines
  <2>2. /\ \A i, j \in 1 .. Len(s) :
              i < j /\ s[i].run = s[j].run => s[i].ordinal < s[j].ordinal
        /\ \A i \in 1 .. Len(s) : s[i].run <= run /\ (s[i].run = run => s[i].ordinal <= held)
    BY <2>1, RecordAdded
  <2>3. \A i \in 1 .. Len(s) : s[i].ordinal \in Int
    <3>1. s \in Seq(Archive!Record)
      BY ShapeStep DEF ArchiveTypes
    <3>2. \A i \in 1 .. Len(s) : s[i] \in Archive!Record
      BY <3>1, Appended
    <3> QED BY <3>2, ArchiveConstants DEF Archive!Record
  <2>4. held < next /\ \A j \in 1 .. Len(queue) : held < queue[j]
    BY <1>1, <2>1 DEF InOrder
  <2>5. ASSUME NEW i \in 1 .. Len(s), s[i].run = run
        PROVE  s[i].ordinal < next /\ \A j \in 1 .. Len(queue) : s[i].ordinal < queue[j]
    BY <1>2, <2>1, <2>2, <2>3, <2>4, <2>5
  <2> HIDE DEF s
  <2> QED BY <1>1, <2>1, <2>2, <2>5 DEF InOrder, s
<1>8. CASE Archive!Crash
  <2>1. /\ up # "down" /\ held' = None /\ refused' = None /\ queue' = <<>> /\ run' = run /\ up' = "down"
        /\ \/ archive' = archive
           \/ held # None /\ archive'.lines \in {archive.lines, Append(archive.lines, Archive!Current(held))}
    <3>1. archive' = archive \/ (held # None /\ archive' \in Archive!Left(archive, Archive!Current(held), TRUE))
      BY <1>1, <1>8 DEF Archive!Crash, WorkerShape
    <3> QED BY <1>8, <3>1, ArchiveWrite DEF Archive!Crash
  <2> DEFINE s == archive'.lines
  <2>2. /\ \A i, j \in 1 .. Len(s) :
              i < j /\ s[i].run = s[j].run => s[i].ordinal < s[j].ordinal
        /\ \A i \in 1 .. Len(s) : s[i].run <= run
    <3>1. CASE archive' = archive
      BY <1>1, <3>1 DEF InOrder
    <3>2. CASE held # None /\ s \in {archive.lines, Append(archive.lines, Archive!Current(held))}
      BY <2>1, <3>2, RecordAdded
    <3> QED BY <2>1, <3>1, <3>2
  <2> HIDE DEF s
  <2> QED BY <2>1, <2>2 DEF InOrder, s
<1>9. CASE Archive!Close
  <2>1. UNCHANGED <<run, next, refused, queue, held, archive>> /\ up # "down"
    BY <1>9 DEF Archive!Close
  <2> QED BY <1>1, <2>1 DEF InOrder
<1>10. CASE Archive!Drained \/ Archive!TakeOverflow \/ Archive!WriteGap \/ Archive!WriteGapFails
  <2>1. UNCHANGED <<run, up, next, refused, queue, held, archive>>
    BY <1>10 DEF Archive!Drained, Archive!TakeOverflow, Archive!WriteGap, Archive!WriteGapFails
  <2> QED BY <1>1, <2>1 DEF InOrder
<1>11. CASE Archive!Finish
  <2>1. UNCHANGED <<run, next, refused, queue, held, archive>> /\ up' = "down"
    BY <1>11 DEF Archive!Finish
  <2> QED BY <1>1, <2>1 DEF InOrder
<1> QED BY <1>3, <1>4, <1>5, <1>6, <1>7, <1>8, <1>9, <1>10, <1>11 DEF Archive!Next

\* The gaps that have no line in the journal yet, and what they are made of.
LEMMA GapsKnown ==
    ASSUME ArchiveInv
    PROVE  /\ \A g \in printed \cup Untold : /\ g \in Archive!Gap /\ g.run \in Int /\ g.first \in Int
                                            /\ g.last \in Int /\ g.dropped \in Nat /\ g.last # None
           /\ next \in Int /\ run \in Int
           /\ todo # <<>> => todo[1] \in Untold
           /\ pending # None => pending \in Untold
<1>1. ArchiveTypes
  BY DEF ArchiveInv
<1>2. todo \in Seq(Archive!Gap) /\ Len(todo) \in Nat
  BY <1>1, Appended DEF ArchiveTypes
<1>3. \A g \in printed \cup Untold : g \in Archive!Gap
  <2>1. \A i \in 1 .. Len(todo) : todo[i] \in Archive!Gap
    BY <1>2, Appended
  <2> QED BY <1>1, <2>1 DEF ArchiveTypes, Untold
<1>4. todo # <<>> => 1 \in 1 .. Len(todo)
  BY <1>2, EmptySeq
<1> QED BY <1>1, <1>3, <1>4, GapFields, ArchiveConstants DEF ArchiveTypes, Untold

LEMMA GapStep ==
    ASSUME ArchiveInv, TornWrites = FALSE, Archive!Next
    PROVE  GapsApart'
<1> USE DEF Archive!submitter, Archive!worker
<1>1. ArchiveTypes /\ WorkerShape /\ InOrder /\ GapsApart
  BY DEF ArchiveInv
<1>2. /\ \A g \in printed \cup Untold : /\ g \in Archive!Gap /\ g.run \in Int /\ g.last \in Int
                                       /\ g.dropped \in Nat /\ g.last # None
      /\ next \in Int /\ run \in Int
      /\ todo # <<>> => todo[1] \in Untold
      /\ pending # None => pending \in Untold
  BY GapsKnown
<1>3. CASE Archive!Start
  <2>1. run' = run + 1 /\ pending' = None /\ printed' = printed
    BY <1>1, <1>3 DEF Archive!Start, WorkerShape
  <2>2. /\ todo' \in Seq(Archive!Gap)
        /\ \A i \in 1 .. Len(todo') : todo'[i].run = run + 1 /\ todo'[i].dropped = 0
    BY <1>3, StartGaps
  <2>3. \A g \in printed : g.run <= run + 1 /\ g.run # run + 1
    BY <1>1, <1>2 DEF GapsApart
  <2>4. \A g \in Untold' : g.dropped = 0
    BY <2>1, <2>2 DEF Untold
  <2> QED BY <2>1, <2>2, <2>3, <2>4 DEF GapsApart
<1>4. CASE Archive!Submit
  <2>1. /\ up # "down" /\ refused = None /\ next' = next + 1
        /\ \/ queue' = Append(queue, next) /\ UNCHANGED refused
           \/ refused' = next /\ UNCHANGED queue
        /\ UNCHANGED <<run, up, held, pending, todo, printed>>
    BY <1>4 DEF Archive!Submit
  <2>2. ASSUME NEW g \in printed \cup Untold, g.run = run, g.dropped > 0
        PROVE  g.last < next + 1 /\ ~Waits(g.last)'
    <3>1. g.last < next /\ ~Waits(g.last) /\ g.last # next
      BY <1>1, <1>2, <2>1, <2>2 DEF GapsApart
    <3>2. CASE queue' = Append(queue, next) /\ UNCHANGED refused
      <4>1. /\ Len(queue') = Len(queue) + 1 /\ queue'[Len(queue) + 1] = next /\ Len(queue) \in Nat
            /\ \A j \in 1 .. Len(queue) : queue'[j] = queue[j]
        BY <3>2, AppendProperties, LenProperties, <1>1 DEF ArchiveTypes
      <4>2. \A j \in 1 .. Len(queue') : j \in 1 .. Len(queue) \/ j = Len(queue) + 1
        BY <4>1
      <4> QED BY <1>2, <2>1, <3>1, <3>2, <4>1, <4>2 DEF Waits
    <3>3. CASE refused' = next /\ UNCHANGED queue
      BY <1>2, <2>1, <3>1, <3>3 DEF Waits
    <3> QED BY <2>1, <3>2, <3>3
  <2>3. pending # None => pending.last < next + 1
    BY <1>1, <1>2 DEF GapsApart
  <2>4. Untold' = Untold
    BY <2>1 DEF Untold
  <2> QED BY <1>1, <2>1, <2>2, <2>3, <2>4 DEF GapsApart
<1>5. CASE Archive!CountOverflow
  <2>1. /\ up # "down" /\ refused # None /\ refused' = None
        /\ pending' = Archive!Extended(pending, refused)
        /\ UNCHANGED <<run, up, next, held, queue, todo, printed>>
    BY <1>5 DEF Archive!CountOverflow
  <2>2. /\ pending' \in Archive!Gap /\ pending'.run = run /\ pending'.last = refused
        /\ 1 <= pending'.first /\ 1 <= pending'.dropped
        /\ pending'.dropped <= pending'.last - pending'.first + 1
    BY <2>1, MoreGap
  <2>3. /\ refused < next /\ refused # held /\ \A j \in 1 .. Len(queue) : refused # queue[j]
    <3>1. refused = next - 1
      BY <1>1, <2>1 DEF WorkerShape
    <3>2. held # None => held < refused
      BY <1>1, <2>1 DEF InOrder
    <3>3. refused \in Int
      BY <1>2, <3>1
    <3>4. \A j \in 1 .. Len(queue) : queue[j] < refused
      BY <1>1, <2>1 DEF InOrder
    <3> QED BY <1>2, <2>1, <3>1, <3>2, <3>3, <3>4
  <2>4. \A o : o = refused => ~Waits(o)'
    BY <2>1, <2>3 DEF Waits
  <2>5. ASSUME NEW g \in printed \cup Untold, g.run = run, g.dropped > 0
        PROVE  g.last < next /\ g.last # refused /\ ~Waits(g.last)'
    BY <1>1, <1>2, <2>1, <2>5 DEF GapsApart, Waits
  <2>6. Untold' \subseteq Untold \cup {pending'}
    BY <2>1 DEF Untold
  <2>7. \A g \in (printed \cup Untold)' :
           g.run = run /\ g.dropped > 0 => g.last < next /\ ~Waits(g.last)'
    BY <2>1, <2>2, <2>3, <2>4, <2>5, <2>6
  <2>8. \A g \in printed : g.run = run /\ g.dropped > 0 => g.last # pending'.last
    BY <2>2, <2>5
  <2>9. todo # <<>> => todo[1].dropped = 0 \/ pending'.last # todo[1].last
    <3>1. SUFFICES ASSUME todo # <<>>, todo[1].dropped # 0 PROVE pending'.last # todo[1].last
      OBVIOUS
    <3>2. 1 \in 1 .. Len(todo)
      BY <1>1, <3>1, Tailed DEF ArchiveTypes
    <3>3. todo[1].run = run
      BY <1>1, <3>2 DEF GapsApart
    <3> QED BY <1>2, <2>2, <2>5, <3>1, <3>3
  <2>10. pending'.last < next
    BY <2>2, <2>3
  <2> HIDE DEF Waits, Untold
  <2> QED BY <1>1, <2>1, <2>2, <2>7, <2>8, <2>9, <2>10 DEF GapsApart
<1>6. CASE Archive!Receive
  <2>1. /\ queue # <<>> /\ held = None /\ held' = Head(queue) /\ queue' = Tail(queue)
        /\ UNCHANGED <<run, up, next, refused, pending, todo, printed>>
    BY <1>1, <1>6 DEF Archive!Receive, WorkerShape
  <2>2. /\ held' = queue[1] /\ 1 \in 1 .. Len(queue)
        /\ \A j \in 1 .. Len(queue') : queue'[j] = queue[j + 1] /\ j + 1 \in 1 .. Len(queue)
    <3>1. queue \in Seq(Archive!Ordinals)
      BY <1>1 DEF ArchiveTypes
    <3>2. /\ Head(queue) = queue[1] /\ Len(queue) \in Nat \ {0} /\ Len(Tail(queue)) = Len(queue) - 1
          /\ \A i \in 1 .. Len(queue) - 1 : Tail(queue)[i] = queue[i + 1]
      BY <2>1, <3>1, Tailed
    <3> QED BY <2>1, <3>2
  <2>3. \A o : Waits(o)' => Waits(o)
    BY <2>1, <2>2 DEF Waits
  <2>4. Untold' = Untold
    BY <2>1 DEF Untold
  <2> QED BY <1>1, <2>1, <2>3, <2>4 DEF GapsApart
<1>7. CASE Archive!Write
  <2>1. held' = None /\ UNCHANGED <<run, up, next, refused, queue, pending, todo, printed>>
    BY <1>7 DEF Archive!Write
  <2>2. \A o : o # None /\ Waits(o)' => Waits(o)
    BY <2>1 DEF Waits
  <2>3. Untold' = Untold
    BY <2>1 DEF Untold
  <2> QED BY <1>1, <1>2, <2>1, <2>2, <2>3 DEF GapsApart
<1>8. CASE Archive!WriteFails
  <2>1. /\ up # "down" /\ held # None /\ held' = None /\ todo = <<>>
        /\ todo' = <<Archive!GapOf(held)>>
        /\ UNCHANGED <<run, up, next, refused, queue, pending, printed>>
    BY <1>1, <1>8 DEF Archive!WriteFails, WorkerShape
  <2>2. PICK e : e = Archive!GapOf(held)
    OBVIOUS
  <2>3. /\ e.run = run /\ e.last = held
        /\ todo'[1] = e /\ Len(todo') = 1 /\ \A i \in 1 .. Len(todo') : todo'[i] = e
    BY <1>1, <2>1, <2>2, OneGap DEF ArchiveTypes, WorkerShape
  <2>4. held < next /\ \A o : o = held => ~Waits(o)'
    <3>1. held < next /\ (refused # None => held < refused) /\ \A j \in 1 .. Len(queue) : held < queue[j]
      BY <1>1, <2>1 DEF InOrder
    <3>2. held \in Int
      BY <1>1, <2>1, ArchiveConstants DEF ArchiveTypes
    <3> QED BY <2>1, <3>1, <3>2 DEF Waits
  <2>5. ASSUME NEW g \in printed \cup Untold, g.run = run, g.dropped > 0
        PROVE  g.last < next /\ g.last # held /\ ~Waits(g.last)'
    BY <1>1, <1>2, <2>1, <2>5 DEF GapsApart, Waits
  <2>6. Untold' \subseteq Untold \cup {e}
    BY <2>1, <2>3 DEF Untold
  <2>7. \A g \in (printed \cup Untold)' :
           g.run = run /\ g.dropped > 0 => g.last < next /\ ~Waits(g.last)'
    BY <2>1, <2>3, <2>4, <2>5, <2>6
  <2>8. pending # None => pending.last # held
    BY <1>1, <1>2, <2>5 DEF GapsApart
  <2> HIDE DEF Waits, Untold
  <2> QED BY <1>1, <2>1, <2>3, <2>5, <2>7, <2>8 DEF GapsApart
<1>9. CASE Archive!TakeOverflow
  <2>1. /\ todo = <<>> /\ pending' = None /\ todo' = (IF pending = None THEN <<>> ELSE <<pending>>)
        /\ UNCHANGED <<run, up, next, refused, queue, held, printed>>
    BY <1>1, <1>9 DEF Archive!TakeOverflow, WorkerShape
  <2>2. /\ pending = None => Len(todo') = 0
        /\ pending # None => Len(todo') = 1 /\ todo'[1] = pending
        /\ \A i \in 1 .. Len(todo') : todo'[i] = pending /\ pending # None
    BY <2>1
  <2>3. Untold' \subseteq Untold
    BY <2>1, <2>2 DEF Untold
  <2>4. \A o : Waits(o)' = Waits(o)
    BY <2>1 DEF Waits
  <2> QED BY <1>1, <2>1, <2>2, <2>3, <2>4 DEF GapsApart
<1>10. CASE Archive!WriteGap \/ Archive!WriteGapFails
  <2>1. /\ up # "down" /\ todo # <<>> /\ todo' = Tail(todo)
        /\ printed' = printed \/ printed' = printed \cup {todo[1]}
        /\ UNCHANGED <<run, up, next, refused, pending, queue, held>>
    BY <1>10, JournalWrite DEF Archive!WriteGap, Archive!WriteGapFails
  <2>2. /\ Len(todo) \in Nat \ {0} /\ Len(todo') = Len(todo) - 1
        /\ \A i \in 1 .. Len(todo') : todo'[i] = todo[i + 1] /\ i + 1 \in 1 .. Len(todo)
        /\ todo' # <<>> => 1 \in 1 .. Len(todo')
    <3>1. todo \in Seq(Archive!Gap) /\ todo' \in Seq(Archive!Gap)
      BY <1>1, <2>1, Tailed DEF ArchiveTypes
    <3>2. /\ Len(todo) \in Nat \ {0} /\ Len(Tail(todo)) = Len(todo) - 1
          /\ \A i \in 1 .. Len(todo) - 1 : Tail(todo)[i] = todo[i + 1]
      BY <2>1, <3>1, Tailed
    <3>3. todo' # <<>> => Len(todo') # 0
      BY <3>1, EmptySeq
    <3> QED BY <2>1, <3>2, <3>3
  <2>3. (printed \cup Untold)' \subseteq printed \cup Untold
    BY <1>2, <2>1, <2>2 DEF Untold
  <2>4. \A i \in 1 .. Len(todo') : todo'[i].run = run /\ todo'[i].dropped = 0
    BY <1>1, <2>2 DEF GapsApart
  <2>5. todo[1].run = run
    BY <1>1, <2>2 DEF GapsApart
  <2>6. \A o : Waits(o)' = Waits(o)
    BY <2>1 DEF Waits
  <2>7. \A g \in printed' : g \in printed \/ g = todo[1]
    BY <2>1
  <2>8. pending # None => todo[1].dropped = 0 \/ pending.last # todo[1].last
    BY <1>1, <2>1 DEF GapsApart
  <2>9. \A g \in printed' : g.run <= run
    BY <1>1, <1>2, <2>5, <2>7 DEF GapsApart
  <2>10. \A g \in printed' : g.run = run /\ g.dropped > 0 => (pending # None => g.last # pending.last)
    BY <1>1, <2>1, <2>7, <2>8 DEF GapsApart
  <2>11. \A g \in (printed \cup Untold)' :
           g.run = run /\ g.dropped > 0 => g.last < next /\ ~Waits(g.last)'
    BY <1>1, <2>1, <2>3, <2>6 DEF GapsApart
  <2> HIDE DEF Waits, Untold
  <2> QED BY <1>1, <2>1, <2>2, <2>4, <2>9, <2>10, <2>11 DEF GapsApart
<1>11. CASE Archive!Close
  <2>1. /\ up # "down" /\ UNCHANGED <<run, next, refused, queue, held, pending, todo, printed>>
    BY <1>11 DEF Archive!Close
  <2>2. Untold' = Untold /\ \A o : Waits(o)' = Waits(o)
    BY <2>1 DEF Untold, Waits
  <2> QED BY <1>1, <2>1, <2>2 DEF GapsApart
<1>12. CASE Archive!Drained
  <2>1. /\ up # "down" /\ UNCHANGED <<run, up, next, refused, queue, held, pending, todo, printed>>
    BY <1>12 DEF Archive!Drained
  <2>2. Untold' = Untold /\ \A o : Waits(o)' = Waits(o)
    BY <2>1 DEF Untold, Waits
  <2> QED BY <1>1, <2>1, <2>2 DEF GapsApart
<1>13. CASE Archive!Finish
  <2>1. up' = "down" /\ UNCHANGED <<run, next, pending, todo, printed>>
    BY <1>13 DEF Archive!Finish
  <2> QED BY <1>1, <2>1 DEF GapsApart
<1>14. CASE Archive!Crash
  <2>1. up' = "down" /\ pending' = None /\ todo' = <<>> /\ UNCHANGED <<run, printed>>
    BY <1>14 DEF Archive!Crash
  <2> QED BY <1>1, <2>1 DEF GapsApart
<1> QED BY <1>3, <1>4, <1>5, <1>6, <1>7, <1>8, <1>9, <1>10, <1>11, <1>12, <1>13, <1>14
        DEF Archive!Next

\* The journal's count after a step.
LEMMA DeclaredThen ==
    ASSUME journal'.lines \in Seq(Archive!Gap), NEW r
    PROVE  Archive!Declared(r)' = InJournal(journal'.lines, r) + InPrinted(printed', r)
<1>1. \A i \in 1 .. Len(journal'.lines) : journal'.lines[i] # Corrupt
  BY ElementOfSeq, ArchiveConstants
<1>2. {i \in 1 .. Len(journal'.lines) : journal'.lines[i] # Corrupt /\ journal'.lines[i].run = r}
      = {i \in 1 .. Len(journal'.lines) : journal'.lines[i].run = r}
  BY <1>1
<1> QED BY <1>2, ArchiveSums DEF Archive!Declared, InJournal, InPrinted

LEMMA AtMostOneMore ==
    ASSUME NEW S, IsFiniteSet(S), NEW T, NEW x, T \subseteq S \cup {x}
    PROVE  /\ IsFiniteSet(T) /\ Cardinality(T) \in Nat /\ Cardinality(S) \in Nat
           /\ Cardinality(T) <= Cardinality(S) + 1
<1>1. /\ IsFiniteSet(S \cup {x})
      /\ Cardinality(S \cup {x}) = IF x \in S THEN Cardinality(S) ELSE Cardinality(S) + 1
  BY FS_AddElement
<1>2. IsFiniteSet(T) /\ Cardinality(T) <= Cardinality(S \cup {x})
  BY <1>1, FS_Subset
<1>3. Cardinality(S) \in Nat /\ Cardinality(T) \in Nat
  BY <1>2, FS_CardinalityType
<1> QED BY <1>1, <1>2, <1>3

\* What a step may add to the files: the record that is held, the gap that is next.
LEMMA FilesGrow ==
    ASSUME ArchiveInv, TornWrites = FALSE, Archive!Next
    PROVE  /\ \/ archive'.lines = archive.lines
              \/ archive'.lines = Append(archive.lines, Archive!Current(held)) /\ up # "down" /\ held # None
           /\ \/ journal'.lines = journal.lines
              \/ journal'.lines = Append(journal.lines, todo[1]) /\ up # "down" /\ todo # <<>>
           /\ printed' = printed \/ (printed' = printed \cup {todo[1]} /\ up # "down" /\ todo # <<>>)
<1> USE DEF Archive!submitter, Archive!worker
<1>1. ArchiveTypes /\ WorkerShape
  BY DEF ArchiveInv
<1>2. CASE Archive!Start
  <2>1. archive' = [archive EXCEPT !.tail = None] /\ journal' = [journal EXCEPT !.tail = None]
        /\ printed' = printed
    BY <1>2 DEF Archive!Start, Archive!Repaired
  <2> QED BY <1>1, <2>1 DEF ArchiveTypes
<1>3. CASE Archive!Write \/ Archive!WriteFails
  <2>1. /\ up # "down" /\ held # None /\ UNCHANGED <<journal, printed>>
        /\ \/ archive' = archive
           \/ archive' = Archive!Line(archive, Archive!Current(held))
           \/ archive' \in Archive!Left(archive, Archive!Current(held), TornWrites)
    BY <1>1, <1>3 DEF Archive!Write, Archive!WriteFails, WorkerShape
  <2> QED BY <2>1, ArchiveWrite
<1>4. CASE Archive!WriteGap \/ Archive!WriteGapFails
  <2>1. /\ up # "down" /\ todo # <<>> /\ UNCHANGED archive
        /\ \/ journal' = Archive!Line(journal, Head(todo))
           \/ journal' \in Archive!Left(journal, Head(todo), TornWrites)
        /\ printed' = printed \/ printed' = printed \cup {Head(todo)}
    BY <1>4 DEF Archive!WriteGap, Archive!WriteGapFails
  <2> QED BY <2>1, JournalWrite
<1>5. CASE Archive!Crash
  <2>1. /\ up # "down" /\ UNCHANGED printed
        /\ archive' = archive \/ (held # None /\ archive' \in Archive!Left(archive, Archive!Current(held), TRUE))
        /\ journal' = journal \/ (todo # <<>> /\ journal' \in Archive!Left(journal, Head(todo), TRUE))
    BY <1>1, <1>5 DEF Archive!Crash, WorkerShape
  <2> QED BY <2>1, ArchiveWrite, JournalWrite
<1>6. CASE \/ Archive!Submit \/ Archive!CountOverflow \/ Archive!Close \/ Archive!Receive
           \/ Archive!Drained \/ Archive!TakeOverflow \/ Archive!Finish
  <2>1. UNCHANGED <<archive, journal, printed>>
    BY <1>6 DEF Archive!Submit, Archive!CountOverflow, Archive!Close, Archive!Receive,
                Archive!Drained, Archive!TakeOverflow, Archive!Finish
  <2> QED BY <2>1
<1> QED BY <1>2, <1>3, <1>4, <1>5, <1>6 DEF Archive!Next

\* So what is in the archive or told stays so, and the counts only grow.
LEMMA NothingUntold ==
    ASSUME ArchiveInv, TornWrites = FALSE, Archive!Next
    PROVE  /\ Archive!Elements(archive) \subseteq Archive!Elements(archive')
           /\ Told \subseteq Told' /\ \A g \in Told \cup Told' : g # Corrupt
           /\ \A r : /\ Archive!Declared(r) \in Nat /\ Archive!Declared(r)' \in Nat
                     /\ Archive!Declared(r) <= Archive!Declared(r)'
<1>1. /\ journal.lines \in Seq(Archive!Gap) /\ archive.lines \in Seq(Archive!Record)
      /\ printed \subseteq Archive!Gap /\ IsFiniteSet(printed)
      /\ journal'.lines \in Seq(Archive!Gap) /\ printed' \subseteq Archive!Gap /\ IsFiniteSet(printed')
  BY ShapeStep DEF ArchiveInv, ArchiveTypes
<1>2. todo # <<>> /\ up # "down" => todo[1] \in Archive!Gap
  BY JournalWrite
<1>3. held # None /\ up # "down" => Archive!Current(held) \in Archive!Record
  BY ArchiveWrite
<1>4. Archive!Elements(archive) \subseteq Archive!Elements(archive')
  <2>1. CASE archive'.lines = archive.lines
    BY <2>1 DEF Archive!Elements
  <2>2. CASE archive'.lines = Append(archive.lines, Archive!Current(held)) /\ up # "down" /\ held # None
    BY <1>1, <1>3, <2>2, Appended DEF Archive!Elements
  <2> QED BY <2>1, <2>2, FilesGrow
<1>5. Archive!Elements(journal) \subseteq Archive!Elements(journal')
  <2>1. CASE journal'.lines = journal.lines
    BY <2>1 DEF Archive!Elements
  <2>2. CASE journal'.lines = Append(journal.lines, todo[1]) /\ up # "down" /\ todo # <<>>
    BY <1>1, <1>2, <2>2, Appended DEF Archive!Elements
  <2> QED BY <2>1, <2>2, FilesGrow
<1>6. printed \subseteq printed'
  BY FilesGrow
<1>7. \A g \in Told \cup Told' : g # Corrupt
  <2>1. ASSUME NEW s \in Seq(Archive!Gap), NEW i \in 1 .. Len(s) PROVE s[i] # Corrupt
    BY ElementOfSeq, ArchiveConstants
  <2> QED BY <1>1, <2>1, ArchiveConstants DEF Told, Archive!Elements
<1>8. ASSUME NEW r
      PROVE  /\ Archive!Declared(r) \in Nat /\ Archive!Declared(r)' \in Nat
             /\ Archive!Declared(r) <= Archive!Declared(r)'
  <2> DEFINE a == InJournal(journal.lines, r)
             b == InPrinted(printed, r)
             c == InJournal(journal'.lines, r)
             d == InPrinted(printed', r)
  <2>1. Archive!Declared(r) = a + b /\ Archive!Declared(r)' = c + d
    BY <1>1, DeclaredIs, DeclaredThen
  <2>2. a \in Nat /\ c \in Nat /\ a <= c
    <3>1. ASSUME NEW s \in Seq(Archive!Gap) PROVE InJournal(s, r) \in Nat
      <4>1. IsFiniteSet(1 .. Len(s))
        BY LenProperties, FS_Interval
      <4>2. IsFiniteSet({j \in 1 .. Len(s) : s[j].run = r})
        BY <4>1, FS_Subset
      <4>3. \A i \in 1 .. Len(s) : s[i].dropped \in Nat
        BY ElementOfSeq, GapFields
      <4> DEFINE L == {j \in 1 .. Len(s) : s[j].run = r}
                 f == [i \in L |-> s[i].dropped]
      <4>4. \A i \in L : f[i] \in Nat
        BY <4>3
      <4>5. InJournal(s, r) = SumOver(f, L)
        BY DEF InJournal
      <4> HIDE DEF f, L
      <4>6. IsFiniteSet(L)
        BY <4>2 DEF L
      <4> QED BY <4>4, <4>5, <4>6, NaturalSum
    <3>2. a \in Nat /\ c \in Nat
      BY <1>1, <3>1
    <3>3. CASE journal'.lines = journal.lines
      BY <3>2, <3>3
    <3>4. CASE journal'.lines = Append(journal.lines, todo[1]) /\ up # "down" /\ todo # <<>>
      <4>1. c = a + CountOf(todo[1], r) /\ CountOf(todo[1], r) \in Nat
        BY <1>1, <1>2, <3>4, JournalAdds
      <4> QED BY <3>2, <4>1
    <3> QED BY <3>2, <3>3, <3>4, FilesGrow
  <2>3. b \in Nat /\ d \in Nat /\ b <= d
    <3>1. CASE printed' = printed
      <4>1. b \in Nat
        <5> DEFINE L == {g \in printed : g.run = r}
                   f == [g \in printed |-> g.dropped]
        <5>1. IsFiniteSet(L)
          BY <1>1, FS_Subset
        <5>2. \A g \in L : f[g] \in Nat
          BY <1>1, GapFields
        <5>3. b = SumOver(f, L)
          BY DEF InPrinted
        <5> HIDE DEF b, f, L
        <5> QED BY <5>1, <5>2, <5>3, NaturalSum
      <4> QED BY <3>1, <4>1
    <3>2. CASE printed' = printed \cup {todo[1]} /\ up # "down" /\ todo # <<>>
      <4>1. CountOf(todo[1], r) \in Nat
        BY <1>1, <1>2, <3>2, JournalAdds
      <4>2. b \in Nat /\ (d = b \/ d = b + CountOf(todo[1], r))
        <5>1. PICK g : g = todo[1]
          OBVIOUS
        <5>2. printed \subseteq Archive!Gap /\ IsFiniteSet(printed) /\ g \in Archive!Gap
          BY <1>1, <1>2, <3>2, <5>1
        <5>3. /\ b \in Nat
              /\ \/ InPrinted(printed \cup {g}, r) = b
                 \/ InPrinted(printed \cup {g}, r) = b + CountOf(g, r)
          BY <5>2, PrintedAdds
        <5>4. d = InPrinted(printed \cup {g}, r)
          BY <3>2, <5>1
        <5> QED BY <5>1, <5>3, <5>4
      <4> QED BY <4>1, <4>2
    <3> QED BY <3>1, <3>2, FilesGrow
  <2> HIDE DEF a, b, c, d
  <2> QED BY <2>1, <2>2, <2>3
<1> QED BY <1>4, <1>5, <1>6, <1>7, <1>8 DEF Told

\* The gaps that are told account for what a finished run lacks.
LEMMA AccountStep ==
    ASSUME ArchiveInv, TornWrites = FALSE, Archive!Next
    PROVE  Accounted'
<1> USE DEF Archive!submitter, Archive!worker
<1> DEFINE Due == IF todo = <<>> THEN 0 ELSE todo[1].dropped
           Covered(o, S) == \E g \in S : g.run = run /\ g.first <= o /\ o <= g.last
<1>1. ArchiveTypes /\ WorkerShape /\ InOrder /\ GapsApart /\ Accounted /\ ArchiveTypes'
  BY ShapeStep DEF ArchiveInv
<1>2. /\ Archive!Elements(archive) \subseteq Archive!Elements(archive')
      /\ Told \subseteq Told' /\ \A g \in Told \cup Told' : g # Corrupt
      /\ \A r : /\ Archive!Declared(r) \in Nat /\ Archive!Declared(r)' \in Nat
                /\ Archive!Declared(r) <= Archive!Declared(r)'
  BY NothingUntold
<1>3. IsFiniteSet(Lost) /\ Cardinality(Lost) \in Nat
  <2>1. IsFiniteSet(1 .. next - 1)
    BY <1>1, ArchiveConstants, FS_Interval DEF ArchiveTypes
  <2>2. Lost \subseteq 1 .. next - 1
    BY DEF Lost
  <2> QED BY <2>1, <2>2, FS_Subset, FS_CardinalityType
<1>4. /\ pending # None => pending \in Archive!Gap /\ pending.dropped \in Nat
      /\ todo # <<>> => todo[1] \in Archive!Gap /\ todo[1].dropped \in Nat
      /\ \A o \in 1 .. next - 1 : o # None /\ o \in Int
  <2>1. pending # None => pending \in Archive!Gap
    BY <1>1 DEF ArchiveTypes
  <2>2. todo # <<>> => todo[1] \in Archive!Gap
    BY <1>1, Tailed DEF ArchiveTypes
  <2>3. \A o \in 1 .. next - 1 : o \in 0 .. MaxOrdinal
    BY <1>1, ArchiveConstants DEF ArchiveTypes
  <2> QED BY <2>1, <2>2, <2>3, GapFields, ArchiveConstants
<1>5. DroppedBy(pending) \in Nat /\ Due \in Nat /\ DroppedBy(pending') \in Nat /\ Due' \in Nat
  <2>1. pending' # None => pending' \in Archive!Gap
    BY <1>1 DEF ArchiveTypes
  <2>2. todo' # <<>> => todo'[1] \in Archive!Gap
    <3>1. todo' \in Seq(Archive!Gap)
      BY <1>1 DEF ArchiveTypes
    <3> QED BY <3>1, Tailed
  <2> QED BY <1>4, <2>1, <2>2, GapFields DEF DroppedBy
\* A run whose finish this step is not: what was accounted for stays so.
<1>6. ASSUME NEW r \in Archive!Runs, clean'[r] = clean[r]
      PROVE  /\ \A o \in Archive!Missing(r)' : \E g \in Told' :
                   g # Corrupt /\ g.run = r /\ g.first <= o /\ o <= g.last
             /\ Archive!Cardinality(Archive!Missing(r)') <= Archive!Declared(r)'
  <2>1. Archive!Missing(r)' \subseteq Archive!Missing(r)
    BY <1>2, <1>6 DEF Archive!Missing
  <2>2. /\ \A o \in Archive!Missing(r) : \E g \in Told :
              g # Corrupt /\ g.run = r /\ g.first <= o /\ o <= g.last
        /\ Cardinality(Archive!Missing(r)) <= Archive!Declared(r)
    BY <1>1, ArchiveCardinality DEF Accounted, Archive!NothingLostSilently, Told
  <2>3. /\ Cardinality(Archive!Missing(r)') <= Cardinality(Archive!Missing(r))
        /\ Cardinality(Archive!Missing(r)) \in Nat /\ Cardinality(Archive!Missing(r)') \in Nat
    <3>1. clean[r] \in Int
      BY <1>1, ArchiveConstants DEF ArchiveTypes
    <3>2. IsFiniteSet(1 .. clean[r])
      BY <3>1, FS_Interval
    <3>3. IsFiniteSet(Archive!Missing(r))
      BY <3>2, FS_Subset DEF Archive!Missing
    <3> QED BY <2>1, <3>3, FS_Subset, FS_CardinalityType
  <2>4. Cardinality(Archive!Missing(r)') <= Archive!Declared(r)'
    BY <1>2, <2>2, <2>3
  <2> HIDE DEF Due
  <2> QED BY <1>2, <2>1, <2>2, <2>4, ArchiveCardinality
<1>7. ASSUME clean' = clean PROVE Archive!NothingLostSilently'
  BY <1>6, <1>7 DEF Archive!NothingLostSilently, Told
\* What is with the writer or in the archive stays there, but for one record.
<1>8. ASSUME up # "down", up' # "down", clean' = clean, run' = run, NEW x, NEW k \in {0, 1},
             Lost' \subseteq Lost \cup {x}, k = 0 => Lost' \subseteq Lost,
             Archive!Declared(run) + DroppedBy(pending) + Due + k
               <= Archive!Declared(run)' + DroppedBy(pending') + Due',
             \A o \in Lost : Covered(o, Told \cup Untold) => Covered(o, Told' \cup Untold'),
             k = 1 => Covered(x, Told' \cup Untold')
      PROVE  Accounted'
  <2>1. /\ \A o \in Lost : Covered(o, Told \cup Untold)
        /\ Cardinality(Lost) <= Archive!Declared(run) + DroppedBy(pending) + Due
    BY <1>1, <1>8 DEF Accounted
  <2>2. PICK T : T = Lost'
    OBVIOUS
  <2>3. Cardinality(T) \in Nat /\ Cardinality(T) <= Cardinality(Lost) + k
    <3>1. CASE k = 0
      BY <1>3, <1>8, <2>2, <3>1, FS_Subset, FS_CardinalityType
    <3>2. CASE k = 1
      BY <1>3, <1>8, <2>2, <3>2, AtMostOneMore
    <3> QED BY <3>1, <3>2
  <2>4. \A o \in T : Covered(o, Told' \cup Untold')
    BY <1>8, <2>1, <2>2
  <2>5. Cardinality(T) <= Archive!Declared(run)' + DroppedBy(pending') + Due'
    <3> DEFINE a == Archive!Declared(run)
               b == Archive!Declared(run)'
               c == DroppedBy(pending)
               d == DroppedBy(pending')
    <3>1. a \in Nat /\ b \in Nat /\ c \in Nat /\ d \in Nat /\ Due \in Nat /\ Due' \in Nat
      BY <1>2, <1>5
    <3>2. /\ a + c + Due + k <= b + d + Due' /\ Cardinality(Lost) <= a + c + Due
          /\ Cardinality(T) <= Cardinality(Lost) + k
      BY <1>8, <2>1, <2>3
    <3>3. PICK e, h, n, m : e = Due /\ h = Due' /\ n = Cardinality(T) /\ m = Cardinality(Lost)
      OBVIOUS
    <3>4. /\ e \in Nat /\ h \in Nat /\ n \in Nat /\ m \in Nat /\ k \in Nat
          /\ a + c + e + k <= b + d + h /\ m <= a + c + e /\ n <= m + k
      BY <1>3, <2>3, <3>1, <3>2, <3>3
    <3> HIDE DEF a, b, c, d, Due
    <3>5. n <= b + d + h
      BY <3>1, <3>4
    <3> QED BY <3>3, <3>5 DEF b, d
  <2>6. Archive!NothingLostSilently'
    BY <1>7, <1>8
  <2> QED BY <1>8, <2>2, <2>4, <2>5, <2>6 DEF Accounted
<1>9. ASSUME up # "down", up' # "down", clean' = clean, run' = run, Lost' \subseteq Lost,
             Archive!Declared(run) + DroppedBy(pending) + Due
               <= Archive!Declared(run)' + DroppedBy(pending') + Due',
             \A o \in Lost : Covered(o, Told \cup Untold) => Covered(o, Told' \cup Untold')
      PROVE  Accounted'
  <2>1. Archive!Declared(run) + DroppedBy(pending) + Due + 0
          <= Archive!Declared(run)' + DroppedBy(pending') + Due'
    <3>1. Archive!Declared(run) + DroppedBy(pending) + Due \in Nat
      BY <1>2, <1>5
    <3> HIDE DEF Due
    <3> QED BY <1>9, <3>1
  <2>2. Lost' \subseteq Lost \cup {0}
    BY <1>9
  <2> HIDE DEF Due, Covered
  <2> QED BY <1>8, <1>9, <2>1, <2>2
<1>10. CASE Archive!Start
  <2>1. /\ up' = "open" /\ run' = run + 1 /\ next' = 1 /\ clean' = clean /\ pending' = None
        /\ todo' = <<>> \/ todo'[1].dropped = 0
    <3>1. pending' = None
      BY <1>1, <1>10 DEF Archive!Start, WorkerShape
    <3>2. todo' \in Seq(Archive!Gap) /\ \A i \in 1 .. Len(todo') : todo'[i].dropped = 0
      BY <1>10, StartGaps
    <3>3. todo' # <<>> => 1 \in 1 .. Len(todo')
      BY <3>2, Tailed
    <3> QED BY <1>10, <3>1, <3>2, <3>3 DEF Archive!Start
  <2>2. Lost' = {}
    BY <2>1 DEF Lost
  <2>3. Cardinality({}) = 0
    BY FS_EmptySet
  <2>4. Archive!NothingLostSilently'
    BY <1>7, <2>1
  <2>5. Cardinality(Lost') = 0
    BY <2>2, <2>3
  <2>6. (Archive!Declared(run))' \in Nat
    BY <1>2
  <2>7. DroppedBy(pending') = 0 /\ Due' = 0
    BY <2>1 DEF DroppedBy
  <2>8. Cardinality(Lost') <= (Archive!Declared(run))' + DroppedBy(pending') + Due'
    BY <2>5, <2>6, <2>7
  <2> QED BY <2>2, <2>4, <2>8 DEF Accounted
\* Steps that leave the gaps where they are and lose no record.
<1>11. ASSUME up # "down", up' # "down", UNCHANGED <<clean, run, pending, todo, printed, journal>>,
              Lost' \subseteq Lost
       PROVE  Accounted'
  <2>1. Told' = Told /\ Untold' = Untold /\ Due' = Due /\ DroppedBy(pending') = DroppedBy(pending)
    BY <1>11 DEF Told, Untold, DroppedBy
  <2>2. Archive!Declared(run) <= Archive!Declared(run)'
    BY <1>2, <1>11
  <2>3. /\ Archive!Declared(run) \in Nat /\ Archive!Declared(run)' \in Nat
        /\ DroppedBy(pending) \in Nat /\ Due \in Nat
    BY <1>2, <1>5
  <2> HIDE DEF Due
  <2>4. Archive!Declared(run) + DroppedBy(pending) + Due
          <= Archive!Declared(run)' + DroppedBy(pending') + Due'
    BY <2>1, <2>2, <2>3
  <2>5. \A o \in Lost : Covered(o, Told \cup Untold) => Covered(o, Told' \cup Untold')
    BY <2>1
  <2> HIDE DEF Covered
  <2> QED BY <1>9, <1>11, <2>4, <2>5
<1>12. CASE Archive!Submit
  <2>1. /\ up # "down" /\ up' = up /\ refused = None /\ next' = next + 1 /\ UNCHANGED <<held, archive>>
        /\ \/ queue' = Append(queue, next) /\ UNCHANGED refused
           \/ refused' = next /\ UNCHANGED queue
        /\ UNCHANGED <<clean, run, pending, todo, printed, journal>>
    BY <1>12 DEF Archive!Submit
  <2>2. next \in Int /\ \A o \in 1 .. next' - 1 : o = next \/ o \in 1 .. next - 1
    BY <1>1, <2>1, ArchiveConstants DEF ArchiveTypes
  <2>3. (\A o \in 1 .. next - 1 : Waits(o) => Waits(o)') /\ \A o : o = next => Waits(o)'
    <3>1. CASE queue' = Append(queue, next) /\ UNCHANGED refused
      <4>1. /\ Len(queue') = Len(queue) + 1 /\ queue'[Len(queue) + 1] = next /\ Len(queue) \in Nat
            /\ \A j \in 1 .. Len(queue) : queue'[j] = queue[j]
        BY <3>1, AppendProperties, LenProperties, <1>1 DEF ArchiveTypes
      <4>2. Len(queue) + 1 \in 1 .. Len(queue') /\ \A j \in 1 .. Len(queue) : j \in 1 .. Len(queue')
        BY <4>1
      <4> QED BY <2>1, <3>1, <4>1, <4>2 DEF Waits
    <3>2. CASE refused' = next /\ UNCHANGED queue
      BY <1>4, <2>1, <3>2 DEF Waits
    <3> QED BY <2>1, <3>1, <3>2
  <2>4. Lost' \subseteq Lost
    BY <2>1, <2>2, <2>3 DEF Lost
  <2> HIDE DEF Due, Covered
  <2> QED BY <1>11, <2>1, <2>4
<1>13. CASE Archive!Receive
  <2>1. /\ queue # <<>> /\ held = None /\ held' = Head(queue) /\ queue' = Tail(queue)
        /\ up # "down" /\ UNCHANGED <<up, next, refused, archive>>
        /\ UNCHANGED <<clean, run, pending, todo, printed, journal>>
    BY <1>1, <1>13 DEF Archive!Receive, WorkerShape
  <2>2. /\ held' = queue[1]
        /\ \A j \in 1 .. Len(queue) : j = 1 \/ (j - 1 \in 1 .. Len(queue') /\ queue'[j - 1] = queue[j])
    <3>1. queue \in Seq(Archive!Ordinals)
      BY <1>1 DEF ArchiveTypes
    <3>2. /\ Head(queue) = queue[1] /\ Len(queue) \in Nat \ {0} /\ Len(Tail(queue)) = Len(queue) - 1
          /\ \A i \in 1 .. Len(queue) - 1 : Tail(queue)[i] = queue[i + 1]
      BY <2>1, <3>1, Tailed
    <3>3. \A j \in 1 .. Len(queue) : j = 1 \/ (j - 1 \in 1 .. Len(queue) - 1 /\ (j - 1) + 1 = j)
      BY <3>2
    <3> QED BY <2>1, <3>2, <3>3
  <2>3. \A o \in 1 .. next - 1 : Waits(o) => Waits(o)'
    BY <1>4, <2>1, <2>2 DEF Waits
  <2>4. Lost' \subseteq Lost
    BY <2>1, <2>3 DEF Lost
  <2> HIDE DEF Due, Covered
  <2> QED BY <1>11, <2>1, <2>4
<1>14. CASE Archive!Write
  <2>1. /\ up # "down" /\ held # None /\ held' = None
        /\ archive' = Archive!Line(archive, Archive!Current(held))
        /\ UNCHANGED <<up, next, refused, queue>>
        /\ UNCHANGED <<clean, run, pending, todo, printed, journal>>
    BY <1>1, <1>14 DEF Archive!Write, WorkerShape
  <2>2. Archive!Current(held) \in Archive!Elements(archive')
    <3>1. archive.lines \in Seq(Archive!Record) /\ Archive!Current(held) \in Archive!Record
      BY <1>1, <2>1, ArchiveWrite DEF ArchiveTypes
    <3>2. archive'.lines = Append(archive.lines, Archive!Current(held))
      BY <2>1, ArchiveWrite
    <3> QED BY <3>1, <3>2, Appended DEF Archive!Elements
  <2>3. [run |-> run, ordinal |-> held] \in Archive!Elements(archive')
    BY <2>2 DEF Archive!Current
  <2>4. \A o \in 1 .. next - 1 : Waits(o) /\ o # held => Waits(o)'
    BY <2>1 DEF Waits
  <2>5. Lost' \subseteq Lost
    BY <1>2, <2>1, <2>3, <2>4 DEF Lost
  <2> HIDE DEF Due, Covered
  <2> QED BY <1>11, <2>1, <2>5
<1>15. CASE Archive!Close \/ Archive!Drained
  <2>1. /\ up # "down" /\ up' # "down" /\ UNCHANGED <<held, next, refused, queue, archive>>
        /\ UNCHANGED <<clean, run, pending, todo, printed, journal>>
    BY <1>15 DEF Archive!Close, Archive!Drained
  <2>2. Lost' = Lost
    BY <2>1 DEF Lost, Waits
  <2> HIDE DEF Due, Covered
  <2> QED BY <1>11, <2>1, <2>2
<1>16. CASE Archive!TakeOverflow
  <2>1. /\ up # "down" /\ up' = up /\ todo = <<>> /\ pending' = None
        /\ todo' = (IF pending = None THEN <<>> ELSE <<pending>>)
        /\ UNCHANGED <<clean, run, next, refused, queue, held, archive, journal, printed>>
    BY <1>1, <1>16 DEF Archive!TakeOverflow, WorkerShape
  <2>2. Lost' = Lost
    BY <2>1 DEF Lost, Waits
  <2>3. Due = 0 /\ DroppedBy(pending') = 0 /\ Due' = DroppedBy(pending)
    BY <2>1 DEF DroppedBy
  <2>4. Told' = Told /\ Untold \subseteq Untold'
    <3>1. pending # None => Len(todo') = 1 /\ todo'[1] = pending
      BY <2>1
    <3>2. Len(todo) = 0
      BY <2>1
    <3> QED BY <2>1, <3>1, <3>2 DEF Told, Untold
  <2>5. Archive!Declared(run) <= Archive!Declared(run)'
    BY <1>2, <2>1
  <2>6. /\ Archive!Declared(run) \in Nat /\ Archive!Declared(run)' \in Nat
        /\ DroppedBy(pending) \in Nat
    BY <1>2, <1>5
  <2>7. \A o \in Lost : Covered(o, Told \cup Untold) => Covered(o, Told' \cup Untold')
    BY <2>4
  <2> HIDE DEF Due, Covered
  <2>8. Archive!Declared(run) + DroppedBy(pending) + Due
          <= Archive!Declared(run)' + DroppedBy(pending') + Due'
    BY <2>3, <2>5, <2>6
  <2> QED BY <1>9, <2>1, <2>2, <2>7, <2>8
<1>17. CASE Archive!CountOverflow
  <2>1. /\ up # "down" /\ up' = up /\ refused # None /\ refused' = None
        /\ pending' = Archive!Extended(pending, refused)
        /\ UNCHANGED <<clean, run, next, queue, held, todo, archive, journal, printed>>
    BY <1>17 DEF Archive!CountOverflow
  <2>2. PICK x : x = refused
    OBVIOUS
  <2>3. /\ pending' # None /\ pending'.run = run /\ pending'.last = x
        /\ pending = None => pending'.first = x /\ pending'.dropped = 1
        /\ pending # None => /\ pending'.first = pending.first /\ pending'.dropped = pending.dropped + 1
                             /\ pending.last < x /\ pending'.first \in Int /\ pending.last \in Int
        /\ x \in Int /\ pending # None => pending.first <= x
    <3>1. pending' # None
      BY <2>1, MoreGap, ArchiveConstants
    <3>2. x \in Int
      BY <1>1, <2>1, <2>2, ArchiveConstants DEF ArchiveTypes
    <3>3. pending # None => /\ pending.first \in Int /\ pending.last \in Int /\ pending.dropped \in Int
      BY GapsKnown
    <3>4. pending # None => pending.first <= pending.last
      <4>1. pending # None => 1 <= pending.dropped /\ pending.dropped <= pending.last - pending.first + 1
        BY <1>1 DEF GapsApart
      <4> QED BY <3>3, <4>1
    <3>5. /\ pending'.run = run /\ pending'.last = x
          /\ pending = None => pending'.first = x /\ pending'.dropped = 1
          /\ pending # None => /\ pending'.first = pending.first /\ pending'.dropped = pending.dropped + 1
                               /\ pending.last < x
      BY <2>1, <2>2, MoreGap
    <3> QED BY <3>1, <3>2, <3>3, <3>4, <3>5
  <2>4. Lost' \subseteq Lost \cup {x}
    <3>1. \A o : Waits(o) /\ o # x => Waits(o)'
      BY <2>1, <2>2 DEF Waits
    <3> QED BY <2>1, <3>1 DEF Lost
  <2>5. DroppedBy(pending') = DroppedBy(pending) + 1 /\ Due' = Due
    BY <2>1, <2>3 DEF DroppedBy
  <2>6. Told' = Told /\ pending' \in Untold' /\ Untold \subseteq Untold' \cup ({pending} \ {None})
    BY <2>1, <2>3 DEF Told, Untold
  <2>7. x \in Int /\ Covered(x, Told' \cup Untold')
    <3>1. x \in Int /\ pending'.first <= x /\ x <= pending'.last
      BY <1>1, <2>1, <2>2, <2>3, ArchiveConstants DEF ArchiveTypes
    <3> QED BY <2>3, <2>6, <3>1
  <2>8. ASSUME NEW o \in Lost, Covered(o, Told \cup Untold) PROVE Covered(o, Told' \cup Untold')
    <3>1. PICK g \in Told \cup Untold : g.run = run /\ g.first <= o /\ o <= g.last
      BY <2>8
    <3>2. CASE g \in Told' \cup Untold'
      BY <3>1, <3>2
    <3>3. CASE g = pending /\ pending # None
      <4>1. o \in Int
        BY <1>4 DEF Lost
      <4>2. pending'.first <= o /\ o <= pending'.last
        BY <2>3, <2>7, <3>1, <3>3, <4>1
      <4> QED BY <2>3, <2>6, <4>2
    <3> QED BY <2>6, <3>1, <3>2, <3>3
  <2>9. Archive!Declared(run) <= Archive!Declared(run)'
    BY <1>2, <2>1
  <2>10. /\ Archive!Declared(run) \in Nat /\ Archive!Declared(run)' \in Nat
         /\ DroppedBy(pending) \in Nat /\ Due \in Nat
    BY <1>2, <1>5
  <2> HIDE DEF Due, Covered
  <2>11. Archive!Declared(run) + DroppedBy(pending) + Due + 1
          <= Archive!Declared(run)' + DroppedBy(pending') + Due'
    BY <2>5, <2>9, <2>10
  <2> QED BY <1>8, <2>1, <2>4, <2>7, <2>8, <2>11
<1>18. CASE Archive!Crash
  <2>1. up' = "down" /\ clean' = clean
    BY <1>18 DEF Archive!Crash
  <2> QED BY <1>7, <2>1 DEF Accounted
<1>19. CASE Archive!WriteFails
  <2>1. /\ up # "down" /\ up' = up /\ held # None /\ held' = None /\ todo = <<>>
        /\ todo' = <<Archive!GapOf(held)>>
        /\ UNCHANGED <<clean, run, next, refused, queue, pending, journal, printed>>
    BY <1>1, <1>19 DEF Archive!WriteFails, WorkerShape
  <2>2. PICK x, e : x = held /\ e = Archive!GapOf(held)
    OBVIOUS
  <2>3. /\ x \in Int /\ e.run = run /\ e.first = x /\ e.last = x /\ e.dropped = 1
        /\ todo' = <<e>> /\ todo'[1] = e /\ Len(todo') = 1
    <3>1. held \in Archive!Ordinals /\ run \in Archive!Runs
      BY <1>1, <2>1 DEF ArchiveTypes, WorkerShape
    <3> QED BY <2>1, <2>2, <3>1, OneGap, ArchiveConstants
  <2>4. Lost' \subseteq Lost \cup {x}
    <3>1. \A o : Waits(o) /\ o # x => Waits(o)'
      BY <2>1, <2>2 DEF Waits
    <3> QED BY <1>2, <2>1, <3>1 DEF Lost
  <2>5. Due = 0 /\ Due' = 1 /\ DroppedBy(pending') = DroppedBy(pending)
    BY <2>1, <2>3 DEF DroppedBy
  <2>6. Told' = Told /\ e \in Untold' /\ Untold \subseteq Untold'
    <3>1. Len(todo) = 0
      BY <2>1
    <3> QED BY <2>1, <2>3, <3>1 DEF Told, Untold
  <2>7. Covered(x, Told' \cup Untold')
    BY <2>3, <2>6
  <2>8. \A o \in Lost : Covered(o, Told \cup Untold) => Covered(o, Told' \cup Untold')
    BY <2>6
  <2>9. Archive!Declared(run) <= Archive!Declared(run)'
    BY <1>2, <2>1
  <2>10. /\ Archive!Declared(run) \in Nat /\ Archive!Declared(run)' \in Nat
         /\ DroppedBy(pending) \in Nat
    BY <1>2, <1>5
  <2> HIDE DEF Due, Covered
  <2>11. Archive!Declared(run) + DroppedBy(pending) + Due + 1
          <= Archive!Declared(run)' + DroppedBy(pending') + Due'
    BY <2>5, <2>9, <2>10
  <2>12. clean' = clean /\ run' = run /\ up # "down" /\ up' # "down"
    BY <2>1
  <2> QED BY <1>8, <2>4, <2>7, <2>8, <2>11, <2>12
<1>20. CASE Archive!WriteGap \/ Archive!WriteGapFails
  <2>1. /\ up # "down" /\ up' = up /\ todo # <<>> /\ todo' = Tail(todo)
        /\ UNCHANGED <<clean, run, next, refused, queue, held, pending, archive>>
    BY <1>20 DEF Archive!WriteGap, Archive!WriteGapFails
  <2>2. PICK e : e = todo[1]
    OBVIOUS
  <2>3. e \in Archive!Gap /\ e.run = run /\ e.dropped \in Nat /\ Due = e.dropped
    BY <2>1, <2>2, JournalWrite, GapFields
  <2>4. Lost' = Lost
    BY <2>1 DEF Lost, Waits
  <2>5. Untold \subseteq Untold' \cup {e}
    <3>1. todo \in Seq(Archive!Gap)
      BY <1>1 DEF ArchiveTypes
    <3>2. /\ {todo[i] : i \in 1 .. Len(todo)} = {todo[1]} \cup {Tail(todo)[i] : i \in 1 .. Len(todo) - 1}
          /\ Len(Tail(todo)) = Len(todo) - 1
      BY <2>1, <3>1, Tailed
    <3> QED BY <2>1, <2>2, <3>2 DEF Untold
  <2>6. \/ journal'.lines = Append(journal.lines, e) /\ printed' = printed
        \/ /\ journal'.lines = journal.lines \/ journal'.lines = Append(journal.lines, e)
           /\ printed' = printed \cup {e}
    <3>1. CASE Archive!WriteGap
      BY <2>1, <2>2, <3>1, JournalWrite DEF Archive!WriteGap
    <3>2. CASE Archive!WriteGapFails
      <4>1. printed' = printed \cup {e}
        BY <2>1, <2>2, <3>2, JournalWrite DEF Archive!WriteGapFails
      <4> QED BY <2>2, <4>1, FilesGrow
    <3> QED BY <1>20, <3>1, <3>2
  <2>7. /\ journal.lines \in Seq(Archive!Gap) /\ journal'.lines \in Seq(Archive!Gap)
        /\ printed \subseteq Archive!Gap /\ IsFiniteSet(printed)
    BY <1>1 DEF ArchiveTypes
  <2>8. Told \subseteq Told' /\ e \in Told'
    <3>1. journal'.lines = Append(journal.lines, e) => e \in Archive!Elements(journal')
      BY <2>3, <2>7, Appended DEF Archive!Elements
    <3> QED BY <1>2, <2>6, <3>1 DEF Told
  <2>9. \A o \in Lost : Covered(o, Told \cup Untold) => Covered(o, Told' \cup Untold')
    BY <2>5, <2>8
  <2>10. e \in printed => e.dropped = 0
    BY <1>1, <2>1, <2>2, <2>3 DEF GapsApart
  <2>11. Archive!Declared(run) + e.dropped <= Archive!Declared(run)'
    <3>1. PICK r : r = run
      OBVIOUS
    <3> DEFINE a == InJournal(journal.lines, r)
               b == InPrinted(printed, r)
               c == InJournal(journal'.lines, r)
               d == InPrinted(printed', r)
               n == e.dropped
    <3>2. Archive!Declared(run) = a + b /\ Archive!Declared(run)' = c + d
      <4>1. Archive!Declared(r) = a + b /\ Archive!Declared(r)' = c + d
        BY <2>7, DeclaredIs, DeclaredThen
      <4> QED BY <2>1, <3>1, <4>1
    <3>3. CountOf(e, r) = n
      BY <2>3, <3>1 DEF CountOf
    <3>4. /\ a \in Nat /\ n \in Nat
          /\ InJournal(Append(journal.lines, e), r) = a + n
      BY <2>3, <2>7, <3>3, JournalAdds
    <3>5. /\ b \in Nat
          /\ e \in printed => InPrinted(printed \cup {e}, r) = b
          /\ e \notin printed => InPrinted(printed \cup {e}, r) = b + n
      <4>1. printed \subseteq Archive!Gap /\ IsFiniteSet(printed) /\ e \in Archive!Gap
        BY <2>3, <2>7
      <4>2. /\ b \in Nat
            /\ e \in printed => InPrinted(printed \cup {e}, r) = b
            /\ e \notin printed => InPrinted(printed \cup {e}, r) = b + CountOf(e, r)
        BY <4>1, PrintedAdds
      <4> QED BY <3>3, <4>2
    <3>6. InPrinted(printed \cup {e}, r) = b + n
      BY <2>10, <3>5
    <3>7. \/ c = a + n /\ d = b
          \/ (c = a \/ c = a + n) /\ d = b + n
      BY <2>6, <3>4, <3>6
    <3> HIDE DEF a, b, c, d, n
    <3>8. a + b + n <= c + d
      BY <3>4, <3>5, <3>7
    <3> QED BY <3>2, <3>8 DEF n
  <2>12. /\ Archive!Declared(run) \in Nat /\ Archive!Declared(run)' \in Nat
         /\ DroppedBy(pending) \in Nat /\ DroppedBy(pending') = DroppedBy(pending) /\ Due' \in Nat
    BY <1>2, <1>5, <2>1
  <2> HIDE DEF Due, Covered
  <2>13. Archive!Declared(run) + DroppedBy(pending) + Due
          <= Archive!Declared(run)' + DroppedBy(pending') + Due'
    <3>1. PICK n : n = e.dropped
      OBVIOUS
    <3> QED BY <2>3, <2>11, <2>12, <3>1
  <2> QED BY <1>9, <2>1, <2>4, <2>9, <2>13
<1>21. CASE Archive!Finish
  <2>1. /\ up # "down" /\ pc = "flush" /\ todo = <<>> /\ up' = "down"
        /\ clean' = [clean EXCEPT ![run] = next - 1]
        /\ UNCHANGED <<run, next, refused, pending, queue, held, todo, archive, journal, printed>>
    BY <1>21 DEF Archive!Finish
  <2>2. held = None /\ pending = None /\ queue = <<>> /\ refused = None /\ run \in Archive!Runs
    BY <1>1, <2>1 DEF WorkerShape
  <2>3. ASSUME NEW r \in Archive!Runs, r = run
        PROVE  /\ \A o \in Archive!Missing(r)' : \E g \in Told' :
                     g # Corrupt /\ g.run = r /\ g.first <= o /\ o <= g.last
               /\ Archive!Cardinality(Archive!Missing(r)') <= Archive!Declared(r)'
    <3>1. clean'[r] = next - 1
      BY <1>1, <2>1, <2>3 DEF ArchiveTypes
    <3>2. Len(queue) = 0
      BY <2>2
    <3>3. \A o \in 1 .. next - 1 : ~Waits(o)
      BY <1>4, <2>2, <3>2 DEF Waits
    <3>4. Archive!Missing(r)' = Lost
      BY <2>1, <2>3, <3>1, <3>3 DEF Archive!Missing, Lost
    <3>5. Untold = {} /\ Due = 0 /\ DroppedBy(pending) = 0
      <4>1. Len(todo) = 0
        BY <2>1
      <4> QED BY <2>1, <2>2, <4>1 DEF Untold, DroppedBy
    <3>6. /\ \A o \in Lost : Covered(o, Told)
          /\ Cardinality(Lost) <= Archive!Declared(run)
      <4>1. /\ \A o \in Lost : Covered(o, Told \cup Untold)
            /\ Cardinality(Lost) <= Archive!Declared(run) + DroppedBy(pending) + Due
        BY <1>1, <2>1 DEF Accounted
      <4>2. Archive!Declared(run) \in Nat
        BY <1>2
      <4> HIDE DEF Due, Covered
      <4> QED BY <3>5, <4>1, <4>2
    <3>7. Archive!Declared(r)' = Archive!Declared(run)
      BY <2>1, <2>3 DEF Archive!Declared
    <3>8. Told' = Told
      BY <2>1 DEF Told
    <3> HIDE DEF Due
    <3> QED BY <1>2, <2>3, <3>4, <3>6, <3>7, <3>8, ArchiveCardinality
  <2>4. ASSUME NEW r \in Archive!Runs, r # run PROVE clean'[r] = clean[r]
    BY <1>1, <2>1, <2>4 DEF ArchiveTypes
  <2>5. Archive!NothingLostSilently'
    BY <1>6, <2>3, <2>4 DEF Archive!NothingLostSilently, Told
  <2> QED BY <2>1, <2>5 DEF Accounted
<1> QED BY <1>10, <1>12, <1>13, <1>14, <1>15, <1>16, <1>17, <1>18, <1>19, <1>20, <1>21
        DEF Archive!Next

LEMMA ArchiveStep ==
    ASSUME ArchiveInv, TornWrites = FALSE, [Archive!Next]_archiveVars
    PROVE  ArchiveInv'
<1>1. CASE Archive!Next
  BY <1>1, ShapeStep, OrderStep, GapStep, AccountStep DEF ArchiveInv
<1>2. CASE UNCHANGED archiveVars
  <2>1. /\ Lost' = Lost /\ Told' = Told /\ Untold' = Untold /\ \A o : Waits(o)' = Waits(o)
    BY <1>2 DEF archiveVars, Lost, Told, Untold, Waits
  <2>2. ArchiveTypes' /\ WorkerShape' /\ InOrder'
    BY <1>2 DEF archiveVars, ArchiveInv, ArchiveTypes, WorkerShape, InOrder
  <2>3. GapsApart'
    BY <1>2, <2>1 DEF archiveVars, ArchiveInv, GapsApart
  <2>4. Accounted'
    <3>1. Archive!NothingLostSilently' = Archive!NothingLostSilently
      BY <1>2 DEF archiveVars, Archive!NothingLostSilently, Archive!Missing, Archive!Declared
    <3>2. (Archive!Declared(run))' = Archive!Declared(run)
      BY <1>2 DEF archiveVars, Archive!Declared
    <3> QED BY <1>2, <2>1, <3>1, <3>2 DEF archiveVars, ArchiveInv, Accounted, DroppedBy
  <2> QED BY <2>2, <2>3, <2>4 DEF ArchiveInv
<1> QED BY <1>1, <1>2

LEMMA ArchivePromise == ArchiveInv => Archive!Replayable /\ Archive!NothingLostSilently
<1> SUFFICES ASSUME ArchiveInv PROVE Archive!Replayable /\ Archive!NothingLostSilently
  OBVIOUS
<1>1. archive.lines \in Seq(Archive!Record) /\ journal.lines \in Seq(Archive!Gap)
  BY DEF ArchiveInv, ArchiveTypes
<1>2. Corrupt \notin Archive!Elements(archive) \cup Archive!Elements(journal)
  BY <1>1, ElementOfSeq, ArchiveConstants DEF Archive!Elements
<1> QED BY <1>2 DEF ArchiveInv, InOrder, Accounted, Archive!Replayable, Archive!ReplaySucceeds

\* What holds of the archive in every state of a behaviour that is about it.
ArchiveSafe == part = "archive" => ArchiveInv

LEMMA ArchiveAlways == TornWrites = FALSE => (Spec => []ArchiveSafe)
<1> SUFFICES ASSUME TornWrites = FALSE PROVE Spec => []ArchiveSafe
  OBVIOUS
<1>1. Init => ArchiveSafe
  BY ArchiveInit DEF Init, ArchiveSafe
<1>2. ArchiveSafe /\ [Next]_vars => ArchiveSafe'
  <2> SUFFICES ASSUME ArchiveSafe, [Next]_vars, part' = "archive" PROVE ArchiveInv'
    BY DEF ArchiveSafe
  <2>1. part = "archive" /\ ArchiveInv
    BY DEF Next, vars, OfScan, OfArchive, OfLeg, OfRun, OfQuery, ArchiveSafe
  <2>2. [Archive!Next]_archiveVars
    BY <2>1 DEF Next, vars, archiveVars, OfScan, OfArchive, OfLeg, OfRun, OfQuery
  <2> QED BY <2>1, <2>2, ArchiveStep
<1> QED BY <1>1, <1>2, PTL DEF Spec

\* For every capacity, every number of starts, records and failed writes, with a crash at
\* any moment: both files can be replayed and a run's records are in their order, as long
\* as a write that failed leaves a whole line or none.
THEOREM ArchiveReplays == TornWrites = FALSE => (Spec => []Replayable)
<1>1. ArchiveSafe => Replayable
  BY ArchivePromise DEF ArchiveSafe, Replayable
<1> QED BY <1>1, ArchiveAlways, PTL

\* Under the same condition: once finish has returned, every record that was submitted is
\* in the archive or inside a gap that was journalled or printed, and the gaps of a run
\* count at least as many records as it lacks.
THEOREM NothingIsLost == TornWrites = FALSE => (Spec => []NothingLostSilently)
<1>1. ArchiveSafe => NothingLostSilently
  BY ArchivePromise DEF ArchiveSafe, NothingLostSilently
<1> QED BY <1>1, ArchiveAlways, PTL

-----------------------------------------------------------------------------
(* The queries: lists in the order of their keys *)

QueryRow == [run : Queries!Runs, scenario : {"DONE", "REJECTED"}, filled : 0 .. 2]

LEMMA QueriesConstants ==
    /\ MaxRows \in Nat /\ PageSize \in Nat /\ Dense \in Nat /\ Funds \in Nat
    /\ Day \in Nat \ {0}
    /\ None \notin {"COMPLETED", "COMPENSATION_DECIDED"}
    /\ Queries!Runs = 1 .. MaxRows
BY DecisionsAssumption DEF Queries!QueriesAssumption, Queries!Runs

LEMMA QueriesCardinality == ASSUME NEW S PROVE Queries!Cardinality(S) = Cardinality(S)
BY DEF Queries!Cardinality, Cardinality

\* A finite set has a member of the greatest key.
LEMMA Greatest ==
    ASSUME NEW S, IsFiniteSet(S), S # {}, NEW key, \A x \in S : key[x] \in Int
    PROVE  \E x \in S : \A y \in S : key[y] <= key[x]
<1> DEFINE Has(T) == \E x \in T : \A y \in T : key[y] <= key[x]
           F == {T \in SUBSET S : T # {} /\ ~Has(T)}
<1> SUFFICES ASSUME F # {} PROVE FALSE
  <2>1. S \in SUBSET S
    OBVIOUS
  <2> QED BY <2>1
<1>1. PICK T \in F : \A x \in T : T \ {x} \notin F
  <2>1. \A T \in F : IsFiniteSet(T)
    BY FS_Subset
  <2> HIDE DEF F
  <2> QED BY <2>1, SmallestSet
<1>2. T \in SUBSET S /\ T # {} /\ ~Has(T)
  BY <1>1
<1>3. PICK x \in T : TRUE
  BY <1>2
<1>4. T \ {x} # {}
  <2>1. ASSUME T \ {x} = {} PROVE FALSE
    <3>1. T = {x}
      BY <1>3, <2>1
    <3>2. key[x] \in Int
      BY <1>2, <1>3
    <3>3. Has(T)
      BY <3>1, <3>2
    <3> QED BY <1>2, <3>3
  <2> QED BY <2>1
<1>5. PICK m \in T \ {x} : \A y \in T \ {x} : key[y] <= key[m]
  <2>1. T \ {x} \in SUBSET S /\ T \ {x} \notin F
    BY <1>1, <1>2, <1>3
  <2>2. Has(T \ {x})
    BY <1>4, <2>1
  <2> QED BY <2>2
<1>6. key[x] \in Int /\ key[m] \in Int /\ \A y \in T : key[y] \in Int
  BY <1>2, <1>3, <1>5
<1>7. CASE key[x] <= key[m]
  <2>1. \A y \in T : key[y] <= key[m]
    BY <1>5, <1>7
  <2> QED BY <1>2, <1>5, <2>1
<1>8. CASE ~(key[x] <= key[m])
  <2>1. \A y \in T : key[y] <= key[x]
    <3>1. ASSUME NEW y \in T PROVE key[y] <= key[x]
      <4>1. CASE y = x
        BY <1>6, <4>1
      <4>2. CASE y # x
        <5>1. key[y] <= key[m] /\ key[y] \in Int
          BY <1>5, <1>6, <4>2
        <5> QED BY <1>6, <1>8, <5>1
      <4> QED BY <4>1, <4>2
    <3> QED BY <3>1
  <2> QED BY <1>2, <1>3, <2>1
<1> QED BY <1>7, <1>8

\* s lists the members of S, and their keys rise.
Lists(s, S, key) ==
    /\ s \in [1 .. Cardinality(S) -> S]
    /\ Queries!ToSet(s) = S
    /\ \A i, j \in DOMAIN s : i < j => key[s[i]] < key[s[j]]

\* A list of all but the greatest is continued with the greatest.
LEMMA ListsOneMore ==
    ASSUME NEW T, IsFiniteSet(T), NEW key, \A x \in T : key[x] \in Int,
           NEW m \in T, \A x \in T \ {m} : key[x] < key[m],
           NEW s, Lists(s, T \ {m}, key)
    PROVE  \E t : Lists(t, T, key)
<1>1. PICK n : n = Cardinality(T \ {m})
  OBVIOUS
<1>2. n \in Nat /\ Cardinality(T) = n + 1
  <2>1. IsFiniteSet(T \ {m}) /\ Cardinality(T \ {m}) = Cardinality(T) - 1
    BY FS_RemoveElement
  <2>2. n \in Nat /\ Cardinality(T) \in Nat
    BY <1>1, <2>1, FS_CardinalityType
  <2> QED BY <1>1, <2>1, <2>2
<1> DEFINE t == [i \in 1 .. n + 1 |-> IF i = n + 1 THEN m ELSE s[i]]
<1>3. /\ s \in [1 .. n -> T \ {m}]
      /\ \A x \in T \ {m} : \E i \in 1 .. n : x = s[i]
      /\ \A i, j \in 1 .. n : i < j => key[s[i]] < key[s[j]]
  <2>1. /\ s \in [1 .. n -> T \ {m}] /\ DOMAIN s = 1 .. n
        /\ {s[i] : i \in 1 .. n} = T \ {m}
        /\ \A i, j \in DOMAIN s : i < j => key[s[i]] < key[s[j]]
    BY <1>1 DEF Lists, Queries!ToSet
  <2>2. \A x \in T \ {m} : \E i \in 1 .. n : x = s[i]
    BY <2>1
  <2> QED BY <2>1, <2>2
<1>4. \A i \in 1 .. n + 1 : i # n + 1 => i \in 1 .. n
  BY <1>2
<1>5. t \in [1 .. n + 1 -> T]
  BY <1>3, <1>4
<1>6. Queries!ToSet(t) = T
  <2>1. DOMAIN t = 1 .. n + 1 /\ n + 1 \in 1 .. n + 1 /\ t[n + 1] = m
    BY <1>2
  <2>2. ASSUME NEW x \in T PROVE \E i \in 1 .. n + 1 : x = t[i]
    <3>1. CASE x = m
      BY <2>1, <3>1
    <3>2. CASE x # m
      <4>1. PICK i \in 1 .. n : x = s[i]
        BY <1>3, <3>2
      <4>2. i \in 1 .. n + 1 /\ i # n + 1
        BY <1>2
      <4> QED BY <4>1, <4>2
    <3> QED BY <3>1, <3>2
  <2>3. \A i \in 1 .. n + 1 : t[i] \in T
    BY <1>5
  <2> HIDE DEF t
  <2> QED BY <2>1, <2>2, <2>3 DEF Queries!ToSet
<1>7. \A i, j \in 1 .. n + 1 : i < j => key[t[i]] < key[t[j]]
  <2> SUFFICES ASSUME NEW i \in 1 .. n + 1, NEW j \in 1 .. n + 1, i < j
               PROVE  key[t[i]] < key[t[j]]
    OBVIOUS
  <2>1. i \in 1 .. n /\ t[i] = s[i]
    BY <1>2
  <2>2. CASE j = n + 1
    BY <1>3, <2>1, <2>2
  <2>3. CASE j # n + 1
    <3>1. j \in 1 .. n /\ t[j] = s[j]
      BY <1>4, <2>3
    <3> QED BY <1>3, <2>1, <3>1
  <2> QED BY <2>2, <2>3
<1>8. DOMAIN t = 1 .. n + 1
  OBVIOUS
<1> HIDE DEF t
<1>9. Lists(t, T, key)
  BY <1>2, <1>5, <1>6, <1>7, <1>8 DEF Lists
<1> QED BY <1>9

\* No two members of S have the same key.
Distinct(S, key) ==
    /\ IsFiniteSet(S)
    /\ \A x \in S : key[x] \in Int
    /\ \A x, y \in S : key[x] = key[y] => x = y

LEMMA ListExists == ASSUME NEW S, NEW key, Distinct(S, key) PROVE \E s : Lists(s, S, key)
<1> DEFINE F == {T \in SUBSET S : ~\E s : Lists(s, T, key)}
<1> SUFFICES ASSUME F # {} PROVE FALSE
  <2>1. S \in SUBSET S
    OBVIOUS
  <2> QED BY <2>1
<1>1. PICK T \in F : \A x \in T : T \ {x} \notin F
  <2>1. \A T \in F : IsFiniteSet(T)
    BY FS_Subset DEF Distinct
  <2> HIDE DEF F
  <2> QED BY <2>1, SmallestSet
<1>2. T \in SUBSET S /\ IsFiniteSet(T) /\ ~\E s : Lists(s, T, key)
  BY <1>1, FS_Subset DEF Distinct
<1>3. CASE T = {}
  <2>1. Cardinality({}) = 0 /\ 1 .. 0 = {}
    BY FS_EmptySet
  <2>2. Lists([i \in {} |-> 0], {}, key)
    BY <2>1 DEF Lists, Queries!ToSet
  <2> QED BY <1>2, <1>3, <2>2
<1>4. CASE T # {}
  <2>1. \A x \in T : key[x] \in Int
    BY <1>2 DEF Distinct
  <2>2. PICK m \in T : \A x \in T : key[x] <= key[m]
    BY <1>2, <1>4, <2>1, Greatest
  <2>3. \A x \in T \ {m} : key[x] < key[m]
    <3>1. \A x \in T \ {m} : key[x] # key[m] /\ key[x] <= key[m] /\ key[x] \in Int
      BY <1>2, <2>1, <2>2 DEF Distinct
    <3> QED BY <2>1, <3>1
  <2>4. T \ {m} \notin F /\ T \ {m} \in SUBSET S
    BY <1>1, <1>2
  <2>5. PICK s : Lists(s, T \ {m}, key)
    BY <2>4
  <2> QED BY <1>2, <2>1, <2>3, <2>5, ListsOneMore
<1> QED BY <1>3, <1>4

\* So ORDER BY gives one; its elements are the members of the set, each once.
LEMMA OrderedLists ==
    ASSUME NEW S, NEW key, Distinct(S, key)
    PROVE  /\ Lists(Queries!Ordered(S, key), S, key)
           /\ Queries!Ordered(S, key) \in Seq(S)
           /\ Len(Queries!Ordered(S, key)) = Cardinality(S)
           /\ Cardinality(S) \in Nat
<1>1. PICK s : Lists(s, S, key)
  BY ListExists
<1>2. Lists(Queries!Ordered(S, key), S, key)
  <2>1. Queries!Ordered(S, key) =
          CHOOSE t \in [1 .. Cardinality(S) -> S] :
              /\ Queries!ToSet(t) = S
              /\ \A i, j \in DOMAIN t : i < j => key[t[i]] < key[t[j]]
    BY QueriesCardinality DEF Queries!Ordered
  <2> QED BY <1>1, <2>1 DEF Lists
<1>3. Cardinality(S) \in Nat
  BY FS_CardinalityType DEF Distinct
<1>4. PICK t : t = Queries!Ordered(S, key)
  OBVIOUS
<1>5. t \in [1 .. Cardinality(S) -> S]
  BY <1>2, <1>4 DEF Lists
<1>6. t \in Seq(S) /\ Len(t) = Cardinality(S)
  BY <1>3, <1>5
<1> QED BY <1>2, <1>3, <1>4, <1>6

\* As many members are before the i-th as their keys are less than its key.
LEMMA Ahead ==
    ASSUME NEW S, NEW key, Distinct(S, key), NEW s, Lists(s, S, key), NEW i \in DOMAIN s
    PROVE  Cardinality({x \in S : key[x] < key[s[i]]}) = i - 1
<1>1. PICK n : n = Cardinality(S)
  OBVIOUS
<1>2. n \in Nat
  BY <1>1, FS_CardinalityType DEF Distinct
<1>3. /\ s \in [1 .. n -> S] /\ i \in 1 .. n
      /\ \A x \in S : \E j \in 1 .. n : x = s[j]
      /\ \A j, k \in 1 .. n : j < k => key[s[j]] < key[s[k]]
      /\ \A j \in 1 .. n : key[s[j]] \in Int
  BY <1>1 DEF Lists, Distinct, Queries!ToSet
<1> DEFINE B == {x \in S : key[x] < key[s[i]]}
           t == [j \in 1 .. i - 1 |-> s[j]]
<1>4. \A j \in 1 .. i - 1 : j \in 1 .. n /\ j < i
  BY <1>2, <1>3
<1>5. t \in [1 .. i - 1 -> B]
  BY <1>3, <1>4
<1>6. \A j, k \in 1 .. i - 1 : t[j] = t[k] => j = k
  <2> SUFFICES ASSUME NEW j \in 1 .. i - 1, NEW k \in 1 .. i - 1, t[j] = t[k], j # k PROVE FALSE
    OBVIOUS
  <2>1. j \in 1 .. n /\ k \in 1 .. n /\ s[j] = s[k] /\ (j < k \/ k < j)
    BY <1>4
  <2>2. key[s[j]] < key[s[k]] \/ key[s[k]] < key[s[j]]
    BY <1>3, <2>1
  <2>3. key[s[j]] = key[s[k]] /\ key[s[j]] \in Int
    BY <1>3, <2>1
  <2> QED BY <2>2, <2>3
<1>7. \A x \in B : \E j \in 1 .. i - 1 : t[j] = x
  <2> SUFFICES ASSUME NEW x \in S, key[x] < key[s[i]] PROVE \E j \in 1 .. i - 1 : t[j] = x
    OBVIOUS
  <2>1. PICK j \in 1 .. n : x = s[j]
    BY <1>3
  <2>2. ~(i < j) /\ j # i
    <3>1. key[s[j]] < key[s[i]] /\ key[s[j]] \in Int /\ key[s[i]] \in Int
      BY <1>3, <2>1
    <3>2. ~(key[s[i]] < key[s[j]]) /\ key[s[j]] # key[s[i]]
      BY <3>1
    <3> QED BY <1>3, <3>2
  <2>3. j \in 1 .. i - 1
    BY <1>2, <1>3, <2>2
  <2> QED BY <2>1, <2>3
<1> HIDE DEF t, B
<1>8. t \in Bijection(1 .. i - 1, B)
  BY <1>5, <1>6, <1>7 DEF Bijection, Injection, Surjection, IsInjective
<1>9. ExistsBijection(1 .. i - 1, B)
  BY <1>8 DEF ExistsBijection
<1>10. IsFiniteSet(1 .. i - 1) /\ Cardinality(1 .. i - 1) = i - 1
  <2>1. i \in Int /\ i >= 1 /\ 1 \in Int /\ i - 1 \in Int
    BY <1>2, <1>3
  <2>2. Cardinality(1 .. i - 1) = IF 1 > i - 1 THEN 0 ELSE (i - 1) - 1 + 1
    BY <2>1, FS_Interval
  <2>3. IsFiniteSet(1 .. i - 1)
    BY <2>1, FS_Interval
  <2>4. (IF 1 > i - 1 THEN 0 ELSE (i - 1) - 1 + 1) = i - 1
    BY <2>1
  <2> QED BY <2>2, <2>3, <2>4
<1>11. Cardinality(B) = Cardinality(1 .. i - 1)
  BY <1>9, <1>10, FS_Bijection
<1> QED BY <1>10, <1>11 DEF B

-----------------------------------------------------------------------------
(* The queries: the ridge *)

\* What is in the buckets.
Within(buckets) == UNION {Queries!ToSet(b) : b \in Queries!ToSet(buckets)}

LEMMA WithinIs ==
    ASSUME NEW S, NEW buckets \in Seq(Seq(S))
    PROVE  \A x : x \in Within(buckets) <=>
               \E i \in 1 .. Len(buckets) : \E k \in 1 .. Len(buckets[i]) : x = buckets[i][k]
<1>1. DOMAIN buckets = 1 .. Len(buckets)
  OBVIOUS
<1>2. \A i \in 1 .. Len(buckets) : buckets[i] \in Seq(S) /\ DOMAIN buckets[i] = 1 .. Len(buckets[i])
  OBVIOUS
<1> SUFFICES ASSUME NEW x
             PROVE  x \in Within(buckets) <=>
                      \E i \in 1 .. Len(buckets) : \E k \in 1 .. Len(buckets[i]) : x = buckets[i][k]
  OBVIOUS
<1>3. Queries!ToSet(buckets) = {buckets[i] : i \in 1 .. Len(buckets)}
  BY <1>1 DEF Queries!ToSet
<1>4. x \in Within(buckets) <=> \E i \in 1 .. Len(buckets) : x \in Queries!ToSet(buckets[i])
  BY <1>3 DEF Within
<1>5. ASSUME NEW i \in 1 .. Len(buckets)
      PROVE  Queries!ToSet(buckets[i]) = {buckets[i][k] : k \in 1 .. Len(buckets[i])}
  BY <1>2 DEF Queries!ToSet
<1> QED BY <1>4, <1>5

\* The buckets hold these rows, in time order, and none but the first is sparse.
Merged(buckets, rs) ==
    /\ buckets \in Seq(Seq(QueryRow))
    /\ \A i \in 2 .. Len(buckets) : Len(buckets[i]) >= Dense
    /\ Queries!Rises(buckets)
    /\ Within(buckets) = rs

LEMMA RisesIs ==
    ASSUME NEW buckets \in Seq(Seq(QueryRow))
    PROVE  Queries!Rises(buckets) <=>
               \A i, j \in 1 .. Len(buckets) :
                   \A k \in 1 .. Len(buckets[i]), m \in 1 .. Len(buckets[j]) :
                       (i < j \/ (i = j /\ k < m)) => buckets[i][k].run < buckets[j][m].run
<1>1. DOMAIN buckets = 1 .. Len(buckets)
  OBVIOUS
<1>2. \A i \in 1 .. Len(buckets) : buckets[i] \in Seq(QueryRow) /\ DOMAIN buckets[i] = 1 .. Len(buckets[i])
  OBVIOUS
<1> QED BY <1>1, <1>2 DEF Queries!Rises

\* Where each row of the buckets comes from, if there is one bucket more, or if the last
\* one is longer.
FromBefore(t, out, i, k) ==
    i \in 1 .. Len(out) /\ k \in 1 .. Len(out[i]) /\ t[i][k] = out[i][k]
FromNets(t, out, nets, i, k) ==
    \E n \in 1 .. Len(nets) : t[i][k] = nets[n] /\ k = n + (Len(t[i]) - Len(nets))

Lengthened(t, out, nets) ==
    /\ t \in Seq(Seq(QueryRow)) /\ Len(t) \in {Len(out), Len(out) + 1}
    /\ \A i \in 2 .. Len(t) : Len(t[i]) >= Dense
    /\ \A i \in 1 .. Len(t) : \A k \in 1 .. Len(t[i]) :
          \/ FromBefore(t, out, i, k)
          \/ FromNets(t, out, nets, i, k) /\ i = Len(t)
    /\ \A i \in 1 .. Len(out) : \A k \in 1 .. Len(out[i]) :
          i \in 1 .. Len(t) /\ k \in 1 .. Len(t[i]) /\ t[i][k] = out[i][k]
    /\ \A n \in 1 .. Len(nets) : \E i \in 1 .. Len(t) : \E k \in 1 .. Len(t[i]) : t[i][k] = nets[n]
    /\ Len(t) = Len(out) => Len(t[Len(t)]) = Len(out[Len(t)]) + Len(nets)

LEMMA MergedWith ==
    ASSUME NEW out, NEW rs, Merged(out, rs), NEW nets \in Seq(QueryRow),
           \A k, m \in 1 .. Len(nets) : k < m => nets[k].run < nets[m].run,
           \A x \in rs : \A k \in 1 .. Len(nets) : x.run < nets[k].run,
           NEW t, Lengthened(t, out, nets)
    PROVE  Merged(t, rs \cup Queries!ToSet(nets))
<1>3. Queries!ToSet(nets) = {nets[n] : n \in 1 .. Len(nets)}
  <2>1. DOMAIN nets = 1 .. Len(nets)
    BY LenProperties
  <2> QED BY <2>1 DEF Queries!ToSet
<1> USE DEF Lengthened
<1>1. /\ out \in Seq(Seq(QueryRow)) /\ Within(out) = rs
      /\ \A i, j \in 1 .. Len(out) : \A k \in 1 .. Len(out[i]), m \in 1 .. Len(out[j]) :
             (i < j \/ (i = j /\ k < m)) => out[i][k].run < out[j][m].run
  BY RisesIs DEF Merged
<1>2. \A i \in 1 .. Len(out) : \A k \in 1 .. Len(out[i]) : out[i][k] \in rs
  BY <1>1, WithinIs
<1>4. Within(t) = rs \cup Queries!ToSet(nets)
  <2>1. ASSUME NEW x \in Within(t) PROVE x \in rs \cup Queries!ToSet(nets)
    <3>0. PICK i \in 1 .. Len(t) : \E k \in 1 .. Len(t[i]) : x = t[i][k]
      BY <2>1, WithinIs
    <3>1. PICK k \in 1 .. Len(t[i]) : x = t[i][k]
      BY <3>0
    <3>2. CASE FromBefore(t, out, i, k)
      BY <1>2, <3>1, <3>2 DEF FromBefore
    <3>3. CASE FromNets(t, out, nets, i, k)
      BY <1>3, <3>1, <3>3 DEF FromNets
    <3> QED BY <3>1, <3>2, <3>3
  <2>2. ASSUME NEW x \in rs PROVE x \in Within(t)
    <3>1. PICK i \in 1 .. Len(out) : \E k \in 1 .. Len(out[i]) : x = out[i][k]
      BY <1>1, <2>2, WithinIs
    <3>2. PICK k \in 1 .. Len(out[i]) : x = out[i][k]
      BY <3>1
    <3>3. i \in 1 .. Len(t) /\ k \in 1 .. Len(t[i]) /\ x = t[i][k]
      BY <3>1, <3>2
    <3> QED BY <3>3, WithinIs
  <2>3. ASSUME NEW x \in Queries!ToSet(nets) PROVE x \in Within(t)
    <3>1. PICK n \in 1 .. Len(nets) : x = nets[n]
      BY <1>3, <2>3
    <3>2. \E i \in 1 .. Len(t) : \E k \in 1 .. Len(t[i]) : t[i][k] = nets[n]
      OBVIOUS
    <3> QED BY <3>1, <3>2, WithinIs
  <2> QED BY <2>1, <2>2, <2>3
<1>5. ASSUME NEW i \in 1 .. Len(t), NEW j \in 1 .. Len(t), NEW k \in 1 .. Len(t[i]),
             NEW m \in 1 .. Len(t[j]), i < j \/ (i = j /\ k < m)
      PROVE  t[i][k].run < t[j][m].run
  <2>1. CASE FromBefore(t, out, i, k) /\ FromBefore(t, out, j, m)
    BY <1>1, <1>5, <2>1 DEF FromBefore
  <2>2. CASE FromBefore(t, out, i, k) /\ FromNets(t, out, nets, j, m)
    <3>1. t[i][k] \in rs
      BY <1>2, <2>2 DEF FromBefore
    <3>2. PICK n \in 1 .. Len(nets) : t[j][m] = nets[n]
      BY <2>2 DEF FromNets
    <3> QED BY <3>1, <3>2
  <2>3. CASE FromNets(t, out, nets, i, k) /\ i = Len(t)
    <3>1. i \in Int /\ j \in Int /\ Len(t) \in Int /\ j <= Len(t)
      OBVIOUS
    <3>2. i = j /\ k < m
      BY <1>5, <2>3, <3>1
    <3>3. PICK d : d = Len(t[i]) - Len(nets)
      OBVIOUS
    <3>4. t[i] \in Seq(QueryRow)
      OBVIOUS
    <3>5. d \in Int /\ k \in Int /\ m \in Int
      BY <3>2, <3>3, <3>4
    <3>6. PICK n \in 1 .. Len(nets) : t[i][k] = nets[n] /\ k = n + d
      BY <2>3, <3>3 DEF FromNets
    <3>7. CASE FromNets(t, out, nets, j, m)
      <4>1. PICK o \in 1 .. Len(nets) : t[j][m] = nets[o] /\ m = o + d
        BY <3>2, <3>3, <3>7 DEF FromNets
      <4>2. n < o
        BY <3>2, <3>5, <3>6, <4>1
      <4> QED BY <3>6, <4>1, <4>2
    <3>8. CASE FromBefore(t, out, j, m)
      <4>1. j \in 1 .. Len(out) /\ m \in 1 .. Len(out[j]) /\ j = Len(t)
        BY <2>3, <3>2, <3>8 DEF FromBefore
      <4>2. Len(t) = Len(out)
        BY <1>1, <4>1
      <4>3. PICK o : o = Len(out[j])
        OBVIOUS
      <4>4. Len(t[j]) = o + Len(nets) /\ o \in Nat /\ Len(nets) \in Nat
        <5>1. out[j] \in Seq(QueryRow)
          BY <1>1, <4>1
        <5>2. Len(t[j]) = Len(out[j]) + Len(nets)
          BY <4>1, <4>2
        <5>3. Len(out[j]) \in Nat /\ Len(nets) \in Nat
          BY <5>1, LenProperties, Zenon
        <5> QED BY <4>3, <5>2, <5>3
      <4>5. d = o
        BY <3>2, <3>3, <4>4
      <4>6. m \in 1 .. o
        BY <4>1, <4>3
      <4>7. n >= 1 /\ n \in Int
        OBVIOUS
      <4> QED BY <3>2, <3>5, <3>6, <4>4, <4>5, <4>6, <4>7
    <3> QED BY <3>7, <3>8
  <2> QED BY <2>1, <2>2, <2>3
<1>6. Queries!Rises(t)
  BY <1>5, RisesIs
<1> QED BY <1>4, <1>6 DEF Merged

LEMMA MergeOne ==
    ASSUME NEW out, NEW rs, Merged(out, rs), NEW nets \in Seq(QueryRow),
           \A k, m \in 1 .. Len(nets) : k < m => nets[k].run < nets[m].run,
           \A x \in rs : \A k \in 1 .. Len(nets) : x.run < nets[k].run
    PROVE  Merged(Queries!MergeBucket(out, nets), rs \cup Queries!ToSet(nets))
<1> DEFINE old == Len(out)
           fresh == Len(nets)
<1>1. /\ out \in Seq(Seq(QueryRow)) /\ old \in Nat /\ fresh \in Nat
      /\ \A i \in 1 .. old : out[i] \in Seq(QueryRow) /\ Len(out[i]) \in Nat
      /\ \A i \in 2 .. old : Len(out[i]) >= Dense
      /\ Dense \in Nat
  BY QueriesConstants DEF Merged
<1>2. CASE ~(fresh < Dense /\ out # <<>>)
  <2>1. PICK t : t = Append(out, nets)
    OBVIOUS
  <2>2. /\ t \in Seq(Seq(QueryRow)) /\ Len(t) = old + 1
        /\ \A i \in 1 .. old : t[i] = out[i]
        /\ t[old + 1] = nets
    BY <1>1, <2>1, AppendProperties
  <2>3. Queries!MergeBucket(out, nets) = t
    BY <1>2, <2>1 DEF Queries!MergeBucket
  <2>4. old = 0 \/ fresh >= Dense
    <3>1. out = <<>> => old = 0
      OBVIOUS
    <3> HIDE DEF old, fresh
    <3> QED BY <1>1, <1>2, <3>1
  <2> HIDE DEF old, fresh
  <2>5. \A i \in 2 .. Len(t) : Len(t[i]) >= Dense
    <3> SUFFICES ASSUME NEW i \in 2 .. old + 1 PROVE Len(t[i]) >= Dense
      BY <2>2
    <3>1. CASE i = old + 1
      BY <1>1, <2>2, <2>4, <3>1 DEF fresh
    <3>2. CASE i # old + 1
      <4>1. i \in 2 .. old /\ i \in 1 .. old
        BY <1>1, <3>2
      <4> QED BY <1>1, <2>2, <4>1
    <3> QED BY <3>1, <3>2
  <2>6. ASSUME NEW i \in 1 .. Len(t), NEW k \in 1 .. Len(t[i])
        PROVE  FromBefore(t, out, i, k) \/ (FromNets(t, out, nets, i, k) /\ i = Len(t))
    <3>1. CASE i = old + 1
      <4>1. t[i] = nets /\ i = Len(t)
        BY <2>2, <3>1
      <4>2. k = k + (Len(t[i]) - Len(nets))
        BY <1>1, <4>1 DEF fresh
      <4> QED BY <4>1, <4>2 DEF FromNets
    <3>2. CASE i # old + 1
      <4>1. i \in 1 .. old
        BY <1>1, <2>2, <3>2
      <4> QED BY <2>2, <4>1 DEF FromBefore, old
    <3> QED BY <3>1, <3>2
  <2>7. \A i \in 1 .. Len(out) : \A k \in 1 .. Len(out[i]) :
            i \in 1 .. Len(t) /\ k \in 1 .. Len(t[i]) /\ t[i][k] = out[i][k]
    <3>1. \A i \in 1 .. old : i \in 1 .. old + 1
      BY <1>1
    <3> QED BY <2>2, <3>1 DEF old
  <2>8. \A n \in 1 .. Len(nets) : \E i \in 1 .. Len(t) : \E k \in 1 .. Len(t[i]) : t[i][k] = nets[n]
    <3>1. old + 1 \in 1 .. Len(t)
      BY <1>1, <2>2
    <3> QED BY <2>2, <3>1
  <2>9. Len(t) # Len(out)
    BY <1>1, <2>2 DEF old
  <2>10. Len(t) \in {Len(out), Len(out) + 1}
    BY <2>2 DEF old
  <2>11. Lengthened(t, out, nets)
    BY <2>2, <2>5, <2>6, <2>7, <2>8, <2>9, <2>10 DEF Lengthened
  <2> QED BY <2>3, <2>11, MergedWith
<1>3. CASE fresh < Dense /\ out # <<>>
  <2>1. old \in 1 .. old
    <3>1. old # 0
      BY <1>1, <1>3, EmptySeq
    <3> HIDE DEF old
    <3> QED BY <1>1, <3>1
  <2>2. PICK joined : joined = out[old] \o nets
    OBVIOUS
  <2>3. /\ joined \in Seq(QueryRow) /\ Len(joined) = Len(out[old]) + fresh
        /\ \A k \in 1 .. Len(out[old]) + fresh :
               joined[k] = IF k <= Len(out[old]) THEN out[old][k] ELSE nets[k - Len(out[old])]
    <3>1. out[old] \in Seq(QueryRow)
      BY <1>1, <2>1
    <3> QED BY <2>2, <3>1, ConcatProperties
  <2>4. PICK t : t = [out EXCEPT ![old] = joined]
    OBVIOUS
  <2>5. Queries!MergeBucket(out, nets) = t
    BY <1>3, <2>2, <2>4 DEF Queries!MergeBucket
  <2>6. /\ t \in Seq(Seq(QueryRow)) /\ Len(t) = old
        /\ \A i \in 1 .. old : t[i] = IF i = old THEN joined ELSE out[i]
    BY <1>1, <2>1, <2>3, <2>4, ExceptSeq
  <2>7. PICK before : before = Len(out[old])
    OBVIOUS
  <2>8. before \in Nat
    BY <1>1, <2>1, <2>7
  <2> HIDE DEF old, fresh
  <2>9. /\ Len(joined) = before + fresh
        /\ \A k \in 1 .. before + fresh :
               joined[k] = IF k <= before THEN out[old][k] ELSE nets[k - before]
        /\ t[old] = joined
    BY <2>1, <2>3, <2>6, <2>7
  <2>10. \A i \in 2 .. Len(t) : Len(t[i]) >= Dense
    <3> SUFFICES ASSUME NEW i \in 2 .. old PROVE Len(t[i]) >= Dense
      BY <2>6
    <3>1. i \in 1 .. old /\ Len(out[i]) >= Dense /\ Len(out[i]) \in Nat
      <4>1. i \in 1 .. old
        BY <1>1
      <4> QED BY <1>1, <4>1
    <3>2. CASE i = old
      BY <1>1, <2>7, <2>8, <2>9, <3>1, <3>2
    <3>3. CASE i # old
      BY <2>6, <3>1, <3>3
    <3> QED BY <3>2, <3>3
  <2>11. ASSUME NEW i \in 1 .. Len(t), NEW k \in 1 .. Len(t[i])
         PROVE  FromBefore(t, out, i, k) \/ (FromNets(t, out, nets, i, k) /\ i = Len(t))
    <3>1. CASE i # old
      BY <2>6, <3>1 DEF FromBefore, old
    <3>2. CASE i = old
      <4>1. k \in 1 .. before + fresh /\ t[i] = joined /\ i = Len(t)
        BY <2>6, <2>9, <3>2
      <4>2. CASE k <= before
        <5>1. k \in 1 .. before
          BY <2>8, <4>1, <4>2
        <5>2. t[i][k] = out[i][k]
          BY <2>9, <3>2, <4>1, <4>2
        <5> QED BY <2>1, <2>7, <3>2, <5>1, <5>2 DEF FromBefore, old
      <4>3. CASE ~(k <= before)
        <5>1. PICK n : n = k - before
          OBVIOUS
        <5>2. n \in 1 .. fresh /\ k = n + before
          BY <1>1, <2>8, <4>1, <4>3, <5>1
        <5>3. t[i][k] = nets[n]
          BY <2>9, <4>1, <4>3, <5>1
        <5>4. Len(t[i]) - Len(nets) = before
          BY <1>1, <2>8, <2>9, <4>1 DEF fresh
        <5> QED BY <4>1, <5>2, <5>3, <5>4 DEF FromNets, fresh
      <4> QED BY <4>2, <4>3
    <3> QED BY <3>1, <3>2
  <2>12. ASSUME NEW i \in 1 .. Len(out), NEW k \in 1 .. Len(out[i])
         PROVE  i \in 1 .. Len(t) /\ k \in 1 .. Len(t[i]) /\ t[i][k] = out[i][k]
    <3>1. CASE i # old
      BY <2>6, <3>1 DEF old
    <3>2. CASE i = old
      <4>1. k \in 1 .. before
        BY <2>7, <3>2
      <4>2. k \in 1 .. before + fresh /\ k <= before
        BY <1>1, <2>8, <4>1
      <4> QED BY <2>1, <2>6, <2>9, <3>2, <4>2
    <3> QED BY <3>1, <3>2
  <2>13. ASSUME NEW n \in 1 .. Len(nets)
         PROVE  \E i \in 1 .. Len(t) : \E k \in 1 .. Len(t[i]) : t[i][k] = nets[n]
    <3>1. PICK k : k = n + before
      OBVIOUS
    <3>2. n \in 1 .. fresh
      BY DEF fresh
    <3>3. k \in 1 .. before + fresh /\ ~(k <= before) /\ k - before = n
      BY <1>1, <2>8, <3>1, <3>2
    <3>4. joined[k] = nets[n]
      BY <2>9, <3>3
    <3> QED BY <2>1, <2>6, <2>9, <3>3, <3>4
  <2>14. Len(t) = old /\ Len(out) = old /\ Len(t[Len(t)]) = Len(out[Len(t)]) + Len(nets)
    BY <2>6, <2>7, <2>9 DEF old, fresh
  <2>15. Len(t) \in {Len(out), Len(out) + 1}
    BY <2>14
  <2>16. Lengthened(t, out, nets)
    BY <2>6, <2>10, <2>11, <2>12, <2>13, <2>14, <2>15 DEF Lengthened
  <2> QED BY <2>5, <2>16, MergedWith
<1> QED BY <1>2, <1>3

\* The loop of merge_sparse_buckets over the first n buckets.
MergeLoop(g, buckets, n) ==
    g = [m \in 0 .. n |->
            IF m = 0 THEN <<>> ELSE Queries!MergeBucket(g[m - 1], buckets[m])]

LEMMA MergeLoopExists ==
    ASSUME NEW buckets, NEW n \in Nat
    PROVE  \E g : MergeLoop(g, buckets, n)
<1> DEFINE T == {m \in Nat : ~\E g : MergeLoop(g, buckets, m)}
<1> SUFFICES ASSUME T # {} PROVE FALSE
  OBVIOUS
<1>1. PICK m \in T : \A o \in T : m <= o
  <2>1. T \in SUBSET Nat
    OBVIOUS
  <2> HIDE DEF T
  <2> QED BY <2>1, LeastNatural
<1>2. CASE m = 0
  <2> DEFINE g == [o \in 0 .. 0 |-> <<>>]
  <2>1. g = [o \in 0 .. 0 |-> IF o = 0 THEN <<>> ELSE Queries!MergeBucket(g[o - 1], buckets[o])]
    OBVIOUS
  <2> HIDE DEF g
  <2>2. MergeLoop(g, buckets, 0)
    BY <2>1 DEF MergeLoop
  <2> QED BY <1>1, <1>2, <2>2
<1>3. CASE m # 0
  <2>1. m - 1 \in Nat /\ m \in Nat /\ m - 1 \notin T
    BY <1>1, <1>3
  <2>2. PICK g : MergeLoop(g, buckets, m - 1)
    BY <2>1
  <2> DEFINE h == [o \in 0 .. m |->
                      IF o = 0 THEN <<>> ELSE Queries!MergeBucket(g[o - 1], buckets[o])]
  <2>3. ASSUME NEW o \in 0 .. m
        PROVE  h[o] = IF o = 0 THEN <<>> ELSE Queries!MergeBucket(h[o - 1], buckets[o])
    <3>1. CASE o = 0
      BY <3>1
    <3>2. CASE o # 0
      <4>1. PICK p : p = o - 1
        OBVIOUS
      <4>2. p \in 0 .. m - 1 /\ p \in 0 .. m
        BY <2>1, <3>2, <4>1
      <4>3. g[p] = IF p = 0 THEN <<>> ELSE Queries!MergeBucket(g[p - 1], buckets[p])
        BY <2>2, <4>2 DEF MergeLoop
      <4>4. h[p] = g[p]
        BY <4>2, <4>3
      <4> QED BY <3>2, <4>1, <4>4
    <3> QED BY <3>1, <3>2
  <2>4. h = [o \in 0 .. m |-> h[o]]
    OBVIOUS
  <2> HIDE DEF h
  <2>5. MergeLoop(h, buckets, m)
    BY <2>3, <2>4 DEF MergeLoop
  <2> QED BY <1>1, <2>5
<1> QED BY <1>2, <1>3

\* What the first n buckets hold.
Before(buckets, n) == UNION {Queries!ToSet(buckets[i]) : i \in 1 .. n}

\* However sparse the buckets are, merging them keeps every row and the order.
LEMMA MergesAll ==
    ASSUME NEW buckets \in Seq(Seq(QueryRow)), Queries!Rises(buckets)
    PROVE  Merged(Queries!MergeSparse(buckets), Within(buckets))
<1> DEFINE n == Len(buckets)
<1>1. n \in Nat
  OBVIOUS
<1>2. PICK g : g = (CHOOSE h : MergeLoop(h, buckets, n)) /\ MergeLoop(g, buckets, n)
  BY <1>1, MergeLoopExists
<1>3. Queries!MergeSparse(buckets) = g[n]
  BY <1>2 DEF Queries!MergeSparse, MergeLoop
<1>4. /\ g[0] = <<>>
      /\ \A m \in 1 .. n : g[m] = Queries!MergeBucket(g[m - 1], buckets[m])
  <2>1. /\ 0 \in 0 .. n
        /\ \A m \in 1 .. n : m \in 0 .. n /\ m # 0
    BY <1>1
  <2> HIDE DEF n
  <2> QED BY <1>2, <2>1 DEF MergeLoop
<1>5. \A m \in 1 .. n : buckets[m] \in Seq(QueryRow)
  OBVIOUS
<1>6. \A i, j \in 1 .. n : \A k \in 1 .. Len(buckets[i]), m \in 1 .. Len(buckets[j]) :
          (i < j \/ (i = j /\ k < m)) => buckets[i][k].run < buckets[j][m].run
  BY RisesIs
<1>7. \A i \in 1 .. n : Queries!ToSet(buckets[i]) = {buckets[i][k] : k \in 1 .. Len(buckets[i])}
  BY <1>5, LenProperties DEF Queries!ToSet
<1>8. Before(buckets, n) = Within(buckets)
  <2>1. DOMAIN buckets = 1 .. n
    OBVIOUS
  <2>2. Queries!ToSet(buckets) = {buckets[i] : i \in 1 .. n}
    BY <2>1 DEF Queries!ToSet
  <2> QED BY <2>2 DEF Before, Within
<1> HIDE DEF n
<1>9. \A m \in 0 .. n : Merged(g[m], Before(buckets, m))
  <2> DEFINE T == {m \in 0 .. n : ~Merged(g[m], Before(buckets, m))}
  <2> SUFFICES ASSUME T # {} PROVE FALSE
    OBVIOUS
  <2>1. PICK m \in T : \A o \in T : m <= o
    <3>1. T \in SUBSET Nat
      OBVIOUS
    <3> HIDE DEF T
    <3> QED BY <3>1, LeastNatural
  <2>2. m \in 0 .. n /\ ~Merged(g[m], Before(buckets, m))
    BY <2>1
  <2>3. m # 0
    <3>1. Before(buckets, 0) = {}
      <4>1. 1 .. 0 = {}
        OBVIOUS
      <4> QED BY <4>1 DEF Before
    <3>2. <<>> \in Seq(Seq(QueryRow)) /\ Len(<<>>) = 0
      OBVIOUS
    <3>3. Within(<<>>) = {}
      BY <3>2 DEF Within, Queries!ToSet
    <3>4. Merged(<<>>, {})
      BY <3>2, <3>3 DEF Merged, Queries!Rises
    <3> QED BY <1>4, <2>2, <3>1, <3>4
  <2>4. m - 1 \in 0 .. n /\ m \in 1 .. n /\ m \in Nat /\ m - 1 \notin T
    BY <1>1, <2>1, <2>2, <2>3
  <2>5. Merged(g[m - 1], Before(buckets, m - 1))
    BY <2>4
  <2>6. PICK nets : nets = buckets[m]
    OBVIOUS
  <2>7. nets \in Seq(QueryRow)
    BY <1>5, <2>4, <2>6
  <2>8. \A j, k \in 1 .. Len(nets) : j < k => nets[j].run < nets[k].run
    BY <1>6, <2>4, <2>6
  <2>9. ASSUME NEW x \in Before(buckets, m - 1), NEW k \in 1 .. Len(nets)
        PROVE  x.run < nets[k].run
    <3>1. PICK i \in 1 .. m - 1 : x \in Queries!ToSet(buckets[i])
      BY DEF Before
    <3>2. i \in 1 .. n /\ i < m
      BY <1>1, <2>4
    <3>3. PICK j \in 1 .. Len(buckets[i]) : x = buckets[i][j]
      BY <1>7, <3>1, <3>2
    <3> QED BY <1>6, <2>4, <2>6, <3>2, <3>3
  <2>10. Before(buckets, m) = Before(buckets, m - 1) \cup Queries!ToSet(nets)
    <3>1. 1 .. m = (1 .. m - 1) \cup {m}
      BY <2>4
    <3> QED BY <2>6, <3>1 DEF Before
  <2>11. Merged(Queries!MergeBucket(g[m - 1], nets), Before(buckets, m - 1) \cup Queries!ToSet(nets))
    BY <2>5, <2>7, <2>8, <2>9, MergeOne
  <2> QED BY <1>4, <2>2, <2>4, <2>6, <2>10, <2>11
<1>10. n \in 0 .. n
  BY <1>1
<1> QED BY <1>3, <1>8, <1>9, <1>10

\* A run has one row.
OneRowEach(R) == R \in SUBSET QueryRow /\ \A x, y \in R : x.run = y.run => x = y

LEMMA RowsFinite == ASSUME NEW R, OneRowEach(R) PROVE IsFiniteSet(R)
<1> DEFINE f == [x \in R |-> x.run]
<1>1. f \in Injection(R, Queries!Runs)
  BY DEF OneRowEach, QueryRow, Injection, IsInjective
<1>2. IsFiniteSet(Queries!Runs)
  <2>1. IsFiniteSet(1 .. MaxRows)
    BY QueriesConstants, FS_Interval
  <2> QED BY <2>1, QueriesConstants
<1> HIDE DEF f
<1> QED BY <1>1, <1>2, FS_Injection

LEMMA RunNumbers == ASSUME NEW x \in QueryRow PROVE x.run \in Nat
BY QueriesConstants DEF QueryRow

\* ORDER BY executed_at_ms DESC of rows, a run each.
LEMMA ByTimeLists ==
    ASSUME NEW R, OneRowEach(R)
    PROVE  /\ Distinct(R, [row \in R |-> -row.run])
           /\ Lists(Queries!ByTime(R), R, [row \in R |-> -row.run])
           /\ Queries!ByTime(R) \in Seq(R)
           /\ Len(Queries!ByTime(R)) = Cardinality(R)
<1> DEFINE key == [row \in R |-> -row.run]
<1>1. Distinct(R, key)
  <2>1. IsFiniteSet(R)
    BY RowsFinite
  <2>2. \A x \in R : x.run \in Nat /\ key[x] = -x.run
    BY RunNumbers DEF OneRowEach
  <2>3. \A x \in R : key[x] \in Int
    BY <2>2
  <2>4. ASSUME NEW x \in R, NEW y \in R, key[x] = key[y] PROVE x = y
    <3>1. -x.run = -y.run /\ x.run \in Nat /\ y.run \in Nat
      BY <2>2, <2>4
    <3>2. x.run = y.run
      BY <3>1
    <3> QED BY <3>2 DEF OneRowEach
  <2> HIDE DEF key
  <2> QED BY <2>1, <2>3, <2>4 DEF Distinct
<1>2. Queries!ByTime(R) = Queries!Ordered(R, key)
  BY DEF Queries!ByTime
<1> HIDE DEF key
<1>3. Lists(Queries!ByTime(R), R, key) /\ Queries!ByTime(R) \in Seq(R) /\ Len(Queries!ByTime(R)) = Cardinality(R)
  BY <1>1, <1>2, OrderedLists
<1> QED BY <1>1, <1>3 DEF key

LEMMA DayMoves ==
    ASSUME NEW x \in QueryRow, NEW y \in QueryRow
    PROVE  /\ Queries!DayOf(x) \in Int
           /\ Queries!DayOf(x) < Queries!DayOf(y) => x.run < y.run
<1>1. PICK a, b : a = x.run /\ b = y.run
  OBVIOUS
<1>2. a \in Nat /\ b \in Nat /\ Day \in Nat \ {0}
  BY <1>1, RunNumbers, QueriesConstants
<1>3. a \div Day \in Int /\ b \div Day \in Int
  BY <1>2
<1>4. a \div Day < b \div Day => a < b
  BY <1>2
<1> QED BY <1>1, <1>3, <1>4 DEF Queries!DayOf

\* The rows of a day in the order of time.
LEMMA BucketLists ==
    ASSUME NEW R, OneRowEach(R), NEW d
    PROVE  /\ Queries!Bucket(R, d) \in Seq(QueryRow)
           /\ Queries!ToSet(Queries!Bucket(R, d)) = {row \in R : Queries!DayOf(row) = d}
           /\ \A k, m \in 1 .. Len(Queries!Bucket(R, d)) :
                  k < m => Queries!Bucket(R, d)[k].run < Queries!Bucket(R, d)[m].run
<1>1. PICK there : there = {row \in R : Queries!DayOf(row) = d}
  OBVIOUS
<1> DEFINE key == [row \in there |-> row.run]
<1>2. OneRowEach(there)
  BY <1>1 DEF OneRowEach
<1>3. Distinct(there, key)
  <2>1. IsFiniteSet(there)
    BY <1>2, RowsFinite
  <2>2. \A x \in there : x.run \in Nat /\ key[x] = x.run
    BY <1>2, RunNumbers DEF OneRowEach
  <2> HIDE DEF key
  <2> QED BY <1>2, <2>1, <2>2 DEF Distinct, OneRowEach
<1>4. PICK s : s = Queries!Bucket(R, d)
  OBVIOUS
<1>5. s = Queries!Ordered(there, key)
  BY <1>1, <1>4 DEF Queries!Bucket
<1> HIDE DEF key
<1>6. Lists(s, there, key) /\ s \in Seq(there)
  BY <1>3, <1>5, OrderedLists
<1>7. s \in Seq(QueryRow)
  <2>1. there \in SUBSET QueryRow
    BY <1>2 DEF OneRowEach
  <2> QED BY <1>6, <2>1
<1>8. Queries!ToSet(s) = there
  BY <1>6 DEF Lists
<1>9. ASSUME NEW k \in 1 .. Len(s), NEW m \in 1 .. Len(s), k < m PROVE s[k].run < s[m].run
  <2>1. DOMAIN s = 1 .. Len(s) /\ s[k] \in there /\ s[m] \in there
    BY <1>6
  <2>2. key[s[k]] < key[s[m]]
    BY <1>6, <1>9, <2>1 DEF Lists
  <2> QED BY <2>1, <2>2 DEF key
<1> QED BY <1>1, <1>4, <1>7, <1>8, <1>9

\* The days, in order.
LEMMA DaysLists ==
    ASSUME NEW R, OneRowEach(R)
    PROVE  /\ Queries!Days(R) \in Seq(Int)
           /\ Queries!ToSet(Queries!Days(R)) = {Queries!DayOf(row) : row \in R}
           /\ \A i, j \in 1 .. Len(Queries!Days(R)) :
                  i < j => Queries!Days(R)[i] < Queries!Days(R)[j]
<1>1. PICK ds : ds = {Queries!DayOf(row) : row \in R}
  OBVIOUS
<1> DEFINE key == [d \in ds |-> d]
           f == [row \in R |-> Queries!DayOf(row)]
<1>2. \A d \in ds : d \in Int
  BY <1>1, DayMoves DEF OneRowEach
<1>3. IsFiniteSet(ds)
  <2>1. f \in Surjection(R, ds)
    BY <1>1 DEF Surjection
  <2>2. IsFiniteSet(R)
    BY RowsFinite
  <2> HIDE DEF f
  <2> QED BY <2>1, <2>2, FS_Surjection
<1>4. Distinct(ds, key)
  BY <1>2, <1>3 DEF Distinct
<1>5. PICK s : s = Queries!Days(R)
  OBVIOUS
<1>6. s = Queries!Ordered(ds, key)
  BY <1>1, <1>5 DEF Queries!Days
<1> HIDE DEF key, f
<1>7. Lists(s, ds, key) /\ s \in Seq(ds)
  BY <1>4, <1>6, OrderedLists
<1>8. s \in Seq(Int)
  <2>1. PICK n : n = Len(s)
    OBVIOUS
  <2>2. n \in Nat /\ s \in [1 .. n -> ds]
    BY <1>7, <2>1, LenProperties, Zenon
  <2>3. s \in [1 .. n -> Int]
    BY <1>2, <2>2
  <2> QED BY <2>2, <2>3
<1>9. ASSUME NEW i \in 1 .. Len(s), NEW j \in 1 .. Len(s), i < j PROVE s[i] < s[j]
  <2>1. DOMAIN s = 1 .. Len(s) /\ s[i] \in ds /\ s[j] \in ds
    BY <1>7
  <2>2. key[s[i]] < key[s[j]]
    BY <1>7, <1>9, <2>1 DEF Lists
  <2> QED BY <2>1, <2>2 DEF key
<1> QED BY <1>1, <1>5, <1>7, <1>8, <1>9 DEF Lists

\* load_ridge: every row is in one bucket, in time order, and only the first is sparse.
LEMMA RidgeHolds == ASSUME NEW R, OneRowEach(R) PROVE Merged(Queries!Ridge(R), R)
<1>1. PICK ds : ds = Queries!Days(R)
  OBVIOUS
<1>2. /\ ds \in Seq(Int) /\ DOMAIN ds = 1 .. Len(ds) /\ Len(ds) \in Nat
      /\ {ds[i] : i \in 1 .. Len(ds)} = {Queries!DayOf(row) : row \in R}
      /\ \A i, j \in 1 .. Len(ds) : i < j => ds[i] < ds[j]
  <2>1. ds \in Seq(Int)
    BY <1>1, DaysLists
  <2>2. DOMAIN ds = 1 .. Len(ds) /\ Len(ds) \in Nat
    BY <2>1
  <2>3. Queries!ToSet(ds) = {ds[i] : i \in 1 .. Len(ds)}
    BY <2>2 DEF Queries!ToSet
  <2> QED BY <1>1, <2>1, <2>2, <2>3, DaysLists
<1>3. PICK n : n = Len(ds)
  OBVIOUS
<1>4. PICK B : B = [i \in 1 .. n |-> Queries!Bucket(R, ds[i])]
  OBVIOUS
<1>5. Queries!Ridge(R) = Queries!MergeSparse(B)
  BY <1>1, <1>2, <1>3, <1>4 DEF Queries!Ridge
<1>6. \A i \in 1 .. n : B[i] = Queries!Bucket(R, ds[i])
  BY <1>4
<1>7. B \in Seq(Seq(QueryRow)) /\ Len(B) = n
  <2>1. \A i \in 1 .. n : B[i] \in Seq(QueryRow)
    BY <1>6, BucketLists
  <2>2. B \in [1 .. n -> Seq(QueryRow)]
    BY <1>4, <2>1
  <2>3. n \in Nat
    BY <1>2, <1>3
  <2>4. B \in Seq(Seq(QueryRow))
    BY <2>2, <2>3
  <2>5. Len(B) = n
    BY <2>2, <2>3, <2>4, LenProperties
  <2> QED BY <2>4, <2>5
<1>8. ASSUME NEW i \in 1 .. n
      PROVE  {B[i][k] : k \in 1 .. Len(B[i])} = {row \in R : Queries!DayOf(row) = ds[i]}
  <2>1. Queries!ToSet(B[i]) = {row \in R : Queries!DayOf(row) = ds[i]} /\ B[i] \in Seq(QueryRow)
    BY <1>6, BucketLists
  <2>2. DOMAIN B[i] = 1 .. Len(B[i])
    BY <2>1
  <2> QED BY <2>1, <2>2 DEF Queries!ToSet
<1>9. Within(B) = R
  <2>1. ASSUME NEW x \in Within(B) PROVE x \in R
    <3>1. PICK i \in 1 .. n : \E k \in 1 .. Len(B[i]) : x = B[i][k]
      BY <1>7, WithinIs
    <3> QED BY <1>8, <3>1
  <2>2. ASSUME NEW x \in R PROVE x \in Within(B)
    <3>1. PICK i \in 1 .. n : Queries!DayOf(x) = ds[i]
      BY <1>2, <1>3
    <3>2. \E k \in 1 .. Len(B[i]) : x = B[i][k]
      BY <1>8, <3>1
    <3> QED BY <1>7, <3>2, WithinIs
  <2> QED BY <2>1, <2>2
<1>10. ASSUME NEW i \in 1 .. n, NEW j \in 1 .. n, NEW k \in 1 .. Len(B[i]), NEW m \in 1 .. Len(B[j]),
              i < j \/ (i = j /\ k < m)
       PROVE  B[i][k].run < B[j][m].run
  <2>1. CASE i = j /\ k < m
    BY <1>6, <2>1, BucketLists
  <2>2. CASE i < j
    <3>1. PICK x, y : x = B[i][k] /\ y = B[j][m]
      OBVIOUS
    <3>2. x \in R /\ y \in R /\ Queries!DayOf(x) = ds[i] /\ Queries!DayOf(y) = ds[j]
      BY <1>8, <3>1
    <3>3. Queries!DayOf(x) < Queries!DayOf(y)
      BY <1>2, <1>3, <2>2, <3>2
    <3>4. x \in QueryRow /\ y \in QueryRow
      BY <3>2 DEF OneRowEach
    <3> QED BY <3>1, <3>3, <3>4, DayMoves
  <2> QED BY <1>10, <2>1, <2>2
<1>11. Queries!Rises(B)
  BY <1>7, <1>10, RisesIs
<1> QED BY <1>5, <1>7, <1>9, <1>11, MergesAll

-----------------------------------------------------------------------------
(* The queries: the tables they read *)

Events == {None, "COMPLETED", "COMPENSATION_DECIDED"}
FactType ==
    [step : {"off", "begun", "reserved", "booked", "decided", "done"},
     filled : 0 .. 2, booked : 0 .. 2, event : Events]

\* What is committed of a run.
FactsHold(f) ==
    /\ f \in FactType
    /\ f.booked <= f.filled
    /\ f.step \in {"off", "begun", "reserved"} => f.filled = 0
    /\ f.event # None => f.step \in {"decided", "done"}
    /\ f.event = "COMPLETED" => f.filled # 1
    /\ f.step = "decided" => f.event # None

\* A row is of a run that is done, and says of it what is committed.
RowHolds(row, f) ==
    /\ f.step = "done"
    /\ row.filled = f.filled
    /\ row.scenario = "REJECTED" => row.filled = 0 /\ f.event = None
    /\ row.scenario = "DONE" => f.event # None

TablesHold ==
    /\ DOMAIN committed = Queries!Runs
    /\ \A r \in Queries!Runs : FactsHold(committed[r])
    /\ OneRowEach(rows)
    /\ \A row \in rows : RowHolds(row, committed[row.run])

\* The tables only grow, and what a row stands for does not change.
Grow ==
    /\ rows \subseteq rows'
    /\ Queries!Reserved \subseteq Queries!Reserved'
    /\ \A row \in rows : committed'[row.run] = committed[row.run]

\* A step of a run changes what is committed of this run, and no row.
LEMMA FactMoves ==
    ASSUME TablesHold, NEW r \in Queries!Runs, NEW f, FactsHold(f),
           committed[r].step # "done",
           committed' = [committed EXCEPT ![r] = f], UNCHANGED rows,
           committed[r].step \notin {"off", "begun"} => f.step \notin {"off", "begun"}
    PROVE  TablesHold' /\ Grow
<1>1. /\ DOMAIN committed' = Queries!Runs /\ committed'[r] = f
      /\ \A s \in Queries!Runs : s # r => committed'[s] = committed[s]
  BY DEF TablesHold
<1>2. \A s \in Queries!Runs : FactsHold(committed'[s])
  BY <1>1 DEF TablesHold
<1>3. ASSUME NEW row \in rows PROVE committed'[row.run] = committed[row.run]
  <2>1. row.run \in Queries!Runs /\ committed[row.run].step = "done"
    BY DEF TablesHold, OneRowEach, QueryRow, RowHolds
  <2> QED BY <1>1, <2>1
<1>4. TablesHold'
  BY <1>1, <1>2, <1>3 DEF TablesHold
<1>5. Queries!Reserved \subseteq Queries!Reserved'
  <2> SUFFICES ASSUME NEW s \in Queries!Reserved PROVE s \in Queries!Reserved'
    OBVIOUS
  <2>1. s \in Queries!Runs /\ committed[s].step \notin {"off", "begun"}
        /\ \A row \in rows : row.run = s => row.scenario # "REJECTED"
    BY DEF Queries!Reserved
  <2>2. committed'[s].step \notin {"off", "begun"}
    BY <1>1, <2>1
  <2> QED BY <2>1, <2>2 DEF Queries!Reserved
<1> QED BY <1>3, <1>4, <1>5 DEF Grow

LEMMA PersistMoves ==
    ASSUME TablesHold, NEW r \in Queries!Runs, Queries!Persist(r)
    PROVE  TablesHold' /\ Grow
<1>1. PICK f : f = committed[r]
  OBVIOUS
<1>2. FactsHold(f) /\ f.step \in {"begun", "decided"}
  BY <1>1 DEF TablesHold, Queries!Persist
<1>3. PICK g : g = [f EXCEPT !.step = "done"]
  OBVIOUS
<1>4. /\ FactsHold(g) /\ g.step = "done" /\ g.filled = f.filled /\ g.event = f.event
  BY <1>2, <1>3 DEF FactsHold, FactType
<1>5. PICK row : row = Queries!Row(r, IF f.step = "begun" THEN "REJECTED" ELSE "DONE")
  OBVIOUS
<1>6. row = [run |-> r, scenario |-> IF f.step = "begun" THEN "REJECTED" ELSE "DONE",
             filled |-> f.filled]
  BY <1>1, <1>5 DEF Queries!Row
<1>7. row \in QueryRow /\ row.run = r /\ RowHolds(row, g)
      /\ (f.step # "begun" => row.scenario # "REJECTED")
  <2>1. f.filled \in 0 .. 2
    BY <1>2 DEF FactsHold, FactType
  <2> QED BY <1>2, <1>4, <1>6, <2>1 DEF QueryRow, RowHolds, FactsHold
<1>8. rows' = rows \cup {row} /\ committed' = [committed EXCEPT ![r] = g]
  BY <1>1, <1>3, <1>5 DEF Queries!Persist
<1>9. /\ DOMAIN committed' = Queries!Runs /\ committed'[r] = g
      /\ \A s \in Queries!Runs : s # r => committed'[s] = committed[s]
  BY <1>8 DEF TablesHold
<1>10. ASSUME NEW x \in rows PROVE x.run \in Queries!Runs /\ x.run # r
  <2>1. x.run \in Queries!Runs /\ committed[x.run].step = "done"
    BY DEF TablesHold, OneRowEach, QueryRow, RowHolds
  <2> QED BY <1>1, <1>2, <2>1
<1>11. OneRowEach(rows')
  BY <1>7, <1>8, <1>10 DEF TablesHold, OneRowEach
<1>12. \A x \in rows : committed'[x.run] = committed[x.run]
  BY <1>9, <1>10
<1>13. \A x \in rows' : RowHolds(x, committed'[x.run])
  BY <1>7, <1>8, <1>9, <1>12 DEF TablesHold
<1>14. TablesHold'
  BY <1>4, <1>9, <1>11, <1>13 DEF TablesHold
<1>15. Queries!Reserved \subseteq Queries!Reserved'
  <2> SUFFICES ASSUME NEW s \in Queries!Reserved PROVE s \in Queries!Reserved'
    OBVIOUS
  <2>1. s \in Queries!Runs /\ committed[s].step \notin {"off", "begun"}
        /\ \A x \in rows : x.run = s => x.scenario # "REJECTED"
    BY DEF Queries!Reserved
  <2>2. committed'[s].step \notin {"off", "begun"}
    BY <1>4, <1>9, <2>1
  <2>3. \A x \in rows' : x.run = s => x.scenario # "REJECTED"
    BY <1>1, <1>7, <1>8, <2>1
  <2> QED BY <2>1, <2>2, <2>3 DEF Queries!Reserved
<1> QED BY <1>8, <1>12, <1>14, <1>15 DEF Grow

OfARun(r) ==
    \/ Queries!Begin(r) \/ Queries!Reserve(r) \/ Queries!Book(r)
    \/ Queries!Decide(r) \/ Queries!Persist(r)

LEMMA RunMoves ==
    ASSUME TablesHold, NEW r \in Queries!Runs, OfARun(r)
    PROVE  TablesHold' /\ Grow /\ query' = query
<1>1. PICK f : f = committed[r]
  OBVIOUS
<1>2. FactsHold(f) /\ f \in FactType
  BY <1>1 DEF TablesHold, FactsHold
<1>3. query' = query
  BY DEF OfARun, Queries!Begin, Queries!Reserve, Queries!Book, Queries!Decide, Queries!Persist
<1>4. CASE Queries!Begin(r)
  <2>1. PICK g : g = [f EXCEPT !.step = "begun"]
    OBVIOUS
  <2>2. f.step = "off" /\ committed' = [committed EXCEPT ![r] = g] /\ UNCHANGED rows
    BY <1>1, <1>4, <2>1 DEF Queries!Begin
  <2>3. FactsHold(g)
    BY <1>2, <2>1, <2>2 DEF FactsHold, FactType
  <2>4. f.step # "done" /\ f.step \in {"off", "begun"}
    BY <2>2
  <2> QED BY <1>1, <1>3, <2>2, <2>3, <2>4, FactMoves
<1>5. CASE Queries!Reserve(r)
  <2>1. PICK g : g = [f EXCEPT !.step = "reserved"]
    OBVIOUS
  <2>2. f.step = "begun" /\ committed' = [committed EXCEPT ![r] = g] /\ UNCHANGED rows
    BY <1>1, <1>5, <2>1 DEF Queries!Reserve
  <2>3. FactsHold(g)
    BY <1>2, <2>1, <2>2 DEF FactsHold, FactType
  <2>4. f.step # "done" /\ f.step \in {"off", "begun"}
    BY <2>2
  <2> QED BY <1>1, <1>3, <2>2, <2>3, <2>4, FactMoves
<1>6. CASE Queries!Book(r)
  <2>1. PICK legs \in 0 .. 2 : \E booked \in 0 .. legs :
           committed' = [committed EXCEPT ![r].step = "booked", ![r].filled = legs,
                                          ![r].booked = booked]
    BY <1>6 DEF Queries!Book
  <2>2. PICK booked \in 0 .. legs :
           committed' = [committed EXCEPT ![r].step = "booked", ![r].filled = legs,
                                          ![r].booked = booked]
    BY <2>1
  <2>3. PICK g : g = [f EXCEPT !.step = "booked", !.filled = legs, !.booked = booked]
    OBVIOUS
  <2>4. f.step = "reserved" /\ UNCHANGED rows
    BY <1>1, <1>6 DEF Queries!Book
  <2>5. committed' = [committed EXCEPT ![r] = g]
    BY <1>1, <2>2, <2>3
  <2>6. FactsHold(g) /\ g.step = "booked"
    <3>1. booked \in 0 .. 2 /\ booked <= legs
      BY <2>1, <2>2
    <3>2. /\ g.step = "booked" /\ g.filled = legs /\ g.booked = booked /\ g.event = f.event
          /\ g \in FactType
      BY <1>2, <2>3, <3>1 DEF FactType
    <3>3. f.event = None
      BY <1>2, <2>4 DEF FactsHold
    <3> QED BY <3>1, <3>2, <3>3, QueriesConstants DEF FactsHold
  <2>7. f.step # "done" /\ g.step \notin {"off", "begun"}
    BY <2>4, <2>6
  <2> QED BY <1>1, <1>3, <2>4, <2>5, <2>6, <2>7, FactMoves
<1>7. CASE Queries!Decide(r)
  <2>1. PICK e : e = IF f.filled # 1 THEN "COMPLETED" ELSE "COMPENSATION_DECIDED"
    OBVIOUS
  <2>2. PICK g : g = [f EXCEPT !.step = "decided", !.event = e]
    OBVIOUS
  <2>3. f.step = "booked" /\ UNCHANGED rows
    BY <1>1, <1>7 DEF Queries!Decide
  <2>4. committed' = [committed EXCEPT ![r] = g]
    BY <1>1, <1>7, <2>1, <2>2 DEF Queries!Decide
  <2>5. FactsHold(g) /\ g.step = "decided"
    BY <1>2, <2>1, <2>2, QueriesConstants DEF FactsHold, FactType, Events
  <2>6. f.step # "done" /\ g.step \notin {"off", "begun"}
    BY <2>3, <2>5
  <2> QED BY <1>1, <1>3, <2>3, <2>4, <2>5, <2>6, FactMoves
<1>8. CASE Queries!Persist(r)
  BY <1>3, <1>8, PersistMoves
<1> QED BY <1>4, <1>5, <1>6, <1>7, <1>8 DEF OfARun

-----------------------------------------------------------------------------
(* The queries: what has been read *)

OverviewType ==
    [kind : {"overview"},
     at : {"totals", "scenarios", "recent", "curve", "ridge", "events", "flow", "answered"},
     total : Nat, success : Nat, scenarios : Nat, recent : Seq(QueryRow), curve : Nat,
     ridge : Seq(Seq(QueryRow)), decided : Nat, evaluated : Nat, reserved : Nat, filled : Nat]

\* What the statements of an overview that have been run say of the tables as they are.
TotalsRead(q) ==
    /\ q.total <= Cardinality(rows)
    /\ q.success <= Cardinality(Queries!Success(rows))
ScenariosRead(q) == q.total <= q.scenarios /\ q.scenarios <= Cardinality(rows)
RecentRead(q) == Len(q.recent) >= IF q.total < PageSize THEN q.total ELSE PageSize
RidgeRead(q) ==
    Merged(q.ridge, Within(q.ridge)) /\ q.success <= Cardinality(Within(q.ridge))
FlowRead(q) ==
    q.success <= q.evaluated /\ q.decided <= q.reserved /\ q.filled <= q.evaluated

OverviewHolds(q) ==
    /\ q \in OverviewType
    /\ q.at # "totals" => TotalsRead(q)
    /\ q.at \notin {"totals", "scenarios"} => ScenariosRead(q)
    /\ q.at \notin {"totals", "scenarios", "recent"} => RecentRead(q)
    /\ q.at \notin {"totals", "scenarios", "recent", "curve"} => q.scenarios <= q.curve
    /\ q.at \in {"events", "flow", "answered"} => RidgeRead(q)
    /\ q.at \in {"flow", "answered"} => q.decided <= Cardinality(Queries!Reserved)
    /\ q.at = "answered" => FlowRead(q)

DetailType ==
    [kind : {"detail"}, at : {"intents", "trades", "events", "balances", "answered"},
     row : QueryRow, trades : Nat, event : Events, reserved : BOOLEAN, balances : Seq(Int)]

DetailHolds(q) ==
    /\ q \in DetailType
    /\ q.row \in rows
    /\ q.row.scenario # "REJECTED" =>
         /\ q.at # "intents" => q.reserved
         /\ q.at \notin {"intents", "trades"} => q.trades <= q.row.filled
         /\ q.at \in {"balances", "answered"} =>
               q.event # None /\ (q.event = "COMPLETED" => q.row.filled # 1)
         /\ q.at = "answered" =>
               \A i \in DOMAIN q.balances :
                   q.balances[i] >= 0 /\ q.balances[i] >= Funds - q.row.filled

ListType ==
    [kind : {"list"}, at : {"count", "page", "turn", "answered"}, there : SUBSET QueryRow,
     shown : SUBSET QueryRow, offset : Nat, total : Nat, page : Seq(QueryRow)]

\* The rows that are shown before x.
Newer(x) == {y \in rows : y.run > x.run}

\* A row that has not been shown has yet to come: enough rows are before it.
ListHolds(q) ==
    /\ q \in ListType
    /\ q.there \subseteq rows
    /\ \A x \in q.there \ q.shown :
         /\ q.at # "answered"
         /\ q.offset <= Cardinality(Newer(x))
         /\ q.at = "turn" => q.offset + PageSize <= Cardinality(Newer(x))

QueryHolds(q) ==
    \/ q = [kind |-> "none"]
    \/ OverviewHolds(q)
    \/ DetailHolds(q)
    \/ ListHolds(q)

QueryInv == TablesHold /\ QueryHolds(query)

\* The kind tells which.
LEMMA KindTells ==
    ASSUME QueryHolds(query)
    PROVE  /\ query.kind = "overview" => OverviewHolds(query)
           /\ query.kind = "detail" => DetailHolds(query)
           /\ query.kind = "list" => ListHolds(query)
<1>1. CASE query = [kind |-> "none"]
  BY <1>1
<1>2. CASE OverviewHolds(query)
  <2>1. query.kind = "overview"
    BY <1>2 DEF OverviewHolds, OverviewType
  <2> QED BY <1>2, <2>1
<1>3. CASE DetailHolds(query)
  <2>1. query.kind = "detail"
    BY <1>3 DEF DetailHolds, DetailType
  <2> QED BY <1>3, <2>1
<1>4. CASE ListHolds(query)
  <2>1. query.kind = "list"
    BY <1>4 DEF ListHolds, ListType
  <2> QED BY <1>4, <2>1
<1> QED BY <1>1, <1>2, <1>3, <1>4 DEF QueryHolds

\* More rows, more in each count.
LEMMA CountsGrow ==
    ASSUME TablesHold, TablesHold', Grow
    PROVE  /\ IsFiniteSet(rows) /\ Cardinality(rows) \in Nat /\ Cardinality(rows') \in Nat
           /\ Cardinality(rows) <= Cardinality(rows')
           /\ Cardinality(Queries!Success(rows)) \in Nat
           /\ Cardinality(Queries!Success(rows')) \in Nat
           /\ Cardinality(Queries!Success(rows)) <= Cardinality(Queries!Success(rows'))
           /\ Cardinality(Queries!Reserved) \in Nat /\ Cardinality(Queries!Reserved)' \in Nat
           /\ Cardinality(Queries!Reserved) <= Cardinality(Queries!Reserved)'
           /\ \A x : /\ Cardinality(Newer(x)) \in Nat /\ Cardinality(Newer(x))' \in Nat
                     /\ Cardinality(Newer(x)) <= Cardinality(Newer(x))'
<1>1. IsFiniteSet(rows) /\ IsFiniteSet(rows') /\ rows \in SUBSET rows'
  BY RowsFinite DEF TablesHold, Grow
<1>2. Cardinality(rows) \in Nat /\ Cardinality(rows') \in Nat /\ Cardinality(rows) <= Cardinality(rows')
  BY <1>1, FS_CardinalityType, FS_Subset
<1>3. /\ IsFiniteSet(Queries!Success(rows)) /\ IsFiniteSet(Queries!Success(rows'))
      /\ Queries!Success(rows) \in SUBSET Queries!Success(rows')
  <2>1. /\ Queries!Success(rows) \in SUBSET rows /\ Queries!Success(rows') \in SUBSET rows'
        /\ Queries!Success(rows) \in SUBSET Queries!Success(rows')
    BY <1>1 DEF Queries!Success
  <2> QED BY <1>1, <2>1, FS_Subset
<1>4. /\ Cardinality(Queries!Success(rows)) \in Nat
      /\ Cardinality(Queries!Success(rows')) \in Nat
      /\ Cardinality(Queries!Success(rows)) <= Cardinality(Queries!Success(rows'))
  BY <1>3, FS_CardinalityType, FS_Subset
<1>5. /\ IsFiniteSet(Queries!Reserved) /\ IsFiniteSet(Queries!Reserved')
      /\ Queries!Reserved \in SUBSET Queries!Reserved'
  <2>1. IsFiniteSet(1 .. MaxRows)
    BY QueriesConstants, FS_Interval
  <2>2. IsFiniteSet(Queries!Runs)
    BY <2>1, QueriesConstants
  <2>3. Queries!Reserved \in SUBSET Queries!Runs
    BY DEF Queries!Reserved
  <2>4. Queries!Reserved' \in SUBSET Queries!Runs
    BY DEF Queries!Reserved
  <2>5. Queries!Reserved \in SUBSET Queries!Reserved'
    BY DEF Grow
  <2>6. IsFiniteSet(Queries!Reserved)
    BY <2>2, <2>3, FS_Subset
  <2>7. IsFiniteSet(Queries!Reserved')
    BY <2>2, <2>4, FS_Subset
  <2> QED BY <2>5, <2>6, <2>7
<1>6. PICK R, S : R = Queries!Reserved /\ S = Queries!Reserved'
  OBVIOUS
<1>7. Cardinality(R) \in Nat /\ Cardinality(S) \in Nat /\ Cardinality(R) <= Cardinality(S)
  BY <1>5, <1>6, FS_CardinalityType, FS_Subset
<1>8. ASSUME NEW x
      PROVE  /\ Cardinality(Newer(x)) \in Nat /\ Cardinality(Newer(x))' \in Nat
             /\ Cardinality(Newer(x)) <= Cardinality(Newer(x))'
  <2>1. PICK A, B : A = {y \in rows : y.run > x.run} /\ B = {y \in rows' : y.run > x.run}
    OBVIOUS
  <2>2. A \in SUBSET rows /\ B \in SUBSET rows' /\ A \in SUBSET B
    BY <1>1, <2>1
  <2>3. IsFiniteSet(A) /\ IsFiniteSet(B)
    BY <1>1, <2>2, FS_Subset
  <2>4. Cardinality(A) \in Nat /\ Cardinality(B) \in Nat /\ Cardinality(A) <= Cardinality(B)
    BY <2>2, <2>3, FS_CardinalityType, FS_Subset
  <2>5. Cardinality(Newer(x)) = Cardinality(A) /\ Cardinality(Newer(x))' = Cardinality(B)
    BY <2>1 DEF Newer
  <2> QED BY <2>4, <2>5
<1>9. Cardinality(Queries!Reserved) = Cardinality(R) /\ Cardinality(Queries!Reserved)' = Cardinality(S)
  BY <1>6
<1> QED BY <1>1, <1>2, <1>4, <1>7, <1>8, <1>9

\* What a query has read stays true as the tables grow.
LEMMA StaysRead ==
    ASSUME QueryInv, TablesHold', Grow, query' = query
    PROVE  QueryInv'
<1>1. PICK q : q = query
  OBVIOUS
<1>2. CASE OverviewHolds(q)
  <2>1. /\ q.total \in Nat /\ q.success \in Nat /\ q.scenarios \in Nat /\ q.decided \in Nat
    BY <1>2 DEF OverviewHolds, OverviewType
  <2>2. TotalsRead(q) => TotalsRead(q)'
    BY <2>1, CountsGrow DEF TotalsRead, QueryInv
  <2>3. ScenariosRead(q) => ScenariosRead(q)'
    BY <2>1, CountsGrow DEF ScenariosRead, QueryInv
  <2>4. q.decided <= Cardinality(Queries!Reserved) => q.decided <= Cardinality(Queries!Reserved)'
    BY <2>1, CountsGrow DEF QueryInv
  <2>5. OverviewHolds(q)'
    BY <1>2, <2>2, <2>3, <2>4 DEF OverviewHolds, RecentRead, RidgeRead, FlowRead
  <2> QED BY <1>1, <2>5 DEF QueryInv, QueryHolds
<1>3. CASE DetailHolds(q)
  <2>1. DetailHolds(q)'
    BY <1>3 DEF DetailHolds, Grow
  <2> QED BY <1>1, <2>1 DEF QueryInv, QueryHolds
<1>4. CASE ListHolds(q)
  <2>1. q.offset \in Nat /\ q.there \subseteq rows' /\ PageSize \in Nat
    BY <1>4, QueriesConstants DEF ListHolds, ListType, Grow
  <2>2. ASSUME NEW x \in q.there \ q.shown
        PROVE  /\ q.at # "answered"
               /\ q.offset <= Cardinality(Newer(x))'
               /\ q.at = "turn" => q.offset + PageSize <= Cardinality(Newer(x))'
    <3>1. /\ q.at # "answered"
          /\ q.offset <= Cardinality(Newer(x))
          /\ q.at = "turn" => q.offset + PageSize <= Cardinality(Newer(x))
      BY <1>4 DEF ListHolds
    <3>2. /\ Cardinality(Newer(x)) \in Nat /\ Cardinality(Newer(x))' \in Nat
          /\ Cardinality(Newer(x)) <= Cardinality(Newer(x))'
      BY CountsGrow DEF QueryInv
    <3>3. PICK a, b : a = Cardinality(Newer(x)) /\ b = Cardinality(Newer(x))'
      OBVIOUS
    <3> QED BY <2>1, <3>1, <3>2, <3>3
  <2>3. ListHolds(q)'
    BY <1>4, <2>1, <2>2 DEF ListHolds
  <2> QED BY <1>1, <2>3 DEF QueryInv, QueryHolds
<1>5. CASE q = [kind |-> "none"]
  BY <1>1, <1>5 DEF QueryInv, QueryHolds
<1> QED BY <1>1, <1>2, <1>3, <1>4, <1>5 DEF QueryInv, QueryHolds

\* A statement changes nothing but what has been read.
LEMMA ReadStep ==
    ASSUME QueryInv, UNCHANGED <<committed, rows>>, NEW q, q = query', QueryHolds(q)
    PROVE  QueryInv'
<1>1. TablesHold'
  BY DEF QueryInv, TablesHold
<1>2. Queries!Reserved' = Queries!Reserved
  BY DEF Queries!Reserved
<1>3. /\ TotalsRead(q) => TotalsRead(q)'
      /\ ScenariosRead(q) => ScenariosRead(q)'
  BY DEF TotalsRead, ScenariosRead
<1>4. OverviewHolds(q) => OverviewHolds(q)'
  BY <1>2, <1>3 DEF OverviewHolds, RecentRead, RidgeRead, FlowRead
<1>5. DetailHolds(q) => DetailHolds(q)'
  BY DEF DetailHolds
<1>6. ListHolds(q) => ListHolds(q)'
  BY DEF ListHolds, Newer
<1>7. QueryHolds(q)'
  BY <1>4, <1>5, <1>6 DEF QueryHolds
<1> QED BY <1>1, <1>7 DEF QueryInv

LEMMA Counts ==
    ASSUME TablesHold
    PROVE  /\ IsFiniteSet(rows) /\ Cardinality(rows) \in Nat
           /\ Cardinality(Queries!Success(rows)) \in Nat
           /\ Cardinality(Queries!Reserved) \in Nat
           /\ \A x : Cardinality(Newer(x)) \in Nat
           /\ OneRowEach(rows) /\ OneRowEach(Queries!Success(rows))
<1>1. IsFiniteSet(rows)
  BY RowsFinite DEF TablesHold
<1>2. Queries!Success(rows) \in SUBSET rows /\ \A x : Newer(x) \in SUBSET rows
  BY DEF Queries!Success, Newer
<1>3. OneRowEach(rows) /\ OneRowEach(Queries!Success(rows))
  BY <1>2 DEF TablesHold, OneRowEach
<1>4. Cardinality(rows) \in Nat /\ Cardinality(Queries!Success(rows)) \in Nat
  BY <1>1, <1>2, FS_Subset, FS_CardinalityType
<1>5. ASSUME NEW x PROVE Cardinality(Newer(x)) \in Nat
  <2>1. IsFiniteSet(Newer(x))
    BY <1>1, <1>2, FS_Subset
  <2> QED BY <2>1, FS_CardinalityType
<1>6. Cardinality(Queries!Reserved) \in Nat
  <2>1. IsFiniteSet(1 .. MaxRows)
    BY QueriesConstants, FS_Interval
  <2>2. IsFiniteSet(Queries!Runs) /\ Queries!Reserved \in SUBSET Queries!Runs
    BY <2>1, QueriesConstants DEF Queries!Reserved
  <2>3. IsFiniteSet(Queries!Reserved)
    BY <2>2, FS_Subset
  <2> QED BY <2>3, FS_CardinalityType
<1> QED BY <1>1, <1>3, <1>4, <1>5, <1>6

\* LIMIT and OFFSET: as many as there are, up to the limit, from the offset on.
LEMMA PartIs ==
    ASSUME NEW S, NEW s \in Seq(S), NEW offset \in Nat, NEW limit \in Nat
    PROVE  /\ Queries!Part(s, offset, limit) \in Seq(S)
           /\ Len(Queries!Part(s, offset, limit)) < limit => Len(s) < offset + limit
           /\ offset = 0 => Len(Queries!Part(s, offset, limit)) >= IF Len(s) < limit THEN Len(s) ELSE limit
           /\ Queries!ToSet(Queries!Part(s, offset, limit)) \subseteq S
           /\ \A i \in 1 .. Len(s) : offset < i /\ i <= offset + limit =>
                  s[i] \in Queries!ToSet(Queries!Part(s, offset, limit))
<1>1. PICK n, last : n = Len(s) /\ last = IF offset + limit < n THEN offset + limit ELSE n
  OBVIOUS
<1>2. n \in Nat /\ last \in Nat /\ last <= n
  BY <1>1, LenProperties
<1>3. PICK p : p = SubSeq(s, offset + 1, last)
  OBVIOUS
<1>4. p = Queries!Part(s, offset, limit)
  BY <1>1, <1>3 DEF Queries!Part
<1>5. /\ p \in Seq(S)
      /\ Len(p) = IF offset + 1 <= last THEN last - (offset + 1) + 1 ELSE 0
      /\ \A i \in 1 .. last - (offset + 1) + 1 : p[i] = s[offset + 1 + i - 1]
  <2>1. \A i \in offset + 1 .. last : s[i] \in S
    BY <1>1, <1>2
  <2>2. offset + 1 \in Int /\ last \in Int
    BY <1>2
  <2> QED BY <1>3, <2>1, <2>2, SubSeqProperties
<1>6. DOMAIN p = 1 .. Len(p) /\ Queries!ToSet(p) = {p[i] : i \in 1 .. Len(p)}
  BY <1>5, LenProperties DEF Queries!ToSet
<1>7. Len(p) < limit => n < offset + limit
  BY <1>1, <1>2, <1>5
<1>8. offset = 0 => Len(p) >= IF n < limit THEN n ELSE limit
  BY <1>1, <1>2, <1>5
<1>9. Queries!ToSet(p) \subseteq S
  BY <1>5, <1>6
<1>10. ASSUME NEW i \in 1 .. n, offset < i, i <= offset + limit
       PROVE  s[i] \in Queries!ToSet(p)
  <2>1. PICK k : k = i - offset
    OBVIOUS
  <2>2. i <= last /\ k \in 1 .. last - (offset + 1) + 1 /\ offset + 1 + k - 1 = i
    BY <1>1, <1>2, <1>10, <2>1
  <2>3. k \in 1 .. Len(p)
    BY <1>2, <1>5, <2>2
  <2>4. p[k] = s[i]
    BY <1>5, <2>2
  <2> QED BY <1>6, <2>3, <2>4
<1> QED BY <1>1, <1>4, <1>5, <1>7, <1>8, <1>9, <1>10

\* A statement of a query: what was read before, and the place it goes to.
LEMMA StatementReads ==
    ASSUME NEW kind, NEW at, NEW result, NEW place, Queries!Statement(kind, at, result, place)
    PROVE  /\ query.kind = kind /\ query.at = at
           /\ query' = [result EXCEPT !.at = place]
           /\ UNCHANGED <<committed, rows>>
BY DEF Queries!Statement

LEMMA OverviewStarts == ASSUME QueryInv, Queries!Overview PROVE QueryInv'
<1>1. PICK q : q = query'
  OBVIOUS
<1>2. q = [kind |-> "overview", at |-> "totals", total |-> 0, success |-> 0, scenarios |-> 0,
           recent |-> <<>>, curve |-> 0, ridge |-> <<>>,
           decided |-> 0, evaluated |-> 0, reserved |-> 0, filled |-> 0]
  BY <1>1 DEF Queries!Overview
<1>3. <<>> \in Seq(QueryRow) /\ <<>> \in Seq(Seq(QueryRow))
  OBVIOUS
<1>4. q \in OverviewType /\ q.at = "totals"
  BY <1>2, <1>3 DEF OverviewType
<1>5. OverviewHolds(q)
  BY <1>4 DEF OverviewHolds
<1>6. UNCHANGED <<committed, rows>>
  BY DEF Queries!Overview
<1> QED BY <1>1, <1>5, <1>6, ReadStep DEF QueryHolds

LEMMA TotalsStep == ASSUME QueryInv, Queries!ReadTotals PROVE QueryInv'
<1>1. PICK q, n, m : q = query' /\ n = Cardinality(rows) /\ m = Cardinality(Queries!Success(rows))
  OBVIOUS
<1>2. /\ query.kind = "overview"
      /\ q = [[query EXCEPT !.total = n, !.success = m] EXCEPT !.at = "scenarios"]
      /\ UNCHANGED <<committed, rows>>
  BY <1>1, QueriesCardinality DEF Queries!ReadTotals, Queries!Statement
<1>3. query \in OverviewType /\ n \in Nat /\ m \in Nat
  BY <1>1, <1>2, KindTells, Counts DEF QueryInv, OverviewHolds
<1>4. q \in OverviewType /\ q.at = "scenarios" /\ q.total = n /\ q.success = m
  BY <1>2, <1>3 DEF OverviewType
<1>5. TotalsRead(q)
  BY <1>1, <1>3, <1>4 DEF TotalsRead
<1>6. OverviewHolds(q)
  BY <1>4, <1>5 DEF OverviewHolds
<1> QED BY <1>1, <1>2, <1>6, ReadStep DEF QueryHolds

LEMMA ScenariosStep == ASSUME QueryInv, Queries!ReadScenarios PROVE QueryInv'
<1>1. PICK q, n : q = query' /\ n = Cardinality(rows)
  OBVIOUS
<1>2. /\ query.kind = "overview" /\ query.at = "scenarios"
      /\ q = [[query EXCEPT !.scenarios = n] EXCEPT !.at = "recent"]
      /\ UNCHANGED <<committed, rows>>
  BY <1>1, QueriesCardinality DEF Queries!ReadScenarios, Queries!Statement
<1>3. query \in OverviewType /\ n \in Nat /\ TotalsRead(query)
  BY <1>1, <1>2, KindTells, Counts DEF QueryInv, OverviewHolds
<1>4. /\ q \in OverviewType /\ q.at = "recent" /\ q.scenarios = n
      /\ q.total = query.total /\ q.success = query.success
  BY <1>2, <1>3 DEF OverviewType
<1>5. TotalsRead(q) /\ ScenariosRead(q)
  BY <1>1, <1>3, <1>4 DEF TotalsRead, ScenariosRead
<1>6. OverviewHolds(q)
  BY <1>4, <1>5 DEF OverviewHolds
<1> QED BY <1>1, <1>2, <1>6, ReadStep DEF QueryHolds

LEMMA RecentStep == ASSUME QueryInv, Queries!ReadRecent PROVE QueryInv'
<1>1. PICK q, s, p : q = query' /\ s = Queries!ByTime(rows) /\ p = Queries!Part(s, 0, PageSize)
  OBVIOUS
<1>2. /\ query.kind = "overview" /\ query.at = "recent"
      /\ q = [[query EXCEPT !.recent = p] EXCEPT !.at = "curve"]
      /\ UNCHANGED <<committed, rows>>
  BY <1>1 DEF Queries!ReadRecent, Queries!Statement
<1>3. query \in OverviewType /\ TotalsRead(query) /\ ScenariosRead(query)
  BY <1>2, KindTells DEF QueryInv, OverviewHolds
<1>4. s \in Seq(rows) /\ Len(s) = Cardinality(rows) /\ Cardinality(rows) \in Nat
      /\ rows \in SUBSET QueryRow
  BY <1>1, ByTimeLists, Counts DEF QueryInv, OneRowEach
<1>5. s \in Seq(QueryRow)
  <2>1. PICK n : n = Len(s)
    OBVIOUS
  <2>2. n \in Nat /\ s \in [1 .. n -> rows]
    BY <1>4, <2>1, LenProperties, Zenon
  <2>3. s \in [1 .. n -> QueryRow]
    BY <1>4, <2>2
  <2> QED BY <2>2, <2>3
<1>6. /\ p \in Seq(QueryRow) /\ PageSize \in Nat
      /\ Len(p) >= IF Len(s) < PageSize THEN Len(s) ELSE PageSize
  <2>1. PageSize \in Nat /\ 0 \in Nat
    BY QueriesConstants
  <2> QED BY <1>1, <1>5, <2>1, PartIs
<1>7. /\ q \in OverviewType /\ q.at = "curve" /\ q.recent = p
      /\ q.total = query.total /\ q.success = query.success /\ q.scenarios = query.scenarios
  BY <1>2, <1>3, <1>6 DEF OverviewType
<1>8. TotalsRead(q) /\ ScenariosRead(q)
  BY <1>3, <1>7 DEF TotalsRead, ScenariosRead
<1>9. RecentRead(q)
  <2>1. q.total \in Nat /\ q.total <= Len(s)
    BY <1>4, <1>7, <1>8 DEF TotalsRead, OverviewType
  <2>2. PICK n, m, t : n = Len(s) /\ m = Len(p) /\ t = q.total
    OBVIOUS
  <2>3. m \in Nat
    BY <1>6, <2>2, LenProperties
  <2>4. n \in Nat /\ t \in Nat /\ t <= n /\ (m >= IF n < PageSize THEN n ELSE PageSize)
    BY <1>4, <1>6, <2>1, <2>2
  <2>5. m >= IF t < PageSize THEN t ELSE PageSize
    BY <1>6, <2>3, <2>4
  <2> QED BY <1>7, <2>2, <2>5 DEF RecentRead
<1>10. OverviewHolds(q)
  BY <1>7, <1>8, <1>9 DEF OverviewHolds
<1> QED BY <1>1, <1>2, <1>10, ReadStep DEF QueryHolds

LEMMA CurveStep == ASSUME QueryInv, Queries!ReadCurve PROVE QueryInv'
<1>1. PICK q, n : q = query' /\ n = Cardinality(rows)
  OBVIOUS
<1>2. /\ query.kind = "overview" /\ query.at = "curve"
      /\ q = [[query EXCEPT !.curve = n] EXCEPT !.at = "ridge"]
      /\ UNCHANGED <<committed, rows>>
  BY <1>1, QueriesCardinality DEF Queries!ReadCurve, Queries!Statement
<1>3. /\ query \in OverviewType /\ n \in Nat
      /\ TotalsRead(query) /\ ScenariosRead(query) /\ RecentRead(query)
  BY <1>1, <1>2, KindTells, Counts DEF QueryInv, OverviewHolds
<1>4. /\ q \in OverviewType /\ q.at = "ridge" /\ q.curve = n /\ q.recent = query.recent
      /\ q.total = query.total /\ q.success = query.success /\ q.scenarios = query.scenarios
  BY <1>2, <1>3 DEF OverviewType
<1>5. TotalsRead(q) /\ ScenariosRead(q) /\ RecentRead(q) /\ q.scenarios <= q.curve
  BY <1>1, <1>3, <1>4 DEF TotalsRead, ScenariosRead, RecentRead
<1>6. OverviewHolds(q)
  BY <1>4, <1>5 DEF OverviewHolds
<1> QED BY <1>1, <1>2, <1>6, ReadStep DEF QueryHolds

LEMMA RidgeStep == ASSUME QueryInv, Queries!ReadRidge PROVE QueryInv'
<1>1. PICK q, g, R : q = query' /\ R = Queries!Success(rows) /\ g = Queries!Ridge(R)
  OBVIOUS
<1>2. /\ query.kind = "overview" /\ query.at = "ridge"
      /\ q = [[query EXCEPT !.ridge = g] EXCEPT !.at = "events"]
      /\ UNCHANGED <<committed, rows>>
  BY <1>1 DEF Queries!ReadRidge, Queries!Statement
<1>3. /\ query \in OverviewType
      /\ TotalsRead(query) /\ ScenariosRead(query) /\ RecentRead(query)
      /\ query.scenarios <= query.curve
  BY <1>2, KindTells DEF QueryInv, OverviewHolds
<1>4. Merged(g, R) /\ Within(g) = R /\ g \in Seq(Seq(QueryRow))
  <2>1. OneRowEach(R)
    BY <1>1, Counts DEF QueryInv
  <2>2. Merged(g, R)
    BY <1>1, <2>1, RidgeHolds
  <2> QED BY <2>2 DEF Merged
<1>5. /\ q \in OverviewType /\ q.at = "events" /\ q.ridge = g /\ q.recent = query.recent
      /\ q.total = query.total /\ q.success = query.success /\ q.scenarios = query.scenarios
      /\ q.curve = query.curve
  BY <1>2, <1>3, <1>4 DEF OverviewType
<1>6. TotalsRead(q) /\ ScenariosRead(q) /\ RecentRead(q) /\ q.scenarios <= q.curve
  BY <1>3, <1>5 DEF TotalsRead, ScenariosRead, RecentRead
<1>7. RidgeRead(q)
  BY <1>1, <1>4, <1>5, <1>6 DEF RidgeRead, TotalsRead
<1>8. OverviewHolds(q)
  BY <1>5, <1>6, <1>7 DEF OverviewHolds
<1> QED BY <1>1, <1>2, <1>8, ReadStep DEF QueryHolds

LEMMA EventsStep == ASSUME QueryInv, Queries!ReadEvents PROVE QueryInv'
<1>1. PICK E : E = {r \in Queries!Runs : committed[r].event # None}
  OBVIOUS
<1>2. PICK q, n : q = query' /\ n = Cardinality(E)
  OBVIOUS
<1>3. /\ query.kind = "overview" /\ query.at = "events"
      /\ q = [[query EXCEPT !.decided = n] EXCEPT !.at = "flow"]
      /\ UNCHANGED <<committed, rows>>
  BY <1>1, <1>2, QueriesCardinality DEF Queries!ReadEvents, Queries!Statement
<1>4. /\ query \in OverviewType
      /\ TotalsRead(query) /\ ScenariosRead(query) /\ RecentRead(query)
      /\ query.scenarios <= query.curve /\ RidgeRead(query)
  BY <1>3, KindTells DEF QueryInv, OverviewHolds
\* What has been decided had been reserved.
<1>5. E \subseteq Queries!Reserved
  <2> SUFFICES ASSUME NEW r \in Queries!Runs, committed[r].event # None
               PROVE  r \in Queries!Reserved
    BY <1>1
  <2>1. committed[r].step \in {"decided", "done"}
    BY DEF QueryInv, TablesHold, FactsHold
  <2>2. ASSUME NEW row \in rows, row.run = r PROVE row.scenario # "REJECTED"
    BY <2>2 DEF QueryInv, TablesHold, RowHolds
  <2> QED BY <2>1, <2>2 DEF Queries!Reserved
<1>6. n \in Nat /\ n <= Cardinality(Queries!Reserved)
  <2>1. IsFiniteSet(1 .. MaxRows)
    BY QueriesConstants, FS_Interval
  <2>2. IsFiniteSet(Queries!Runs) /\ Queries!Reserved \in SUBSET Queries!Runs
    BY <2>1, QueriesConstants DEF Queries!Reserved
  <2>3. IsFiniteSet(Queries!Reserved)
    BY <2>2, FS_Subset
  <2>4. PICK V : V = Queries!Reserved
    OBVIOUS
  <2>5. IsFiniteSet(V) /\ E \in SUBSET V
    BY <1>5, <2>3, <2>4
  <2>6. IsFiniteSet(E) /\ Cardinality(E) <= Cardinality(V)
    BY <2>5, FS_Subset
  <2>7. Cardinality(E) \in Nat
    BY <2>6, FS_CardinalityType
  <2> QED BY <1>2, <2>4, <2>6, <2>7
<1>7. /\ q \in OverviewType /\ q.at = "flow" /\ q.decided = n
      /\ q.recent = query.recent /\ q.ridge = query.ridge /\ q.curve = query.curve
      /\ q.total = query.total /\ q.success = query.success /\ q.scenarios = query.scenarios
  BY <1>3, <1>4, <1>6 DEF OverviewType
<1>8. /\ TotalsRead(q) /\ ScenariosRead(q) /\ RecentRead(q) /\ q.scenarios <= q.curve
      /\ RidgeRead(q) /\ q.decided <= Cardinality(Queries!Reserved)
  BY <1>4, <1>6, <1>7 DEF TotalsRead, ScenariosRead, RecentRead, RidgeRead
<1>9. OverviewHolds(q)
  BY <1>7, <1>8 DEF OverviewHolds
<1> QED BY <1>2, <1>3, <1>9, ReadStep DEF QueryHolds

LEMMA FlowStep == ASSUME QueryInv, Queries!ReadFlow PROVE QueryInv'
<1>1. PICK F : F = {row \in rows : row.filled = 2}
  OBVIOUS
<1>2. PICK q, n, m, k : /\ q = query' /\ n = Cardinality(Queries!Success(rows))
                        /\ m = Cardinality(Queries!Reserved) /\ k = Cardinality(F)
  OBVIOUS
<1>3. /\ query.kind = "overview" /\ query.at = "flow"
      /\ q = [[query EXCEPT !.evaluated = n, !.reserved = m, !.filled = k] EXCEPT !.at = "answered"]
      /\ UNCHANGED <<committed, rows>>
  BY <1>1, <1>2, QueriesCardinality DEF Queries!ReadFlow, Queries!Statement
<1>4. /\ query \in OverviewType
      /\ TotalsRead(query) /\ ScenariosRead(query) /\ RecentRead(query)
      /\ query.scenarios <= query.curve /\ RidgeRead(query)
      /\ query.decided <= Cardinality(Queries!Reserved)
  BY <1>3, KindTells DEF QueryInv, OverviewHolds
<1>5. k \in Nat /\ k <= n /\ n \in Nat /\ m \in Nat
  <2>1. PICK W : W = Queries!Success(rows)
    OBVIOUS
  <2>2. F \in SUBSET W
    BY <1>1, <2>1 DEF Queries!Success, QueryInv, TablesHold, RowHolds
  <2>3. IsFiniteSet(W)
    <3>1. W \in SUBSET rows
      BY <2>1 DEF Queries!Success
    <3> QED BY <3>1, Counts, FS_Subset DEF QueryInv
  <2>4. IsFiniteSet(F) /\ Cardinality(F) <= Cardinality(W)
    BY <2>2, <2>3, FS_Subset
  <2>5. Cardinality(F) \in Nat
    BY <2>4, FS_CardinalityType
  <2> QED BY <1>2, <2>1, <2>4, <2>5, Counts DEF QueryInv
<1>6. /\ q \in OverviewType /\ q.at = "answered"
      /\ q.evaluated = n /\ q.reserved = m /\ q.filled = k /\ q.decided = query.decided
      /\ q.recent = query.recent /\ q.ridge = query.ridge /\ q.curve = query.curve
      /\ q.total = query.total /\ q.success = query.success /\ q.scenarios = query.scenarios
  BY <1>3, <1>4, <1>5 DEF OverviewType
<1>7. /\ TotalsRead(q) /\ ScenariosRead(q) /\ RecentRead(q) /\ q.scenarios <= q.curve
      /\ RidgeRead(q) /\ q.decided <= Cardinality(Queries!Reserved)
  BY <1>4, <1>6 DEF TotalsRead, ScenariosRead, RecentRead, RidgeRead
<1>8. FlowRead(q)
  BY <1>2, <1>5, <1>6, <1>7 DEF FlowRead, TotalsRead
<1>9. OverviewHolds(q)
  BY <1>6, <1>7, <1>8 DEF OverviewHolds
<1> QED BY <1>2, <1>3, <1>9, ReadStep DEF QueryHolds

LEMMA DetailStarts == ASSUME QueryInv, Queries!Detail PROVE QueryInv'
<1>1. PICK q : q = query'
  OBVIOUS
<1>2. PICK row \in rows :
         q = [kind |-> "detail", at |-> "intents", row |-> row, trades |-> 0,
              event |-> None, reserved |-> FALSE, balances |-> <<>>]
  BY <1>1 DEF Queries!Detail
<1>3. row \in QueryRow /\ <<>> \in Seq(Int) /\ None \in Events
  BY DEF QueryInv, TablesHold, OneRowEach, Events
<1>4. q \in DetailType /\ q.at = "intents" /\ q.row = row
  BY <1>2, <1>3 DEF DetailType
<1>5. DetailHolds(q)
  BY <1>4 DEF DetailHolds
<1>6. UNCHANGED <<committed, rows>>
  BY DEF Queries!Detail
<1> QED BY <1>1, <1>5, <1>6, ReadStep DEF QueryHolds

\* The run of a row that is shown is done, and its facts are final.
LEMMA ShownIsDone ==
    ASSUME QueryInv, query.kind = "detail"
    PROVE  /\ DetailHolds(query) /\ query \in DetailType
           /\ query.row \in rows /\ query.row \in QueryRow /\ query.row.run \in Queries!Runs
           /\ RowHolds(query.row, committed[query.row.run])
           /\ FactsHold(committed[query.row.run])
           /\ committed[query.row.run] \in FactType
<1>1. DetailHolds(query) /\ query.row \in rows
  BY KindTells DEF QueryInv, DetailHolds
<1>2. query.row \in QueryRow /\ query.row.run \in Queries!Runs
  BY <1>1 DEF QueryInv, TablesHold, OneRowEach, QueryRow
<1> QED BY <1>1, <1>2 DEF QueryInv, TablesHold, FactsHold, DetailHolds

LEMMA IntentsStep == ASSUME QueryInv, Queries!ReadIntents PROVE QueryInv'
<1>1. PICK q, b : q = query' /\ b = (query.row.run \in Queries!Reserved)
  OBVIOUS
<1>2. /\ query.kind = "detail" /\ query.at = "intents"
      /\ q = [[query EXCEPT !.reserved = b] EXCEPT !.at = "trades"]
      /\ UNCHANGED <<committed, rows>>
  BY <1>1 DEF Queries!ReadIntents, Queries!Statement
<1>3. b \in BOOLEAN
  BY <1>1
<1>4. query \in DetailType /\ query.row \in rows /\ query.row \in QueryRow
      /\ query.row.run \in Queries!Runs
  BY <1>2, ShownIsDone
<1>5. q \in DetailType /\ q.at = "trades" /\ q.reserved = b /\ q.row = query.row
  BY <1>2, <1>3, <1>4 DEF DetailType
<1>6. ASSUME q.row.scenario # "REJECTED" PROVE b
  <2>1. committed[query.row.run].step = "done"
    BY <1>2, ShownIsDone DEF RowHolds
  <2>2. ASSUME NEW row \in rows, row.run = query.row.run PROVE row.scenario # "REJECTED"
    <3>1. row = query.row
      BY <1>4, <2>2 DEF QueryInv, TablesHold, OneRowEach
    <3> QED BY <1>5, <1>6, <3>1
  <2> QED BY <1>1, <1>4, <2>1, <2>2 DEF Queries!Reserved
<1>7. DetailHolds(q)
  BY <1>4, <1>5, <1>6 DEF DetailHolds
<1> QED BY <1>1, <1>2, <1>7, ReadStep DEF QueryHolds

LEMMA TradesStep == ASSUME QueryInv, Queries!ReadTrades PROVE QueryInv'
<1>1. PICK q, n : q = query' /\ n = committed[query.row.run].booked
  OBVIOUS
<1>2. /\ query.kind = "detail" /\ query.at = "trades"
      /\ q = [[query EXCEPT !.trades = n] EXCEPT !.at = "events"]
      /\ UNCHANGED <<committed, rows>>
  BY <1>1 DEF Queries!ReadTrades, Queries!Statement
<1>3. query \in DetailType /\ query.row \in rows /\ DetailHolds(query)
  BY <1>2, ShownIsDone
<1>4. n \in Nat /\ n <= query.row.filled
  BY <1>1, <1>2, ShownIsDone DEF RowHolds, FactsHold, FactType
<1>5. /\ q \in DetailType /\ q.at = "events" /\ q.trades = n
      /\ q.row = query.row /\ q.reserved = query.reserved
  BY <1>2, <1>3, <1>4 DEF DetailType
<1>6. DetailHolds(q)
  BY <1>2, <1>3, <1>4, <1>5 DEF DetailHolds
<1> QED BY <1>1, <1>2, <1>6, ReadStep DEF QueryHolds

LEMMA RunEventsStep == ASSUME QueryInv, Queries!ReadRunEvents PROVE QueryInv'
<1>1. PICK q, e : q = query' /\ e = committed[query.row.run].event
  OBVIOUS
<1>2. /\ query.kind = "detail" /\ query.at = "events"
      /\ q = [[query EXCEPT !.event = e] EXCEPT !.at = "balances"]
      /\ UNCHANGED <<committed, rows>>
  BY <1>1 DEF Queries!ReadRunEvents, Queries!Statement
<1>3. query \in DetailType /\ query.row \in rows /\ DetailHolds(query) /\ query.row \in QueryRow
  BY <1>2, ShownIsDone
<1>4. /\ e \in Events
      /\ query.row.scenario # "REJECTED" => e # None
      /\ e = "COMPLETED" => query.row.filled # 1
  BY <1>1, <1>2, <1>3, ShownIsDone DEF RowHolds, FactsHold, FactType, QueryRow
<1>5. /\ q \in DetailType /\ q.at = "balances" /\ q.event = e /\ q.trades = query.trades
      /\ q.row = query.row /\ q.reserved = query.reserved
  BY <1>2, <1>3, <1>4 DEF DetailType
<1>6. DetailHolds(q)
  BY <1>2, <1>3, <1>4, <1>5 DEF DetailHolds
<1> QED BY <1>1, <1>2, <1>6, ReadStep DEF QueryHolds

\* The snapshots of a run are of different times, and none is negative or less than
\* what the fills leave.
LEMMA SnapshotsHold ==
    ASSUME NEW row \in QueryRow, NEW stored \in Queries!StoredSnapshots(row)
    PROVE  /\ Distinct(stored, [snapshot \in stored |-> snapshot.at])
           /\ \A x \in stored : x.total \in Int /\ x.total >= 0 /\ x.total >= Funds - row.filled
<1>1. PICK P : P = Queries!SettlementPoints(row)
  OBVIOUS
<1> DEFINE Names == {"fund", "filled", "evaluated"}
<1>2. PICK there \in SUBSET Names :
         stored \in {{[at |-> at[n], total |-> P[n]] : n \in there} :
                        at \in {f \in Queries!Moments : \A m, n \in there : f[m] = f[n] => m = n}}
  BY <1>1 DEF Queries!StoredSnapshots
<1>3. PICK at \in Queries!Moments :
         /\ \A m, n \in there : at[m] = at[n] => m = n
         /\ stored = {[at |-> at[n], total |-> P[n]] : n \in there}
  BY <1>2
<1>4. /\ at["fund"] \in Int /\ at["filled"] \in Int /\ at["evaluated"] \in Int
  BY <1>3 DEF Queries!Moments
<1>5. /\ P["fund"] \in Int /\ P["fund"] >= 0 /\ P["fund"] >= Funds - row.filled
      /\ P["filled"] \in Int /\ P["filled"] >= 0 /\ P["filled"] >= Funds - row.filled
      /\ P["evaluated"] \in Int /\ P["evaluated"] >= 0 /\ P["evaluated"] >= Funds - row.filled
  <2>1. row.filled \in Nat /\ Funds \in Nat
    BY QueriesConstants DEF QueryRow
  <2>2. PICK left : left = IF row.filled < Funds THEN Funds - row.filled ELSE 0
    OBVIOUS
  <2>3. P = [fund |-> Funds, filled |-> left, evaluated |-> left]
    BY <1>1, <2>2 DEF Queries!SettlementPoints
  <2>4. left \in Int /\ left >= 0 /\ left >= Funds - row.filled
    BY <2>1, <2>2
  <2>5. P["fund"] = Funds /\ P["filled"] = left /\ P["evaluated"] = left
    BY <2>3
  <2> QED BY <2>1, <2>4, <2>5
<1>6. \A n \in there : n \in Names
  BY <1>2
<1>7. ASSUME NEW x \in stored
      PROVE  x.total \in Int /\ x.total >= 0 /\ x.total >= Funds - row.filled
  <2>1. PICK n \in there : x = [at |-> at[n], total |-> P[n]]
    BY <1>3
  <2>2. x.total = P[n] /\ (n = "fund" \/ n = "filled" \/ n = "evaluated")
    BY <1>6, <2>1
  <2> QED BY <1>5, <2>2
<1>8. IsFiniteSet(stored)
  <2>1. IsFiniteSet({"fund"}) /\ IsFiniteSet({"filled"}) /\ IsFiniteSet({"evaluated"})
    BY FS_Singleton
  <2>2. IsFiniteSet({"fund"} \cup {"filled"})
    BY <2>1, FS_Union
  <2>3. IsFiniteSet(({"fund"} \cup {"filled"}) \cup {"evaluated"})
    BY <2>1, <2>2, FS_Union
  <2>4. there \subseteq ({"fund"} \cup {"filled"}) \cup {"evaluated"}
    BY <1>2
  <2>5. IsFiniteSet(there)
    BY <2>3, <2>4, FS_Subset
  <2> DEFINE f == [n \in there |-> [at |-> at[n], total |-> P[n]]]
  <2>6. stored = {f[n] : n \in there}
    BY <1>3
  <2>7. f \in Surjection(there, stored)
    BY <2>6 DEF Surjection
  <2> HIDE DEF f
  <2> QED BY <2>5, <2>7, FS_Surjection
<1> DEFINE key == [snapshot \in stored |-> snapshot.at]
<1>9. \A x \in stored : key[x] = x.at
  OBVIOUS
<1>10. ASSUME NEW x \in stored PROVE key[x] \in Int
  <2>1. PICK n \in there : x = [at |-> at[n], total |-> P[n]]
    BY <1>3
  <2>2. x.at = at[n] /\ (n = "fund" \/ n = "filled" \/ n = "evaluated")
    BY <1>6, <2>1
  <2> QED BY <1>4, <1>9, <2>2
<1>11. ASSUME NEW x \in stored, NEW y \in stored, key[x] = key[y] PROVE x = y
  <2>1. PICK n \in there : x = [at |-> at[n], total |-> P[n]]
    BY <1>3
  <2>2. PICK m \in there : y = [at |-> at[m], total |-> P[m]]
    BY <1>3
  <2>3. at[n] = at[m]
    BY <1>9, <1>11, <2>1, <2>2
  <2>4. n = m
    BY <1>3, <2>3
  <2> QED BY <2>1, <2>2, <2>4
<1> HIDE DEF key
<1>12. Distinct(stored, key)
  BY <1>8, <1>10, <1>11 DEF Distinct
<1> QED BY <1>7, <1>12 DEF key

LEMMA BalancesStep == ASSUME QueryInv, Queries!ReadBalances PROVE QueryInv'
<1>1. query.kind = "detail" /\ query.at = "balances"
  BY DEF Queries!ReadBalances
<1>2. /\ query \in DetailType /\ query.row \in rows /\ DetailHolds(query)
      /\ query.row \in QueryRow
  BY <1>1, ShownIsDone
<1>3. PICK stored \in Queries!StoredSnapshots(query.row) :
         LET inTime == Queries!Ordered(stored, [snapshot \in stored |-> snapshot.at])
         IN  Queries!Statement("detail", "balances",
                 [query EXCEPT !.balances = [i \in DOMAIN inTime |-> inTime[i].total]],
                 "answered")
  BY DEF Queries!ReadBalances
<1>4. PICK s, c : /\ s = Queries!Ordered(stored, [snapshot \in stored |-> snapshot.at])
                  /\ c = [i \in DOMAIN s |-> s[i].total]
  OBVIOUS
<1>5. PICK q : q = query'
  OBVIOUS
<1>6. /\ q = [[query EXCEPT !.balances = c] EXCEPT !.at = "answered"]
      /\ UNCHANGED <<committed, rows>>
  BY <1>3, <1>4, <1>5 DEF Queries!Statement
<1>7. s \in Seq(stored)
  BY <1>2, <1>4, SnapshotsHold, OrderedLists
<1>8. /\ \A x \in stored : x.total \in Int /\ x.total >= 0 /\ x.total >= Funds - query.row.filled
  BY <1>2, SnapshotsHold
<1>9. PICK n \in Nat : s \in [1 .. n -> stored]
  BY <1>7, LenProperties
<1>10. /\ c \in Seq(Int)
       /\ \A i \in DOMAIN c : c[i] >= 0 /\ c[i] >= Funds - query.row.filled
  <2>1. DOMAIN c = 1 .. n /\ \A i \in 1 .. n : s[i] \in stored /\ c[i] = s[i].total
    BY <1>4, <1>9
  <2>2. \A i \in 1 .. n : c[i] \in Int /\ c[i] >= 0 /\ c[i] >= Funds - query.row.filled
    BY <1>8, <2>1
  <2>3. c \in [1 .. n -> Int]
    <3>1. c = [i \in 1 .. n |-> c[i]]
      BY <1>4, <1>9
    <3> QED BY <2>2, <3>1
  <2> QED BY <1>9, <2>1, <2>2, <2>3
<1>11. /\ q \in DetailType /\ q.at = "answered" /\ q.event = query.event
       /\ q.trades = query.trades /\ q.row = query.row /\ q.reserved = query.reserved
       /\ q.balances = c
  BY <1>2, <1>6, <1>10 DEF DetailType
<1>12. DetailHolds(q)
  BY <1>1, <1>2, <1>10, <1>11 DEF DetailHolds
<1> QED BY <1>5, <1>6, <1>12, ReadStep DEF QueryHolds

LEMMA ListStarts == ASSUME QueryInv, Queries!List PROVE QueryInv'
<1>1. PICK q : q = query'
  OBVIOUS
<1>2. q = [kind |-> "list", at |-> "count", there |-> rows, shown |-> {}, offset |-> 0,
           total |-> 0, page |-> <<>>]
  BY <1>1 DEF Queries!List
<1>3. rows \in SUBSET QueryRow /\ <<>> \in Seq(QueryRow) /\ {} \in SUBSET QueryRow
  BY DEF QueryInv, TablesHold, OneRowEach
<1>4. q \in ListType /\ q.at = "count" /\ q.there = rows /\ q.offset = 0
  BY <1>2, <1>3 DEF ListType
<1>5. ASSUME NEW x PROVE 0 <= Cardinality(Newer(x))
  <2>1. PICK n : n = Cardinality(Newer(x))
    OBVIOUS
  <2>2. n \in Nat
    BY <2>1, Counts DEF QueryInv
  <2> QED BY <2>1, <2>2
<1>6. ListHolds(q)
  BY <1>4, <1>5 DEF ListHolds
<1>7. UNCHANGED <<committed, rows>>
  BY DEF Queries!List
<1> QED BY <1>1, <1>6, <1>7, ReadStep DEF QueryHolds

LEMMA CountRunsStep == ASSUME QueryInv, Queries!CountRuns PROVE QueryInv'
<1>1. PICK q, n : q = query' /\ n = Cardinality(rows)
  OBVIOUS
<1>2. /\ query.kind = "list" /\ query.at = "count"
      /\ q = [[query EXCEPT !.total = n] EXCEPT !.at = "page"]
      /\ UNCHANGED <<committed, rows>>
  BY <1>1, QueriesCardinality DEF Queries!CountRuns, Queries!Statement
<1>3. query \in ListType /\ ListHolds(query) /\ n \in Nat
  BY <1>1, <1>2, KindTells, Counts DEF QueryInv, ListHolds
<1>4. /\ q \in ListType /\ q.at = "page" /\ q.there = query.there /\ q.shown = query.shown
      /\ q.offset = query.offset
  BY <1>2, <1>3 DEF ListType
<1>5. ListHolds(q)
  BY <1>3, <1>4 DEF ListHolds
<1> QED BY <1>1, <1>2, <1>5, ReadStep DEF QueryHolds

\* A row that a page does not show is behind it, and then the page is full.
LEMMA PageShows ==
    ASSUME QueryInv, NEW offset \in Nat, NEW x \in rows,
           offset <= Cardinality(Newer(x)),
           NEW p, p = Queries!Part(Queries!ByTime(rows), offset, PageSize),
           x \notin Queries!ToSet(p)
    PROVE  /\ offset + PageSize <= Cardinality(Newer(x))
           /\ ~(Len(p) < PageSize)
<1>1. OneRowEach(rows) /\ rows \in SUBSET QueryRow /\ IsFiniteSet(rows)
  BY Counts DEF QueryInv, OneRowEach
<1> DEFINE key == [row \in rows |-> -row.run]
<1>2. PICK s : s = Queries!ByTime(rows)
  OBVIOUS
<1>3. Distinct(rows, key) /\ Lists(s, rows, key) /\ s \in Seq(rows)
  BY <1>1, <1>2, ByTimeLists
<1>4. PICK n : n = Len(s)
  OBVIOUS
<1>5. n \in Nat /\ DOMAIN s = 1 .. n
  BY <1>3, <1>4, LenProperties
<1>6. PICK i \in 1 .. n : s[i] = x
  <2>1. x \in Queries!ToSet(s)
    BY <1>3 DEF Lists
  <2> QED BY <1>5, <2>1 DEF Queries!ToSet
<1>7. Cardinality(Newer(x)) = i - 1
  <2>1. Cardinality({y \in rows : key[y] < key[s[i]]}) = i - 1
    <3> HIDE DEF key
    <3> QED BY <1>3, <1>5, Ahead
  <2>2. \A y \in rows : y.run \in Nat /\ key[y] = -y.run
    BY <1>1, RunNumbers
  <2>3. \A y \in rows : key[y] < key[s[i]] <=> y.run > x.run
    BY <1>6, <2>2
  <2>4. {y \in rows : key[y] < key[s[i]]} = Newer(x)
    BY <2>3 DEF Newer
  <2> QED BY <2>1, <2>4
<1>8. PICK m : m = Len(p)
  OBVIOUS
<1>9. /\ m < PageSize => n < offset + PageSize
      /\ \A k \in 1 .. n : offset < k /\ k <= offset + PageSize => s[k] \in Queries!ToSet(p)
  <2>1. PageSize \in Nat
    BY QueriesConstants
  <2> QED BY <1>2, <1>3, <1>4, <1>8, <2>1, PartIs
<1>10. PageSize \in Nat /\ offset < i
  BY <1>5, <1>6, <1>7, QueriesConstants
<1>11. offset + PageSize < i
  BY <1>5, <1>6, <1>9, <1>10
<1> QED BY <1>5, <1>7, <1>8, <1>9, <1>10, <1>11

LEMMA ReadPageStep == ASSUME QueryInv, Queries!ReadPage PROVE QueryInv'
<1>1. PICK q, p : q = query' /\ p = Queries!Part(Queries!ByTime(rows), query.offset, PageSize)
  OBVIOUS
<1>2. PICK place : place = IF Len(p) < PageSize THEN "answered" ELSE "turn"
  OBVIOUS
<1>3. PICK seen : seen = query.shown \cup Queries!ToSet(p)
  OBVIOUS
<1>4. /\ query.kind = "list" /\ query.at = "page"
      /\ q = [[query EXCEPT !.page = p, !.shown = query.shown \cup Queries!ToSet(p)]
                 EXCEPT !.at = place]
      /\ UNCHANGED <<committed, rows>>
  BY <1>1, <1>2 DEF Queries!ReadPage, Queries!Statement
<1>5. query \in ListType /\ ListHolds(query) /\ query.offset \in Nat
  BY <1>4, KindTells DEF QueryInv, ListHolds, ListType
<1>6. p \in Seq(QueryRow) /\ Queries!ToSet(p) \subseteq QueryRow
  <2>1. OneRowEach(rows) /\ rows \in SUBSET QueryRow
    BY Counts DEF QueryInv, OneRowEach
  <2>2. PICK s : s = Queries!ByTime(rows)
    OBVIOUS
  <2>3. s \in Seq(rows)
    BY <2>1, <2>2, ByTimeLists
  <2>4. PICK n \in Nat : s \in [1 .. n -> rows]
    BY <2>3, LenProperties
  <2>5. s \in [1 .. n -> QueryRow]
    BY <2>1, <2>4
  <2>6. s \in Seq(QueryRow) /\ PageSize \in Nat
    BY <2>5, QueriesConstants
  <2> QED BY <1>1, <1>5, <2>2, <2>6, PartIs
<1>7. /\ q \in ListType /\ q.at = place /\ q.there = query.there /\ q.shown = seen
      /\ q.offset = query.offset
  <2>1. seen \in SUBSET QueryRow /\ place \in {"answered", "turn"}
    BY <1>2, <1>3, <1>5, <1>6 DEF ListType
  <2> QED BY <1>3, <1>4, <1>5, <1>6, <2>1 DEF ListType
<1>8. ASSUME NEW x \in q.there \ q.shown
      PROVE  /\ q.at # "answered"
             /\ q.offset <= Cardinality(Newer(x))
             /\ q.at = "turn" => q.offset + PageSize <= Cardinality(Newer(x))
  <2>1. /\ x \in rows /\ x \notin Queries!ToSet(p)
        /\ query.offset <= Cardinality(Newer(x))
    BY <1>3, <1>5, <1>7 DEF ListHolds
  <2>2. query.offset + PageSize <= Cardinality(Newer(x)) /\ ~(Len(p) < PageSize)
    BY <1>1, <1>5, <2>1, PageShows
  <2> QED BY <1>2, <1>7, <2>1, <2>2
<1>9. ListHolds(q)
  BY <1>5, <1>7, <1>8 DEF ListHolds
<1> QED BY <1>1, <1>4, <1>9, ReadStep DEF QueryHolds

LEMMA TurnPageStep == ASSUME QueryInv, Queries!TurnPage PROVE QueryInv'
<1>1. PICK q, n : q = query' /\ n = query.offset + PageSize
  OBVIOUS
<1>2. /\ query.kind = "list" /\ query.at = "turn"
      /\ q = [[query EXCEPT !.offset = query.offset + PageSize] EXCEPT !.at = "count"]
      /\ UNCHANGED <<committed, rows>>
  BY <1>1 DEF Queries!TurnPage, Queries!Statement
<1>3. query \in ListType /\ ListHolds(query) /\ n \in Nat
  BY <1>1, <1>2, KindTells, QueriesConstants DEF QueryInv, ListHolds, ListType
<1>4. /\ q \in ListType /\ q.at = "count" /\ q.there = query.there /\ q.shown = query.shown
      /\ q.offset = n
  BY <1>1, <1>2, <1>3 DEF ListType
<1>5. ListHolds(q)
  BY <1>1, <1>2, <1>3, <1>4 DEF ListHolds
<1> QED BY <1>1, <1>2, <1>5, ReadStep DEF QueryHolds

LEMMA AnswerStep == ASSUME QueryInv, Queries!Answer PROVE QueryInv'
<1>1. query' = [kind |-> "none"] /\ UNCHANGED <<committed, rows>>
  BY DEF Queries!Answer, Queries!Idle
<1> QED BY <1>1, ReadStep DEF QueryHolds

LEMMA QueryInit == Queries!Init => QueryInv
<1> SUFFICES ASSUME Queries!Init PROVE QueryInv
  OBVIOUS
<1>1. PICK f : f = [step |-> "off", filled |-> 0, booked |-> 0, event |-> None]
  OBVIOUS
<1>2. DOMAIN committed = Queries!Runs /\ (\A r \in Queries!Runs : committed[r] = f) /\ rows = {}
  BY <1>1 DEF Queries!Init
<1>3. FactsHold(f)
  BY <1>1, QueriesConstants DEF FactsHold, FactType, Events
<1>4. TablesHold
  BY <1>2, <1>3 DEF TablesHold, OneRowEach
<1>5. query = [kind |-> "none"]
  BY DEF Queries!Init, Queries!Idle
<1> QED BY <1>4, <1>5 DEF QueryInv, QueryHolds

LEMMA QueryStep == QueryInv /\ [Queries!Next]_queryVars => QueryInv'
<1> SUFFICES ASSUME QueryInv, [Queries!Next]_queryVars PROVE QueryInv'
  OBVIOUS
<1>1. ASSUME NEW r \in Queries!Runs, OfARun(r) PROVE QueryInv'
  BY <1>1, RunMoves, StaysRead DEF QueryInv
<1>2. CASE Queries!Overview
  BY <1>2, OverviewStarts
<1>3. CASE Queries!ReadTotals
  BY <1>3, TotalsStep
<1>4. CASE Queries!ReadScenarios
  BY <1>4, ScenariosStep
<1>5. CASE Queries!ReadRecent
  BY <1>5, RecentStep
<1>6. CASE Queries!ReadCurve
  BY <1>6, CurveStep
<1>7. CASE Queries!ReadRidge
  BY <1>7, RidgeStep
<1>8. CASE Queries!ReadEvents
  BY <1>8, EventsStep
<1>9. CASE Queries!ReadFlow
  BY <1>9, FlowStep
<1>10. CASE Queries!Detail
  BY <1>10, DetailStarts
<1>11. CASE Queries!ReadIntents
  BY <1>11, IntentsStep
<1>12. CASE Queries!ReadTrades
  BY <1>12, TradesStep
<1>13. CASE Queries!ReadRunEvents
  BY <1>13, RunEventsStep
<1>14. CASE Queries!ReadBalances
  BY <1>14, BalancesStep
<1>15. CASE Queries!List
  BY <1>15, ListStarts
<1>16. CASE Queries!CountRuns
  BY <1>16, CountRunsStep
<1>17. CASE Queries!ReadPage
  BY <1>17, ReadPageStep
<1>18. CASE Queries!TurnPage
  BY <1>18, TurnPageStep
<1>19. CASE Queries!Answer
  BY <1>19, AnswerStep
<1>20. CASE UNCHANGED queryVars
  <2>1. UNCHANGED <<committed, rows>> /\ query' = query
    BY <1>20 DEF queryVars
  <2> QED BY <2>1, ReadStep DEF QueryInv
<1>21. CASE \E r \in Queries!Runs : OfARun(r)
  BY <1>1, <1>21
<1> QED BY <1>2, <1>3, <1>4, <1>5, <1>6, <1>7, <1>8, <1>9, <1>10, <1>11, <1>12, <1>13, <1>14,
           <1>15, <1>16, <1>17, <1>18, <1>19, <1>20, <1>21 DEF Queries!Next, OfARun

LEMMA QueryPromise == QueryInv => Queries!AnswersHold
<1> SUFFICES ASSUME QueryInv PROVE Queries!AnswersHold
  OBVIOUS
<1>1. Queries!DetailExplained
  <2>1. CASE Queries!Answered("detail")
    <3>1. DetailHolds(query) /\ query.at = "answered"
      BY <2>1, KindTells DEF QueryInv, Queries!Answered
    <3> QED BY <3>1 DEF Queries!DetailExplained, DetailHolds
  <2> QED BY <2>1 DEF Queries!DetailExplained
<1>2. Queries!OverviewOnlyGrows /\ Queries!RidgeIsWhole
  <2>1. CASE Queries!Answered("overview")
    <3>1. OverviewHolds(query) /\ query.at = "answered"
      BY <2>1, KindTells DEF QueryInv, Queries!Answered
    <3>2. /\ TotalsRead(query) /\ ScenariosRead(query) /\ RecentRead(query)
          /\ query.scenarios <= query.curve /\ RidgeRead(query) /\ FlowRead(query)
      BY <3>1 DEF OverviewHolds
    <3>3. query.success <= Queries!Cardinality(UNION {Queries!ToSet(b) : b \in Queries!ToSet(query.ridge)})
      BY <3>2, QueriesCardinality DEF RidgeRead, Within
    <3>4. Queries!OverviewOnlyGrows
      BY <3>2, <3>3 DEF Queries!OverviewOnlyGrows, ScenariosRead, RecentRead, FlowRead
    <3>5. Queries!RidgeIsWhole
      BY <3>2 DEF RidgeRead, Merged, Queries!RidgeIsWhole
    <3> QED BY <3>4, <3>5
  <2> QED BY <2>1 DEF Queries!OverviewOnlyGrows, Queries!RidgeIsWhole
<1>3. Queries!PagesShowAll
  <2>1. CASE Queries!Answered("list")
    <3>1. ListHolds(query) /\ query.at = "answered"
      BY <2>1, KindTells DEF QueryInv, Queries!Answered
    <3> QED BY <3>1 DEF Queries!PagesShowAll, ListHolds
  <2> QED BY <2>1 DEF Queries!PagesShowAll
<1> QED BY <1>1, <1>2, <1>3 DEF Queries!AnswersHold

LEMMA QueryAlways == Spec => [](part = "query" => QueryInv)
<1> DEFINE Inv == part = "query" => QueryInv
<1>1. Init => Inv
  BY QueryInit DEF Init
<1>2. Inv /\ [Next]_vars => Inv'
  <2> SUFFICES ASSUME Inv, [Next]_vars, part' = "query" PROVE QueryInv'
    OBVIOUS
  <2>1. part = "query" /\ QueryInv
    BY DEF Next, vars, OfScan, OfArchive, OfLeg, OfRun, OfQuery
  <2>2. [Queries!Next]_queryVars
    BY <2>1 DEF Next, vars, queryVars, OfScan, OfArchive, OfLeg, OfRun, OfQuery
  <2> QED BY <2>1, <2>2, QueryStep
<1> QED BY <1>1, <1>2, PTL DEF Spec

\* An answer to a query states what is in the tables: what a shown run states is
\* reserved, decided and booked, the parts of an overview never shrink from one statement
\* to the next, the ridge is in time order and only its oldest bucket is sparse, and
\* turning the pages shows every run that was there: for every number of runs, size of a
\* page and length of a day, and whatever the runs commit between two statements.
THEOREM AnswersAlwaysHold == Spec => []AnswersHold
<1>1. (part = "query" => QueryInv) => AnswersHold
  BY QueryPromise DEF AnswersHold
<1> QED BY <1>1, QueryAlways, PTL
=============================================================================
