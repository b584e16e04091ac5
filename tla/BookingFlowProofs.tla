------------------------- MODULE BookingFlowProofs --------------------------
(***************************************************************************)
(* The booking flow for every instance: its draws are fair, its search     *)
(* selects the best stay that was offered, and its steps are steps of      *)
(* GuestJourney.                                                           *)
(*                                                                         *)
(* The invariant is FInv.  That the selected stay is the best needs, while *)
(* the answers still come in, that the candidates so far are sound and     *)
(* complete for the answers so far (Collected).  That a step is one of the *)
(* journey needs that a search runs only within SelectPeriod and only over *)
(* cottages that are still listed (Searching).  Both rest on lemmas about  *)
(* the algorithms: the sums of PickRandomWeighted, a recursion whose       *)
(* function is shown to exist, and the minima of the search, all by least  *)
(* counterexamples.                                                        *)
(***************************************************************************)
EXTENDS BookingFlow, FiniteSetTheorems, WellFoundedInduction, TLAPS
-----------------------------------------------------------------------------
\* A set of numbers that is not empty has a least element.
LEMMA Least ==
  ASSUME NEW T, T \subseteq Nat, T # {}
  PROVE  \E x \in T : \A y \in T : x <= y
<1> DEFINE R == OpToRel(<, Nat)
<1>1. IsWellFoundedOn(R, Nat)
  BY NatLessThanWellFounded, Zenon
<1>2. \A x, y \in Nat : x < y => <<x, y>> \in R
  BY DEF OpToRel
<1> HIDE DEF R
<1>3. PICK x \in T : \A y \in T : ~(<<y, x>> \in R)
  BY <1>1, WFMin, Zenon
<1>4. ASSUME NEW y \in T PROVE x <= y
  <2>1. x \in Nat /\ y \in Nat
    OBVIOUS
  <2>2. ~(y < x)
    BY <1>2, <1>3, <2>1, Zenon
  <2> QED
    BY <2>1, <2>2
<1> QED
  BY <1>4

\* Min and Max of the community modules, where they are used.
LEMMA MinOfNat ==
  ASSUME NEW T, T \subseteq Nat, T # {}
  PROVE  Min(T) \in T /\ \A y \in T : Min(T) <= y
<1>1. \E x \in T : \A y \in T : x <= y
  BY Least, Zenon
<1> QED
  BY <1>1, Zenon DEF Min

LEMMA MaxOfTwo ==
  ASSUME NEW a \in Int, NEW b \in Int
  PROVE  Max({a, b}) = IF a >= b THEN a ELSE b
<1> DEFINE m == IF a >= b THEN a ELSE b
<1>1. m \in {a, b} /\ \A y \in {a, b} : m >= y
  OBVIOUS
<1>2. Max({a, b}) \in {a, b} /\ \A y \in {a, b} : Max({a, b}) >= y
  <2> HIDE DEF m
  <2> QED
    BY <1>1, Zenon DEF Max
<1> HIDE DEF m
<1>3. m >= Max({a, b}) /\ Max({a, b}) >= m
  BY <1>1, <1>2, Zenon
<1>4. m \in Int /\ Max({a, b}) \in Int
  BY <1>1, <1>2
<1> QED
  BY <1>3, <1>4 DEF m

\* The items of a weighted list.
LEMMA Items ==
  ASSUME NEW V, NEW list \in Seq([value : V, weight : Int])
  PROVE  /\ Len(list) \in Nat /\ DOMAIN list = 1..Len(list)
         /\ \A i \in DOMAIN list : list[i].value \in V /\ list[i].weight \in Int
<1> DEFINE R == [value : V, weight : Int]
<1>1. \A r \in R : r.value \in V /\ r.weight \in Int
  OBVIOUS
<1> HIDE DEF R
<1>2. list \in Seq(R)
  BY DEF R
<1>3. Len(list) \in Nat /\ DOMAIN list = 1..Len(list)
  BY <1>2
<1>4. \A i \in DOMAIN list : list[i] \in R
  BY <1>2
<1> QED
  BY <1>1, <1>3, <1>4

\* What an item takes off the draw.
Gain(list, j) == IF list[j].weight > 0 THEN list[j].weight ELSE 0

\* The recursion of Upto defines a function: approximations exist up to every
\* index of the list.
LEMMA UptoDef ==
  ASSUME NEW list, Len(list) \in Nat
  PROVE  /\ Upto(list, 0) = 0
         /\ \A j \in 1..Len(list) : Upto(list, j) = Upto(list, j - 1) + Gain(list, j)
<1> DEFINE N == Len(list)
           Adds(g, n) == g = [j \in 0..n |-> IF j = 0 THEN 0 ELSE g[j - 1] + Gain(list, j)]
           T == {n \in 0..N : ~ \E g : Adds(g, n)}
<1>1. ASSUME T # {} PROVE FALSE
  <2>1. T \subseteq Nat
    OBVIOUS
  <2>2. PICK n \in T : \A m \in T : n <= m
    <3> HIDE DEF T
    <3> QED
      BY <1>1, <2>1, Least, Zenon
  <2>3. n # 0
    <3>1. Adds([j \in 0..0 |-> 0], 0)
      OBVIOUS
    <3> HIDE DEF Adds
    <3> QED
      BY <2>2, <3>1
  <2>4. n - 1 \in 0..N /\ n - 1 \notin T
    <3>1. n \in 0..N
      OBVIOUS
    <3> HIDE DEF T
    <3> QED
      BY <2>2, <2>3, <3>1
  <2>5. PICK h : Adds(h, n - 1)
    <3> HIDE DEF Adds
    <3> QED
      BY <2>4
  <2> DEFINE g == [j \in 0..n |-> IF j = n THEN h[n - 1] + Gain(list, n) ELSE h[j]]
  <2>6. n \in Nat \ {0}
    BY <2>3
  <2>7. ASSUME NEW j \in 0..n
        PROVE  g[j] = IF j = 0 THEN 0 ELSE g[j - 1] + Gain(list, j)
    <3>1. CASE j = n
      BY <3>1, <2>6
    <3>2. CASE j # n
      <4>1. j \in 0..(n - 1)
        BY <3>2, <2>6
      <4>2. h[j] = IF j = 0 THEN 0 ELSE h[j - 1] + Gain(list, j)
        BY <4>1, <2>5, Zenon
      <4>3. g[j] = h[j] /\ (j # 0 => g[j - 1] = h[j - 1])
        BY <4>1, <3>2, <2>6
      <4> QED
        BY <4>2, <4>3
    <3> QED
      BY <3>1, <3>2
  <2>8. Adds(g, n)
    <3>1. g = [j \in 0..n |-> g[j]]
      OBVIOUS
    <3> HIDE DEF g
    <3> QED
      BY <2>7, <3>1, Zenon
  <2> HIDE DEF Adds, g
  <2> QED
    BY <2>8
<1>2. \E g : Adds(g, N)
  <2>1. N \in 0..N
    OBVIOUS
  <2> HIDE DEF Adds, N
  <2> QED
    BY <1>1, <2>1
<1> DEFINE upto == CHOOSE g : Adds(g, N)
<1>3. Adds(upto, N)
  <2> HIDE DEF Adds
  <2> QED
    BY <1>2, Zenon
<1>4. ASSUME NEW i PROVE Upto(list, i) = upto[i]
  BY Zenon DEF Upto, Gain
<1> HIDE DEF upto
<1>5. upto[0] = 0
  BY <1>3
<1>6. ASSUME NEW j \in 1..N PROVE upto[j] = upto[j - 1] + Gain(list, j)
  <2>1. j \in 0..N /\ j # 0
    OBVIOUS
  <2>2. upto[j] = IF j = 0 THEN 0 ELSE upto[j - 1] + Gain(list, j)
    BY <2>1, <1>3, Zenon
  <2> QED
    BY <2>1, <2>2
<1> QED
  BY <1>4, <1>5, <1>6

\* What the loop subtracts never shrinks.
LEMMA UptoGrows ==
  ASSUME NEW V, NEW list \in Seq([value : V, weight : Int])
  PROVE  /\ \A j \in 0..Len(list) : Upto(list, j) \in Nat
         /\ \A i, j \in 0..Len(list) : i <= j => Upto(list, i) <= Upto(list, j)
<1> DEFINE N == Len(list)
<1>1. N \in Nat
  OBVIOUS
<1>2. ASSUME NEW j \in 1..N PROVE Gain(list, j) \in Nat
  <2>1. list[j].weight \in Int
    BY Items
  <2> QED
    BY <2>1 DEF Gain
<1>3. Upto(list, 0) = 0 /\ \A j \in 1..N : Upto(list, j) = Upto(list, j - 1) + Gain(list, j)
  BY <1>1, UptoDef
<1> HIDE DEF N
<1>4. ASSUME NEW j \in 0..N PROVE Upto(list, j) \in Nat
  <2> DEFINE T == {k \in 0..N : Upto(list, k) \notin Nat}
  <2>1. ASSUME T # {} PROVE FALSE
    <3>1. PICK k \in T : \A m \in T : k <= m
      <4>1. T \subseteq Nat
        OBVIOUS
      <4> HIDE DEF T
      <4> QED
        BY <2>1, <4>1, Least, Zenon
    <3>2. k \in 1..N
      BY <1>3
    <3>3. k - 1 \in 0..N /\ ~(k <= k - 1)
      BY <3>2, <1>1
    <3>4. k - 1 \notin T
      <4> HIDE DEF T
      <4> QED
        BY <3>1, <3>3
    <3>5. Upto(list, k - 1) \in Nat
      BY <3>3, <3>4
    <3> QED
      BY <3>2, <3>5, <1>2, <1>3
  <2> QED
    BY <2>1
<1>5. ASSUME NEW i \in 0..N, NEW j \in 0..N, i <= j
      PROVE  Upto(list, i) <= Upto(list, j)
  <2> DEFINE T == {k \in i..N : ~(Upto(list, i) <= Upto(list, k))}
  <2>1. ASSUME T # {} PROVE FALSE
    <3>1. PICK k \in T : \A m \in T : k <= m
      <4>1. T \subseteq Nat
        OBVIOUS
      <4> HIDE DEF T
      <4> QED
        BY <2>1, <4>1, Least, Zenon
    <3>2. k \in 1..N /\ k # i
      BY <1>1, <1>4
    <3>3. k - 1 \in i..N /\ k - 1 \in 0..N /\ ~(k <= k - 1)
      BY <3>2, <1>1
    <3>4. k - 1 \notin T
      <4> HIDE DEF T
      <4> QED
        BY <3>1, <3>3
    <3>5. Upto(list, i) <= Upto(list, k - 1)
      BY <3>3, <3>4
    <3>6. Upto(list, i) \in Nat /\ Upto(list, k - 1) \in Nat
      BY <3>3, <1>4
    <3> QED
      BY <3>2, <3>5, <3>6, <1>2, <1>3
  <2> QED
    BY <2>1, <1>1, <1>5
<1> QED
  BY <1>4, <1>5 DEF N

\* A draw above zero falls into the part of exactly one item, which has weight.
LEMMA DrawnItem ==
  ASSUME NEW V, NEW list \in Seq([value : V, weight : Int]),
         NEW t \in 1..Upto(list, Len(list))
  PROVE  \E k \in Positive(list) :
           /\ Upto(list, k - 1) < t /\ t <= Upto(list, k)
           /\ PickRandomWeighted(list, t) = list[k].value
<1> DEFINE N == Len(list)
           T == {i \in 0..N : t <= Upto(list, i)}
           hit == {i \in Positive(list) : t <= Upto(list, i)}
<1>1. N \in Nat /\ Positive(list) \subseteq 1..N
  BY DEF Positive
<1>2. /\ Upto(list, 0) = 0
      /\ \A j \in 1..N : Upto(list, j) = Upto(list, j - 1) + Gain(list, j)
      /\ \A j \in 0..N : Upto(list, j) \in Nat
  BY <1>1, UptoDef, UptoGrows, Zenon
<1>3. PICK k \in T : \A m \in T : k <= m
  <2>1. T \subseteq Nat /\ N \in T
    BY <1>1, <1>2
  <2> HIDE DEF T
  <2> QED
    BY <2>1, Least, Zenon
<1>4. k \in 1..N
  BY <1>1, <1>2
<1>5. Upto(list, k - 1) < t
  <2>1. k - 1 \in 0..N /\ ~(k <= k - 1)
    BY <1>1, <1>4
  <2>2. k - 1 \notin T
    <3> HIDE DEF T
    <3> QED
      BY <1>3, <2>1
  <2>3. Upto(list, k - 1) \in Nat
    BY <2>1, <1>2
  <2> QED
    BY <2>1, <2>2, <2>3
<1>6. k \in hit
  <2>1. k \in 0..N /\ k - 1 \in 0..N
    BY <1>1, <1>4
  <2>2. Upto(list, k - 1) \in Nat /\ Upto(list, k) \in Nat /\ t <= Upto(list, k)
    BY <2>1, <1>2
  <2>3. Upto(list, k) = Upto(list, k - 1) + Gain(list, k)
    BY <1>2, <1>4
  <2>4. Gain(list, k) # 0
    BY <1>5, <2>2, <2>3
  <2>5. list[k].weight > 0
    BY <2>4 DEF Gain
  <2> QED
    BY <2>2, <2>5, <1>4 DEF Positive
<1>7. Min(hit) \in hit /\ Min(hit) <= k
  <2>1. hit \subseteq Nat
    BY <1>1
  <2> HIDE DEF hit
  <2> QED
    BY <1>6, <2>1, MinOfNat, Zenon
<1>8. Min(hit) \in T
  BY <1>1, <1>7
<1>9. Min(hit) = k
  <2> HIDE DEF hit
  <2>1. k <= Min(hit)
    BY <1>3, <1>8
  <2>2. Min(hit) \in Nat /\ k \in Nat
    BY <1>4, <1>8
  <2> QED
    BY <1>7, <2>1, <2>2
<1>10. PickRandomWeighted(list, t) = list[k].value
  <2>1. PickRandomWeighted(list, t) = list[IF hit = {} THEN Len(list) ELSE Min(hit)].value
    BY Zenon DEF PickRandomWeighted
  <2> HIDE DEF hit
  <2> QED
    BY <1>6, <1>9, <2>1
<1> QED
  BY <1>5, <1>6, <1>10

\* So does a draw of zero when any item has weight.
LEMMA ZeroDraw ==
  ASSUME NEW V, NEW list \in Seq([value : V, weight : Int]), Positive(list) # {}
  PROVE  \E k \in Positive(list) : PickRandomWeighted(list, 0) = list[k].value
<1> DEFINE hit == {i \in Positive(list) : 0 <= Upto(list, i)}
<1>1. Positive(list) \subseteq 1..Len(list)
  BY DEF Positive
<1>2. hit = Positive(list)
  <2>1. ASSUME NEW i \in 1..Len(list) PROVE 0 <= Upto(list, i)
    <3>1. i \in 0..Len(list)
      OBVIOUS
    <3>2. Upto(list, i) \in Nat
      BY <3>1, UptoGrows, Zenon
    <3> QED
      BY <3>2
  <2> QED
    BY <1>1, <2>1
<1>3. PickRandomWeighted(list, 0) = list[IF hit = {} THEN Len(list) ELSE Min(hit)].value
  BY Zenon DEF PickRandomWeighted
<1>4. Min(Positive(list)) \in Positive(list)
  <2>1. Positive(list) \subseteq Nat
    BY <1>1
  <2> QED
    BY <2>1, MinOfNat
<1> HIDE DEF hit
<1> QED
  BY <1>2, <1>3, <1>4

\* Without any weight the loop runs through and the last item is returned.
LEMMA NoWeight ==
  ASSUME NEW V, NEW list \in Seq([value : V, weight : Int]), Positive(list) = {}
  PROVE  Draws(list) = {0} /\ PickRandomWeighted(list, 0) = list[Len(list)].value
<1> DEFINE N == Len(list)
           T == {k \in 0..N : Upto(list, k) # 0}
<1>1. N \in Nat
  OBVIOUS
<1>2. \A j \in 1..N : Gain(list, j) = 0
  BY DEF Gain, Positive
<1>3. Upto(list, 0) = 0 /\ \A j \in 1..N : Upto(list, j) = Upto(list, j - 1) + Gain(list, j)
  BY <1>1, UptoDef
<1>4. ASSUME T # {} PROVE FALSE
  <2>1. PICK k \in T : \A m \in T : k <= m
    <3>1. T \subseteq Nat
      OBVIOUS
    <3> HIDE DEF T
    <3> QED
      BY <1>4, <3>1, Least, Zenon
  <2>2. k \in 1..N
    BY <1>3
  <2>3. k - 1 \in 0..N /\ ~(k <= k - 1)
    BY <2>2, <1>1
  <2>4. k - 1 \notin T
    <3> HIDE DEF T
    <3> QED
      BY <2>1, <2>3
  <2>5. Upto(list, k - 1) = 0
    BY <2>3, <2>4
  <2> QED
    BY <2>2, <2>5, <1>2, <1>3
<1>5. Upto(list, N) = 0
  BY <1>1, <1>4
<1>6. Draws(list) = {0}
  BY <1>5 DEF Draws
<1> QED
  BY <1>6 DEF PickRandomWeighted

\* The draws that pick an item are as many numbers in a row as it has weight.
LEMMA Shares ==
  ASSUME NEW V, NEW list \in Seq([value : V, weight : Int]),
         \A i, j \in DOMAIN list : list[i].value = list[j].value => i = j,
         NEW i \in DOMAIN list
  PROVE  {t \in Draws(list) \ {0} : PickRandomWeighted(list, t) = list[i].value}
           = (Upto(list, i - 1) + 1)..Upto(list, i)
<1> DEFINE N == Len(list)
           S == {t \in Draws(list) \ {0} : PickRandomWeighted(list, t) = list[i].value}
<1>1. N \in Nat /\ i \in 1..N /\ Positive(list) \subseteq 1..N
  BY DEF Positive
<1>2. /\ \A j \in 0..N : Upto(list, j) \in Nat
      /\ \A j, k \in 0..N : j <= k => Upto(list, j) <= Upto(list, k)
  BY UptoGrows, Zenon
<1>3. Draws(list) \ {0} = 1..Upto(list, N)
  <2>1. Upto(list, N) \in Nat
    BY <1>1, <1>2
  <2> QED
    BY <2>1 DEF Draws
<1>4. i - 1 \in 0..N /\ i \in 0..N /\ N \in 0..N /\ i <= N
  BY <1>1
<1>5. Upto(list, i - 1) \in Nat /\ Upto(list, i) \in Nat /\ Upto(list, N) \in Nat
  BY <1>2, <1>4
<1>6. Upto(list, i) <= Upto(list, N)
  BY <1>2, <1>4
<1>7. ASSUME NEW t \in S PROVE t \in (Upto(list, i - 1) + 1)..Upto(list, i)
  <2>1. t \in 1..Upto(list, N) /\ PickRandomWeighted(list, t) = list[i].value
    BY <1>3
  <2>2. PICK k \in Positive(list) :
          /\ Upto(list, k - 1) < t /\ t <= Upto(list, k)
          /\ PickRandomWeighted(list, t) = list[k].value
    BY <2>1, DrawnItem, Zenon
  <2>3. k \in DOMAIN list
    BY DEF Positive
  <2>4. k = i
    BY <2>1, <2>2, <2>3, Zenon
  <2> QED
    BY <2>1, <2>2, <2>4, <1>5
<1>8. ASSUME NEW t \in (Upto(list, i - 1) + 1)..Upto(list, i) PROVE t \in S
  <2>1. t \in 1..Upto(list, N) /\ Upto(list, i - 1) < t /\ t <= Upto(list, i)
    BY <1>5, <1>6
  <2>2. PICK k \in Positive(list) :
          /\ Upto(list, k - 1) < t /\ t <= Upto(list, k)
          /\ PickRandomWeighted(list, t) = list[k].value
    BY <2>1, DrawnItem, Zenon
  <2>3. k \in 1..N
    BY <1>1
  <2>4. k \in 0..N /\ k - 1 \in 0..N
    BY <2>3, <1>1
  <2>5. Upto(list, k) \in Nat /\ Upto(list, k - 1) \in Nat
    BY <2>4, <1>2, SMTT(60)
  <2>6. ~(k <= i - 1)
    <3>1. k <= i - 1 => Upto(list, k) <= Upto(list, i - 1)
      BY <2>4, <1>2, <1>4
    <3> QED
      BY <3>1, <2>1, <2>2, <2>5, <1>5
  <2>7. ~(i <= k - 1)
    <3>1. i <= k - 1 => Upto(list, i) <= Upto(list, k - 1)
      BY <2>4, <1>2, <1>4, SMTT(60)
    <3> QED
      BY <3>1, <2>1, <2>2, <2>5, <1>5
  <2>8. k = i
    BY <2>3, <2>6, <2>7, <1>1
  <2> QED
    BY <2>1, <2>2, <2>8, <1>3
<1> HIDE DEF S
<1>9. S = (Upto(list, i - 1) + 1)..Upto(list, i)
  BY <1>7, <1>8, Zenon
<1> QED
  BY <1>9 DEF S

\* An item that is picked has weight, if any item has.
LEMMA PickedHasWeight ==
  ASSUME NEW V, NEW list \in Seq([value : V, weight : Int]), Positive(list) # {},
         NEW v \in Picks(list)
  PROVE  \E k \in Positive(list) : v = list[k].value
<1>1. PICK t \in Draws(list) : v = PickRandomWeighted(list, t)
  BY DEF Picks
<1>2. Upto(list, Len(list)) \in Nat
  <2>1. Len(list) \in 0..Len(list)
    OBVIOUS
  <2> QED
    BY <2>1, UptoGrows, Zenon
<1>3. t = 0 \/ t \in 1..Upto(list, Len(list))
  BY <1>2 DEF Draws
<1>4. CASE t = 0
  BY <1>1, <1>4, ZeroDraw, Zenon
<1>5. CASE t \in 1..Upto(list, Len(list))
  BY <1>1, <1>5, DrawnItem, Zenon
<1> QED
  BY <1>3, <1>4, <1>5

\* Nothing is picked that is not listed.
LEMMA PicksListed ==
  ASSUME NEW V, NEW list \in Seq([value : V, weight : Int]), list # <<>>
  PROVE  Picks(list) \subseteq V
<1> SUFFICES ASSUME NEW v \in Picks(list) PROVE v \in V
  OBVIOUS
<1>1. CASE Positive(list) # {}
  <2>1. PICK k \in Positive(list) : v = list[k].value
    BY <1>1, PickedHasWeight, Zenon
  <2> QED
    BY <2>1, Items DEF Positive
<1>2. CASE Positive(list) = {}
  <2>1. Draws(list) = {0} /\ PickRandomWeighted(list, 0) = list[Len(list)].value
    BY <1>2, NoWeight, Zenon
  <2>2. v = list[Len(list)].value
    BY <2>1 DEF Picks
  <2>3. Len(list) \in DOMAIN list
    OBVIOUS
  <2> QED
    BY <2>2, <2>3, Items
<1> QED
  BY <1>1, <1>2

\* PickRandomWeighted is fair on every list that has no value twice.
LEMMA FairList ==
  ASSUME NEW V, NEW list \in Seq([value : V, weight : Int]), list # <<>>,
         \A i, j \in DOMAIN list : list[i].value = list[j].value => i = j
  PROVE  IF Positive(list) = {} THEN Picks(list) = {list[Len(list)].value}
         ELSE \A i \in DOMAIN list :
                /\ Cardinality({t \in Draws(list) \ {0} :
                                  PickRandomWeighted(list, t) = list[i].value})
                     = Max({list[i].weight, 0})
                /\ list[i].value \in Picks(list) => list[i].weight > 0
<1>1. CASE Positive(list) = {}
  <2>1. Draws(list) = {0} /\ PickRandomWeighted(list, 0) = list[Len(list)].value
    BY <1>1, NoWeight, Zenon
  <2>2. Picks(list) = {list[Len(list)].value}
    BY <2>1 DEF Picks
  <2> QED
    BY <1>1, <2>2
<1>2. CASE Positive(list) # {}
  <2>1. ASSUME NEW i \in DOMAIN list
        PROVE  Cardinality({t \in Draws(list) \ {0} :
                              PickRandomWeighted(list, t) = list[i].value})
                 = Max({list[i].weight, 0})
    <3> DEFINE a == Upto(list, i - 1)
               b == Upto(list, i)
    <3>1. i \in 1..Len(list) /\ list[i].weight \in Int
      BY Items
    <3>2. i - 1 \in 0..Len(list) /\ i \in 0..Len(list)
      BY <3>1
    <3>3. a \in Nat /\ b \in Nat
      BY <3>2, UptoGrows, Zenon
    <3>4. b = a + Gain(list, i)
      BY <3>1, UptoDef
    <3>5. {t \in Draws(list) \ {0} : PickRandomWeighted(list, t) = list[i].value}
            = (a + 1)..b
      BY Shares, Zenon
    <3> HIDE DEF a, b
    <3>6. Cardinality((a + 1)..b) = IF a + 1 > b THEN 0 ELSE b - (a + 1) + 1
      <4>1. a + 1 \in Int /\ b \in Int
        BY <3>3
      <4> QED
        BY <4>1, FS_Interval, Zenon
    <3>7. Max({list[i].weight, 0}) = IF list[i].weight >= 0 THEN list[i].weight ELSE 0
      BY <3>1, MaxOfTwo
    <3>8. Cardinality((a + 1)..b) = Max({list[i].weight, 0})
      <4>1. CASE list[i].weight > 0
        <5>1. b = a + list[i].weight
          BY <3>4, <4>1 DEF Gain
        <5> QED
          BY <3>1, <3>3, <3>6, <3>7, <4>1, <5>1, SMTT(60)
      <4>2. CASE ~(list[i].weight > 0)
        <5>1. b = a + 0
          BY <3>4, <4>2 DEF Gain
        <5>2. Cardinality((a + 1)..b) = 0
          BY <3>3, <3>6, <5>1
        <5> QED
          BY <3>1, <3>7, <4>2, <5>2
      <4> QED
        BY <4>1, <4>2
    <3> QED
      BY <3>5, <3>8, Zenon
  <2>2. ASSUME NEW i \in DOMAIN list, list[i].value \in Picks(list)
        PROVE  list[i].weight > 0
    <3>1. PICK k \in Positive(list) : list[i].value = list[k].value
      BY <1>2, <2>2, PickedHasWeight, Zenon
    <3>2. k \in DOMAIN list /\ list[k].weight > 0
      BY DEF Positive
    <3>3. k = i
      BY <3>1, <3>2, Zenon
    <3> QED
      BY <3>2, <3>3
  <2> QED
    BY <1>2, <2>1, <2>2
<1> QED
  BY <1>1, <1>2, SMTT(60)
-----------------------------------------------------------------------------
\* What the service offers, and what a guest may book.
Periods == [start : Int, end : Int]
Stays == [cottage : Cottages, start : Nat, nights : numberOfNights]

\* The stay s lies, by dates, within what the answer o offers.
Within(now, o, s) ==
  /\ s \in Stays /\ s.cottage = o[1]
  /\ searchStart(now) <= s.start /\ startOfUTCDay(o[2].start) <= s.start
  /\ s.start + s.nights <= startOfUTCDay(o[2].end)

\* Dates are numbers, and the search begins at a date from the epoch on.
LEMMA Days ==
  ASSUME NEW t \in Int
  PROVE  startOfUTCDay(t) \in Int /\ (t \in Nat => searchStart(t) \in Nat)
<1>1. HoursPerDay \in Nat \ {0} /\ minSearchLeadDays \in Nat
  BY BookingAssumption
<1>2. t \div HoursPerDay \in Int /\ (t \in Nat => t \div HoursPerDay \in Nat)
  BY <1>1
<1> QED
  BY <1>1, <1>2 DEF startOfUTCDay, searchStart

\* candidateStart is the first date that is neither before the period nor before
\* the lead time.
LEMMA StartFacts ==
  ASSUME NEW now \in Nat, NEW p \in Periods
  PROVE  /\ candidateStart(now, p) \in Nat
         /\ searchStart(now) <= candidateStart(now, p)
         /\ startOfUTCDay(p.start) <= candidateStart(now, p)
         /\ \A d \in Int : searchStart(now) <= d /\ startOfUTCDay(p.start) <= d
                             => candidateStart(now, p) <= d
<1>1. p.start \in Int
  BY DEF Periods
<1>2. startOfUTCDay(p.start) \in Int /\ searchStart(now) \in Nat
  BY <1>1, Days
<1>3. candidateStart(now, p) = IF startOfUTCDay(p.start) >= searchStart(now)
                               THEN startOfUTCDay(p.start) ELSE searchStart(now)
  BY <1>2, MaxOfTwo DEF candidateStart
<1> QED
  BY <1>2, <1>3

\* What the service answers are periods.
LEMMA Offered ==
  ASSUME NEW ps \in Answers
  PROVE  Range(ps) \subseteq Periods
<1>1. ps \in Seq(Periods)
  BY BookingAssumption DEF Periods
<1> QED
  BY <1>1 DEF Range

\* pickNearestSuitablePeriod: the start is that of a period that fits, and no
\* period that fits starts earlier.
LEMMA NearestFacts ==
  ASSUME NEW now \in Nat, NEW ps \in Answers, NEW n \in Nat
  PROVE  /\ \A s \in pickNearestSuitablePeriod(now, ps, n) :
              \E p \in Range(ps) : Fits(now, p, n) /\ s = candidateStart(now, p)
         /\ \A p \in Range(ps) : Fits(now, p, n) =>
              \E s \in pickNearestSuitablePeriod(now, ps, n) : s <= candidateStart(now, p)
<1> DEFINE F == {q \in Range(ps) : Fits(now, q, n)}
           starts == {candidateStart(now, p) : p \in F}
<1>1. starts \subseteq Nat
  BY Offered, StartFacts
<1>2. pickNearestSuitablePeriod(now, ps, n) = IF starts = {} THEN {} ELSE {Min(starts)}
  BY Zenon DEF pickNearestSuitablePeriod
<1>3. \A s \in starts : \E p \in Range(ps) : Fits(now, p, n) /\ s = candidateStart(now, p)
  OBVIOUS
<1>4. \A p \in Range(ps) : Fits(now, p, n) => candidateStart(now, p) \in starts
  OBVIOUS
<1> HIDE DEF starts
<1>5. CASE starts = {}
  BY <1>2, <1>4, <1>5
<1>6. CASE starts # {}
  <2>1. Min(starts) \in starts /\ \A y \in starts : Min(starts) <= y
    BY <1>1, <1>6, MinOfNat, Zenon
  <2> QED
    BY <1>2, <1>3, <1>4, <1>6, <2>1
<1> QED
  BY <1>5, <1>6

\* bestOption: the shortest number of nights for which some period fits.
LEMMA OptionFacts ==
  ASSUME NEW now \in Nat, NEW ps \in Answers
  PROVE  /\ bestOption(now, ps) \subseteq numberOfNights
         /\ \A n \in numberOfNights : pickNearestSuitablePeriod(now, ps, n) # {} =>
              \E m \in bestOption(now, ps) : m <= n
         /\ bestOption(now, ps) = {} \/ \E m : bestOption(now, ps) = {m}
<1> DEFINE fit == {n \in numberOfNights : pickNearestSuitablePeriod(now, ps, n) # {}}
<1>1. fit \subseteq Nat /\ fit \subseteq numberOfNights
  BY BookingAssumption, Zenon
<1>2. bestOption(now, ps) = IF fit = {} THEN {} ELSE {Min(fit)}
  BY Zenon DEF bestOption
<1>3. \A n \in numberOfNights : pickNearestSuitablePeriod(now, ps, n) # {} => n \in fit
  OBVIOUS
<1> HIDE DEF fit
<1>4. CASE fit = {}
  BY <1>2, <1>3, <1>4
<1>5. CASE fit # {}
  <2>1. Min(fit) \in fit /\ \A y \in fit : Min(fit) <= y
    BY <1>1, <1>5, MinOfNat, Zenon
  <2> QED
    BY <1>1, <1>2, <1>3, <1>5, <2>1, Zenon
<1> QED
  BY <1>4, <1>5

\* A candidate lies within the answer it was made from,
LEMMA CandidatesSound ==
  ASSUME NEW now \in Nat, NEW ps \in Answers, NEW c \in Cottages,
         NEW x \in stayCandidates(c, now, ps)
  PROVE  \E p \in Range(ps) : Within(now, <<c, p>>, x)
<1>1. PICK n \in bestOption(now, ps) :
        \E s \in pickNearestSuitablePeriod(now, ps, n) :
          x = [cottage |-> c, start |-> s, nights |-> n]
  BY DEF stayCandidates
<1>2. PICK s \in pickNearestSuitablePeriod(now, ps, n) :
        x = [cottage |-> c, start |-> s, nights |-> n]
  BY <1>1
<1>3. n \in numberOfNights /\ n \in Nat
  BY OptionFacts, BookingAssumption, Zenon
<1>4. PICK p \in Range(ps) : Fits(now, p, n) /\ s = candidateStart(now, p)
  BY <1>3, NearestFacts
<1>5. p \in Periods
  BY Offered
<1>6. s \in Nat /\ searchStart(now) <= s /\ startOfUTCDay(p.start) <= s
  BY <1>4, <1>5, StartFacts
<1>7. x \in Stays /\ x.cottage = c /\ x.start = s /\ x.nights = n
  BY <1>2, <1>3, <1>6 DEF Stays
<1>8. <<c, p>>[1] = c /\ <<c, p>>[2] = p
  OBVIOUS
<1>9. s + n <= startOfUTCDay(p.end)
  BY <1>4 DEF Fits
<1> QED
  BY <1>6, <1>7, <1>8, <1>9 DEF Within

\* and no stay that the answer allows comes before it.
LEMMA CandidatesComplete ==
  ASSUME NEW now \in Nat, NEW ps \in Answers, NEW c \in Cottages,
         NEW p \in Range(ps), NEW s, Within(now, <<c, p>>, s)
  PROVE  \E x \in stayCandidates(c, now, ps) : ~Before(s, x)
<1>1. p \in Periods /\ p.end \in Int
  BY Offered DEF Periods
<1>2. s.start \in Nat /\ s.nights \in numberOfNights /\ s.nights \in Nat
  BY BookingAssumption, Zenon DEF Within, Stays
<1>3. /\ s.cottage = c /\ searchStart(now) <= s.start
      /\ startOfUTCDay(p.start) <= s.start
      /\ s.start + s.nights <= startOfUTCDay(p.end)
  <2>1. <<c, p>>[1] = c /\ <<c, p>>[2] = p
    OBVIOUS
  <2> QED
    BY <2>1 DEF Within
<1>4. candidateStart(now, p) \in Nat /\ candidateStart(now, p) <= s.start
  BY <1>1, <1>2, <1>3, StartFacts
<1>5. startOfUTCDay(p.end) \in Int
  BY <1>1, Days
<1>6. \A m \in Nat : m <= s.nights => Fits(now, p, m)
  BY <1>2, <1>3, <1>4, <1>5 DEF Fits
<1>7. pickNearestSuitablePeriod(now, ps, s.nights) # {}
  <2>1. Fits(now, p, s.nights)
    BY <1>2, <1>6
  <2> QED
    BY <1>2, <2>1, NearestFacts
<1>8. PICK m \in bestOption(now, ps) : m <= s.nights
  BY <1>2, <1>7, OptionFacts
<1>9. m \in numberOfNights /\ m \in Nat
  BY OptionFacts, BookingAssumption, Zenon
<1>10. PICK d \in pickNearestSuitablePeriod(now, ps, m) : d <= candidateStart(now, p)
  BY <1>6, <1>8, <1>9, NearestFacts
<1>11. d \in Nat
  BY <1>9, NearestFacts, Offered, StartFacts
<1> DEFINE x == [cottage |-> c, start |-> d, nights |-> m]
<1>12. x \in stayCandidates(c, now, ps)
  BY DEF stayCandidates
<1>13. x.cottage = c /\ x.start = d /\ x.nights = m /\ c \in Nat
  BY BookingAssumption
<1> HIDE DEF x
<1>14. ~Before(s, x)
  BY <1>2, <1>3, <1>4, <1>8, <1>9, <1>10, <1>11, <1>13, SMTT(60) DEF Before
<1> QED
  BY <1>12, <1>14

\* An answer gives at most one candidate.
LEMMA CandidatesFinite ==
  ASSUME NEW now \in Nat, NEW ps \in Answers, NEW c
  PROVE  IsFiniteSet(stayCandidates(c, now, ps))
<1>1. CASE bestOption(now, ps) = {}
  <2>1. stayCandidates(c, now, ps) = {}
    BY <1>1 DEF stayCandidates
  <2> QED
    BY <2>1, FS_EmptySet
<1>2. CASE \E m : bestOption(now, ps) = {m}
  <2>1. PICK m : bestOption(now, ps) = {m}
    BY <1>2
  <2>2. \/ pickNearestSuitablePeriod(now, ps, m) = {}
        \/ \E s : pickNearestSuitablePeriod(now, ps, m) = {s}
    BY Zenon DEF pickNearestSuitablePeriod
  <2> DEFINE S == pickNearestSuitablePeriod(now, ps, m)
  <2>3. stayCandidates(c, now, ps) = {[cottage |-> c, start |-> s, nights |-> m] : s \in S}
    BY <2>1 DEF stayCandidates
  <2> HIDE DEF S
  <2>4. \/ stayCandidates(c, now, ps) = {}
        \/ \E x : stayCandidates(c, now, ps) = {x}
    BY <2>2, <2>3 DEF S
  <2> QED
    BY <2>4, FS_EmptySet, FS_Singleton
<1> QED
  BY <1>1, <1>2, OptionFacts, Zenon

\* The order of the ranking is transitive in the sense needed: not being before.
LEMMA BeforeOrder ==
  \A a, b, c \in Stays : ~Before(a, b) /\ ~Before(b, c) => ~Before(a, c)
<1>1. \A a \in Stays : a.start \in Nat /\ a.nights \in Nat /\ a.cottage \in Nat
  BY BookingAssumption, Zenon DEF Stays
<1> QED
  BY <1>1 DEF Before

\* Among any candidates one is before all others.
LEMMA FirstExists ==
  ASSUME NEW C, C \subseteq Stays, C # {}
  PROVE  \E x \in C : \A d \in C : ~Before(d, x)
<1>1. \A a \in C : a.start \in Nat /\ a.nights \in Nat /\ a.cottage \in Nat
  BY BookingAssumption, Zenon DEF Stays
<1>2. PICK x \in C : \A d \in C : x.start <= d.start
  <2> DEFINE T == {d.start : d \in C}
  <2>1. T \subseteq Nat /\ T # {}
    BY <1>1
  <2>2. PICK t \in T : \A u \in T : t <= u
    <3> HIDE DEF T
    <3> QED
      BY <2>1, Least, Zenon
  <2> QED
    BY <2>2
<1> DEFINE D == {d \in C : d.start = x.start}
<1>3. PICK y \in D : \A d \in D : y.nights <= d.nights
  <2> DEFINE T == {d.nights : d \in D}
  <2>1. T \subseteq Nat /\ T # {}
    BY <1>1, <1>2
  <2>2. PICK t \in T : \A u \in T : t <= u
    <3> HIDE DEF T
    <3> QED
      BY <2>1, Least, Zenon
  <2> QED
    BY <2>2
<1> DEFINE E == {d \in D : d.nights = y.nights}
<1>4. PICK z \in E : \A d \in E : z.cottage <= d.cottage
  <2> DEFINE T == {d.cottage : d \in E}
  <2>1. T \subseteq Nat /\ T # {}
    BY <1>1, <1>3
  <2>2. PICK t \in T : \A u \in T : t <= u
    <3> HIDE DEF T
    <3> QED
      BY <2>1, Least, Zenon
  <2> QED
    BY <2>2
<1>5. z \in C /\ z.start = x.start /\ z.nights = y.nights
  OBVIOUS
<1>6. ASSUME NEW d \in C PROVE ~Before(d, z)
  <2>1. x.start <= d.start
    BY <1>2
  <2>2. d.start = z.start => d \in D /\ y.nights <= d.nights
    BY <1>3, <1>5
  <2>3. d.start = z.start /\ d.nights = z.nights => z.cottage <= d.cottage
    <3>1. d.start = z.start /\ d.nights = z.nights => d \in E
      BY <1>5
    <3> HIDE DEF E
    <3> QED
      BY <1>4, <3>1
  <2>4. /\ d.start \in Nat /\ d.nights \in Nat /\ d.cottage \in Nat
        /\ z.start \in Nat /\ z.nights \in Nat /\ z.cottage \in Nat
    BY <1>1, <1>5
  <2> QED
    BY <1>5, <2>1, <2>2, <2>3, <2>4 DEF Before
<1> QED
  BY <1>5, <1>6

\* It is the head of the ranking, whatever maxPeriodAttempts cuts off.
LEMMA RankedFirst ==
  ASSUME NEW C, C \subseteq Stays, C # {}, IsFiniteSet(C)
  PROVE  /\ Head(ranked(C)) \in C
         /\ \A d \in C : ~Before(d, Head(ranked(C)))
<1> DEFINE Ahead(c) == {d \in C : Before(d, c)}
           At(i) == CHOOSE c \in C : Cardinality(Ahead(c)) = i - 1
           k == Min({Cardinality(C), maxPeriodAttempts})
<1>1. \A c : IsFiniteSet(Ahead(c))
  BY FS_Subset
<1>2. \E c \in C : Cardinality(Ahead(c)) = 1 - 1
  <2>1. PICK x \in C : \A d \in C : ~Before(d, x)
    BY FirstExists
  <2>2. Ahead(x) = {}
    BY <2>1
  <2> HIDE DEF Ahead
  <2> QED
    BY <2>2, FS_EmptySet
<1>3. At(1) \in C /\ Cardinality(Ahead(At(1))) = 1 - 1
  <2> HIDE DEF Ahead
  <2> QED
    BY <1>2, Zenon
<1>4. k \in Nat \ {0}
  <2>1. Cardinality(C) \in Nat /\ Cardinality(C) # 0
    BY FS_CardinalityType, FS_EmptySet
  <2>2. maxPeriodAttempts \in Nat \ {0}
    BY BookingAssumption
  <2> QED
    BY <2>1, <2>2, MinOfNat
<1>5. ranked(C) = [i \in 1..k |-> At(i)]
  BY Zenon DEF ranked
<1>6. Ahead(At(1)) = {}
  <2> HIDE DEF At, Ahead
  <2>1. Cardinality(Ahead(At(1))) = 0
    BY <1>3
  <2> QED
    BY <1>1, <2>1, FS_EmptySet
<1>7. \A d \in C : ~Before(d, At(1))
  <2> HIDE DEF At
  <2> QED
    BY <1>6
<1> HIDE DEF At, k, Ahead
<1>8. Head(ranked(C)) = At(1)
  <2>1. 1 \in 1..k
    BY <1>4
  <2> QED
    BY <1>5, <2>1
<1> QED
  BY <1>3, <1>7, <1>8
-----------------------------------------------------------------------------
\* The loops ask for a listed cottage.
LEMMA RequestIndex ==
  ASSUME NEW a \in Nat, NEW n \in Nat, NEW W \in Nat, a < n * W
  PROVE  (a \div W) + 1 \in 1..n
<1>1. W # 0
  OBVIOUS
<1> DEFINE q == a \div W
<1>2. q \in Nat /\ W * q <= a
  BY <1>1
<1> HIDE DEF q
<1>3. q < n
  <2>1. SUFFICES ASSUME q >= n PROVE FALSE
    BY <1>2
  <2>2. PICK r \in Nat : q = n + r
    <3>1. q - n \in Nat /\ q = n + (q - n)
      BY <1>2, <2>1
    <3> QED
      BY <3>1
  <2>3. W * q = n * W + W * r /\ W * r \in Nat
    BY <2>2
  <2> QED
    BY <1>2, <2>3
<1> QED
  BY <1>2, <1>3 DEF q

\* The draw follows an edge of DefaultBookingFlow.
LEMMA NextStep ==
  ASSUME NEW g \in Graphs, NEW s \in Steps
  PROVE  Picks(g[s]) \subseteq DefaultBookingFlow[s]
BY GraphsAssumption, PicksListed, Zenon

\* What ListCottages may store.
LEMMA Lists ==
  ASSUME NEW l \in UNION {Injection(1..n, Cottages) : n \in 0..Cardinality(Cottages)}
  PROVE  l \in Seq(Cottages)
<1>1. Cardinality(Cottages) \in Nat
  BY BookingAssumption, FS_CardinalityType
<1>2. PICK n \in 0..Cardinality(Cottages) : l \in Injection(1..n, Cottages)
  OBVIOUS
<1>3. l \in [1..n -> Cottages] /\ n \in Nat
  BY <1>1, <1>2 DEF Injection
<1> QED
  BY <1>3

\* The cached choice and a booking.
Choice == [cottage : Cottages \cup {None}, period : Stays \cup {NoStay}, bookingId : BOOLEAN]
Made == [cottage : Cottages \cup {None}, period : Stays \cup {NoStay}]

\* Types.
Typed ==
  /\ step \in Steps \cup {"End", "failed"} /\ ctxDone \in BOOLEAN
  /\ graph \in Graphs /\ names \in Seq(Cottages)
  /\ cache \in Choice /\ bookings \in Seq(Made)
  /\ search \in [phase : {"idle", "ask", "ranked"}, now : Nat, asked : Nat,
                 offered : SUBSET (Cottages \X Periods), candidates : SUBSET Stays]

\* A search runs within SelectPeriod, for the cottages that are listed.
Searching ==
  /\ search.phase = "idle" => search = Idle
  /\ search.phase # "idle" => step = "SelectPeriod" /\ cache.cottage # None /\ names # <<>>
  /\ IsFiniteSet(search.candidates)
  /\ \A x \in search.candidates : x.cottage \in Range(names)

\* Every candidate lies within an answer, and no answer allows a stay before
\* all candidates.
Collected ==
  /\ \A x \in search.candidates : \E o \in search.offered : Within(search.now, o, x)
  /\ \A o \in search.offered, s \in Stays : Within(search.now, o, s) =>
       \E x \in search.candidates : ~Before(s, x)

FInv == Typed /\ Searching /\ Collected

\* Initially nothing is searched.
LEMMA FInvInit == Init => FInv
<1> SUFFICES ASSUME Init PROVE FInv
  OBVIOUS
<1>1. search = Idle /\ names = <<>> /\ bookings = <<>>
  BY DEF Init
<1>2. names \in Seq(Cottages) /\ bookings \in Seq(Made)
  BY <1>1
<1>3. cache \in Choice
  BY DEF Init, Choice
<1>4. search \in [phase : {"idle", "ask", "ranked"}, now : Nat, asked : Nat,
                  offered : SUBSET (Cottages \X Periods), candidates : SUBSET Stays]
  BY <1>1 DEF Idle
<1>5. search.phase = "idle" /\ search.offered = {} /\ search.candidates = {}
  BY <1>1 DEF Idle
<1>6. Searching
  BY <1>1, <1>5, FS_EmptySet DEF Searching
<1>7. Collected
  BY <1>5 DEF Collected
<1> QED
  BY <1>2, <1>3, <1>4, <1>6, <1>7, Zenon DEF Init, FInv, Typed, Steps

\* cache.Save at the end of a step.
LEMMA SaveTypes ==
  ASSUME FInv, step \in Steps, NEW v \in Choice, Save(v)
  PROVE  step' \in DefaultBookingFlow[step] \cup {"failed"} /\ cache' \in Choice
<1>1. Picks(graph[step]) \subseteq DefaultBookingFlow[step]
  BY NextStep DEF FInv, Typed
<1> QED
  BY <1>1 DEF Save, FInv, Typed

\* The edges lead to steps or to the end.
LEMMA Targets ==
  ASSUME NEW s \in Steps
  PROVE  DefaultBookingFlow[s] \subseteq Steps \cup {"End"}
BY DEF DefaultBookingFlow, Steps

\* A step that ends with no search under way keeps the invariant.
LEMMA IdleKeeps ==
  ASSUME FInv, graph' = graph, names' \in Seq(Cottages), bookings' \in Seq(Made),
         step' \in Steps \cup {"End", "failed"}, ctxDone' \in BOOLEAN, cache' \in Choice,
         search' = Idle
  PROVE  FInv'
<1>1. graph' \in Graphs
  BY DEF FInv, Typed
<1>2. search' \in [phase : {"idle", "ask", "ranked"}, now : Nat, asked : Nat,
                   offered : SUBSET (Cottages \X Periods), candidates : SUBSET Stays]
  BY DEF Idle
<1>3. search'.phase = "idle" /\ search'.offered = {} /\ search'.candidates = {}
  BY DEF Idle
<1>4. Searching'
  BY <1>3, FS_EmptySet DEF Searching
<1>5. Collected'
  BY <1>3 DEF Collected
<1> QED
  BY <1>1, <1>2, <1>4, <1>5 DEF FInv, Typed

\* The values the steps save.
LEMMA ChoiceFacts ==
  ASSUME NEW v \in Choice
  PROVE  /\ \A c \in Cottages : [v EXCEPT !.cottage = c] \in Choice
         /\ \A s \in Stays :
              [v EXCEPT !.cottage = s.cottage, !.period = s] \in Choice
         /\ [v EXCEPT !.bookingId = TRUE] \in Choice
         /\ [cottage |-> v.cottage, period |-> v.period] \in Made
BY Zenon DEF Choice, Made, Stays

\* The actions, one lemma for each that saves or searches.
LEMMA FlowKeeps ==
  ASSUME FInv, flowCancelled \/ stepFails \/ ListCottages \/ Cancel
  PROVE  FInv'
<1> USE DEF FInv, Typed
<1>1. CASE flowCancelled
  BY <1>1, IdleKeeps, SMTT(60) DEF flowCancelled
<1>2. CASE stepFails
  BY <1>2, IdleKeeps, SMTT(60) DEF stepFails
<1>3. CASE ListCottages
  <2>1. step \in Steps /\ step = "ListCottages"
    BY <1>3 DEF ListCottages, Steps
  <2>2. search' = Idle
    BY <1>3, <2>1, SMTT(60) DEF ListCottages, Searching
  <2>3. step' \in Steps \cup {"End", "failed"}
    BY <1>3, <2>1, NextStep, Targets, SMTT(60) DEF ListCottages
  <2>4. names' \in Seq(Cottages)
    BY <1>3, Lists DEF ListCottages
  <2> QED
    BY <1>3, <2>2, <2>3, <2>4, IdleKeeps, SMTT(60) DEF ListCottages
<1>4. CASE Cancel
  BY <1>4 DEF Cancel, Searching, Collected
<1> QED
  BY <1>1, <1>2, <1>3, <1>4, SMTT(60)

LEMMA SelectCottageKeeps ==
  ASSUME FInv, SelectCottage
  PROVE  FInv'
<1> USE DEF FInv, Typed
<1>1. step \in Steps /\ step = "SelectCottage"
  BY DEF SelectCottage, Steps
<1>2. search' = Idle
  BY <1>1 DEF SelectCottage, Searching
<1>3. PICK i \in DOMAIN names : Save([cache EXCEPT !.cottage = names[i]])
  BY Zenon DEF SelectCottage
<1>4. [cache EXCEPT !.cottage = names[i]] \in Choice
  <2>1. names[i] \in Cottages
    OBVIOUS
  <2> QED
    BY <2>1, ChoiceFacts, Zenon
<1>5. step' \in DefaultBookingFlow[step] \cup {"failed"} /\ cache' \in Choice
  BY <1>1, <1>3, <1>4, SaveTypes, SMTT(60)
<1> QED
  BY <1>1, <1>2, <1>5, Targets, IdleKeeps DEF SelectCottage

LEMMA BookCottageKeeps ==
  ASSUME FInv, BookCottage
  PROVE  FInv'
<1> USE DEF FInv, Typed
<1>1. step \in Steps /\ step = "BookCottage"
  BY DEF BookCottage, Steps
<1>2. search' = Idle
  BY <1>1 DEF BookCottage, Searching
<1> DEFINE v == [cache EXCEPT !.bookingId = TRUE]
           b == [cottage |-> cache.cottage, period |-> cache.period]
<1>3. v \in Choice /\ b \in Made
  BY ChoiceFacts, Zenon
<1>4. /\ bookings' = Append(bookings, b)
      /\ Save(v) \/ (step' = "failed" /\ UNCHANGED cache)
  BY Zenon DEF BookCottage
<1>5. UNCHANGED <<ctxDone, graph, names>>
  BY DEF BookCottage
<1> HIDE DEF v, b
<1>6. step' \in DefaultBookingFlow[step] \cup {"failed"} /\ cache' \in Choice
  BY <1>1, <1>3, <1>4, SaveTypes
<1>7. bookings' \in Seq(Made)
  BY <1>3, <1>4
<1> QED
  BY <1>1, <1>2, <1>5, <1>6, <1>7, Targets, IdleKeeps, SMTT(60)

LEMMA SelectPeriodKeeps ==
  ASSUME FInv, SelectPeriod
  PROVE  FInv'
<1> USE DEF FInv, Typed
<1>1. step \in Steps /\ step = "SelectPeriod" /\ search' = Idle
  BY DEF SelectPeriod, Searching, Steps
<1>2. step' \in DefaultBookingFlow[step] \cup {"failed"} /\ cache' \in Choice
  <2>1. CASE search.candidates = {}
    BY <2>1 DEF SelectPeriod
  <2>2. CASE search.candidates # {}
    <3> DEFINE selected == Head(ranked(search.candidates))
    <3>1. selected \in search.candidates
      BY <2>2, RankedFirst DEF Searching
    <3>2. selected \in Stays
      BY <3>1
    <3>3. Save([cache EXCEPT !.cottage = selected.cottage, !.period = selected])
      BY <2>2 DEF SelectPeriod
    <3> HIDE DEF selected
    <3> QED
      BY <1>1, <3>2, <3>3, ChoiceFacts, SaveTypes, Zenon
  <2> QED
    BY <2>1, <2>2
<1>3. UNCHANGED <<ctxDone, graph, names, bookings>>
  BY DEF SelectPeriod
<1> QED
  BY <1>1, <1>2, <1>3, Targets, IdleKeeps

LEMMA BeginSearchKeeps ==
  ASSUME FInv, beginSearch
  PROVE  FInv'
<1> USE DEF FInv, Typed
<1>1. PICK t \in Nows : search' = [Idle EXCEPT !.phase = "ask", !.now = t]
  BY Zenon DEF beginSearch
<1>2. t \in Nat
  BY BookingAssumption
<1>3. /\ search'.phase = "ask" /\ search'.offered = {} /\ search'.candidates = {}
      /\ search' \in [phase : {"idle", "ask", "ranked"}, now : Nat, asked : Nat,
                      offered : SUBSET (Cottages \X Periods), candidates : SUBSET Stays]
  BY <1>1, <1>2, Zenon DEF Idle
<1>4. Typed'
  BY <1>3 DEF beginSearch
<1>5. Searching'
  BY <1>3, FS_EmptySet DEF beginSearch, Searching
<1>6. Collected'
  BY <1>3 DEF Collected
<1> QED
  BY <1>4, <1>5, <1>6

LEMMA CollectedKeeps ==
  ASSUME FInv, collected
  PROVE  FInv'
<1> USE DEF FInv, Typed
<1>1. /\ search'.phase = "ranked" /\ search'.now = search.now
      /\ search'.offered = search.offered /\ search'.candidates = search.candidates
      /\ search' \in [phase : {"idle", "ask", "ranked"}, now : Nat, asked : Nat,
                      offered : SUBSET (Cottages \X Periods), candidates : SUBSET Stays]
  BY DEF collected
<1>2. UNCHANGED <<step, ctxDone, graph, names, cache, bookings>> /\ search.phase = "ask"
  BY DEF collected
<1>3. Typed'
  BY <1>1, <1>2
<1>4. Searching'
  BY <1>1, <1>2 DEF Searching
<1>5. Collected'
  BY <1>1 DEF Collected
<1> QED
  BY <1>3, <1>4, <1>5

\* One answer: its candidates are sound, and complete for what it offers.
LEMMA LoadKeeps ==
  ASSUME FInv, loadAvailablePeriods
  PROVE  FInv'
<1> DEFINE W == Len(searchWindows)
           c == names[(search.asked \div W) + 1]
           from == searchStart(search.now)
           to == from + searchWindows[(search.asked % W) + 1]
<1>1. PICK ps \in AvailableDates(from, to) :
        search' = [search EXCEPT !.asked = @ + 1,
                     !.offered = @ \cup {<<c, p>> : p \in Range(ps)},
                     !.candidates = @ \cup stayCandidates(c, search.now, ps)]
  BY Zenon DEF loadAvailablePeriods
<1>2. ps \in Answers
  BY DEF AvailableDates
<1>3. /\ search.phase = "ask" /\ search.asked < Len(names) * W
      /\ UNCHANGED <<step, ctxDone, graph, names, cache, bookings>>
  BY DEF loadAvailablePeriods, Requests
<1>4. /\ search.now \in Nat /\ search.asked \in Nat /\ search.candidates \subseteq Stays
      /\ search.offered \subseteq Cottages \X Periods /\ names \in Seq(Cottages)
  BY DEF FInv, Typed
<1>5. c \in Cottages /\ c \in Range(names)
  <2>1. W \in Nat /\ Len(names) \in Nat
    BY <1>4, BookingAssumption, SMTT(60)
  <2>2. (search.asked \div W) + 1 \in 1..Len(names)
    BY <1>3, <1>4, <2>1, RequestIndex, SMTT(60)
  <2> QED
    BY <1>4, <2>2 DEF Range
<1> HIDE DEF W, c, from, to
<1> DEFINE O == {<<c, p>> : p \in Range(ps)}
           X == stayCandidates(c, search.now, ps)
<1>6. O \subseteq Cottages \X Periods
  BY <1>2, <1>5, Offered
<1>7. \A x \in X : \E o \in O : Within(search.now, o, x)
  BY <1>2, <1>4, <1>5, CandidatesSound, Zenon
<1>8. \A x \in X : x \in Stays /\ x.cottage = c
  BY <1>7, SMTT(60) DEF Within
<1>9. \A o \in O, s \in Stays : Within(search.now, o, s) => \E x \in X : ~Before(s, x)
  BY <1>2, <1>4, <1>5, CandidatesComplete, SMTT(60)
<1>10. IsFiniteSet(X)
  BY <1>2, <1>4, CandidatesFinite
<1> HIDE DEF O, X
<1>11. /\ search'.phase = "ask" /\ search'.now = search.now
       /\ search'.offered = search.offered \cup O
       /\ search'.candidates = search.candidates \cup X
       /\ search' \in [phase : {"idle", "ask", "ranked"}, now : Nat, asked : Nat,
                       offered : SUBSET (Cottages \X Periods), candidates : SUBSET Stays]
  <2>1. search' = [search EXCEPT !.asked = search.asked + 1,
                     !.offered = search.offered \cup O,
                     !.candidates = search.candidates \cup X]
    BY <1>1 DEF O, X
  <2>2. /\ search.asked + 1 \in Nat /\ search.offered \cup O \subseteq Cottages \X Periods
        /\ search.candidates \cup X \subseteq Stays
    BY <1>4, <1>6, <1>8
  <2> QED
    BY <1>3, <2>1, <2>2, Zenon DEF FInv, Typed
<1>12. Typed'
  BY <1>3, <1>11, SMTT(60) DEF FInv, Typed
<1>13. Searching'
  <2>1. IsFiniteSet(search.candidates \cup X)
    BY <1>10, FS_Union, Zenon DEF FInv, Searching
  <2>2. \A x \in search.candidates \cup X : x.cottage \in Range(names)
    BY <1>5, <1>8, SMTT(60) DEF FInv, Searching
  <2>3. step = "SelectPeriod" /\ cache.cottage # None /\ names # <<>>
    BY <1>3, SMTT(60) DEF FInv, Searching
  <2> QED
    BY <1>3, <1>11, <2>1, <2>2, <2>3, SMTT(60) DEF Searching
<1>14. Collected'
  <2>1. Collected
    BY DEF FInv
  <2>2. \A x \in search.candidates \cup X :
          \E o \in search.offered \cup O : Within(search.now, o, x)
    BY <1>7, <2>1, SMTT(60) DEF Collected
  <2>3. \A o \in search.offered \cup O, s \in Stays : Within(search.now, o, s) =>
          \E x \in search.candidates \cup X : ~Before(s, x)
    BY <1>9, <2>1 DEF Collected
  <2> QED
    BY <1>11, <2>2, <2>3 DEF Collected
<1> QED
  BY <1>12, <1>13, <1>14 DEF FInv

\* Every step keeps the invariant.
LEMMA FInvNext == FInv /\ [Next]_vars => FInv'
<1> SUFFICES ASSUME FInv, [Next]_vars PROVE FInv'
  OBVIOUS
<1>1. CASE flowCancelled \/ stepFails \/ ListCottages \/ Cancel
  BY <1>1, FlowKeeps
<1>2. CASE SelectCottage
  BY <1>2, SelectCottageKeeps
<1>3. CASE beginSearch
  BY <1>3, BeginSearchKeeps, SMTT(60)
<1>4. CASE loadAvailablePeriods
  BY <1>4, LoadKeeps
<1>5. CASE collected
  BY <1>5, CollectedKeeps
<1>6. CASE SelectPeriod
  BY <1>6, SelectPeriodKeeps
<1>7. CASE BookCottage
  BY <1>7, BookCottageKeeps
<1>8. CASE UNCHANGED vars
  BY <1>8 DEF vars, FInv, Typed, Searching, Collected
<1> QED
  BY <1>1, <1>2, <1>3, <1>4, <1>5, <1>6, <1>7, <1>8, SMTT(60) DEF Next

\* It holds throughout.
LEMMA FInvAlways == Spec => []FInv
  BY FInvInit, FInvNext, PTL DEF Spec

\* The reference set, member by member.
LEMMA FeasibleWithin ==
  ASSUME FInv, NEW s
  PROVE  s \in Feasible <=> \E o \in search.offered : Within(search.now, o, s)
<1>1. /\ search.now \in Nat /\ search.offered \subseteq Cottages \X Periods
  BY DEF FInv, Typed
<1>2. searchStart(search.now) \in Nat
  BY <1>1, Days
<1>3. ASSUME NEW o \in search.offered
      PROVE  /\ o[1] \in Cottages
             /\ startOfUTCDay(o[2].start) \in Int /\ startOfUTCDay(o[2].end) \in Int
  <2>1. o[1] \in Cottages /\ o[2] \in Periods
    BY <1>1
  <2>2. o[2].start \in Int /\ o[2].end \in Int
    BY <2>1 DEF Periods
  <2> QED
    BY <2>1, <2>2, Days
<1> DEFINE From(o) ==
             {x \in [cottage : {o[1]}, nights : numberOfNights,
                    start : searchStart(search.now)..startOfUTCDay(o[2].end)] :
                /\ startOfUTCDay(o[2].start) <= x.start
                /\ x.start + x.nights <= startOfUTCDay(o[2].end)}
<1>4. s \in Feasible <=> \E o \in search.offered : s \in From(o)
  BY DEF Feasible
<1>5. ASSUME NEW o \in search.offered, s \in From(o) PROVE Within(search.now, o, s)
  <2>1. s.start \in Nat /\ searchStart(search.now) <= s.start
    BY <1>2, <1>3, <1>5, SMTT(60)
  <2>2. s \in Stays
    BY <1>3, <1>5, <2>1, SMTT(60) DEF Stays
  <2> QED
    BY <1>5, <2>1, <2>2, SMTT(60) DEF Within
<1>6. ASSUME NEW o \in search.offered, Within(search.now, o, s) PROVE s \in From(o)
  <2>1. s.start \in Nat /\ s.nights \in numberOfNights /\ s.nights \in Nat
    BY <1>6, BookingAssumption, Zenon DEF Within, Stays
  <2>2. s.start \in searchStart(search.now)..startOfUTCDay(o[2].end)
    BY <1>2, <1>3, <1>6, <2>1, SMTT(60) DEF Within
  <2> QED
    BY <1>6, <2>1, <2>2 DEF Within, Stays
<1> HIDE DEF From
<1> QED
  BY <1>4, <1>5, <1>6

\* The head of the ranking is before everything any answer allows.
LEMMA FInvBest == FInv => BestOffered
<1> SUFFICES ASSUME FInv PROVE BestOffered
  OBVIOUS
<1>1. search.candidates \subseteq Stays /\ IsFiniteSet(search.candidates)
  BY SMTT(60) DEF FInv, Typed, Searching
<1>2. /\ \A x \in search.candidates : x \in Feasible
      /\ \A s \in Feasible : s \in Stays /\ \E x \in search.candidates : ~Before(s, x)
  BY FeasibleWithin DEF FInv, Collected, Within
<1>3. CASE search.candidates = {}
  BY <1>2, <1>3 DEF BestOffered
<1>4. CASE search.candidates # {}
  <2> DEFINE selected == Head(ranked(search.candidates))
  <2>1. selected \in search.candidates /\ \A d \in search.candidates : ~Before(d, selected)
    BY <1>1, <1>4, RankedFirst
  <2>2. (selected \in Feasible /\ \A s \in Feasible : ~Before(s, selected)) => BestOffered
    BY <1>4 DEF BestOffered
  <2> HIDE DEF selected
  <2>3. ASSUME NEW s \in Feasible PROVE ~Before(s, selected)
    <3>1. PICK x \in search.candidates : ~Before(s, x)
      BY <1>2
    <3>2. s \in Stays /\ x \in Stays /\ selected \in Stays
      BY <1>1, <1>2, <2>1
    <3>3. ~Before(x, selected)
      BY <2>1
    <3> QED
      BY <3>1, <3>2, <3>3, BeforeOrder, SMTT(60)
  <2> QED
    BY <1>2, <2>1, <2>2, <2>3, SMTT(60)
<1> QED
  BY <1>3, <1>4

\* The stay that SelectPeriod saves is the best that any answer of its search
\* allows, and ErrNoSuitablePeriod is returned only when none allows any: for
\* every set of cottages, night options, search windows, lead time and limit of
\* attempts, and whatever the cottage service answers.
THEOREM BestStayIsSelected == Spec => []BestOffered
  BY FInvAlways, FInvBest, PTL

\* The list of the current step is one of the graph.
LEMMA FInvFair == FInv => FairShare
<1> SUFFICES ASSUME FInv, step \in Steps, search = Idle PROVE FairShare
  BY Zenon DEF FairShare
<1> DEFINE list == graph[step]
<1>1. /\ list \in Seq([value : DefaultBookingFlow[step], weight : Int]) /\ list # <<>>
      /\ \A i, j \in DOMAIN list : list[i].value = list[j].value => i = j
  BY GraphsAssumption, Zenon DEF FInv, Typed
<1> HIDE DEF list
<1>2. IF Positive(list) = {} THEN Picks(list) = {list[Len(list)].value}
      ELSE \A i \in DOMAIN list :
             /\ Cardinality({t \in Draws(list) \ {0} :
                               PickRandomWeighted(list, t) = list[i].value})
                  = Max({list[i].weight, 0})
             /\ list[i].value \in Picks(list) => list[i].weight > 0
  BY <1>1, FairList, Zenon
<1> QED
  BY <1>2, Zenon DEF list, FairShare

\* PickRandomWeighted takes each edge out of the current step as often as its
\* weight says, for every weights of the booking graph.
THEOREM DrawsAreFair == Spec => []FairShare
  BY FInvAlways, FInvFair, PTL
-----------------------------------------------------------------------------
\* The mapping of a step.
LEMMA StepOf ==
  /\ pcOf("failed") = "cleanup" /\ pcOf("End") = "validate"
  /\ resultOf("failed") = "err" /\ resultOf("End") = "none"
  /\ \A s \in Steps : pcOf(s) = s /\ resultOf(s) = "none"
BY DEF pcOf, resultOf, Steps

\* An edge of DefaultBookingFlow is one of the journey, its end the validation.
LEMMA TargetOf ==
  ASSUME NEW s \in Steps, NEW t \in DefaultBookingFlow[s]
  PROVE  /\ pcOf(t) \in Journey!BookingTransitions(s) /\ resultOf(t) = "none"
<1>1. Journey!AfterFlow(s) = "validate"
  BY DEF Journey!AfterFlow, Journey!BookingFlow, Steps
<1> QED
  BY <1>1, StepOf DEF Journey!BookingTransitions, Journey!BookingFlow, DefaultBookingFlow, Steps

\* A booking appended is a booking appended.
LEMMA AppendOf ==
  ASSUME NEW bs \in Seq(Made), NEW b \in Made
  PROVE  bookingsOf(Append(bs, b)) = Append(bookingsOf(bs), madeOf(b))
<1> DEFINE n == Len(bs)
           l == bookingsOf(bs)
           k == Append(bs, b)
<1>1. n \in Nat /\ DOMAIN bs = 1..n
  OBVIOUS
<1>2. l = [i \in 1..n |-> madeOf(bs[i])]
  BY <1>1 DEF bookingsOf
<1>3. l \in Seq({madeOf(bs[i]) : i \in 1..n}) /\ Len(l) = n
  <2> HIDE DEF l
  <2> QED
    BY <1>1, <1>2
<1>4. DOMAIN k = 1..(n + 1) /\ k[n + 1] = b /\ \A i \in 1..n : k[i] = bs[i]
  BY <1>1
<1> HIDE DEF k, l, n
<1>5. bookingsOf(k) = [i \in 1..(n + 1) |-> madeOf(k[i])]
  BY <1>4 DEF bookingsOf
<1> DEFINE m == Append(l, madeOf(b))
<1>6. DOMAIN m = 1..(n + 1) /\ m[n + 1] = madeOf(b) /\ \A i \in 1..n : m[i] = l[i]
  <2> DEFINE U == {madeOf(bs[i]) : i \in 1..n} \cup {madeOf(b)}
  <2>1. l \in Seq(U) /\ madeOf(b) \in U
    BY <1>1, <1>2, <1>3
  <2> HIDE DEF U
  <2> QED
    BY <1>1, <1>3, <2>1
<1>7. m = [i \in 1..(n + 1) |-> m[i]]
  <2>1. m \in Seq({madeOf(bs[i]) : i \in 1..n} \cup {madeOf(b)})
    BY <1>1, <1>2, <1>3, SMTT(60)
  <2> HIDE DEF m
  <2> QED
    BY <1>6, <2>1
<1> HIDE DEF m
<1>8. ASSUME NEW i \in 1..(n + 1) PROVE madeOf(k[i]) = m[i]
  <2>1. i = n + 1 \/ i \in 1..n
    BY <1>1
  <2> QED
    BY <1>2, <1>4, <1>6, <2>1, SMTT(60)
<1>9. bookingsOf(k) = m
  BY <1>5, <1>7, <1>8, SMTT(60)
<1> QED
  BY <1>9 DEF k, l, m

\* cache.Save of a step is that of the journey.
LEMMA SaveOf ==
  ASSUME FInv, step \in Steps, NEW v, Save(v)
  PROVE  Journey!Save(cacheOf(v), Journey!BookingTransitions(step))
<1>1. pcOf(step) = step /\ resultOf(step) = "none"
  BY StepOf
<1>2. CASE ~ctxDone /\ cache' = v /\ step' \in Picks(graph[step])
  <2>1. step' \in DefaultBookingFlow[step]
    BY <1>2, NextStep DEF FInv, Typed
  <2>2. pcOf(step') \in Journey!BookingTransitions(step) /\ resultOf(step') = "none"
    BY <2>1, TargetOf
  <2>3. cacheOf(cache') = cacheOf(v)
    BY <1>2
  <2> QED
    BY <1>1, <1>2, <2>2, <2>3, SMTT(60) DEF Journey!Save
<1>3. CASE cache' \in (IF ctxDone THEN {cache} ELSE {cache, v}) /\ step' = "failed"
  <2>1. cacheOf(cache') \in (IF ctxDone THEN {cacheOf(cache)} ELSE {cacheOf(cache), cacheOf(v)})
    BY <1>3
  <2>2. pcOf(step') = "cleanup" /\ resultOf(step') = "err"
    BY <1>3, StepOf, SMTT(60)
  <2> QED
    BY <2>1, <2>2 DEF Journey!Save, Journey!Fail
<1> QED
  BY <1>2, <1>3, SMTT(60) DEF Save

\* The type of a mapped cache value.
Mapped ==
  [key : BOOLEAN, guestId : BOOLEAN, cottage : Nat, period : Nat, bookingId : BOOLEAN,
   invoice : BOOLEAN, receipt : BOOLEAN]

\* A mapped cache value is known by its fields.
LEMMA CacheOf ==
  ASSUME NEW v \in Choice
  PROVE  /\ cacheOf(v) \in Mapped
         /\ \A x \in Mapped :
              /\ x.key /\ x.guestId /\ ~x.invoice /\ ~x.receipt
              /\ x.cottage = v.cottage /\ x.period = v.period.cottage
              /\ x.bookingId = v.bookingId
              => x = cacheOf(v)
<1>1. v.cottage \in Nat /\ v.period.cottage \in Nat /\ v.bookingId \in BOOLEAN
  <2>1. /\ v.cottage \in Cottages \cup {None} /\ v.period \in Stays \cup {NoStay}
        /\ v.bookingId \in BOOLEAN
    BY DEF Choice
  <2>2. \A s \in Stays \cup {NoStay} : s.cottage \in Cottages \cup {None}
    BY DEF Stays, NoStay
  <2>3. Cottages \cup {None} \subseteq Nat
    BY BookingAssumption, SMTT(60) DEF None
  <2> QED
    BY <2>1, <2>2, <2>3, SMTT(60)
<1> DEFINE y == cacheOf(v)
<1>2. y \in Mapped
  BY <1>1 DEF cacheOf, Mapped
<1>3. /\ y.key = TRUE /\ y.guestId = TRUE /\ y.invoice = FALSE /\ y.receipt = FALSE
      /\ y.cottage = v.cottage /\ y.period = v.period.cottage /\ y.bookingId = v.bookingId
  BY DEF cacheOf
<1> HIDE DEF y
<1>4. ASSUME NEW x \in Mapped, x.key, x.guestId, ~x.invoice, ~x.receipt,
             x.cottage = v.cottage, x.period = v.period.cottage, x.bookingId = v.bookingId
      PROVE  x = y
  <2>1. x.key = TRUE /\ x.guestId = TRUE /\ x.invoice = FALSE /\ x.receipt = FALSE
    BY <1>4 DEF Mapped
  <2> QED
    BY <1>2, <1>3, <1>4, <2>1, SMTT(60) DEF Mapped
<1> QED
  BY <1>2, <1>4, SMTT(60) DEF y

\* The values the steps save, mapped.
LEMMA ExceptOf ==
  ASSUME NEW v \in Choice
  PROVE  /\ \A c \in Cottages :
              cacheOf([v EXCEPT !.cottage = c]) = [cacheOf(v) EXCEPT !.cottage = c]
         /\ \A s \in Stays :
              cacheOf([v EXCEPT !.cottage = s.cottage, !.period = s])
                = [cacheOf(v) EXCEPT !.cottage = s.cottage, !.period = s.cottage]
         /\ cacheOf([v EXCEPT !.bookingId = TRUE]) = [cacheOf(v) EXCEPT !.bookingId = TRUE]
<1> DEFINE x == cacheOf(v)
<1>1. /\ x.key /\ x.guestId /\ ~x.invoice /\ ~x.receipt
      /\ x.cottage = v.cottage /\ x.period = v.period.cottage /\ x.bookingId = v.bookingId
  BY DEF cacheOf
<1>2. x \in Mapped
  BY CacheOf
<1> HIDE DEF x
<1>3. ASSUME NEW c \in Cottages
      PROVE  cacheOf([v EXCEPT !.cottage = c]) = [x EXCEPT !.cottage = c]
  <2> DEFINE w == [v EXCEPT !.cottage = c]
             y == [x EXCEPT !.cottage = c]
  <2>1. w \in Choice /\ w.cottage = c /\ w.period = v.period /\ w.bookingId = v.bookingId
    BY DEF Choice
  <2>2. /\ y \in Mapped /\ y.key /\ y.guestId /\ ~y.invoice /\ ~y.receipt
        /\ y.cottage = c /\ y.period = v.period.cottage /\ y.bookingId = v.bookingId
    BY <1>1, <1>2, BookingAssumption, SMTT(60) DEF Mapped
  <2> HIDE DEF w, y
  <2>3. cacheOf(w) = y
    BY <2>1, <2>2, CacheOf
  <2> QED
    BY <2>3 DEF w, y
<1>4. ASSUME NEW s \in Stays
      PROVE  cacheOf([v EXCEPT !.cottage = s.cottage, !.period = s])
               = [x EXCEPT !.cottage = s.cottage, !.period = s.cottage]
  <2> DEFINE w == [v EXCEPT !.cottage = s.cottage, !.period = s]
             y == [x EXCEPT !.cottage = s.cottage, !.period = s.cottage]
  <2>1. w \in Choice /\ w.cottage = s.cottage /\ w.period = s /\ w.bookingId = v.bookingId
    BY Zenon DEF Choice, Stays
  <2>2. s.cottage \in Nat
    BY BookingAssumption, Zenon DEF Stays
  <2>3. /\ y \in Mapped /\ y.key /\ y.guestId /\ ~y.invoice /\ ~y.receipt
        /\ y.cottage = s.cottage /\ y.period = s.cottage /\ y.bookingId = v.bookingId
    BY <1>1, <1>2, <2>2, Zenon DEF Mapped
  <2> HIDE DEF w, y
  <2>4. cacheOf(w) = y
    BY <2>1, <2>3, CacheOf
  <2> QED
    BY <2>4 DEF w, y
<1>5. cacheOf([v EXCEPT !.bookingId = TRUE]) = [x EXCEPT !.bookingId = TRUE]
  <2> DEFINE w == [v EXCEPT !.bookingId = TRUE]
             y == [x EXCEPT !.bookingId = TRUE]
  <2>1. w \in Choice /\ w.cottage = v.cottage /\ w.period = v.period /\ w.bookingId
    BY Zenon DEF Choice
  <2>2. /\ y \in Mapped /\ y.key /\ y.guestId /\ ~y.invoice /\ ~y.receipt
        /\ y.cottage = v.cottage /\ y.period = v.period.cottage /\ y.bookingId
    BY <1>1, <1>2, Zenon DEF Mapped
  <2>3. w.bookingId \in BOOLEAN /\ y.bookingId \in BOOLEAN
    BY DEF Choice, Mapped
  <2> HIDE DEF w, y
  <2>4. cacheOf(w) = y
    BY <2>1, <2>2, <2>3, CacheOf, Zenon
  <2> QED
    BY <2>4 DEF w, y
<1> QED
  BY <1>3, <1>4, <1>5, ZenonT(60) DEF x

USE DEF Journey!guestVars, Journey!mqVars, Journey!postVars, Journey!endVars

\* The search changes nothing the journey sees.
LEMMA SearchStutters ==
  ASSUME UNCHANGED <<step, ctxDone, graph, names, cache, bookings>>
  PROVE  UNCHANGED Journey!vars
BY DEF Journey!vars

\* The actions, mapped.
LEMMA EndsOf ==
  ASSUME FInv, flowCancelled
  PROVE  Journey!flowCancelled
<1>1. pcOf(step) = step /\ resultOf(step) = "none" /\ step \in Journey!BookingFlow
  BY StepOf DEF flowCancelled, Steps, Journey!BookingFlow
<1>2. pcOf(step') = "validate" /\ resultOf(step') = "none"
  BY StepOf DEF flowCancelled
<1>3. Journey!AfterFlow(step) = "validate" /\ step \in Journey!Steps
  BY <1>1 DEF Journey!AfterFlow, Journey!BookingFlow, Journey!Steps
<1>4. ctxDone /\ UNCHANGED <<ctxDone, names, cache, bookings>>
  BY DEF flowCancelled
<1> QED
  BY <1>1, <1>2, <1>3, <1>4, SMTT(60) DEF Journey!flowCancelled

LEMMA FailsOf ==
  ASSUME FInv, step \in Steps, step' = "failed",
         UNCHANGED <<ctxDone, graph, names, cache, bookings>>
  PROVE  Journey!callFails
<1>1. pcOf(step) = step /\ step \in Steps
  BY StepOf
<1>2. pcOf(step') = "cleanup" /\ resultOf(step') = "err"
  BY StepOf
<1> QED
  BY <1>1, <1>2 DEF Journey!callFails, Journey!Fail, Steps

LEMMA ListCottagesOf ==
  ASSUME FInv, ListCottages
  PROVE  Journey!ListCottages
<1>1. step = "ListCottages" /\ step \in Steps /\ pcOf(step) = step /\ resultOf(step) = "none"
  BY StepOf, SMTT(60) DEF ListCottages, Steps
<1>2. step' \in DefaultBookingFlow[step]
  BY <1>1, NextStep, SMTT(60) DEF ListCottages, FInv, Typed
<1>3. pcOf(step') \in Journey!BookingTransitions(step) /\ resultOf(step') = "none"
  BY <1>1, <1>2, TargetOf, SMTT(60)
<1>4. Range(names') \subseteq Cottages
  <2>1. names' \in Seq(Cottages)
    BY Lists DEF ListCottages
  <2> QED
    BY <2>1 DEF Range
<1>5. ~ctxDone /\ UNCHANGED <<ctxDone, cache, bookings>>
  BY DEF ListCottages
<1> QED
  BY <1>1, <1>3, <1>4, <1>5, SMTT(60) DEF Journey!ListCottages

LEMMA SelectCottageOf ==
  ASSUME FInv, SelectCottage
  PROVE  Journey!SelectCottage
<1>1. step = "SelectCottage" /\ step \in Steps /\ pcOf(step) = step
  BY StepOf DEF SelectCottage, Steps
<1>2. PICK i \in DOMAIN names : Save([cache EXCEPT !.cottage = names[i]])
  BY DEF SelectCottage
<1> DEFINE c == names[i]
<1>3. c \in Range(names) /\ c \in Cottages
  BY DEF Range, FInv, Typed
<1>4. Journey!Save(cacheOf([cache EXCEPT !.cottage = c]), Journey!BookingTransitions(step))
  BY <1>1, <1>2, SaveOf
<1> HIDE DEF c
<1>5. cacheOf([cache EXCEPT !.cottage = c]) = [cacheOf(cache) EXCEPT !.cottage = c]
  BY <1>3, ExceptOf, Zenon DEF FInv, Typed
<1>6. Journey!Save([cacheOf(cache) EXCEPT !.cottage = c], Journey!BookingTransitions(step))
  BY <1>4, <1>5
<1>7. ~ctxDone /\ UNCHANGED <<ctxDone, names, bookings>>
  BY DEF SelectCottage
<1> QED
  BY <1>1, <1>3, <1>6, <1>7, Zenon DEF Journey!SelectCottage, Journey!Loaded, cacheOf

LEMMA SelectPeriodOf ==
  ASSUME FInv, SelectPeriod
  PROVE  Journey!SelectPeriod \/ Journey!callFails
<1>1. step = "SelectPeriod" /\ step \in Steps /\ pcOf(step) = step /\ cache.cottage # None
  BY StepOf DEF SelectPeriod, Steps, FInv, Searching
<1>2. UNCHANGED <<ctxDone, graph, names, bookings>>
  BY DEF SelectPeriod
<1>3. CASE search.candidates = {}
  BY <1>1, <1>2, <1>3, FailsOf DEF SelectPeriod
<1>4. CASE search.candidates # {}
  <2> DEFINE s == Head(ranked(search.candidates))
  <2>1. s \in search.candidates
    BY <1>4, RankedFirst DEF FInv, Typed, Searching
  <2>2. s \in Stays /\ s.cottage \in Range(names)
    BY <2>1 DEF FInv, Typed, Searching
  <2>3. Save([cache EXCEPT !.cottage = s.cottage, !.period = s])
    BY <1>4, SMTT(60) DEF SelectPeriod
  <2> HIDE DEF s
  <2>4. CASE ctxDone
    <3>1. UNCHANGED cache /\ step' = "failed"
      BY <2>3, <2>4 DEF Save
    <3> QED
      BY <1>1, <1>2, <3>1, FailsOf, SMTT(60)
  <2>5. CASE ~ctxDone
    <3> DEFINE v == [cache EXCEPT !.cottage = s.cottage, !.period = s]
               c == s.cottage
    <3>1. Journey!Save(cacheOf(v), Journey!BookingTransitions(step))
      BY <1>1, <2>3, SaveOf
    <3>2. cacheOf(v) = [cacheOf(cache) EXCEPT !.cottage = c, !.period = c]
      BY <2>2, ExceptOf, Zenon DEF FInv, Typed
    <3>3. c \in Range(names)
      BY <2>2
    <3> HIDE DEF v, c
    <3>4. Journey!Save([cacheOf(cache) EXCEPT !.cottage = c, !.period = c],
                       Journey!BookingTransitions(step))
      BY <3>1, <3>2
    <3>5. Journey!SelectPeriod
      BY <1>1, <1>2, <2>5, <3>3, <3>4, ZenonT(60) DEF Journey!SelectPeriod, Journey!Loaded, cacheOf
    <3> QED
      BY <3>5
  <2> QED
    BY <2>4, <2>5, SMTT(60)
<1> QED
  BY <1>3, <1>4

LEMMA BookCottageOf ==
  ASSUME FInv, BookCottage
  PROVE  Journey!BookCottage
<1> DEFINE v == [cache EXCEPT !.bookingId = TRUE]
           b == [cottage |-> cache.cottage, period |-> cache.period]
<1>1. step = "BookCottage" /\ step \in Steps /\ pcOf(step) = step
  BY StepOf DEF BookCottage, Steps
<1>2. /\ bookings' = Append(bookings, b)
      /\ Save(v) \/ (step' = "failed" /\ UNCHANGED cache)
  BY Zenon DEF BookCottage
<1>3. /\ ~ctxDone /\ cache.cottage # None /\ cache.period # NoStay /\ ~cache.bookingId
      /\ UNCHANGED <<ctxDone, names>>
  BY DEF BookCottage
<1>4. b \in Made /\ cache \in Choice /\ bookings \in Seq(Made)
  BY ChoiceFacts, ZenonT(60) DEF FInv, Typed
<1>5. madeOf(b) = [cottage |-> cacheOf(cache).cottage, period |-> cacheOf(cache).period]
  BY DEF madeOf, cacheOf
<1>6. cacheOf(v) = [cacheOf(cache) EXCEPT !.bookingId = TRUE]
  BY <1>4, ExceptOf, ZenonT(60)
<1>7. cacheOf(cache).cottage # None /\ cacheOf(cache).period # None
      /\ ~cacheOf(cache).bookingId /\ cacheOf(cache).key
  <2>1. cache.period \in Stays
    BY <1>3, <1>4, SMTT(60) DEF Choice
  <2>2. cache.period.cottage # None
    BY <2>1, BookingAssumption, SMTT(60) DEF Stays, None
  <2> QED
    BY <1>3, <2>2, SMTT(60) DEF cacheOf
<1> HIDE DEF v, b
<1>8. bookingsOf(bookings') = Append(bookingsOf(bookings), madeOf(b))
  BY <1>2, <1>4, AppendOf, SMTT(60)
<1>9. CASE Save(v)
  <2>1. Journey!Save([cacheOf(cache) EXCEPT !.bookingId = TRUE],
                     Journey!BookingTransitions(step))
    BY <1>1, <1>6, <1>9, SaveOf, Zenon
  <2> QED
    BY <1>1, <1>3, <1>5, <1>7, <1>8, <2>1, SMTT(60)
    DEF Journey!BookCottage, Journey!Loaded, Journey!Bookable
<1>10. CASE step' = "failed" /\ UNCHANGED cache
  <2>1. pcOf(step') = "cleanup" /\ resultOf(step') = "err"
    BY <1>10, StepOf
  <2>2. cacheOf(cache') = cacheOf(cache)
    BY <1>10
  <2> QED
    BY <1>1, <1>3, <1>5, <1>7, <1>8, <2>1, <2>2, SMTT(60)
    DEF Journey!BookCottage, Journey!Fail, Journey!Loaded, Journey!Bookable
<1> QED
  BY <1>2, <1>9, <1>10, SMTT(60)

LEMMA CancelOf == Cancel => Journey!Cancel
BY ZenonT(60) DEF Cancel, Journey!Cancel

\* Every step of the booking flow is one of the journey or changes nothing of it.
LEMMA StepsOf == FInv /\ [Next]_vars => [Journey!Next]_(Journey!vars)
<1> SUFFICES ASSUME FInv, [Next]_vars PROVE Journey!Next \/ UNCHANGED Journey!vars
  OBVIOUS
<1> USE DEF Journey!Next, Journey!Journey
<1>1. CASE flowCancelled
  BY <1>1, EndsOf, SMTT(60)
<1>2. CASE stepFails
  BY <1>2, FailsOf DEF stepFails
<1>3. CASE ListCottages
  BY <1>3, ListCottagesOf
<1>4. CASE SelectCottage
  BY <1>4, SelectCottageOf
<1>5. CASE beginSearch
  BY <1>5, SearchStutters DEF beginSearch
<1>6. CASE loadAvailablePeriods
  BY <1>6, SearchStutters DEF loadAvailablePeriods
<1>7. CASE collected
  BY <1>7, SearchStutters DEF collected
<1>8. CASE SelectPeriod
  BY <1>8, SelectPeriodOf
<1>9. CASE BookCottage
  BY <1>9, BookCottageOf
<1>10. CASE Cancel
  BY <1>10, CancelOf, SMTT(60)
<1>11. CASE UNCHANGED vars
  BY <1>11, SearchStutters DEF vars
<1> QED
  BY <1>1, <1>2, <1>3, <1>4, <1>5, <1>6, <1>7, <1>8, <1>9, <1>10, <1>11, SMTT(60) DEF Next

\* The booking flow, with its draws and its search in single requests, does
\* only what GuestJourney lets its booking flow do, whatever the graph's
\* weights and the service's answers are.
THEOREM BookingFlowIsAJourney == Spec => JourneySteps
  BY FInvAlways, StepsOf, PTL DEF Spec, JourneySteps
=============================================================================
