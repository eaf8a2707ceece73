----------------------------- MODULE PlanProofs -----------------------------
(***************************************************************************)
(* Proofs about ArbitragePlan as a part of MC_Parts: for any requests, the *)
(* plan that is returned is the largest the books allow, and the prices it *)
(* names are the closest that reach the percentage.  The folds of the      *)
(* model are solved by the lemmas about sums of PartsProofs, and what      *)
(* holds after each level, unit or price by induction on its number.       *)
(***************************************************************************)
EXTENDS PartsProofs

-----------------------------------------------------------------------------
(* What a side holds, and what its units cost.                             *)

(* The levels of a side: positive prices and quantities.                   *)
LEMMA LevelTypes ==
  ASSUME NEW l \in Side
  PROVE  /\ Len(l) \in Nat /\ DOMAIN l = 1 .. Len(l)
         /\ \A k \in 1 .. Len(l) : /\ l[k][1] \in Nat \ {0} /\ l[k][2] \in Nat \ {0}
                                   /\ P!Volumes(l)[k] = l[k][2]
         /\ DOMAIN P!Volumes(l) = 1 .. Len(l)
<1>1. Len(l) \in Nat /\ DOMAIN l = 1 .. Len(l) /\ \A k \in 1 .. Len(l) : l[k] \in (Nat \ {0}) \X (Nat \ {0})
  BY DEF Side
<1>2. \A k \in 1 .. Len(l) : l[k][1] \in Nat \ {0} /\ l[k][2] \in Nat \ {0}
  BY <1>1
<1> QED
  BY <1>1, <1>2 DEF P!Volumes

\* What the first k levels of a side hold.
DepthTo(l, k) == SumOn(P!Volumes(l), 1 .. k)

(* The depth of no levels is nothing, each level adds its quantity, and    *)
(* all of them are the depth of the side.                                  *)
LEMMA DepthsGrow ==
  ASSUME NEW l \in Side
  PROVE  /\ DepthTo(l, 0) = 0
         /\ \A k \in 0 .. Len(l) : DepthTo(l, k) \in Nat
         /\ \A k \in 1 .. Len(l) : DepthTo(l, k) = DepthTo(l, k - 1) + l[k][2]
         /\ \A k1, k2 \in 0 .. Len(l) : k1 =< k2 => DepthTo(l, k1) =< DepthTo(l, k2)
         /\ P!Depth(l) = DepthTo(l, Len(l))
<1>0. /\ Len(l) \in Nat
      /\ \A k \in 1 .. Len(l) : P!Volumes(l)[k] \in Nat \ {0} /\ P!Volumes(l)[k] = l[k][2]
      /\ DOMAIN P!Volumes(l) = 1 .. Len(l)
  BY LevelTypes
<1>1. DepthTo(l, 0) = 0
  <2>1. 1 .. 0 = {} /\ IsFiniteSet({})
    BY FS_EmptySet
  <2> QED
    BY <2>1, SumTypes DEF DepthTo
<1>2. ASSUME NEW k \in 1 .. Len(l)
      PROVE  DepthTo(l, k - 1) \in Int /\ DepthTo(l, k) = DepthTo(l, k - 1) + l[k][2]
  <2>1. PICK n \in Nat : k = n + 1 /\ n = k - 1
    BY <1>0
  <2>2. \A m \in 1 .. n + 1 : P!Volumes(l)[m] \in Int
    BY <1>0, <2>1
  <2> QED
    BY <1>0, <2>1, <2>2, SumOfOneMore DEF DepthTo
<1> DEFINE Good == {n \in Nat : n =< Len(l) => /\ DepthTo(l, n) \in Nat
                                              /\ \A k \in 0 .. n : DepthTo(l, k) =< DepthTo(l, n)}
<1>3. 0 \in Good
  BY <1>1
<1>4. ASSUME NEW n \in Good
      PROVE  n + 1 \in Good
  <2> SUFFICES ASSUME n + 1 =< Len(l)
               PROVE  /\ DepthTo(l, n + 1) \in Nat
                      /\ \A k \in 0 .. n + 1 : DepthTo(l, k) =< DepthTo(l, n + 1)
    OBVIOUS
  <2>1. n + 1 \in 1 .. Len(l) /\ (n + 1) - 1 = n /\ n =< Len(l)
    BY <1>0
  <2>2. DepthTo(l, n + 1) = DepthTo(l, n) + l[n + 1][2] /\ l[n + 1][2] \in Nat
    BY <1>0, <1>2, <2>1
  <2>3. PICK d \in Nat : d = DepthTo(l, n) /\ \A k \in 0 .. n : DepthTo(l, k) \in Int => DepthTo(l, k) =< d
    BY <2>1
  <2>4. DepthTo(l, n) =< DepthTo(l, n + 1) /\ DepthTo(l, n + 1) \in Nat
    BY <2>2, <2>3
  <2>5. \A k \in 0 .. n : DepthTo(l, k) \in Int
    <3> SUFFICES ASSUME NEW k \in 0 .. n PROVE DepthTo(l, k) \in Int
      OBVIOUS
    <3>1. k + 1 \in 1 .. Len(l) /\ (k + 1) - 1 = k
      BY <1>0, <2>1
    <3> QED
      BY <1>2, <3>1
  <2>6. \A k \in 0 .. n : DepthTo(l, k) =< DepthTo(l, n + 1)
    BY <2>3, <2>4, <2>5
  <2> QED
    BY <2>4, <2>6
<1>5. Good = Nat
  <2>1. Good \in SUBSET Nat
    OBVIOUS
  <2> HIDE DEF Good
  <2> QED
    BY <1>3, <1>4, <2>1, AllNumbers
<1>6. \A k \in 0 .. Len(l) : DepthTo(l, k) \in Nat /\ \A m \in 0 .. k : DepthTo(l, m) =< DepthTo(l, k)
  <2> SUFFICES ASSUME NEW k \in 0 .. Len(l)
               PROVE  DepthTo(l, k) \in Nat /\ \A m \in 0 .. k : DepthTo(l, m) =< DepthTo(l, k)
    OBVIOUS
  <2>1. k \in Good /\ k =< Len(l)
    BY <1>0, <1>5
  <2> QED
    BY <2>1
<1>7. P!Depth(l) = DepthTo(l, Len(l))
  BY <1>0 DEF P!Depth, DepthTo, P!Sum, P!FoldFunction, P!FoldFunctionOnSet, SumOn, FoldFunctionOnSet, P!MapThenFoldSet, MapThenFoldSet
<1>8. \A k1, k2 \in 0 .. Len(l) : k1 =< k2 => DepthTo(l, k1) =< DepthTo(l, k2)
  BY <1>0, <1>6
<1> QED
  BY <1>1, <1>2, <1>6, <1>7, <1>8

(* The least element of a set of numbers.                                  *)
LEMMA LeastChosen ==
  ASSUME NEW T \in SUBSET Int, NEW k \in T, \A n \in T : k =< n
  PROVE  P!Min(T) = k
<1>1. PICK m : m = P!Min(T)
  OBVIOUS
<1>2. m \in T /\ \A n \in T : m =< n
  BY <1>1 DEF P!Min
<1> QED
  BY <1>1, <1>2

(* The greatest element of a set of numbers.                               *)
LEMMA GreatestChosen ==
  ASSUME NEW T \in SUBSET Int, NEW k \in T, \A n \in T : k >= n
  PROVE  P!Max(T) = k
<1>1. PICK m : m = P!Max(T)
  OBVIOUS
<1>2. m \in T /\ \A n \in T : m >= n
  BY <1>1 DEF P!Max
<1> QED
  BY <1>1, <1>2

(* A unit has the price of the level it lies in.                           *)
LEMMA PriceOfUnit ==
  ASSUME NEW l \in Side, NEW k \in 1 .. Len(l), NEW q \in Nat,
         DepthTo(l, k - 1) < q, q =< DepthTo(l, k)
  PROVE  P!PriceAt(l, q) = l[k][1]
<1> DEFINE deep == {n \in DOMAIN l : DepthTo(l, n) >= q}
<1>1. P!PriceAt(l, q) = l[P!Min(deep)][1]
  BY DEF P!PriceAt, DepthTo, P!FoldFunctionOnSet, SumOn, FoldFunctionOnSet, P!MapThenFoldSet, MapThenFoldSet
<1>2. /\ Len(l) \in Nat /\ DOMAIN l = 1 .. Len(l)
      /\ \A n \in 0 .. Len(l) : DepthTo(l, n) \in Nat
      /\ \A k1, k2 \in 0 .. Len(l) : k1 =< k2 => DepthTo(l, k1) =< DepthTo(l, k2)
  BY LevelTypes, DepthsGrow
<1>3. k \in deep
  BY <1>2
<1>4. \A n \in deep : k =< n
  <2> SUFFICES ASSUME NEW n \in deep, n < k PROVE FALSE
    BY <1>2
  <2>1. n \in 0 .. Len(l) /\ k - 1 \in 0 .. Len(l) /\ n =< k - 1 /\ DepthTo(l, n) >= q
    BY <1>2
  <2>2. DepthTo(l, n) =< DepthTo(l, k - 1) /\ DepthTo(l, n) \in Nat /\ DepthTo(l, k - 1) \in Nat
    BY <1>2, <2>1
  <2> QED
    BY <2>1, <2>2
<1>5. P!Min(deep) = k
  <2>1. deep \in SUBSET Int
    BY <1>2
  <2> HIDE DEF deep
  <2> QED
    BY <1>3, <1>4, <2>1, LeastChosen
<1> QED
  BY <1>1, <1>5

(* Every unit of a side lies in a level.                                   *)
LEMMA LevelOfUnit ==
  ASSUME NEW l \in Side, NEW q \in 1 .. P!Depth(l)
  PROVE  \E k \in 1 .. Len(l) : /\ DepthTo(l, k - 1) < q /\ q =< DepthTo(l, k)
                                /\ P!PriceAt(l, q) = l[k][1]
<1> DEFINE deep == {n \in 1 .. Len(l) : DepthTo(l, n) >= q}
<1>1. /\ Len(l) \in Nat /\ DepthTo(l, 0) = 0 /\ P!Depth(l) = DepthTo(l, Len(l))
      /\ \A n \in 0 .. Len(l) : DepthTo(l, n) \in Nat
  BY LevelTypes, DepthsGrow
<1>2. P!Depth(l) \in Nat
  BY <1>1
<1>3. Len(l) \in deep
  <2>1. Len(l) # 0 /\ DepthTo(l, Len(l)) >= q
    BY <1>1, <1>2
  <2> QED
    BY <1>1, <2>1
<1>4. PICK k \in deep : \A n \in deep : k =< n
  <2>1. deep \in SUBSET Nat /\ deep # {}
    BY <1>3
  <2> HIDE DEF deep
  <2> QED
    BY <2>1, LeastNumber
<1>5. DepthTo(l, k - 1) < q
  <2>1. CASE k = 1
    BY <1>1, <1>2, <2>1
  <2>2. CASE k # 1
    <3>1. k - 1 \in 1 .. Len(l) /\ k - 1 \notin deep /\ DepthTo(l, k - 1) \in Nat
      BY <1>1, <1>4, <2>2
    <3> QED
      BY <1>2, <3>1
  <2> QED
    BY <2>1, <2>2
<1>6. k \in 1 .. Len(l) /\ q \in Nat /\ q =< DepthTo(l, k)
  BY <1>1, <1>2
<1> QED
  BY <1>5, <1>6, PriceOfUnit

\* What the first q units cost.
CostOf(l, q) == SumOn([u \in 1 .. q |-> P!PriceAt(l, u)], 1 .. q)

(* Every unit of a side has a positive price.                              *)
LEMMA PricesArePositive ==
  ASSUME NEW l \in Side
  PROVE  /\ P!Depth(l) \in Nat
         /\ \A u \in 1 .. P!Depth(l) : P!PriceAt(l, u) \in Nat \ {0}
<1>1. P!Depth(l) \in Nat
  BY LevelTypes, DepthsGrow
<1>2. ASSUME NEW u \in 1 .. P!Depth(l)
      PROVE  P!PriceAt(l, u) \in Nat \ {0}
  <2>1. PICK k \in 1 .. Len(l) : P!PriceAt(l, u) = l[k][1]
    BY LevelOfUnit
  <2> QED
    BY <2>1, LevelTypes
<1> QED
  BY <1>1, <1>2

(* Each unit adds its price to the cost.                                   *)
LEMMA CostOfOneMore ==
  ASSUME NEW l \in Side, NEW q \in Nat, q + 1 =< P!Depth(l)
  PROVE  /\ CostOf(l, q) \in Int
         /\ CostOf(l, q + 1) = CostOf(l, q) + P!PriceAt(l, q + 1)
<1> DEFINE short == [u \in 1 .. q |-> P!PriceAt(l, u)]
           long  == [u \in 1 .. q + 1 |-> P!PriceAt(l, u)]
<1>1. P!Depth(l) \in Nat /\ \A u \in 1 .. P!Depth(l) : P!PriceAt(l, u) \in Nat \ {0}
  BY PricesArePositive
<1>2. /\ \A u \in 1 .. q + 1 : long[u] \in Int
      /\ \A u \in 1 .. q : short[u] = long[u] /\ short[u] \in Int
      /\ long[q + 1] = P!PriceAt(l, q + 1)
  BY <1>1
<1>3. CostOf(l, q) = SumOn(short, 1 .. q) /\ CostOf(l, q + 1) = SumOn(long, 1 .. q + 1)
  BY DEF CostOf
<1> HIDE DEF short, long
<1>4. /\ SumOn(long, 1 .. q) \in Int
      /\ SumOn(long, 1 .. q + 1) = SumOn(long, 1 .. q) + long[q + 1]
  BY <1>2, SumOfOneMore
<1>5. SumOn(short, 1 .. q) = SumOn(long, 1 .. q)
  <2>1. IsFiniteSet(1 .. q) /\ \A u \in 1 .. q : long[u] \in Int
    BY <1>2, FS_Interval
  <2> QED
    BY <1>2, <2>1, SumTypes
<1> QED
  BY <1>2, <1>3, <1>4, <1>5

(* Units of one price cost as often that price.                            *)
LEMMA CostAtOnePrice ==
  ASSUME NEW l \in Side, NEW d \in Nat, NEW q \in Nat, d + q =< P!Depth(l),
         NEW p \in Nat, \A u \in d + 1 .. d + q : P!PriceAt(l, u) = p, CostOf(l, d) \in Int
  PROVE  CostOf(l, d + q) = CostOf(l, d) + q * p
<1> DEFINE Good == {n \in Nat : n =< q => CostOf(l, d + n) = CostOf(l, d) + n * p}
<1>1. 0 \in Good
  <2>1. d + 0 = d /\ 0 * p = 0 /\ CostOf(l, d) + 0 = CostOf(l, d)
    OBVIOUS
  <2> QED
    BY <2>1
<1>2. ASSUME NEW n \in Good
      PROVE  n + 1 \in Good
  <2> SUFFICES ASSUME n + 1 =< q PROVE CostOf(l, d + (n + 1)) = CostOf(l, d) + (n + 1) * p
    OBVIOUS
  <2>1. P!Depth(l) \in Nat
    BY PricesArePositive
  <2>2. PICK m \in Nat : m = d + n /\ m + 1 = d + (n + 1) /\ m + 1 =< P!Depth(l) /\ m + 1 \in d + 1 .. d + q
    BY <2>1
  <2>3. CostOf(l, m + 1) = CostOf(l, m) + p
    BY <2>2, CostOfOneMore
  <2>4. CostOf(l, m) = CostOf(l, d) + n * p
    BY <2>2
  <2>5. PICK c \in Int, t \in Int : c = CostOf(l, d) /\ t = n * p
    OBVIOUS
  <2>6. (n + 1) * p = t + p
    BY <2>5
  <2>7. CostOf(l, m + 1) = (c + t) + p /\ (c + t) + p = c + (t + p)
    BY <2>3, <2>4, <2>5
  <2> QED
    BY <2>2, <2>5, <2>6, <2>7
<1>3. Good = Nat
  <2>1. Good \in SUBSET Nat
    OBVIOUS
  <2> HIDE DEF Good
  <2> QED
    BY <1>1, <1>2, <2>1, AllNumbers
<1>4. q \in Good
  BY <1>3
<1> QED
  BY <1>4

(* More units cost at least what the next one does.                        *)
LEMMA CostRises ==
  ASSUME NEW l \in Side, NEW d \in Nat, NEW q \in Nat, d < q, q =< P!Depth(l)
  PROVE  /\ CostOf(l, d) \in Int /\ CostOf(l, q) \in Int
         /\ CostOf(l, q) >= CostOf(l, d) + P!PriceAt(l, d + 1)
<1>0. P!Depth(l) \in Nat /\ \A u \in 1 .. P!Depth(l) : P!PriceAt(l, u) \in Nat \ {0}
  BY PricesArePositive
<1>1. d + 1 =< P!Depth(l) /\ d + 1 \in 1 .. P!Depth(l)
  BY <1>0
<1>2. CostOf(l, d) \in Int /\ CostOf(l, d + 1) = CostOf(l, d) + P!PriceAt(l, d + 1)
  BY <1>1, CostOfOneMore
<1>3. PICK c \in Int : c = CostOf(l, d) + P!PriceAt(l, d + 1) /\ c = CostOf(l, d + 1)
  BY <1>0, <1>1, <1>2
<1> DEFINE Good == {n \in Nat : d + (n + 1) =< q => CostOf(l, d + (n + 1)) \in Int /\ CostOf(l, d + (n + 1)) >= c}
<1>4. 0 \in Good
  BY <1>3
<1>5. ASSUME NEW n \in Good
      PROVE  n + 1 \in Good
  <2> SUFFICES ASSUME d + ((n + 1) + 1) =< q
               PROVE  CostOf(l, d + ((n + 1) + 1)) \in Int /\ CostOf(l, d + ((n + 1) + 1)) >= c
    OBVIOUS
  <2>1. PICK m \in Nat : m = d + (n + 1) /\ m + 1 = d + ((n + 1) + 1) /\ m + 1 =< P!Depth(l) /\ m + 1 \in 1 .. P!Depth(l)
    BY <1>0
  <2>2. CostOf(l, m) \in Int /\ CostOf(l, m) >= c
    BY <2>1
  <2>3. CostOf(l, m + 1) = CostOf(l, m) + P!PriceAt(l, m + 1) /\ P!PriceAt(l, m + 1) \in Nat
    BY <1>0, <2>1, CostOfOneMore
  <2>4. CostOf(l, m + 1) \in Int /\ CostOf(l, m + 1) >= c
    BY <2>2, <2>3
  <2> QED
    BY <2>1, <2>4
<1>6. Good = Nat
  <2>1. Good \in SUBSET Nat
    OBVIOUS
  <2> HIDE DEF Good
  <2> QED
    BY <1>4, <1>5, <2>1, AllNumbers
<1>7. PICK n \in Nat : d + (n + 1) = q
  <2>1. q - d - 1 \in Nat /\ d + ((q - d - 1) + 1) = q
    OBVIOUS
  <2> QED
    BY <2>1
<1>8. n \in Good
  BY <1>6
<1>9. CostOf(l, q) \in Int /\ CostOf(l, q) >= c
  BY <1>7, <1>8
<1> QED
  BY <1>2, <1>3, <1>9

-----------------------------------------------------------------------------
(* The pair of prices a plan names.                                        *)

Price == Nat \ {0}

(* Who reaches the percentage from a price reaches it from a lower one,    *)
(* and with a higher one.                                                  *)
LEMMA ReachesMore ==
  ASSUME NEW a1 \in Price, NEW a2 \in Price, NEW d1 \in Price, NEW d2 \in Price, NEW percent \in Int,
         P!Reaches(a2, d1, percent), a1 =< a2, d1 =< d2
  PROVE  P!Reaches(a1, d2, percent)
<1>1. PICK f \in Int : f = 100 + percent
  OBVIOUS
<1>2. d1 * 100 >= a2 * f /\ d2 * 100 >= d1 * 100
  BY <1>1 DEF P!Reaches, Price
<1>3. d2 * 100 >= a1 * f
  <2>1. CASE f >= 0
    <3>1. a2 * f >= a1 * f
      BY <2>1 DEF Price
    <3> QED
      BY <1>2, <3>1 DEF Price
  <2>2. CASE f < 0
    <3>1. a1 * f =< 0
      BY <2>2 DEF Price
    <3> QED
      BY <3>1 DEF Price
  <2> QED
    BY <2>1, <2>2
<1> QED
  BY <1>1, <1>3 DEF P!Reaches

(* Being no closer than is transitive.                                     *)
LEMMA NoCloserTransitive ==
  ASSUME NEW p \in Price \X Price, NEW q \in Price \X Price, NEW r \in Price \X Price,
         ~P!Closer(p, q), ~P!Closer(q, r)
  PROVE  ~P!Closer(p, r)
<1>1. PICK p1 \in Price, p2 \in Price, q1 \in Price, q2 \in Price, r1 \in Price, r2 \in Price :
        p = <<p1, p2>> /\ q = <<q1, q2>> /\ r = <<r1, r2>>
  OBVIOUS
<1>2. p2 * q1 >= q2 * p1 /\ q2 * r1 >= r2 * q1
  BY <1>1 DEF P!Closer, Price
<1>3. (p2 * q1) * r1 >= (q2 * p1) * r1
  BY <1>2 DEF Price
<1>4. (q2 * r1) * p1 >= (r2 * q1) * p1
  BY <1>2 DEF Price
<1>5. q1 * (p2 * r1) >= q1 * (r2 * p1)
  BY <1>3, <1>4 DEF Price
<1>6. PICK x \in Nat, y \in Nat : x = p2 * r1 /\ y = r2 * p1
  BY DEF Price
<1>7. x >= y
  <2> SUFFICES ASSUME x + 1 =< y PROVE FALSE
    BY <1>6
  <2>1. q1 * (x + 1) =< q1 * y
    BY DEF Price
  <2>2. q1 * (x + 1) = q1 * x + q1 /\ q1 > 0 /\ q1 * x >= q1 * y
    BY <1>5, <1>6 DEF Price
  <2> QED
    BY <2>1, <2>2 DEF Price
<1>8. ~(x < y)
  BY <1>7
<1> QED
  BY <1>1, <1>6, <1>8 DEF P!Closer

(* A set of numbers with a bound has a greatest one.                       *)
LEMMA GreatestNumber ==
  ASSUME NEW n \in Nat, NEW T \in SUBSET (0 .. n), T # {}
  PROVE  P!Max(T) \in T /\ \A x \in T : P!Max(T) >= x
<1> DEFINE R == {n - x : x \in T}
<1>1. R \in SUBSET Nat /\ R # {}
  <2>1. \A x \in T : n - x \in Nat
    OBVIOUS
  <2> QED
    BY <2>1
<1>2. PICK y \in R : \A z \in R : y =< z
  <2> HIDE DEF R
  <2> QED
    BY <1>1, LeastNumber
<1>3. PICK m \in T : y = n - m
  OBVIOUS
<1>4. \A x \in T : m >= x
  <2> SUFFICES ASSUME NEW x \in T PROVE m >= x
    OBVIOUS
  <2>1. n - m =< n - x
    BY <1>2, <1>3
  <2>2. m \in Int /\ x \in Int
    OBVIOUS
  <2> QED
    BY <2>1, <2>2
<1>5. T \in SUBSET Int
  OBVIOUS
<1>6. P!Max(T) = m
  BY <1>4, <1>5, GreatestChosen
<1> QED
  BY <1>4, <1>6

\* What a step of the search has: the place reached, and the best pair.
Found(dec) == [j : 0 .. Len(dec), best : {<< >>} \cup (Price \X Price)]

Start(dec) == [j |-> Len(dec), best |-> << >>]

Search(inc, dec, percent, g) ==
  g = [s \in SUBSET (DOMAIN inc) |->
         IF s = {} THEN Start(dec) ELSE P!Down(dec, percent, inc[P!Max(s)], g[s \ {P!Max(s)}])]

(* find_max_price, a fold of the model, is a solution of the recursion the *)
(* fold is defined by.                                                     *)
LEMMA MaxPriceIsSearch ==
  ASSUME NEW inc, NEW dec, NEW percent
  PROVE  P!MaxPrice(inc, dec, percent) = (CHOOSE g : Search(inc, dec, percent, g))[DOMAIN inc].best
BY Zenon DEF P!MaxPrice, P!FoldLeft, P!MapThenFoldSet, Search, Start

\* The first n decreasing prices that reach the percentage.
Reaching(dec, percent, price, n) == {k \in 1 .. n : P!Reaches(price, dec[k][1], percent)}

(* One step goes down to the lowest price that reaches, if there is one.   *)
LEMMA DownFinds ==
  ASSUME NEW dec \in Side, NEW percent \in Int, NEW level \in Price \X Price, NEW acc \in Found(dec)
  PROVE  /\ P!Down(dec, percent, level, acc) \in Found(dec)
         /\ Reaching(dec, percent, level[1], acc.j) = {} =>
              P!Down(dec, percent, level, acc) = [j |-> 0, best |-> acc.best]
         /\ Reaching(dec, percent, level[1], acc.j) # {} =>
              \E d \in Reaching(dec, percent, level[1], acc.j) :
                /\ \A k \in Reaching(dec, percent, level[1], acc.j) : k =< d
                /\ P!Down(dec, percent, level, acc) =
                     [j |-> d, best |-> IF P!Better(<<level[1], dec[d][1]>>, acc.best)
                                        THEN <<level[1], dec[d][1]>> ELSE acc.best]
<1> DEFINE able == {k \in 1 .. acc.j : P!Reaches(level[1], dec[k][1], percent)}
           res  == P!Down(dec, percent, level, acc)
<1>1. /\ acc.j \in 0 .. Len(dec) /\ Len(dec) \in Nat /\ acc.best \in {<< >>} \cup (Price \X Price)
      /\ \A b : [acc EXCEPT !.j = b] = [j |-> b, best |-> acc.best]
  BY LevelTypes DEF Found
<1>2. CASE able = {}
  <2>1. res = [acc EXCEPT !.j = 0]
    BY <1>2 DEF P!Down
  <2>2. res = [j |-> 0, best |-> acc.best]
    BY <1>1, <2>1
  <2>3. res \in Found(dec)
    <3> HIDE DEF res
    <3> QED
      BY <1>1, <2>2 DEF Found
  <2> QED
    BY <1>2, <2>2, <2>3 DEF Reaching
<1>3. CASE able # {}
  <2>1. PICK d : d = P!Max(able)
    OBVIOUS
  <2>2. d \in able /\ \A k \in able : k =< d
    <3>1. able \in SUBSET (0 .. acc.j) /\ acc.j \in Nat
      BY <1>1
    <3>2. d \in able /\ \A k \in able : d >= k
      <4> HIDE DEF able
      <4> QED
        BY <1>3, <2>1, <3>1, GreatestNumber
    <3>3. \A k \in able : k \in Int
      BY <3>1
    <3> HIDE DEF able
    <3> QED
      BY <3>2, <3>3
  <2>3. d # 0 /\ d \in 1 .. Len(dec)
    BY <1>1, <2>2
  <2>4. res = [j |-> d, best |-> IF P!Better(<<level[1], dec[d][1]>>, acc.best)
                                 THEN <<level[1], dec[d][1]>> ELSE acc.best]
    BY <1>3, <2>1, <2>3 DEF P!Down
  <2>5. <<level[1], dec[d][1]>> \in Price \X Price
    BY <2>3, LevelTypes DEF Price
  <2>6. res \in Found(dec)
    <3> HIDE DEF res
    <3> QED
      BY <1>1, <2>3, <2>4, <2>5 DEF Found
  <2> QED
    BY <1>3, <2>2, <2>4, <2>6 DEF Reaching
<1> QED
  BY <1>2, <1>3

(* The search is well defined, and what it has found after each price is   *)
(* what one step makes of what it had before.                              *)
LEMMA SearchSteps ==
  ASSUME NEW inc \in Side, NEW dec \in Side, NEW percent \in Int
  PROVE  \E acc \in [0 .. Len(inc) -> Found(dec)] :
           /\ acc[0] = Start(dec)
           /\ \A k \in 1 .. Len(inc) : acc[k] = P!Down(dec, percent, inc[k], acc[k - 1])
           /\ P!MaxPrice(inc, dec, percent) = acc[Len(inc)].best
<1> DEFINE S == DOMAIN inc
           pick == [s \in SUBSET S |-> P!Max(s)]
           step == [p \in (SUBSET S) \X Found(dec) |-> P!Down(dec, percent, inc[P!Max(p[1])], p[2])]
<1>0. /\ Len(inc) \in Nat /\ S = 1 .. Len(inc)
      /\ \A k \in S : inc[k] \in Price \X Price
  BY LevelTypes DEF Side, Price
<1>1. IsFiniteSet(S)
  BY <1>0, FS_Interval
<1>2. \A s \in SUBSET S : s # {} => P!Max(s) \in s /\ pick[s] = P!Max(s)
  <2> SUFFICES ASSUME NEW s \in SUBSET S, s # {} PROVE P!Max(s) \in s
    OBVIOUS
  <2>1. s \in SUBSET (0 .. Len(inc))
    BY <1>0
  <2> QED
    BY <1>0, <2>1, GreatestNumber
<1>3. \A s \in SUBSET S, v \in Found(dec) : s # {} =>
        /\ step[<<s, v>>] \in Found(dec)
        /\ step[<<s, v>>] = P!Down(dec, percent, inc[P!Max(s)], v)
  <2> SUFFICES ASSUME NEW s \in SUBSET S, NEW v \in Found(dec), s # {}
               PROVE  /\ step[<<s, v>>] \in Found(dec)
                      /\ step[<<s, v>>] = P!Down(dec, percent, inc[P!Max(s)], v)
    OBVIOUS
  <2>1. step[<<s, v>>] = P!Down(dec, percent, inc[P!Max(s)], v)
    OBVIOUS
  <2>2. P!Down(dec, percent, inc[P!Max(s)], v) \in Found(dec)
    <3>1. inc[P!Max(s)] \in Price \X Price
      BY <1>0, <1>2
    <3> QED
      BY <3>1, DownFinds
  <2> QED
    BY <2>1, <2>2
<1>4. Start(dec) \in Found(dec)
  BY LevelTypes DEF Start, Found
<1>5. PICK g : IsFold(g, S, Found(dec), Start(dec), pick, step)
  <2> HIDE DEF pick, step, S
  <2>1. Picks(pick, S) /\ Steps(step, S, Found(dec))
    BY <1>2, <1>3 DEF Picks, Steps
  <2> QED
    BY <1>1, <1>4, <2>1, FoldSolved
<1>6. /\ g \in [SUBSET S -> Found(dec)]
      /\ \A s \in SUBSET S : g[s] = IF s = {} THEN Start(dec) ELSE step[<<s, g[s \ {pick[s]}]>>]
  <2> HIDE DEF pick, step, S
  <2> QED
    BY <1>5 DEF IsFold
<1>7. Search(inc, dec, percent, g)
  <2>1. ASSUME NEW s \in SUBSET S
        PROVE  g[s] = IF s = {} THEN Start(dec) ELSE P!Down(dec, percent, inc[P!Max(s)], g[s \ {P!Max(s)}])
    <3>1. s # {} => s \ {P!Max(s)} \in SUBSET S /\ g[s \ {P!Max(s)}] \in Found(dec) /\ pick[s] = P!Max(s)
      BY <1>2, <1>6
    <3> HIDE DEF pick, step, S
    <3> QED
      BY <1>3, <1>6, <3>1
  <2>2. g = [s \in SUBSET S |-> g[s]]
    BY <1>6
  <2> QED
    BY <2>1, <2>2 DEF Search
<1>8. PICK h : h = CHOOSE f : Search(inc, dec, percent, f)
  OBVIOUS
<1>9. Search(inc, dec, percent, h)
  BY <1>7, <1>8
<1>10. ASSUME NEW k \in 1 .. Len(inc)
       PROVE  h[1 .. k] = P!Down(dec, percent, inc[k], h[1 .. k - 1])
  <2>1. 1 .. k \in SUBSET S /\ 1 .. k # {} /\ (1 .. k) \ {k} = 1 .. k - 1
    BY <1>0
  <2>2. P!Max(1 .. k) = k
    <3>1. 1 .. k \in SUBSET Int /\ k \in 1 .. k /\ \A n \in 1 .. k : k >= n
      OBVIOUS
    <3> QED
      BY <3>1, GreatestChosen
  <2> HIDE DEF S
  <2>3. h[1 .. k] = P!Down(dec, percent, inc[P!Max(1 .. k)], h[(1 .. k) \ {P!Max(1 .. k)}])
    BY <1>9, <2>1 DEF Search, S
  <2> QED
    BY <2>1, <2>2, <2>3
<1>11. h[1 .. 0] = Start(dec)
  <2>1. 1 .. 0 = {} /\ {} \in SUBSET (DOMAIN inc)
    OBVIOUS
  <2> QED
    BY <1>9, <2>1 DEF Search
<1> DEFINE Good == {n \in Nat : n =< Len(inc) => h[1 .. n] \in Found(dec)}
<1>12. 0 \in Good
  BY <1>4, <1>11
<1>13. ASSUME NEW n \in Good
       PROVE  n + 1 \in Good
  <2> SUFFICES ASSUME n + 1 =< Len(inc) PROVE h[1 .. n + 1] \in Found(dec)
    OBVIOUS
  <2>1. n + 1 \in 1 .. Len(inc) /\ (n + 1) - 1 = n /\ h[1 .. n] \in Found(dec)
    BY <1>0
  <2>2. h[1 .. n + 1] = P!Down(dec, percent, inc[n + 1], h[1 .. n])
    BY <1>10, <2>1
  <2>3. inc[n + 1] \in Price \X Price
    BY <1>0, <2>1
  <2> QED
    BY <2>1, <2>2, <2>3, DownFinds
<1>14. Good = Nat
  <2>1. Good \in SUBSET Nat
    OBVIOUS
  <2> HIDE DEF Good
  <2> QED
    BY <1>12, <1>13, <2>1, AllNumbers
<1>15. \A n \in 0 .. Len(inc) : h[1 .. n] \in Found(dec)
  <2> SUFFICES ASSUME NEW n \in 0 .. Len(inc) PROVE h[1 .. n] \in Found(dec)
    OBVIOUS
  <2>1. n \in Good /\ n =< Len(inc)
    BY <1>0, <1>14
  <2> QED
    BY <2>1
<1>16. PICK acc : acc = [n \in 0 .. Len(inc) |-> h[1 .. n]]
  OBVIOUS
<1>17. P!MaxPrice(inc, dec, percent) = acc[Len(inc)].best
  <2>1. acc[Len(inc)] = h[DOMAIN inc]
    BY <1>0, <1>16
  <2>2. P!MaxPrice(inc, dec, percent) = h[DOMAIN inc].best
    BY <1>8, MaxPriceIsSearch, Zenon
  <2> QED
    BY <2>1, <2>2
<1>18. \A k \in 1 .. Len(inc) : acc[k] = P!Down(dec, percent, inc[k], acc[k - 1])
  BY <1>0, <1>10, <1>16
<1> QED
  <2>1. acc \in [0 .. Len(inc) -> Found(dec)]
    BY <1>15, <1>16
  <2>2. acc[0] = Start(dec)
    BY <1>0, <1>11, <1>16
  <2> QED
    BY <1>17, <1>18, <2>1, <2>2

(* Of two decreasing prices that reach, the lower one is the closer.       *)
LEMMA LowerIsCloser ==
  ASSUME NEW a \in Price, NEW x \in Price, NEW y \in Price, x >= y
  PROVE  ~P!Closer(<<a, x>>, <<a, y>>)
<1>1. PICK b \in Nat, z \in Nat, t \in Nat : b = a /\ z = x /\ t = y /\ z >= t
  BY DEF Price
<1>2. z * b >= t * b
  <2>1. PICK e \in Nat : z = t + e
    <3>1. z - t \in Nat /\ z = t + (z - t)
      BY <1>1
    <3> QED
      BY <3>1
  <2>2. (t + e) * b = t * b + e * b /\ e * b >= 0
    OBVIOUS
  <2> QED
    BY <2>1, <2>2
<1>3. ~(z * b < t * b)
  BY <1>2
<1> QED
  BY <1>1, <1>3 DEF P!Closer

\* best is the closest pair of prices that reaches the percentage, if there
\* is one.
IsClosest(inc, dec, percent, best) ==
  LET able == {p \in {<<x[1], y[1]>> : x \in P!ToSet(inc), y \in P!ToSet(dec)} :
                 P!Reaches(p[1], p[2], percent)} IN
  IF able = {} THEN best = << >> ELSE best \in able /\ \A p \in able : ~P!Closer(p, best)

(* The pair that is found is the closest of those that reach the           *)
(* percentage, if there is one.                                            *)
LEMMA ClosestIsFound ==
  ASSUME NEW inc \in Side, Ascending(inc), NEW dec \in Side, Descending(dec), NEW percent \in Int
  PROVE  IsClosest(inc, dec, percent, P!MaxPrice(inc, dec, percent))
<1>0. /\ Len(inc) \in Nat /\ Len(dec) \in Nat /\ DOMAIN inc = 1 .. Len(inc) /\ DOMAIN dec = 1 .. Len(dec)
      /\ \A n \in 1 .. Len(inc) : inc[n] \in Price \X Price /\ inc[n][1] \in Price
      /\ \A m \in 1 .. Len(dec) : dec[m][1] \in Price
  BY LevelTypes DEF Side, Price
<1> DEFINE able == {p \in {<<x[1], y[1]>> : x \in P!ToSet(inc), y \in P!ToSet(dec)} :
                      P!Reaches(p[1], p[2], percent)}
           pair(n, m) == <<inc[n][1], dec[m][1]>>
           reach(n, m) == P!Reaches(inc[n][1], dec[m][1], percent)
<1>1. PICK acc \in [0 .. Len(inc) -> Found(dec)] :
        /\ acc[0] = Start(dec)
        /\ \A k \in 1 .. Len(inc) : acc[k] = P!Down(dec, percent, inc[k], acc[k - 1])
        /\ P!MaxPrice(inc, dec, percent) = acc[Len(inc)].best
  BY SearchSteps
<1>2. /\ \A n \in 1 .. Len(inc), m \in 1 .. Len(dec) : reach(n, m) => pair(n, m) \in able
      /\ \A p \in able : \E n \in 1 .. Len(inc), m \in 1 .. Len(dec) : reach(n, m) /\ p = pair(n, m)
      /\ \A n \in 1 .. Len(inc), m \in 1 .. Len(dec) : pair(n, m) \in Price \X Price
  <2>1. P!ToSet(inc) = {inc[n] : n \in 1 .. Len(inc)} /\ P!ToSet(dec) = {dec[m] : m \in 1 .. Len(dec)}
    BY <1>0 DEF P!ToSet
  <2>2. ASSUME NEW n \in 1 .. Len(inc), NEW m \in 1 .. Len(dec)
        PROVE  pair(n, m) \in Price \X Price /\ (reach(n, m) => pair(n, m) \in able)
    <3>1. inc[n] \in P!ToSet(inc) /\ dec[m] \in P!ToSet(dec)
      BY <2>1
    <3>2. pair(n, m)[1] = inc[n][1] /\ pair(n, m)[2] = dec[m][1]
      OBVIOUS
    <3> QED
      BY <1>0, <3>1, <3>2
  <2>3. ASSUME NEW p \in able
        PROVE  \E n \in 1 .. Len(inc), m \in 1 .. Len(dec) : reach(n, m) /\ p = pair(n, m)
    <3>1. PICK x \in P!ToSet(inc), y \in P!ToSet(dec) : p = <<x[1], y[1]>>
      OBVIOUS
    <3>2. PICK n \in 1 .. Len(inc), m \in 1 .. Len(dec) : x = inc[n] /\ y = dec[m]
      BY <2>1, <3>1
    <3>3. p = pair(n, m) /\ p[1] = inc[n][1] /\ p[2] = dec[m][1]
      BY <3>1, <3>2
    <3>4. reach(n, m)
      BY <3>3
    <3> QED
      BY <3>3, <3>4
  <2> QED
    BY <2>2, <2>3
<1> HIDE DEF able
\* After n prices: who reaches from a later price is not passed; the best is
\* one that reaches, and nobody who reaches from an earlier price is closer.
<1> DEFINE Ahead(n) == \A k \in n + 1 .. Len(inc), m \in 1 .. Len(dec) : reach(k, m) => m =< acc[n].j
           Best(n) == acc[n].best = << >> \/ acc[n].best \in able
           Closest(n) == \A k \in 1 .. n, m \in 1 .. Len(dec) :
                           reach(k, m) => acc[n].best # << >> /\ ~P!Closer(pair(k, m), acc[n].best)
           Good == {n \in Nat : n =< Len(inc) => Ahead(n) /\ Best(n) /\ Closest(n)}
<1>3. 0 \in Good
  <2>1. acc[0].j = Len(dec) /\ acc[0].best = << >>
    BY <1>1 DEF Start
  <2>2. Ahead(0)
    BY <1>0, <2>1 DEF Ahead
  <2> QED
    BY <2>1, <2>2
<1>4. ASSUME NEW n \in Good
      PROVE  n + 1 \in Good
  <2> SUFFICES ASSUME n + 1 =< Len(inc) PROVE Ahead(n + 1) /\ Best(n + 1) /\ Closest(n + 1)
    OBVIOUS
  <2>1. /\ n \in 0 .. Len(inc) /\ n + 1 \in 1 .. Len(inc) /\ (n + 1) - 1 = n
        /\ Ahead(n) /\ Best(n) /\ Closest(n)
    BY <1>0
  <2> HIDE DEF Good, Ahead, Best, Closest
  <2>2. acc[n] \in Found(dec) /\ acc[n + 1] = P!Down(dec, percent, inc[n + 1], acc[n])
    <3>1. acc[(n + 1) - 1] = acc[n]
      BY <2>1
    <3> QED
      BY <1>1, <2>1, <3>1
  <2>3. acc[n].j \in 0 .. Len(dec) /\ acc[n].best \in {<< >>} \cup (Price \X Price)
    BY <2>2 DEF Found
  <2> DEFINE here == Reaching(dec, percent, inc[n + 1][1], acc[n].j)
  \* Who reaches from a later price reaches from this one.
  <2>4. \A k \in n + 2 .. Len(inc), m \in 1 .. Len(dec) : reach(k, m) => reach(n + 1, m)
    <3> SUFFICES ASSUME NEW k \in n + 2 .. Len(inc), NEW m \in 1 .. Len(dec), reach(k, m)
                 PROVE  reach(n + 1, m)
      OBVIOUS
    <3>1. k \in 1 .. Len(inc) /\ n + 1 =< k
      BY <1>0, <2>1
    <3>2. inc[n + 1][1] =< inc[k][1] /\ inc[n + 1][1] \in Price /\ inc[k][1] \in Price /\ dec[m][1] \in Price
      <4>1. \A k1, k2 \in 1 .. Len(inc) : k1 =< k2 => inc[k1][1] =< inc[k2][1]
        BY <1>0 DEF Ascending
      <4> QED
        BY <1>0, <2>1, <3>1, <4>1
    <3>3. dec[m][1] =< dec[m][1]
      BY <3>2 DEF Price
    <3> QED
      BY <3>2, <3>3, ReachesMore
  <2>5. \A m \in 1 .. Len(dec) : reach(n + 1, m) => m \in here
    BY <1>0, <2>1, <2>3 DEF Ahead, Reaching
  <2>6. CASE here = {}
    <3>1. acc[n + 1] = [j |-> 0, best |-> acc[n].best]
      <4>1. inc[n + 1] \in Price \X Price
        BY <1>0, <2>1
      <4> QED
        BY <2>2, <2>6, <4>1, DownFinds
    <3>2. acc[n + 1].j = 0 /\ acc[n + 1].best = acc[n].best
      BY <3>1
    <3>3. \A m \in 1 .. Len(dec) : ~reach(n + 1, m)
      BY <2>5, <2>6
    <3>4. Ahead(n + 1)
      <4>1. \A k \in (n + 1) + 1 .. Len(inc), m \in 1 .. Len(dec) : ~reach(k, m)
        BY <2>1, <2>4, <3>3
      <4> QED
        BY <4>1 DEF Ahead
    <3>5. Closest(n + 1)
      <4> SUFFICES ASSUME NEW k \in 1 .. n + 1, NEW m \in 1 .. Len(dec), reach(k, m)
                   PROVE  acc[n].best # << >> /\ ~P!Closer(pair(k, m), acc[n].best)
        BY <3>2 DEF Closest
      <4>1. k # n + 1
        BY <3>3
      <4>2. k \in 1 .. n
        BY <2>1, <4>1
      <4> QED
        BY <2>1, <4>2 DEF Closest
    <3>6. Best(n + 1)
      BY <2>1, <3>2 DEF Best
    <3> QED
      BY <3>4, <3>5, <3>6
  <2>7. CASE here # {}
    <3>1. PICK d \in here :
            /\ \A k \in here : k =< d
            /\ acc[n + 1] = [j |-> d, best |-> IF P!Better(pair(n + 1, d), acc[n].best)
                                               THEN pair(n + 1, d) ELSE acc[n].best]
      <4>1. inc[n + 1] \in Price \X Price
        BY <1>0, <2>1
      <4>2. PICK d \in here :
              /\ \A k \in here : k =< d
              /\ P!Down(dec, percent, inc[n + 1], acc[n]) =
                   [j |-> d, best |-> IF P!Better(pair(n + 1, d), acc[n].best)
                                      THEN pair(n + 1, d) ELSE acc[n].best]
        BY <2>2, <2>7, <4>1, DownFinds
      <4> QED
        BY <2>2, <4>2
    <3>2. d \in 1 .. Len(dec) /\ reach(n + 1, d)
      BY <1>0, <2>3 DEF Reaching
    <3>3. PICK b : b = acc[n + 1].best
      OBVIOUS
    <3>4. /\ acc[n + 1].j = d
          /\ b = IF P!Better(pair(n + 1, d), acc[n].best) THEN pair(n + 1, d) ELSE acc[n].best
      BY <3>1, <3>3
    <3>5. Ahead(n + 1)
      <4>1. \A k \in (n + 1) + 1 .. Len(inc), m \in 1 .. Len(dec) : reach(k, m) => m =< d
        BY <2>1, <2>4, <2>5, <3>1
      <4> QED
        BY <3>4, <4>1 DEF Ahead
    <3>6. b \in able /\ b \in Price \X Price
      <4>1. pair(n + 1, d) \in able /\ pair(n + 1, d) \in Price \X Price
        BY <1>2, <2>1, <3>2
      <4>2. ~P!Better(pair(n + 1, d), acc[n].best) => acc[n].best # << >>
        BY DEF P!Better
      <4>3. \A p \in able : p \in Price \X Price
        BY <1>2
      <4> QED
        BY <2>1, <3>4, <4>1, <4>2, <4>3 DEF Best
    <3>7. ~P!Closer(pair(n + 1, d), b)
      <4>1. ~P!Closer(pair(n + 1, d), pair(n + 1, d))
        <5>1. inc[n + 1][1] \in Price /\ dec[d][1] \in Price
          BY <1>0, <2>1, <3>2
        <5> QED
          BY <5>1 DEF P!Closer, Price
      <4> QED
        BY <3>4, <4>1 DEF P!Better
    <3>8. acc[n].best # << >> => acc[n].best \in Price \X Price /\ ~P!Closer(acc[n].best, b)
      <4> SUFFICES ASSUME acc[n].best # << >> PROVE acc[n].best \in Price \X Price /\ ~P!Closer(acc[n].best, b)
        OBVIOUS
      <4>1. PICK a1 \in Price, a2 \in Price : acc[n].best = <<a1, a2>>
        BY <2>3
      <4>2. PICK b1 \in Price, b2 \in Price : pair(n + 1, d) = <<b1, b2>>
        BY <1>0, <2>1, <3>2
      <4>3. CASE P!Closer(<<b1, b2>>, <<a1, a2>>)
        <5>1. b = <<b1, b2>>
          BY <3>4, <4>1, <4>2, <4>3 DEF P!Better
        <5>2. ~P!Closer(<<a1, a2>>, <<b1, b2>>)
          BY <4>3 DEF P!Closer, Price
        <5> QED
          BY <4>1, <5>1, <5>2
      <4>4. CASE ~P!Closer(<<b1, b2>>, <<a1, a2>>)
        <5>1. b = <<a1, a2>>
          BY <3>4, <4>1, <4>2, <4>4 DEF P!Better
        <5>2. ~P!Closer(<<a1, a2>>, <<a1, a2>>)
          BY DEF P!Closer, Price
        <5> QED
          BY <4>1, <5>1, <5>2
      <4> QED
        BY <4>3, <4>4
    <3>9. Closest(n + 1)
      <4> SUFFICES ASSUME NEW k \in 1 .. n + 1, NEW m \in 1 .. Len(dec), reach(k, m)
                   PROVE  b # << >> /\ ~P!Closer(pair(k, m), b)
        BY <3>3 DEF Closest
      <4>0. b # << >>
        <5>1. PICK b1 \in Price, b2 \in Price : b = <<b1, b2>>
          BY <3>6
        <5> QED
          BY <5>1
      <4>1. CASE k \in 1 .. n
        <5>1. acc[n].best # << >> /\ ~P!Closer(pair(k, m), acc[n].best)
          BY <2>1, <4>1 DEF Closest
        <5>2. pair(k, m) \in Price \X Price
          BY <1>0, <1>2, <2>1
        <5> QED
          BY <3>6, <3>8, <4>0, <5>1, <5>2, NoCloserTransitive
      <4>2. CASE k = n + 1
        <5>1. m =< d /\ inc[n + 1][1] \in Price /\ dec[m][1] \in Price /\ dec[d][1] \in Price
          BY <1>0, <2>1, <2>5, <3>1, <3>2, <4>2
        <5>2. dec[m][1] >= dec[d][1]
          BY <1>0, <3>2, <5>1 DEF Descending
        <5>3. ~P!Closer(pair(n + 1, m), pair(n + 1, d))
          BY <5>1, <5>2, LowerIsCloser
        <5>4. pair(n + 1, m) \in Price \X Price /\ pair(n + 1, d) \in Price \X Price
          BY <5>1
        <5> QED
          BY <3>6, <3>7, <4>0, <4>2, <5>3, <5>4, NoCloserTransitive
      <4> QED
        BY <2>1, <4>1, <4>2
    <3>10. Best(n + 1)
      BY <3>3, <3>6 DEF Best
    <3> QED
      BY <3>5, <3>9, <3>10
  <2> QED
    BY <2>6, <2>7
<1>5. Good = Nat
  <2>1. Good \in SUBSET Nat
    OBVIOUS
  <2> HIDE DEF Good
  <2> QED
    BY <1>3, <1>4, <2>1, AllNumbers
<1>6. Best(Len(inc)) /\ Closest(Len(inc))
  <2>1. Len(inc) \in Good /\ Len(inc) =< Len(inc)
    BY <1>0, <1>5
  <2> QED
    BY <2>1
<1>7. PICK best : best = P!MaxPrice(inc, dec, percent) /\ best = acc[Len(inc)].best
  BY <1>1
<1>8. best = << >> \/ best \in able
  BY <1>6, <1>7
<1>9. \A p \in able : best # << >> /\ ~P!Closer(p, best)
  BY <1>2, <1>6, <1>7
<1>10. IF able = {} THEN best = << >> ELSE best \in able /\ \A p \in able : ~P!Closer(p, best)
  BY <1>8, <1>9
<1> QED
  BY <1>7, <1>10 DEF able, IsClosest

-----------------------------------------------------------------------------
(* The levels that are reached, and what is left of each.                  *)

PlanInv ==
  /\ P!TypeOK
  /\ spot \in Seq(Int) /\ Len(spot) = Len(request.spot)
  /\ future \in Seq(Int) /\ Len(future) = Len(request.future)

(* What the requests are assumed to be.                                    *)
LEMMA RequestTypes ==
  ASSUME request \in Requests
  PROVE  /\ request.spot \in Side /\ request.future \in Side
         /\ request.amount \in Int /\ request.percent \in Int /\ request.contract_size \in Int
         /\ P!Entering => Ascending(request.spot) /\ Descending(request.future)
         /\ ~P!Entering => Descending(request.spot) /\ Ascending(request.future)
  BY PlanAssumption DEF P!Entering

(* What is left of a side at first is a number for each level.             *)
LEMMA LevelsHoldVolumes ==
  ASSUME NEW l \in Side
  PROVE  P!Volumes(l) \in Seq(Int) /\ Len(P!Volumes(l)) = Len(l)
<1>1. /\ Len(l) \in Nat /\ DOMAIN l = 1 .. Len(l) /\ \A k \in 1 .. Len(l) : l[k][2] \in Int
  BY LevelTypes
<1>2. P!Volumes(l) \in [1 .. Len(l) -> Int]
  BY <1>1 DEF P!Volumes
<1>3. P!Volumes(l) \in Seq(Int)
  BY <1>1, <1>2, SeqDef
<1> QED
  BY <1>1, <1>2, <1>3, LenProperties

(* A plan begins at the first level of both sides.                         *)
LEMMA InitPlan == P!Init /\ request \in Requests => PlanInv
<1> SUFFICES ASSUME P!Init, request \in Requests PROVE PlanInv
  OBVIOUS
<1>1. request.spot \in Side /\ request.future \in Side /\ request.amount \in Int
  BY RequestTypes
<1>2. /\ spot \in Seq(Int) /\ Len(spot) = Len(request.spot)
      /\ future \in Seq(Int) /\ Len(future) = Len(request.future)
  BY <1>1, LevelsHoldVolumes DEF P!Init
<1>3. /\ Len(spot) \in Nat /\ Len(future) \in Nat
  BY <1>2, LenProperties
<1>4. P!TypeOK
  BY <1>1, <1>3, PlanAssumption DEF P!Init, P!TypeOK
<1> QED
  BY <1>2, <1>4 DEF PlanInv

(* Quantity is the least of the three, whatever sign it has.               *)
LEMMA QuantityIsLeast ==
  ASSUME PlanInv, i \in 1 .. Len(spot), j \in 1 .. Len(future)
  PROVE  /\ request.spot[i][1] \in Price
         /\ P!Quantity \in Int
         /\ LET budget == IF P!Entering THEN available \div request.spot[i][1] ELSE available
                all == {spot[i], future[j] * request.contract_size, budget} IN
            /\ budget \in Int
            /\ P!Quantity \in all /\ \A n \in all : P!Quantity =< n
<1>1. /\ request.spot \in Side /\ request.contract_size \in Int
  BY RequestTypes DEF PlanInv, P!TypeOK
<1>3. request.spot[i][1] \in Price
  BY <1>1, LevelTypes DEF PlanInv, Price
<1>4. available \in Int
  BY DEF PlanInv, P!TypeOK
<1>5. PICK z \in Int : z = IF P!Entering THEN available \div request.spot[i][1] ELSE available
  BY <1>3, <1>4 DEF Price
<1>6. PICK x \in Int, y \in Int : /\ x = P!SpotVolume /\ x = spot[i]
                                  /\ y = P!FutureVolume /\ y = future[j] * request.contract_size
  <2>1. spot[i] \in Int /\ future[j] \in Int
    BY ElementOfSeq DEF PlanInv
  <2> QED
    BY <1>1, <2>1 DEF P!SpotVolume, P!FutureVolume
<1>7. PICK m : m = P!Min({x, y, z}) /\ m = P!Quantity
  BY <1>5, <1>6 DEF P!Quantity
<1>8. \E least \in {x, y, z} : \A other \in {x, y, z} : least =< other
  OBVIOUS
<1>9. m \in {x, y, z} /\ \A other \in {x, y, z} : m =< other
  BY <1>7, <1>8 DEF P!Min
<1> QED
  BY <1>3, <1>5, <1>6, <1>7, <1>9

(* No round leaves the two sides by more than one level.                   *)
LEMMA NextPlan == PlanInv /\ [PartsNext]_parts => PlanInv'
<1>0. [PartsNext]_parts => [P!Next]_plan
  BY DEF PartsNext, parts, plan
<1> SUFFICES ASSUME PlanInv, [P!Next]_plan PROVE PlanInv'
  BY <1>0
<1>1. CASE P!Round
  <2>0. /\ Len(spot) \in Nat /\ Len(future) \in Nat
    BY LenProperties DEF PlanInv
  <2>1. i \in 1 .. Len(spot) /\ j \in 1 .. Len(future)
    BY <1>1, <2>0 DEF P!Round, P!Continues, PlanInv, P!TypeOK
  <2>2. PICK q \in Int : q = P!Quantity
    BY <2>1, QuantityIsLeast
  <2>u. PICK used \in Int : used = IF P!Entering \/ q > 0 THEN q ELSE 0
    BY <2>2
  <2>3. /\ spot' = [spot EXCEPT ![i] = @ - used]
        /\ future' = [future EXCEPT ![j] = @ - used]
    BY <1>1, <2>2, <2>u DEF P!Round
  <2>4. /\ spot' = [spot EXCEPT ![i] = spot[i] - used] /\ spot[i] - used \in Int
        /\ future' = [future EXCEPT ![j] = future[j] - used] /\ future[j] - used \in Int
    <3>1. spot[i] \in Int /\ future[j] \in Int
      BY <2>1, ElementOfSeq DEF PlanInv
    <3> QED
      BY <2>3, <3>1
  <2>5. /\ spot' \in Seq(Int) /\ Len(spot') = Len(spot)
        /\ future' \in Seq(Int) /\ Len(future') = Len(future)
    BY <2>1, <2>4, ExceptSeq DEF PlanInv
  <2>6. available' \in Int
    <3>1. available' = available - q * (IF P!Entering THEN request.spot[i][1] ELSE 1)
      BY <1>1, <2>2 DEF P!Round
    <3>2. PICK price \in Int : price = IF P!Entering THEN request.spot[i][1] ELSE 1
      BY <2>1, QuantityIsLeast DEF Price
    <3>3. available \in Int /\ q * price \in Int
      BY DEF PlanInv, P!TypeOK
    <3> QED
      BY <3>1, <3>2, <3>3
  <2>7. /\ i' \in 1 .. Len(spot) + 1 /\ j' \in 1 .. Len(future) + 1
    BY <1>1, <2>0, <2>1 DEF P!Round, P!Advance
  <2>8. request' = request /\ steps' \in 0 .. MaxSteps
    BY <1>1, PlanAssumption DEF P!Round, PlanInv, P!TypeOK
  <2> QED
    BY <2>5, <2>6, <2>7, <2>8 DEF PlanInv, P!TypeOK
<1>2. CASE P!Finish
  BY <1>2 DEF P!Finish, PlanInv, P!TypeOK
<1>3. CASE UNCHANGED plan
  BY <1>3 DEF plan, PlanInv, P!TypeOK
<1> QED
  BY <1>1, <1>2, <1>3 DEF P!Next

(* The indices of a plan stay within its sides, whatever the contracts.    *)
LEMMA PlanInvariant == PartsSpec => []PlanInv
<1>1. PartsInit => request \in Requests
  BY DEF PartsInit, P!Init
<1>2. PartsInit => PlanInv
  BY <1>1, InitPlan DEF PartsInit
<1> QED
  BY <1>2, NextPlan, PTL DEF PartsSpec

-----------------------------------------------------------------------------
(* A side, as it is walked.                                                *)

\* From side l, taken was bought or sold and left is left: levels before k are
\* used up, levels after it are whole, and level k is the next one.
Walked(l, left, taken, k) ==
  /\ left \in [1 .. Len(l) -> Nat] /\ taken \in [1 .. Len(l) -> Nat]
  /\ k \in 1 .. Len(l) + 1
  /\ \A n \in 1 .. Len(l) : taken[n] + left[n] = l[n][2] /\ (n > k => left[n] = l[n][2])
  /\ P!Sum(taken) \in Nat
  /\ k =< Len(l) => left[k] > 0 /\ P!Sum(taken) + left[k] = DepthTo(l, k)
  /\ k > Len(l) => P!Sum(taken) = P!Depth(l)

(* The sum of what was taken, as a sum over the levels.                    *)
LEMMA SumTaken ==
  ASSUME NEW n \in Nat, NEW taken, DOMAIN taken = 1 .. n
  PROVE  P!Sum(taken) = SumOn(taken, 1 .. n)
  BY DEF P!Sum, P!FoldFunction, P!FoldFunctionOnSet, SumOn, FoldFunctionOnSet, P!MapThenFoldSet, MapThenFoldSet

(* Nothing is taken at first.                                              *)
LEMMA WalkBegins ==
  ASSUME NEW l \in Side
  PROVE  /\ Walked(l, P!Volumes(l), [k \in DOMAIN l |-> 0], 1)
         /\ P!Sum([k \in DOMAIN l |-> 0]) = 0
<1>0. /\ Len(l) \in Nat /\ DOMAIN l = 1 .. Len(l) /\ DOMAIN P!Volumes(l) = 1 .. Len(l)
      /\ \A k \in 1 .. Len(l) : l[k][2] \in Nat \ {0} /\ P!Volumes(l)[k] = l[k][2]
  BY LevelTypes
<1>1. PICK taken : taken = [k \in DOMAIN l |-> 0]
  OBVIOUS
<1>2. taken \in [1 .. Len(l) -> Nat] /\ DOMAIN taken = 1 .. Len(l) /\ \A k \in 1 .. Len(l) : taken[k] = 0
  BY <1>0, <1>1
<1> DEFINE Good == {n \in Nat : n =< Len(l) => SumOn(taken, 1 .. n) = 0}
<1>3. 0 \in Good
  <2>1. 1 .. 0 = {} /\ IsFiniteSet({})
    BY FS_EmptySet
  <2> QED
    BY <2>1, SumTypes
<1>4. ASSUME NEW n \in Good
      PROVE  n + 1 \in Good
  <2> SUFFICES ASSUME n + 1 =< Len(l) PROVE SumOn(taken, 1 .. n + 1) = 0
    OBVIOUS
  <2>1. /\ \A k \in 1 .. n + 1 : taken[k] \in Int
        /\ taken[n + 1] = 0 /\ SumOn(taken, 1 .. n) = 0
    BY <1>0, <1>2
  <2> QED
    BY <2>1, SumOfOneMore
<1>5. Good = Nat
  <2>1. Good \in SUBSET Nat
    OBVIOUS
  <2> HIDE DEF Good
  <2> QED
    BY <1>3, <1>4, <2>1, AllNumbers
<1>6. P!Sum(taken) = 0
  <2>1. Len(l) \in Good /\ Len(l) =< Len(l)
    BY <1>0, <1>5
  <2> QED
    BY <1>0, <1>2, <2>1, SumTaken
<1>7. P!Volumes(l) \in [1 .. Len(l) -> Nat]
  BY <1>0 DEF P!Volumes
<1>8. ASSUME 1 =< Len(l) PROVE DepthTo(l, 1) = l[1][2]
  <2>1. 1 \in 1 .. Len(l) /\ 1 - 1 = 0
    BY <1>0, <1>8
  <2> QED
    BY <1>0, <2>1, DepthsGrow
<1>9. 1 > Len(l) => P!Depth(l) = 0
  <2>1. 1 > Len(l) => Len(l) = 0
    BY <1>0
  <2> QED
    BY <2>1, DepthsGrow
<1>10. Walked(l, P!Volumes(l), taken, 1)
  <2>1. 1 =< Len(l) => 1 \in 1 .. Len(l)
    BY <1>0
  <2> QED
    BY <1>0, <1>2, <1>6, <1>7, <1>8, <1>9, <2>1 DEF Walked
<1> QED
  BY <1>1, <1>6, <1>10

(* Something is taken from the level that is next.                         *)
LEMMA WalkGoesOn ==
  ASSUME NEW l \in Side, NEW left, NEW taken, NEW k \in 1 .. Len(l), Walked(l, left, taken, k),
         NEW q \in 1 .. left[k]
  PROVE  /\ Walked(l, [left EXCEPT ![k] = left[k] - q], [taken EXCEPT ![k] = taken[k] + q],
                   IF left[k] - q = 0 THEN k + 1 ELSE k)
         /\ P!Sum([taken EXCEPT ![k] = taken[k] + q]) = P!Sum(taken) + q
<1>0. /\ Len(l) \in Nat /\ DOMAIN l = 1 .. Len(l)
      /\ \A n \in 1 .. Len(l) : l[n][2] \in Nat \ {0}
  BY LevelTypes
<1>1. /\ left \in [1 .. Len(l) -> Nat] /\ taken \in [1 .. Len(l) -> Nat]
      /\ \A n \in 1 .. Len(l) : taken[n] + left[n] = l[n][2] /\ (n > k => left[n] = l[n][2])
      /\ P!Sum(taken) \in Nat
      /\ left[k] > 0 /\ P!Sum(taken) + left[k] = DepthTo(l, k)
  BY <1>0 DEF Walked
<1>2. PICK rest : rest = [left EXCEPT ![k] = left[k] - q]
  OBVIOUS
<1>3. PICK more : more = [taken EXCEPT ![k] = taken[k] + q]
  OBVIOUS
<1>4. left[k] \in Nat /\ taken[k] \in Nat /\ q \in Nat /\ left[k] - q \in Nat /\ taken[k] + q \in Nat
  BY <1>1
<1>5. /\ rest \in [1 .. Len(l) -> Nat] /\ more \in [1 .. Len(l) -> Nat] /\ DOMAIN more = 1 .. Len(l)
      /\ rest[k] = left[k] - q /\ more[k] = taken[k] + q
      /\ \A n \in (1 .. Len(l)) \ {k} : rest[n] = left[n] /\ more[n] = taken[n]
  BY <1>1, <1>2, <1>3, <1>4
<1>6. P!Sum(more) = P!Sum(taken) + q
  <2>1. taken \in [1 .. Len(l) -> Int] /\ IsFiniteSet(1 .. Len(l)) /\ q \in Int
    BY <1>0, <1>1, FS_Interval
  <2>2. SumOn(more, 1 .. Len(l)) = SumOn(taken, 1 .. Len(l)) + q
    BY <1>3, <2>1, SumGrows
  <2>3. P!Sum(taken) = SumOn(taken, 1 .. Len(l))
    BY <1>0, <1>1, SumTaken
  <2>4. P!Sum(more) = SumOn(more, 1 .. Len(l))
    BY <1>0, <1>5, SumTaken
  <2> QED
    BY <2>2, <2>3, <2>4
<1>7. P!Sum(more) \in Nat /\ P!Sum(more) + rest[k] = DepthTo(l, k)
  BY <1>1, <1>4, <1>5, <1>6
<1>8. \A n \in 1 .. Len(l) : more[n] + rest[n] = l[n][2] /\ (n > k => rest[n] = l[n][2])
  <2> SUFFICES ASSUME NEW n \in 1 .. Len(l)
               PROVE  more[n] + rest[n] = l[n][2] /\ (n > k => rest[n] = l[n][2])
    OBVIOUS
  <2>1. CASE n = k
    <3>1. (taken[k] + q) + (left[k] - q) = taken[k] + left[k]
      BY <1>4
    <3>2. more[k] + rest[k] = l[k][2]
      BY <1>1, <1>5, <3>1
    <3>3. ~(k > k)
      BY <1>0
    <3> QED
      BY <2>1, <3>2, <3>3
  <2>2. CASE n # k
    BY <1>1, <1>5, <2>2
  <2> QED
    BY <2>1, <2>2
<1>9. CASE left[k] - q = 0
  <2>1. rest[k] = 0 /\ P!Sum(more) = DepthTo(l, k)
    BY <1>5, <1>7, <1>9
  <2>2. k + 1 \in 1 .. Len(l) + 1 /\ \A n \in 1 .. Len(l) : n > k + 1 => n > k
    BY <1>0
  <2>3. ASSUME k + 1 =< Len(l)
        PROVE  rest[k + 1] > 0 /\ P!Sum(more) + rest[k + 1] = DepthTo(l, k + 1)
    <3>1. k + 1 \in 1 .. Len(l) /\ (k + 1) - 1 = k /\ k + 1 > k
      BY <1>0, <2>3
    <3>2. rest[k + 1] = l[k + 1][2]
      BY <1>8, <3>1
    <3>3. DepthTo(l, k + 1) = DepthTo(l, k) + l[k + 1][2]
      BY <3>1, DepthsGrow
    <3> QED
      BY <1>0, <2>1, <3>1, <3>2, <3>3
  <2>4. k + 1 > Len(l) => P!Sum(more) = P!Depth(l)
    <3>1. k + 1 > Len(l) => k = Len(l)
      BY <1>0
    <3> QED
      BY <2>1, <3>1, DepthsGrow
  <2>5. Walked(l, rest, more, k + 1)
    BY <1>5, <1>7, <1>8, <2>2, <2>3, <2>4 DEF Walked
  <2> QED
    BY <1>2, <1>3, <1>6, <1>9, <2>5
<1>10. CASE left[k] - q # 0
  <2>1. rest[k] > 0 /\ k \in 1 .. Len(l) + 1 /\ ~(k > Len(l))
    BY <1>0, <1>4, <1>5, <1>10
  <2>2. Walked(l, rest, more, k)
    BY <1>5, <1>7, <1>8, <2>1 DEF Walked
  <2> QED
    BY <1>2, <1>3, <1>6, <1>10, <2>2
<1> QED
  BY <1>9, <1>10

(* What was taken ends in the level that is next.                          *)
LEMMA WalkStands ==
  ASSUME NEW l \in Side, NEW left, NEW taken, NEW k \in 1 .. Len(l), Walked(l, left, taken, k)
  PROVE  /\ P!Sum(taken) \in Nat /\ left[k] \in Nat \ {0}
         /\ DepthTo(l, k - 1) =< P!Sum(taken) /\ P!Sum(taken) + left[k] = DepthTo(l, k)
         /\ DepthTo(l, k) =< P!Depth(l) /\ DepthTo(l, k) \in Nat /\ P!Depth(l) \in Nat
<1>0. /\ Len(l) \in Nat /\ l[k][2] \in Nat
  BY LevelTypes
<1>1. /\ P!Sum(taken) \in Nat /\ left[k] \in Nat \ {0} /\ taken[k] \in Nat
      /\ taken[k] + left[k] = l[k][2] /\ P!Sum(taken) + left[k] = DepthTo(l, k)
  BY <1>0 DEF Walked
<1>2. k - 1 \in 0 .. Len(l) /\ k \in 0 .. Len(l) /\ Len(l) \in 0 .. Len(l)
  BY <1>0
<1>3. /\ DepthTo(l, k - 1) \in Nat /\ DepthTo(l, k) \in Nat /\ DepthTo(l, Len(l)) \in Nat
      /\ DepthTo(l, k) = DepthTo(l, k - 1) + l[k][2]
      /\ DepthTo(l, k) =< DepthTo(l, Len(l)) /\ P!Depth(l) = DepthTo(l, Len(l))
  BY <1>2, DepthsGrow
<1>4. DepthTo(l, k - 1) =< P!Sum(taken)
  <2>1. PICK d \in Nat, t \in Nat, x \in Nat, y \in Nat :
          d = DepthTo(l, k - 1) /\ t = P!Sum(taken) /\ x = left[k] /\ y = taken[k]
    BY <1>1, <1>3
  <2>2. t + x = d + (y + x)
    BY <1>1, <1>3, <2>1
  <2>3. d =< t
    BY <2>2
  <2> QED
    BY <2>1, <2>3
<1> QED
  BY <1>1, <1>3, <1>4

(* The next units have the price of that level.                            *)
LEMMA NextUnits ==
  ASSUME NEW l \in Side, NEW left, NEW taken, NEW k \in 1 .. Len(l), Walked(l, left, taken, k),
         NEW u \in P!Sum(taken) + 1 .. P!Sum(taken) + left[k]
  PROVE  P!PriceAt(l, u) = l[k][1]
<1>1. /\ P!Sum(taken) \in Nat /\ left[k] \in Nat
      /\ DepthTo(l, k - 1) =< P!Sum(taken) /\ P!Sum(taken) + left[k] = DepthTo(l, k)
      /\ DepthTo(l, k) \in Nat
  BY WalkStands
<1>2. DepthTo(l, k - 1) \in Nat
  <2>1. k - 1 \in 0 .. Len(l)
    BY LevelTypes
  <2> QED
    BY <2>1, DepthsGrow
<1>3. PICK t \in Nat, x \in Nat : t = P!Sum(taken) /\ x = left[k]
  BY <1>1
<1>4. u \in Nat /\ t < u /\ u =< t + x
  BY <1>3
<1>5. DepthTo(l, k - 1) < u /\ u =< DepthTo(l, k)
  BY <1>1, <1>2, <1>3, <1>4
<1> QED
  BY <1>4, <1>5, PriceOfUnit

-----------------------------------------------------------------------------
(* The plan: what was planned can be traded, and when the loop stops       *)
(* nothing more can.                                                       *)

\* What the plan holds, at both legs.
Planned == P!Sum(bought)

\* Both sides of the request hold q, its last unit is worth it, and it is
\* paid for.
CanTrade(r, q) ==
  /\ q =< P!Depth(r.spot) /\ q =< P!Depth(r.future)
  /\ LET s == P!PriceAt(r.spot, q)
         f == P!PriceAt(r.future, q) IN
     IF r.kind = "entry" THEN f # s /\ P!Reaches(s, f, r.percent) /\ CostOf(r.spot, q) =< r.amount
                         ELSE P!Reaches(f, s, r.percent) /\ q =< r.amount

\* With contracts of one unit: both sides are walked as far as was planned,
\* the budget has paid for it, and it could be traded.
PlanRuns ==
  /\ Walked(request.spot, spot, bought, i)
  /\ Walked(request.future, future, sold, j)
  /\ P!Sum(sold) = Planned
  /\ available = request.amount - (IF P!Entering THEN CostOf(request.spot, Planned) ELSE Planned)
  /\ Planned > 0 => CanTrade(request, Planned)

LargestInv ==
  /\ PlanInv
  /\ request.contract_size = 1 => PlanRuns
  /\ P!PlanIsLargest

(* What can be traded is what is feasible.                                 *)
LEMMA FeasibleMeans ==
  ASSUME NEW q
  PROVE  P!Feasible(q) <=> CanTrade(request, q)
  BY DEF P!Feasible, P!Entering, CanTrade, CostOf, SumOn, FoldFunctionOnSet, MapThenFoldSet,
         P!FoldFunctionOnSet, P!MapThenFoldSet

(* The test of a round, in terms of the prices of the two levels.          *)
LEMMA WorthwhileMeans ==
  ASSUME i \in 1 .. Len(spot), j \in 1 .. Len(future)
  PROVE  P!Worthwhile <=>
           IF P!Entering
           THEN /\ request.future[j][1] # request.spot[i][1]
                /\ P!Reaches(request.spot[i][1], request.future[j][1], request.percent)
           ELSE P!Reaches(request.future[j][1], request.spot[i][1], request.percent)
  BY DEF P!Worthwhile

(* Nothing is planned at first, and nothing returned.                      *)
LEMMA InitLargest == PartsInit => LargestInv
<1> SUFFICES ASSUME PartsInit PROVE LargestInv
  OBVIOUS
<1>1. request \in Requests /\ P!Init
  BY DEF PartsInit, P!Init
<1>2. PlanInv
  BY <1>1, InitPlan
<1>3. request.spot \in Side /\ request.future \in Side /\ request.amount \in Int
  BY <1>1, RequestTypes
<1>4. /\ Walked(request.spot, spot, bought, i) /\ Walked(request.future, future, sold, j)
      /\ P!Sum(sold) = 0 /\ Planned = 0
  BY <1>1, <1>3, WalkBegins DEF P!Init, Planned
<1>5. CostOf(request.spot, 0) = 0
  <2>1. 1 .. 0 = {} /\ IsFiniteSet({})
    BY FS_EmptySet
  <2> QED
    BY <2>1, SumTypes DEF CostOf
<1>6. PlanRuns
  <2>1. available = request.amount /\ request.amount - 0 = request.amount
    BY <1>1, <1>3 DEF P!Init
  <2> QED
    BY <1>4, <1>5, <2>1 DEF PlanRuns
<1>7. P!PlanIsLargest
  BY <1>1 DEF P!Init, P!PlanIsLargest
<1> QED
  BY <1>2, <1>6, <1>7 DEF LargestInv

(* Where the plan stands: at one level of each side, in which the next     *)
(* units lie.                                                              *)
LEMMA LegsStand ==
  ASSUME PlanInv, PlanRuns, i =< Len(spot), j =< Len(future)
  PROVE  /\ i \in 1 .. Len(request.spot) /\ j \in 1 .. Len(request.future)
         /\ spot[i] \in Nat \ {0} /\ future[j] \in Nat \ {0} /\ Planned \in Nat
         /\ Planned + spot[i] =< P!Depth(request.spot) /\ Planned + future[j] =< P!Depth(request.future)
         /\ \A u \in Planned + 1 .. Planned + spot[i] : P!PriceAt(request.spot, u) = request.spot[i][1]
         /\ \A u \in Planned + 1 .. Planned + future[j] : P!PriceAt(request.future, u) = request.future[j][1]
         /\ DepthTo(request.spot, i - 1) =< Planned /\ DepthTo(request.future, j - 1) =< Planned
<1>1. request.spot \in Side /\ request.future \in Side
  BY RequestTypes DEF PlanInv, P!TypeOK
<1>2. i \in 1 .. Len(request.spot) /\ j \in 1 .. Len(request.future)
  <2>1. Len(spot) \in Nat /\ Len(future) \in Nat
    BY LenProperties DEF PlanInv
  <2> QED
    BY <2>1 DEF PlanInv, P!TypeOK
<1>3. Walked(request.spot, spot, bought, i) /\ Walked(request.future, future, sold, j)
  BY DEF PlanRuns
<1>s. request.spot \in Side /\ i \in 1 .. Len(request.spot) /\ Walked(request.spot, spot, bought, i)
  BY <1>1, <1>2, <1>3
<1>f. request.future \in Side /\ j \in 1 .. Len(request.future) /\ Walked(request.future, future, sold, j)
  BY <1>1, <1>2, <1>3
<1>4. /\ P!Sum(bought) \in Nat /\ spot[i] \in Nat \ {0}
      /\ P!Sum(bought) + spot[i] = DepthTo(request.spot, i)
      /\ DepthTo(request.spot, i) =< P!Depth(request.spot)
      /\ DepthTo(request.spot, i - 1) =< P!Sum(bought)
  BY <1>s, WalkStands
<1>5. /\ P!Sum(sold) \in Nat /\ future[j] \in Nat \ {0}
      /\ P!Sum(sold) + future[j] = DepthTo(request.future, j)
      /\ DepthTo(request.future, j) =< P!Depth(request.future)
      /\ DepthTo(request.future, j - 1) =< P!Sum(sold)
  BY <1>f, WalkStands
<1>6. \A u \in P!Sum(bought) + 1 .. P!Sum(bought) + spot[i] : P!PriceAt(request.spot, u) = request.spot[i][1]
  BY <1>s, NextUnits
<1>7. \A u \in P!Sum(sold) + 1 .. P!Sum(sold) + future[j] : P!PriceAt(request.future, u) = request.future[j][1]
  BY <1>f, NextUnits
<1>8. P!Sum(bought) = Planned /\ P!Sum(sold) = Planned
  BY DEF PlanRuns, Planned
<1> QED
  BY <1>2, <1>4, <1>5, <1>6, <1>7, <1>8

(* Both sides are walked by what a round takes.                            *)
LEMMA LegsGoOn ==
  ASSUME PlanInv, PlanRuns, i =< Len(spot), j =< Len(future),
         NEW q \in 1 .. spot[i], q \in 1 .. future[j]
  PROVE  /\ Walked(request.spot, [spot EXCEPT ![i] = spot[i] - q], [bought EXCEPT ![i] = bought[i] + q],
                   IF spot[i] - q = 0 THEN i + 1 ELSE i)
         /\ Walked(request.future, [future EXCEPT ![j] = future[j] - q], [sold EXCEPT ![j] = sold[j] + q],
                   IF future[j] - q = 0 THEN j + 1 ELSE j)
         /\ P!Sum([bought EXCEPT ![i] = bought[i] + q]) = Planned + q
         /\ P!Sum([sold EXCEPT ![j] = sold[j] + q]) = Planned + q
<1>1. request.spot \in Side /\ request.future \in Side
  BY RequestTypes DEF PlanInv, P!TypeOK
<1>2. i \in 1 .. Len(request.spot) /\ j \in 1 .. Len(request.future)
  BY LegsStand
<1>3. Walked(request.spot, spot, bought, i) /\ Walked(request.future, future, sold, j)
  BY DEF PlanRuns
<1>s. request.spot \in Side /\ i \in 1 .. Len(request.spot) /\ Walked(request.spot, spot, bought, i)
  BY <1>1, <1>2, <1>3
<1>f. request.future \in Side /\ j \in 1 .. Len(request.future) /\ Walked(request.future, future, sold, j)
  BY <1>1, <1>2, <1>3
<1>4. /\ Walked(request.spot, [spot EXCEPT ![i] = spot[i] - q], [bought EXCEPT ![i] = bought[i] + q],
                IF spot[i] - q = 0 THEN i + 1 ELSE i)
      /\ P!Sum([bought EXCEPT ![i] = bought[i] + q]) = P!Sum(bought) + q
  BY <1>s, WalkGoesOn
<1>5. /\ Walked(request.future, [future EXCEPT ![j] = future[j] - q], [sold EXCEPT ![j] = sold[j] + q],
                IF future[j] - q = 0 THEN j + 1 ELSE j)
      /\ P!Sum([sold EXCEPT ![j] = sold[j] + q]) = P!Sum(sold) + q
  BY <1>f, WalkGoesOn
<1>6. P!Sum(bought) = Planned /\ P!Sum(sold) = Planned
  BY DEF PlanRuns, Planned
<1> QED
  BY <1>4, <1>5, <1>6

(* What a round takes: something, and no more than is left.                *)
LEMMA RoundTakes ==
  ASSUME PlanInv, PlanRuns, request.contract_size = 1, P!Round
  PROVE  \E q \in Nat \ {0} :
           /\ q \in 1 .. spot[i] /\ q \in 1 .. future[j]
           /\ bought' = [bought EXCEPT ![i] = bought[i] + q]
           /\ sold' = [sold EXCEPT ![j] = sold[j] + q]
           /\ spot' = [spot EXCEPT ![i] = spot[i] - q]
           /\ future' = [future EXCEPT ![j] = future[j] - q]
           /\ i' = IF spot[i] - q = 0 THEN i + 1 ELSE i
           /\ j' = IF future[j] - q = 0 THEN j + 1 ELSE j
           /\ request' = request
           /\ available' = available - (IF P!Entering THEN q * request.spot[i][1] ELSE q)
           /\ available' >= 0
<1>1. i =< Len(spot) /\ j =< Len(future) /\ Len(spot) = Len(request.spot) /\ Len(future) = Len(request.future)
  BY DEF P!Round, P!Continues, PlanInv
<1>2. i \in 1 .. Len(spot) /\ j \in 1 .. Len(future)
  BY <1>1, LegsStand
<1>4. PICK x \in Nat \ {0}, y \in Nat \ {0} : x = spot[i] /\ y = future[j]
  BY <1>1, LegsStand
<1>5. PICK price \in Nat \ {0} : price = request.spot[i][1]
  BY <1>2, QuantityIsLeast DEF Price
<1>6. PICK a \in Int : a = available /\ a > 0
  BY DEF PlanInv, P!TypeOK, P!Round, P!Continues
<1>7. PICK q \in Nat \ {0} : /\ q = P!Quantity /\ q =< x /\ q =< y
                             /\ IF P!Entering THEN q * price =< a ELSE q =< a
  <2>1. PICK z \in Int : z = IF P!Entering THEN a \div price ELSE a
    OBVIOUS
  <2>2. y * 1 = y
    OBVIOUS
  <2>3. /\ P!Quantity \in Int /\ P!Quantity \in {x, y, z}
        /\ P!Quantity =< x /\ P!Quantity =< y /\ P!Quantity =< z
    BY <1>2, <1>4, <1>5, <1>6, <2>1, <2>2, QuantityIsLeast
  <2>4. P!Quantity \in Nat \ {0}
    <3>1. CASE P!Entering
      <4>1. P!Quantity # 0
        BY <3>1 DEF P!Round, P!Continues
      <4>2. z >= 0
        BY <1>6, <2>1, <3>1
      <4> QED
        BY <2>3, <4>1, <4>2
    <3>2. CASE ~P!Entering
      BY <1>6, <2>1, <2>3, <3>2
    <3> QED
      BY <3>1, <3>2
  <2>5. PICK m \in Nat \ {0} : m = P!Quantity
    BY <2>4
  <2>6. P!Entering => m * price =< a
    <3>1. P!Entering => m =< a \div price
      BY <2>1, <2>3, <2>5
    <3>2. (a \div price) * price =< a /\ a \div price \in Int
      OBVIOUS
    <3>3. P!Entering => m * price =< (a \div price) * price
      BY <3>1, <3>2
    <3> QED
      BY <3>2, <3>3
  <2> QED
    BY <2>1, <2>3, <2>5, <2>6
<1>8. (IF P!Entering \/ P!Quantity > 0 THEN P!Quantity ELSE 0) = q
  BY <1>7
<1>9. /\ bought' = [bought EXCEPT ![i] = bought[i] + q]
      /\ sold' = [sold EXCEPT ![j] = sold[j] + q]
      /\ spot' = [spot EXCEPT ![i] = spot[i] - q]
      /\ future' = [future EXCEPT ![j] = future[j] - q]
      /\ available' = a - q * (IF P!Entering THEN price ELSE 1)
      /\ request' = request
  <2>1. price = request.spot[i][1] /\ a = available /\ q = P!Quantity
    BY <1>5, <1>6, <1>7
  <2> QED
    BY <1>8, <2>1, Zenon DEF P!Round
<1>10. /\ i' = IF spot[i] - q = 0 THEN i + 1 ELSE i
       /\ j' = IF future[j] - q = 0 THEN j + 1 ELSE j
  <2>1. spot'[i] = spot[i] - q /\ future'[j] = future[j] - q
    BY <1>2, <1>9 DEF PlanInv
  <2> QED
    BY <2>1 DEF P!Round, P!Advance
<1>11. available' = a - (IF P!Entering THEN q * price ELSE q) /\ available' >= 0
  <2>1. q * 1 = q /\ q * price \in Int
    OBVIOUS
  <2> QED
    BY <1>7, <1>9, <2>1
<1>12. q \in 1 .. spot[i] /\ q \in 1 .. future[j]
  BY <1>4, <1>7
<1> QED
  BY <1>5, <1>6, <1>9, <1>10, <1>11, <1>12

(* A round plans more, and what is planned then can be traded.             *)
LEMMA RoundRuns ==
  ASSUME PlanInv, PlanRuns, request.contract_size = 1, P!Round
  PROVE  PlanRuns'
<1>1. i =< Len(spot) /\ j =< Len(future)
  BY DEF P!Round, P!Continues
<1>2. /\ request.spot \in Side /\ request.amount \in Int
      /\ i \in 1 .. Len(spot) /\ j \in 1 .. Len(future)
  <2>1. Len(spot) = Len(request.spot) /\ Len(future) = Len(request.future)
    BY DEF PlanInv
  <2> QED
    BY <1>1, <2>1, LegsStand, RequestTypes DEF PlanInv, P!TypeOK
<1>3. PICK q \in Nat \ {0} :
        /\ q \in 1 .. spot[i] /\ q \in 1 .. future[j]
        /\ bought' = [bought EXCEPT ![i] = bought[i] + q]
        /\ sold' = [sold EXCEPT ![j] = sold[j] + q]
        /\ spot' = [spot EXCEPT ![i] = spot[i] - q]
        /\ future' = [future EXCEPT ![j] = future[j] - q]
        /\ i' = IF spot[i] - q = 0 THEN i + 1 ELSE i
        /\ j' = IF future[j] - q = 0 THEN j + 1 ELSE j
        /\ request' = request
        /\ available' = available - (IF P!Entering THEN q * request.spot[i][1] ELSE q)
        /\ available' >= 0
  BY RoundTakes
<1>4. PICK D \in Nat, price \in Nat, a \in Int, r \in Int :
        D = Planned /\ price = request.spot[i][1] /\ a = available /\ r = request.amount
  <2>1. request.spot[i][1] \in Nat
    BY <1>2, QuantityIsLeast DEF Price
  <2>2. Planned \in Nat /\ available \in Int
    BY <1>1, LegsStand DEF PlanInv, P!TypeOK
  <2> QED
    BY <1>2, <2>1, <2>2
<1>5. /\ Walked(request.spot, spot', bought', i') /\ P!Sum(bought') = D + q
      /\ Walked(request.future, future', sold', j') /\ P!Sum(sold') = D + q
  BY <1>1, <1>3, <1>4, LegsGoOn
\* The last unit of both sides has the price of the level reached.
<1>6. PICK x \in Nat, y \in Nat :
        /\ x = spot[i] /\ y = future[j] /\ q =< x /\ q =< y
        /\ D + x =< P!Depth(request.spot) /\ D + y =< P!Depth(request.future)
        /\ \A u \in D + 1 .. D + x : P!PriceAt(request.spot, u) = price
        /\ \A u \in D + 1 .. D + y : P!PriceAt(request.future, u) = request.future[j][1]
  <2>1. spot[i] \in Nat /\ future[j] \in Nat
    BY <1>1, LegsStand
  <2>2. Planned + spot[i] =< P!Depth(request.spot) /\ Planned + future[j] =< P!Depth(request.future)
    BY <1>1, LegsStand
  <2>3. \A u \in Planned + 1 .. Planned + spot[i] : P!PriceAt(request.spot, u) = request.spot[i][1]
    BY <1>1, LegsStand
  <2>4. \A u \in Planned + 1 .. Planned + future[j] : P!PriceAt(request.future, u) = request.future[j][1]
    BY <1>1, LegsStand
  <2> QED
    BY <1>3, <1>4, <2>1, <2>2, <2>3, <2>4
<1>7. /\ D + q =< P!Depth(request.spot) /\ D + q =< P!Depth(request.future)
      /\ P!PriceAt(request.spot, D + q) = price
      /\ P!PriceAt(request.future, D + q) = request.future[j][1]
      /\ \A u \in D + 1 .. D + q : P!PriceAt(request.spot, u) = price
  <2>1. P!Depth(request.spot) \in Nat /\ P!Depth(request.future) \in Nat
    BY RequestTypes, PricesArePositive DEF PlanInv, P!TypeOK
  <2>2. D + q \in D + 1 .. D + x /\ D + q \in D + 1 .. D + y /\ D + 1 .. D + q \subseteq D + 1 .. D + x
    BY <1>6
  <2>3. D + q =< D + x /\ D + q =< D + y
    BY <1>6
  <2> QED
    BY <1>6, <2>1, <2>2, <2>3
<1>8. PICK c \in Int, t \in Int :
        c = CostOf(request.spot, D) /\ t = q * price /\ CostOf(request.spot, D + q) = c + t
  <2>1. D < D + q /\ D + q \in Nat /\ q \in Nat /\ q * price \in Int
    OBVIOUS
  <2>2. CostOf(request.spot, D) \in Int
    BY <1>2, <1>7, <2>1, CostRises
  <2>3. CostOf(request.spot, D + q) = CostOf(request.spot, D) + q * price
    <3>1. request.spot \in Side /\ D + q =< P!Depth(request.spot)
      BY <1>2, <1>7
    <3>2. \A u \in D + 1 .. D + q : P!PriceAt(request.spot, u) = price
      BY <1>7
    <3>3. PICK l \in Side : l = request.spot
      BY <3>1
    <3>4. CostOf(l, D) \in Int /\ D + q =< P!Depth(l)
      BY <2>2, <3>1, <3>3
    <3>5. \A u \in D + 1 .. D + q : P!PriceAt(l, u) = price
      BY <3>2, <3>3
    <3>6. CostOf(l, D + q) = CostOf(l, D) + q * price
      <4>1. PICK m \in Nat : m = q
        OBVIOUS
      <4>2. CostOf(l, D + m) = CostOf(l, D) + m * price
        BY <3>4, <3>5, <4>1, CostAtOnePrice
      <4> QED
        BY <4>1, <4>2
    <3> QED
      BY <3>3, <3>6
  <2> QED
    BY <2>1, <2>2, <2>3
<1>9. available' = r - (IF P!Entering THEN c + t ELSE D + q)
  <2>1. a = r - (IF P!Entering THEN c ELSE D)
    BY <1>4, <1>8 DEF PlanRuns
  <2>2. available' = a - (IF P!Entering THEN t ELSE q)
    BY <1>3, <1>4, <1>8
  <2> QED
    BY <2>1, <2>2
<1>10. IF P!Entering THEN CostOf(request.spot, D + q) =< r ELSE D + q =< r
  BY <1>3, <1>8, <1>9
<1>11. CanTrade(request, D + q)
  <2>1. P!Worthwhile
    BY DEF P!Round, P!Continues
  <2> QED
    BY <1>2, <1>4, <1>7, <1>10, <2>1, WorthwhileMeans DEF CanTrade, P!Entering
<1>12. Planned' = D + q /\ (P!Entering' <=> P!Entering) /\ request' = request
  BY <1>3, <1>5 DEF Planned, P!Entering
<1>13. CanTrade(request, Planned)'
  BY <1>11, <1>12
<1>14. Walked(request.spot, spot, bought, i)' /\ Walked(request.future, future, sold, j)'
  BY <1>5, <1>12
<1>15. P!Sum(sold)' = Planned'
  BY <1>5, <1>12
<1>16. (available = request.amount - (IF P!Entering THEN CostOf(request.spot, Planned) ELSE Planned))'
  BY <1>4, <1>8, <1>9, <1>12
<1> QED
  BY <1>13, <1>14, <1>15, <1>16 DEF PlanRuns

(* The units that are not planned lie in the levels that are not used up.  *)
LEMMA LaterUnits ==
  ASSUME NEW l \in Side, NEW k \in 1 .. Len(l), NEW D \in Nat, DepthTo(l, k - 1) =< D,
         NEW q \in Nat, D < q, q =< P!Depth(l)
  PROVE  \E n \in 1 .. Len(l) : k =< n /\ P!PriceAt(l, q) = l[n][1]
<1>1. Len(l) \in Nat /\ P!Depth(l) \in Nat /\ q \in 1 .. P!Depth(l)
  BY LevelTypes, PricesArePositive
<1>2. PICK n \in 1 .. Len(l) : q =< DepthTo(l, n) /\ P!PriceAt(l, q) = l[n][1]
  BY <1>1, LevelOfUnit
<1>3. k =< n
  <2> SUFFICES ASSUME n < k PROVE FALSE
    BY <1>1
  <2>1. n \in 0 .. Len(l) /\ k - 1 \in 0 .. Len(l) /\ n =< k - 1
    BY <1>1
  <2>2. DepthTo(l, n) =< DepthTo(l, k - 1) /\ DepthTo(l, n) \in Nat /\ DepthTo(l, k - 1) \in Nat
    BY <2>1, DepthsGrow
  <2> QED
    BY <1>2, <2>2
<1> QED
  BY <1>2, <1>3

(* A later unit is worth it only if the levels that were reached are.      *)
LEMMA LaterIsWorse ==
  ASSUME NEW inc \in Side, Ascending(inc), NEW dec \in Side, Descending(dec), NEW percent \in Int,
         NEW n1 \in 1 .. Len(inc), NEW n2 \in 1 .. Len(inc), n1 =< n2,
         NEW m1 \in 1 .. Len(dec), NEW m2 \in 1 .. Len(dec), m1 =< m2,
         P!Reaches(inc[n2][1], dec[m2][1], percent)
  PROVE  /\ P!Reaches(inc[n1][1], dec[m1][1], percent)
         /\ percent >= 0 /\ dec[m2][1] # inc[n2][1] => dec[m1][1] # inc[n1][1]
<1>0. /\ DOMAIN inc = 1 .. Len(inc) /\ DOMAIN dec = 1 .. Len(dec)
      /\ \A n \in 1 .. Len(inc) : inc[n][1] \in Price
      /\ \A m \in 1 .. Len(dec) : dec[m][1] \in Price
  BY LevelTypes DEF Price
<1>1. PICK a1 \in Price, a2 \in Price, d1 \in Price, d2 \in Price :
        a1 = inc[n1][1] /\ a2 = inc[n2][1] /\ d1 = dec[m1][1] /\ d2 = dec[m2][1]
  BY <1>0
<1>2. a1 =< a2 /\ d2 =< d1
  BY <1>0, <1>1 DEF Ascending, Descending, Price
<1>3. P!Reaches(a1, d1, percent)
  BY <1>1, <1>2, ReachesMore
<1>4. ASSUME percent >= 0, d2 # a2
      PROVE  d1 # a1
  <2>1. PICK f \in Nat : f = 100 + percent /\ f >= 100
    BY <1>4
  <2>2. d2 * 100 >= a2 * f
    BY <1>1, <2>1 DEF P!Reaches
  <2>3. a2 * f >= a2 * 100
    <3>1. PICK e \in Nat : f = 100 + e
      <4>1. f - 100 \in Nat /\ f = 100 + (f - 100)
        BY <2>1
      <4> QED
        BY <4>1
    <3>2. a2 * (100 + e) = a2 * 100 + a2 * e /\ a2 * e >= 0
      BY DEF Price
    <3> QED
      BY <3>1, <3>2 DEF Price
  <2>4. PICK t \in Int : t = a2 * f
    BY <2>1 DEF Price
  <2>5. d2 >= a2
    BY <2>2, <2>3, <2>4 DEF Price
  <2> QED
    BY <1>2, <1>4, <2>5 DEF Price
<1> QED
  BY <1>1, <1>3, <1>4

(* When the loop stops, no more can be traded than is planned.             *)
LEMMA NothingMore ==
  ASSUME PlanInv, PlanRuns, request.contract_size = 1, ~P!Continues,
         P!Entering => request.percent >= 0,
         NEW q \in Nat, Planned < q, CanTrade(request, q)
  PROVE  FALSE
<1>0. /\ request.spot \in Side /\ request.future \in Side
      /\ request.amount \in Int /\ request.percent \in Int
      /\ P!Entering => Ascending(request.spot) /\ Descending(request.future)
      /\ ~P!Entering => Descending(request.spot) /\ Ascending(request.future)
  BY RequestTypes DEF PlanInv, P!TypeOK
<1>1. /\ q =< P!Depth(request.spot) /\ q =< P!Depth(request.future)
      /\ P!Depth(request.spot) \in Nat /\ P!Depth(request.future) \in Nat
  BY <1>0, PricesArePositive DEF CanTrade
<1>2. /\ P!Sum(bought) = Planned /\ P!Sum(sold) = Planned /\ Planned \in Nat
      /\ Len(spot) = Len(request.spot) /\ Len(future) = Len(request.future)
  BY DEF PlanRuns, Planned, Walked, PlanInv
\* Both sides have a level left.
<1>3. i =< Len(spot) /\ j =< Len(future)
  <2>1. i \in Int /\ j \in Int /\ Len(spot) \in Int /\ Len(future) \in Int
    BY LenProperties DEF PlanInv, P!TypeOK
  <2>2. i > Len(spot) => Planned = P!Depth(request.spot)
    BY <1>2 DEF PlanRuns, Walked
  <2>3. j > Len(future) => Planned = P!Depth(request.future)
    BY <1>2 DEF PlanRuns, Walked
  <2> QED
    BY <1>1, <1>2, <2>1, <2>2, <2>3
<1>4. /\ i \in 1 .. Len(request.spot) /\ j \in 1 .. Len(request.future)
      /\ i \in 1 .. Len(spot) /\ j \in 1 .. Len(future)
      /\ DepthTo(request.spot, i - 1) =< Planned /\ DepthTo(request.future, j - 1) =< Planned
  BY <1>2, <1>3, LegsStand
<1>5. PICK n \in 1 .. Len(request.spot) : i =< n /\ P!PriceAt(request.spot, q) = request.spot[n][1]
  BY <1>0, <1>1, <1>2, <1>4, LaterUnits
<1>6. PICK m \in 1 .. Len(request.future) : j =< m /\ P!PriceAt(request.future, q) = request.future[m][1]
  BY <1>0, <1>1, <1>2, <1>4, LaterUnits
<1>7. P!Worthwhile
  <2>0. PICK s \in Side, f \in Side, r \in Int : s = request.spot /\ f = request.future /\ r = request.percent
    BY <1>0
  <2>1. CASE P!Entering
    <3>1. P!Reaches(s[n][1], f[m][1], r) /\ f[m][1] # s[n][1] /\ r >= 0
      BY <1>5, <1>6, <2>0, <2>1 DEF CanTrade, P!Entering
    <3>2. Ascending(s) /\ Descending(f)
      BY <1>0, <2>0, <2>1
    <3>3. /\ n \in 1 .. Len(s) /\ i \in 1 .. Len(s) /\ i =< n
          /\ m \in 1 .. Len(f) /\ j \in 1 .. Len(f) /\ j =< m
      BY <1>4, <1>5, <1>6, <2>0
    <3>4. P!Reaches(s[i][1], f[j][1], r) /\ f[j][1] # s[i][1]
      BY <3>1, <3>2, <3>3, LaterIsWorse
    <3> QED
      BY <1>4, <2>0, <2>1, <3>4, WorthwhileMeans
  <2>2. CASE ~P!Entering
    <3>1. P!Reaches(f[m][1], s[n][1], r)
      BY <1>5, <1>6, <2>0, <2>2 DEF CanTrade, P!Entering
    <3>2. Ascending(f) /\ Descending(s)
      BY <1>0, <2>0, <2>2
    <3>3. /\ n \in 1 .. Len(s) /\ i \in 1 .. Len(s) /\ i =< n
          /\ m \in 1 .. Len(f) /\ j \in 1 .. Len(f) /\ j =< m
      BY <1>4, <1>5, <1>6, <2>0
    <3>4. P!Reaches(f[j][1], s[i][1], r)
      BY <3>1, <3>2, <3>3, LaterIsWorse
    <3> QED
      BY <1>4, <2>0, <2>2, <3>4, WorthwhileMeans
  <2> QED
    BY <2>1, <2>2
<1>8. CASE P!Entering
  <2>1. PICK price \in Nat \ {0} : price = request.spot[i][1]
    BY <1>4, QuantityIsLeast DEF Price
  <2>2. P!PriceAt(request.spot, Planned + 1) = price
    <3>1. /\ spot[i] \in Nat \ {0}
          /\ \A u \in Planned + 1 .. Planned + spot[i] : P!PriceAt(request.spot, u) = request.spot[i][1]
      BY <1>3, LegsStand
    <3>2. Planned + 1 \in Planned + 1 .. Planned + spot[i]
      BY <1>2, <3>1
    <3> QED
      BY <2>1, <3>1, <3>2
  <2>3. PICK c \in Int, d \in Int : /\ c = CostOf(request.spot, Planned) /\ d = CostOf(request.spot, q)
                                    /\ d >= c + price
    BY <1>0, <1>1, <1>2, <2>2, CostRises
  <2>4. d =< request.amount
    BY <1>8, <2>3 DEF CanTrade, P!Entering
  <2>5. available = request.amount - c
    BY <1>8, <2>3 DEF PlanRuns
  <2>6. PICK a \in Int : a = available /\ a >= price
    BY <1>0, <2>3, <2>4, <2>5
  <2>7. P!Quantity = 0
    BY <1>3, <1>7, <1>8, <2>6 DEF P!Continues
  <2>8. PICK x \in Nat \ {0}, y \in Nat \ {0} : x = spot[i] /\ y = future[j] /\ y * 1 = y
    <3>1. spot[i] \in Nat \ {0} /\ future[j] \in Nat \ {0}
      BY <1>3, LegsStand
    <3>2. \A y \in Nat : y * 1 = y
      OBVIOUS
    <3> QED
      BY <3>1, <3>2
  <2>9. P!Quantity \in {x, y, a \div price}
    BY <1>4, <1>8, <2>1, <2>6, <2>8, QuantityIsLeast
  <2>10. a \div price >= 1
    BY <2>6
  <2> QED
    BY <2>7, <2>8, <2>9, <2>10
<1>9. CASE ~P!Entering
  <2>1. q =< request.amount /\ available = request.amount - Planned
    BY <1>9 DEF CanTrade, P!Entering, PlanRuns
  <2>2. available > 0
    BY <1>0, <1>2, <2>1
  <2> QED
    BY <1>3, <1>7, <1>9, <2>2 DEF P!Continues
<1> QED
  BY <1>8, <1>9

\* Whether PlanIsLargest says something of a result, and what it says.
Asked(r, res) ==
  res # << >> /\ r.contract_size = 1 /\ (r.kind = "entry" => r.percent >= 0)

Largest(r, b, s, res) ==
  /\ res.executed = P!Max({0} \cup {q \in 1 .. P!Depth(r.spot) : CanTrade(r, q)})
  /\ P!Sum(b) = res.executed /\ P!Sum(s) = res.executed
  /\ \A k \in DOMAIN b : b[k] \in 0 .. r.spot[k][2]
  /\ \A k \in DOMAIN s : s[k] \in 0 .. r.future[k][2]
  /\ r.kind # "entry" \/ res.executed > 0 =>
       IsClosest(IF r.kind = "entry" THEN r.spot ELSE r.future, IF r.kind = "entry" THEN r.future ELSE r.spot,
                 r.percent, res.max_price)

(* PlanIsLargest, in terms of the request and the result alone.            *)
LEMMA LargestMeans ==
  P!PlanIsLargest <=> (Asked(request, result) => Largest(request, bought, sold, result))
<1> DEFINE able(r) == {p \in {<<x[1], y[1]>> : x \in P!ToSet(IF r.kind = "entry" THEN r.spot ELSE r.future),
                                             y \in P!ToSet(IF r.kind = "entry" THEN r.future ELSE r.spot)} :
                         P!Reaches(p[1], p[2], r.percent)}
           rest(r, res, a) == /\ P!Sum(bought) = res.executed /\ P!Sum(sold) = res.executed
                              /\ \A k \in DOMAIN bought : bought[k] \in 0 .. r.spot[k][2]
                              /\ \A k \in DOMAIN sold : sold[k] \in 0 .. r.future[k][2]
                              /\ ~(r.kind = "entry") \/ res.executed > 0 =>
                                   IF a = {} THEN res.max_price = << >>
                                   ELSE res.max_price \in a /\ \A p \in a : ~P!Closer(p, res.max_price)
<1>1. {q \in 1 .. P!Depth(request.spot) : P!Feasible(q)} = {q \in 1 .. P!Depth(request.spot) : CanTrade(request, q)}
  BY FeasibleMeans
<1>2. P!PlanIsLargest <=>
        (Asked(request, result) =>
          /\ result.executed = P!Max({0} \cup {q \in 1 .. P!Depth(request.spot) : P!Feasible(q)})
          /\ rest(request, result, able(request)))
  BY DEF P!PlanIsLargest, P!Entering, Asked
<1>3. Largest(request, bought, sold, result) <=>
          /\ result.executed = P!Max({0} \cup {q \in 1 .. P!Depth(request.spot) : CanTrade(request, q)})
          /\ rest(request, result, able(request))
  BY DEF Largest, IsClosest
<1> HIDE DEF able, rest
<1> QED
  BY <1>1, <1>2, <1>3, Zenon

(* The greatest quantity that can be traded is the one that is planned.    *)
LEMMA PlannedIsGreatest ==
  ASSUME PlanInv, PlanRuns, request.contract_size = 1, ~P!Continues,
         P!Entering => request.percent >= 0
  PROVE  P!Max({0} \cup {q \in 1 .. P!Depth(request.spot) : CanTrade(request, q)}) = Planned
<1> DEFINE all == {0} \cup {q \in 1 .. P!Depth(request.spot) : CanTrade(request, q)}
<1>1. Planned \in Nat /\ P!Depth(request.spot) \in Nat
  BY RequestTypes, PricesArePositive DEF PlanRuns, Planned, Walked, PlanInv, P!TypeOK
<1>2. Planned \in all
  <2>1. CASE Planned > 0
    <3>1. CanTrade(request, Planned) /\ Planned =< P!Depth(request.spot)
      BY <2>1 DEF PlanRuns, CanTrade
    <3> QED
      BY <1>1, <2>1, <3>1
  <2> QED
    BY <1>1, <2>1
<1>3. \A q \in all : Planned >= q
  <2> SUFFICES ASSUME NEW q \in 1 .. P!Depth(request.spot), CanTrade(request, q), Planned < q PROVE FALSE
    BY <1>1
  <2>1. q \in Nat
    BY <1>1
  <2> QED
    BY <2>1, NothingMore
<1>4. all \in SUBSET Int
  BY <1>1
<1> HIDE DEF all
<1>5. P!Max(all) = Planned
  BY <1>2, <1>3, <1>4, GreatestChosen
<1> QED
  BY <1>5 DEF all

(* What is returned names the closest pair of prices.                      *)
LEMMA FinishIsLargest ==
  ASSUME PlanInv, PlanRuns, request.contract_size = 1, P!Finish,
         P!Entering => request.percent >= 0
  PROVE  Largest(request, bought, sold, result')
<1>0. /\ request.spot \in Side /\ request.future \in Side /\ request.amount \in Int
      /\ P!Entering => Ascending(request.spot) /\ Descending(request.future)
      /\ ~P!Entering => Descending(request.spot) /\ Ascending(request.future)
      /\ request.percent \in Int
  BY RequestTypes DEF PlanInv, P!TypeOK
<1>1. P!Max({0} \cup {q \in 1 .. P!Depth(request.spot) : CanTrade(request, q)}) = Planned
  BY PlannedIsGreatest DEF P!Finish
<1>2. P!Sum(bought) = Planned /\ P!Sum(sold) = Planned /\ Planned \in Nat
  BY DEF PlanRuns, Planned, Walked
<1>3. result'.executed = Planned
  <2>1. CASE P!Entering
    BY <1>2, <2>1 DEF P!Finish
  <2>2. CASE ~P!Entering
    <3>1. available = request.amount - Planned
      BY <2>2 DEF PlanRuns
    <3>2. request.amount - available = Planned
      BY <1>0, <1>2, <3>1
    <3> QED
      BY <2>2, <3>2 DEF P!Finish
  <2> QED
    BY <2>1, <2>2
<1>4. /\ P!Entering /\ Planned > 0 =>
           result'.max_price = P!MaxPrice(request.spot, request.future, request.percent)
      /\ ~P!Entering => result'.max_price = P!MaxPrice(request.future, request.spot, request.percent)
  BY <1>2 DEF P!Finish
<1>5. /\ \A k \in DOMAIN bought : bought[k] \in 0 .. request.spot[k][2]
      /\ \A k \in DOMAIN sold : sold[k] \in 0 .. request.future[k][2]
  <2>1. ASSUME NEW l \in Side, NEW left, NEW taken, NEW k, Walked(l, left, taken, k), NEW n \in DOMAIN taken
        PROVE  taken[n] \in 0 .. l[n][2]
    <3>1. n \in 1 .. Len(l) /\ taken[n] \in Nat /\ left[n] \in Nat /\ taken[n] + left[n] = l[n][2]
      BY <2>1 DEF Walked
    <3> QED
      BY <3>1
  <2> QED
    BY <1>0, <2>1 DEF PlanRuns
<1>6. P!Entering /\ Planned > 0 => IsClosest(request.spot, request.future, request.percent, result'.max_price)
  BY <1>0, <1>4, ClosestIsFound
<1>7. ~P!Entering => IsClosest(request.future, request.spot, request.percent, result'.max_price)
  BY <1>0, <1>4, ClosestIsFound
<1>8. CASE P!Entering
  BY <1>1, <1>2, <1>3, <1>5, <1>6, <1>8 DEF Largest, P!Entering
<1>9. CASE ~P!Entering
  BY <1>1, <1>2, <1>3, <1>5, <1>7, <1>9 DEF Largest, P!Entering
<1> QED
  BY <1>8, <1>9

(* A round keeps the invariant, and what is returned is the largest plan.  *)
LEMMA NextLargest == LargestInv /\ [PartsNext]_parts => LargestInv'
<1>0. [PartsNext]_parts => [P!Next]_plan
  BY DEF PartsNext, parts, plan
<1> SUFFICES ASSUME LargestInv, [PartsNext]_parts PROVE LargestInv'
  OBVIOUS
<1>1. PlanInv'
  BY NextPlan DEF LargestInv
<1>2. CASE P!Round
  <2>1. request' = request /\ result' = << >>
    BY <1>2 DEF P!Round
  <2>2. (request.contract_size = 1 => PlanRuns)'
    BY <1>2, <2>1, RoundRuns DEF LargestInv
  <2>3. P!PlanIsLargest'
    BY <2>1 DEF P!PlanIsLargest
  <2> QED
    BY <1>1, <2>2, <2>3 DEF LargestInv
<1>3. CASE P!Finish
  <2>1. UNCHANGED <<request, i, j, spot, future, available, bought, sold, steps>>
    BY <1>3 DEF P!Finish
  <2>2. (request.contract_size = 1 => PlanRuns)'
    BY <2>1 DEF LargestInv, PlanRuns, Planned, P!Entering
  <2>3. (Asked(request, result) => Largest(request, bought, sold, result))'
    <3>1. Asked(request, result') => Largest(request, bought, sold, result')
      BY <1>3, FinishIsLargest DEF LargestInv, P!Entering, Asked
    <3>2. request' = request /\ bought' = bought /\ sold' = sold
      BY <2>1
    <3> QED
      BY <3>1, <3>2
  <2>4. P!PlanIsLargest'
    BY <2>3, LargestMeans, PTL
  <2> QED
    BY <1>1, <2>2, <2>4 DEF LargestInv
<1>4. CASE UNCHANGED plan
  <2>1. UNCHANGED <<request, i, j, spot, future, available, bought, sold, steps, result>>
    BY <1>4 DEF plan
  <2>2. (request.contract_size = 1 => PlanRuns)'
    BY <2>1 DEF LargestInv, PlanRuns, Planned, P!Entering
  <2>3. (Asked(request, result) => Largest(request, bought, sold, result))'
    <3>1. Asked(request, result) => Largest(request, bought, sold, result)
      BY LargestMeans DEF LargestInv
    <3> QED
      BY <2>1, <3>1
  <2>4. P!PlanIsLargest'
    BY <2>3, LargestMeans, PTL
  <2> QED
    BY <1>1, <2>2, <2>4 DEF LargestInv
<1> QED
  BY <1>0, <1>2, <1>3, <1>4 DEF P!Next

(* The invariant of the plan.                                              *)
LEMMA LargestInvariant == PartsSpec => []LargestInv
  BY InitLargest, NextLargest, PTL DEF PartsSpec

(* For any books, whose sides are sorted from the best price on, any       *)
(* amount, and any percentage (none below zero, when entering): with       *)
(* contracts of one unit, the two loops that walk the books in step plan   *)
(* the largest quantity whose every unit is worth it and paid for, the     *)
(* same on both legs and within every level; and find_max_price returns    *)
(* the closest of all the pairs of prices that reach the percentage.       *)
THEOREM PlansAreLargest == PartsSpec => []PlanIsLargest
<1>1. LargestInv => PlanIsLargest
  BY DEF LargestInv, PlanIsLargest
<1> QED
  BY <1>1, LargestInvariant, PTL
=============================================================================
