----------------------------- MODULE PartsProofs ----------------------------
(***************************************************************************)
(* What the proofs about the parts of MC_Parts share: numbers, sequences,  *)
(* folds and sums.  And the proofs about three of the parts: the channel,  *)
(* for any items and any number of senders; the account, for any orders;   *)
(* and the monitor and its listeners, for any tops of the books.           *)
(***************************************************************************)
EXTENDS MC_Parts, FiniteSetTheorems, SequenceTheorems, WellFoundedInduction, TLAPS

-----------------------------------------------------------------------------
(* Numbers and sequences                                                   *)

(* A set of natural numbers that is not empty has a least element.         *)
LEMMA LeastNumber ==
  ASSUME NEW T \in SUBSET Nat, T # {}
  PROVE  \E x \in T : \A y \in T : x =< y
<1>1. PICK x \in T : \A y \in T : <<y, x>> \notin OpToRel(<, Nat)
  BY NatLessThanWellFounded, WFMin
<1>2. \A y \in T : ~(y < x)
  BY <1>1 DEF OpToRel
<1> QED
  BY <1>2

(* Induction: a set that holds 0 and every successor holds every number.   *)
LEMMA AllNumbers ==
  ASSUME NEW T \in SUBSET Nat, 0 \in T, \A n \in T : n + 1 \in T
  PROVE  T = Nat
<1> SUFFICES ASSUME Nat \ T # {} PROVE FALSE
  OBVIOUS
<1>1. PICK m \in Nat \ T : \A n \in Nat \ T : m =< n
  BY LeastNumber
<1>2. m - 1 \in Nat /\ m - 1 \in T
  BY <1>1
<1> QED
  BY <1>2

(* A sequence of the first numbers is one of more.                         *)
LEMMA MoreNumbers ==
  ASSUME NEW m \in Nat, NEW n \in Nat, m =< n, NEW s \in Seq(1 .. m)
  PROVE  s \in Seq(1 .. n)
  OBVIOUS

(* Appending adds one element.                                             *)
LEMMA Appended ==
  ASSUME NEW S, NEW s \in Seq(S), NEW e
  PROVE  /\ Append(s, e) \in Seq(S \cup {e})
         /\ Len(Append(s, e)) = Len(s) + 1
         /\ \A n \in 1 .. Len(s) : Append(s, e)[n] = s[n]
         /\ Append(s, e)[Len(s) + 1] = e
  OBVIOUS

(* Nothing occurs twice in s; v occurs in s.                               *)
Once(s)      == \A n1, n2 \in DOMAIN s : s[n1] = s[n2] => n1 = n2
Occurs(v, s) == \E n \in 1 .. Len(s) : s[n] = v

(* Appending something new leaves no element twice.                        *)
LEMMA AppendedOnce ==
  ASSUME NEW S, NEW s \in Seq(S), NEW e, ~Occurs(e, s), Once(s)
  PROVE  Once(Append(s, e))
<1>1. PICK q : q = Append(s, e)
  OBVIOUS
<1>2. /\ Len(q) = Len(s) + 1 /\ DOMAIN q = 1 .. Len(q) /\ Len(s) \in Nat /\ DOMAIN s = 1 .. Len(s)
      /\ \A n \in 1 .. Len(s) : q[n] = s[n] /\ s[n] # e
      /\ q[Len(s) + 1] = e
  BY <1>1, Appended DEF Occurs
<1>3. \A n \in DOMAIN q : n \in 1 .. Len(s) \/ n = Len(s) + 1
  BY <1>2
<1>4. \A n1, n2 \in DOMAIN q : q[n1] = q[n2] => n1 = n2
  BY <1>2, <1>3 DEF Once
<1> QED
  BY <1>1, <1>4 DEF Once

(* Where the n-th element was before the one at place k went.              *)
Before(k, n) == IF n < k THEN n ELSE n + 1

LEMMA BeforeIsPlace ==
  ASSUME NEW m \in Nat, NEW k \in 1 .. m
  PROVE  /\ \A n \in 1 .. m - 1 : Before(k, n) \in 1 .. m /\ Before(k, n) # k
         /\ \A n1, n2 \in 1 .. m - 1 : Before(k, n1) = Before(k, n2) => n1 = n2
         /\ \A x \in 1 .. m : x # k => \E n \in 1 .. m - 1 : Before(k, n) = x
<1>1. \A n \in 1 .. m - 1 : Before(k, n) \in 1 .. m /\ Before(k, n) # k
  BY DEF Before
<1>2. \A n1, n2 \in 1 .. m - 1 : Before(k, n1) = Before(k, n2) => n1 = n2
  BY DEF Before
<1>3. ASSUME NEW x \in 1 .. m, x # k
      PROVE  \E n \in 1 .. m - 1 : Before(k, n) = x
  <2>1. CASE x < k
    <3>1. x \in 1 .. m - 1 /\ Before(k, x) = x
      BY <2>1 DEF Before
    <3> QED
      BY <3>1
  <2>2. CASE x > k
    <3>1. x - 1 \in 1 .. m - 1 /\ Before(k, x - 1) = x
      BY <2>2 DEF Before
    <3> QED
      BY <3>1
  <2> QED
    BY <1>3, <2>1, <2>2
<1> QED
  BY <1>1, <1>2, <1>3

(* A sequence without the element at place k.                              *)
Without(s, k) == SubSeq(s, 1, k - 1) \o SubSeq(s, k + 1, Len(s))

LEMMA WithoutPlace ==
  ASSUME NEW S, NEW s \in Seq(S), NEW k \in 1 .. Len(s)
  PROVE  /\ Without(s, k) \in Seq(S) /\ Len(Without(s, k)) = Len(s) - 1
         /\ \A n \in 1 .. Len(Without(s, k)) : Without(s, k)[n] = s[Before(k, n)]
<1>0. PICK m \in Nat : m = Len(s)
  OBVIOUS
<1>1. k \in Nat /\ 1 =< k /\ k =< m
  BY <1>0
<1>2. PICK r \in Seq(S) : r = SubSeq(s, 1, k - 1) /\ Len(r) = k - 1 /\ \A n \in 1 .. k - 1 : r[n] = s[n]
  <2>1. SubSeq(s, 1, k - 1) \in Seq(S)
    OBVIOUS
  <2>2. Len(SubSeq(s, 1, k - 1)) = k - 1
    OBVIOUS
  <2>3. \A n \in 1 .. k - 1 : SubSeq(s, 1, k - 1)[n] = s[n]
    OBVIOUS
  <2> QED
    BY <2>1, <2>2, <2>3
<1>3. PICK q \in Seq(S) : q = SubSeq(s, k + 1, Len(s)) /\ Len(q) = m - k /\ \A n \in 1 .. m - k : q[n] = s[k + n]
  <2>1. SubSeq(s, k + 1, m) \in Seq(S)
    <3>1. \A n \in 1 .. m : s[n] \in S
      BY <1>0
    <3> QED
      BY <1>1, <3>1
  <2>2. Len(SubSeq(s, k + 1, m)) = m - k
    BY <1>1
  <2>3. \A n \in 1 .. m - k : SubSeq(s, k + 1, m)[n] = s[k + n]
    BY <1>1
  <2> QED
    BY <1>0, <2>1, <2>2, <2>3
<1>4. PICK w : w = Without(s, k)
  OBVIOUS
<1>5. w = r \o q
  BY <1>2, <1>3, <1>4 DEF Without
<1>6. /\ w \in Seq(S) /\ Len(w) = Len(r) + Len(q)
      /\ \A n \in 1 .. Len(r) + Len(q) : w[n] = IF n <= Len(r) THEN r[n] ELSE q[n - Len(r)]
  BY <1>5, ConcatProperties
<1>7. Len(r) + Len(q) = m - 1
  <2>1. Len(r) = k - 1 /\ Len(q) = m - k
    BY <1>2, <1>3
  <2> QED
    BY <1>1, <2>1
<1>8. \A n \in 1 .. m - 1 : w[n] = IF n <= k - 1 THEN r[n] ELSE q[n - (k - 1)]
  BY <1>2, <1>6, <1>7
<1>9. ASSUME NEW n \in 1 .. m - 1
      PROVE  w[n] = s[Before(k, n)]
  <2>1. CASE n < k
    <3>1. n \in 1 .. k - 1 /\ n <= k - 1 /\ Before(k, n) = n
      BY <1>1, <2>1 DEF Before
    <3> QED
      BY <1>2, <1>8, <3>1
  <2>2. CASE ~(n < k)
    <3>1. /\ n - (k - 1) \in 1 .. m - k /\ ~(n <= k - 1)
          /\ k + (n - (k - 1)) = n + 1 /\ Before(k, n) = n + 1
      BY <1>1, <2>2 DEF Before
    <3>2. w[n] = q[n - (k - 1)]
      BY <1>8, <3>1
    <3> QED
      BY <1>3, <3>1, <3>2
  <2> QED
    BY <2>1, <2>2
<1> QED
  BY <1>0, <1>4, <1>6, <1>7, <1>9

(* Without the place of e, a sequence that has nothing twice has all but e.*)
LEMMA WithoutElement ==
  ASSUME NEW S, NEW s \in Seq(S), NEW k \in 1 .. Len(s), Once(s)
  PROVE  /\ Without(s, k) \in Seq(S \ {s[k]}) /\ Len(Without(s, k)) = Len(s) - 1
         /\ Once(Without(s, k))
         /\ \A v : Occurs(v, Without(s, k)) <=> v # s[k] /\ Occurs(v, s)
<1>0. PICK m \in Nat : m = Len(s) /\ k \in 1 .. m /\ DOMAIN s = 1 .. m
  OBVIOUS
<1>1. PICK w : w = Without(s, k)
  OBVIOUS
<1>2. w \in Seq(S) /\ Len(w) = m - 1 /\ \A n \in 1 .. Len(w) : w[n] = s[Before(k, n)]
  BY <1>0, <1>1, WithoutPlace
<1>3. DOMAIN w = 1 .. m - 1 /\ \A n \in 1 .. m - 1 : w[n] = s[Before(k, n)]
  BY <1>2
<1>4. /\ \A n \in 1 .. m - 1 : Before(k, n) \in 1 .. m /\ Before(k, n) # k
      /\ \A n1, n2 \in 1 .. m - 1 : Before(k, n1) = Before(k, n2) => n1 = n2
      /\ \A x \in 1 .. m : x # k => \E n \in 1 .. m - 1 : Before(k, n) = x
  BY <1>0, BeforeIsPlace
<1>5. \A n1, n2 \in 1 .. m : s[n1] = s[n2] => n1 = n2
  BY <1>0 DEF Once
<1>6. \A n1, n2 \in 1 .. m - 1 : w[n1] = w[n2] => n1 = n2
  BY <1>3, <1>4, <1>5
<1>7. \A n \in 1 .. m - 1 : w[n] # s[k] /\ \E x \in 1 .. m : s[x] = w[n]
  BY <1>0, <1>3, <1>4, <1>5
<1>8. ASSUME NEW x \in 1 .. m, s[x] # s[k]
      PROVE  \E n \in 1 .. m - 1 : w[n] = s[x]
  <2>1. x # k
    BY <1>8
  <2>2. PICK n \in 1 .. m - 1 : Before(k, n) = x
    BY <1>4, <2>1
  <2> QED
    BY <1>3, <2>2
<1>9. w \in Seq(S \ {s[k]})
  <2>1. \A n \in 1 .. m - 1 : w[n] \in S \ {s[k]}
    <3>1. \A n \in 1 .. m : s[n] \in S
      BY <1>0
    <3> QED
      BY <1>7, <3>1
  <2>2. w \in [1 .. Len(w) -> S]
    BY <1>2, LenProperties
  <2>3. w \in [1 .. m - 1 -> S \ {s[k]}]
    BY <1>2, <2>1, <2>2
  <2>4. m - 1 \in Nat
    BY <1>0
  <2> QED
    BY <2>3, <2>4, SeqDef
<1>10. \A v : (\E n \in 1 .. m - 1 : w[n] = v) <=> v # s[k] /\ \E n \in 1 .. m : s[n] = v
  BY <1>7, <1>8
<1>11. Once(w)
  BY <1>3, <1>6 DEF Once
<1>12. \A v : Occurs(v, w) <=> v # s[k] /\ Occurs(v, s)
  BY <1>0, <1>2, <1>10 DEF Occurs
<1> QED
  BY <1>0, <1>1, <1>2, <1>9, <1>11, <1>12

(* RemoveFirst takes out the one place of an element.                      *)
LEMMA RemovedFirst ==
  ASSUME NEW S, NEW s \in Seq(S), NEW e, Once(s)
  PROVE  /\ O!RemoveFirst(s, e) \in Seq(S \ {e}) /\ Once(O!RemoveFirst(s, e))
         /\ \A v : Occurs(v, O!RemoveFirst(s, e)) <=> v # e /\ Occurs(v, s)
<1>1. PICK w : w = O!RemoveFirst(s, e)
  OBVIOUS
<1>2. CASE Occurs(e, s)
  <2> DEFINE places == {n \in 1 .. Len(s) : s[n] = e}
  <2>1. PICK k : k = O!Min(places)
    OBVIOUS
  <2>2. k \in places
    <3>1. places \in SUBSET Nat /\ places # {}
      BY <1>2 DEF Occurs
    <3> HIDE DEF places
    <3> QED
      BY <2>1, <3>1, LeastNumber DEF O!Min
  <2>3. k \in 1 .. Len(s) /\ s[k] = e
    BY <2>2
  <2>4. w = Without(s, k)
    BY <1>1, <1>2, <2>1 DEF O!RemoveFirst, O!RemoveAt, O!SelectInSeq, Without, Occurs
  <2> HIDE DEF places
  <2>5. /\ Without(s, k) \in Seq(S \ {s[k]}) /\ Once(Without(s, k))
        /\ \A v : Occurs(v, Without(s, k)) <=> v # s[k] /\ Occurs(v, s)
    BY <2>3, WithoutElement
  <2> QED
    BY <1>1, <2>3, <2>4, <2>5
<1>3. CASE ~Occurs(e, s)
  <2>1. w = s
    BY <1>1, <1>3 DEF O!RemoveFirst, Occurs
  <2>2. s \in Seq(S \ {e})
    <3>1. s \in [1 .. Len(s) -> S \ {e}] /\ Len(s) \in Nat
      BY <1>3 DEF Occurs
    <3> QED
      BY <3>1, SeqDef
  <2>3. \A v : Occurs(v, s) <=> v # e /\ Occurs(v, s)
    BY <1>3
  <2> QED
    BY <1>1, <2>1, <2>2, <2>3
<1> QED
  BY <1>2, <1>3

-----------------------------------------------------------------------------
(* Folds and sums                                                          *)

\* A fold over S takes the picked element first, and applies a step to what
\* the others give.
Picks(pick, S)    == \A s \in SUBSET S : s # {} => pick[s] \in s
Steps(step, S, V) == \A s \in SUBSET S, v \in V : s # {} => step[<<s, v>>] \in V

IsFold(g, S, V, base, pick, step) ==
  /\ g \in [SUBSET S -> V]
  /\ \A s \in SUBSET S : g[s] = IF s = {} THEN base ELSE step[<<s, g[s \ {pick[s]}]>>]

(* The recursion of a fold over a finite set has a solution.               *)
LEMMA FoldSolved ==
  ASSUME NEW S, IsFiniteSet(S), NEW V, NEW base \in V,
         NEW pick, Picks(pick, S), NEW step, Steps(step, S, V)
  PROVE  \E g : IsFold(g, S, V, base, pick, step)
<1> DEFINE Small(n) == {s \in SUBSET S : Cardinality(s) =< n}
           Solves(g, n) == /\ g \in [Small(n) -> V]
                           /\ \A s \in Small(n) :
                                g[s] = IF s = {} THEN base ELSE step[<<s, g[s \ {pick[s]}]>>]
           Good == {n \in Nat : \E g : Solves(g, n)}
<1>1. \A s \in SUBSET S : IsFiniteSet(s) /\ Cardinality(s) \in Nat /\ Cardinality(s) =< Cardinality(S)
  BY FS_Subset, FS_CardinalityType
<1>2. 0 \in Good
  <2>1. \A s \in Small(0) : s = {}
    <3> SUFFICES ASSUME NEW s \in SUBSET S, Cardinality(s) =< 0 PROVE s = {}
      OBVIOUS
    <3>1. IsFiniteSet(s) /\ Cardinality(s) = 0
      BY <1>1
    <3> QED
      BY <3>1, FS_EmptySet
  <2>2. Solves([s \in Small(0) |-> base], 0)
    BY <2>1
  <2> QED
    BY <2>2
<1>3. ASSUME NEW n \in Good
      PROVE  n + 1 \in Good
  <2>1. PICK g : Solves(g, n)
    OBVIOUS
  <2> DEFINE h == [s \in Small(n + 1) |-> IF s = {} THEN base ELSE step[<<s, g[s \ {pick[s]}]>>]]
  <2>2. \A s \in Small(n + 1) : s # {} => s \ {pick[s]} \in Small(n)
    <3> SUFFICES ASSUME NEW s \in SUBSET S, Cardinality(s) =< n + 1, s # {}
                 PROVE  s \ {pick[s]} \in Small(n)
      OBVIOUS
    <3>1. PICK x : x = pick[s]
      OBVIOUS
    <3>2. x \in s /\ IsFiniteSet(s) /\ Cardinality(s) \in Nat
      BY <1>1, <3>1 DEF Picks
    <3>3. Cardinality(s \ {x}) = Cardinality(s) - 1
      BY <3>2, FS_RemoveElement
    <3> QED
      BY <3>1, <3>2, <3>3
  <2>3. \A s \in Small(n) : s \in Small(n + 1) /\ h[s] = g[s]
    <3> SUFFICES ASSUME NEW s \in Small(n) PROVE s \in Small(n + 1) /\ h[s] = g[s]
      OBVIOUS
    <3>1. s \in Small(n + 1)
      BY <1>1
    <3> QED
      BY <2>1, <3>1
  <2>4. Solves(h, n + 1)
    <3>1. ASSUME NEW s \in Small(n + 1)
          PROVE  /\ h[s] \in V
                 /\ h[s] = IF s = {} THEN base ELSE step[<<s, h[s \ {pick[s]}]>>]
      <4>1. CASE s = {}
        BY <3>1, <4>1
      <4>2. CASE s # {}
        <5>1. s \ {pick[s]} \in Small(n)
          BY <2>2, <4>2
        <5>2. g[s \ {pick[s]}] \in V /\ h[s \ {pick[s]}] = g[s \ {pick[s]}]
          BY <2>1, <2>3, <5>1
        <5>3. h[s] = step[<<s, g[s \ {pick[s]}]>>]
          BY <3>1, <4>2
        <5>4. s \in SUBSET S
          BY <3>1
        <5> HIDE DEF h, Small
        <5> QED
          BY <4>2, <5>2, <5>3, <5>4 DEF Steps
      <4> QED
        BY <4>1, <4>2
    <3>2. h \in [Small(n + 1) -> V]
      <4> h = [s \in Small(n + 1) |-> h[s]]
        OBVIOUS
      <4> HIDE DEF h, Small
      <4> QED
        BY <3>1
    <3> HIDE DEF h, Small
    <3> QED
      BY <3>1, <3>2
  <2>5. n + 1 \in Nat
    OBVIOUS
  <2> HIDE DEF Solves, h
  <2> QED
    BY <2>4, <2>5
<1>4. Cardinality(S) \in Good
  <2>1. Good \in SUBSET Nat /\ Cardinality(S) \in Nat
    BY FS_CardinalityType
  <2> HIDE DEF Good
  <2> QED
    BY <1>2, <1>3, <2>1, AllNumbers
<1>5. PICK g : Solves(g, Cardinality(S))
  BY <1>4
<1>6. Small(Cardinality(S)) = SUBSET S
  BY <1>1
<1> QED
  BY <1>5, <1>6 DEF IsFold

SumOn(f, S) == FoldFunctionOnSet(+, 0, f, S)

Picked(s) == CHOOSE x \in s : TRUE

\* g has the sums of f over the subsets of S, as the fold computes them.
Sums(f, S, g) ==
  g = [s \in SUBSET S |-> IF s = {} THEN 0 ELSE f[Picked(s)] + g[s \ {Picked(s)}]]

LEMMA SumIsChosen ==
  ASSUME NEW f, NEW S
  PROVE  SumOn(f, S) = (CHOOSE g : Sums(f, S, g))[S]
BY Zenon DEF SumOn, FoldFunctionOnSet, MapThenFoldSet, Sums, Picked

(* Solutions agree wherever they are both defined, on functions that do.   *)
LEMMA SumsAgree ==
  ASSUME NEW S, NEW T \in SUBSET S, IsFiniteSet(S),
         NEW e, NEW f, \A x \in T : e[x] = f[x],
         NEW g, Sums(e, S, g), NEW h, Sums(f, T, h)
  PROVE  \A s \in SUBSET T : g[s] = h[s]
<1> DEFINE Good == {n \in Nat : \A s \in SUBSET T : Cardinality(s) =< n => g[s] = h[s]}
<1>1. \A s \in SUBSET T : IsFiniteSet(s) /\ Cardinality(s) \in Nat
  <2> SUFFICES ASSUME NEW s \in SUBSET T PROVE IsFiniteSet(s) /\ Cardinality(s) \in Nat
    OBVIOUS
  <2>1. s \in SUBSET S
    OBVIOUS
  <2> QED
    BY <2>1, FS_Subset, FS_CardinalityType
<1>2. \A s \in SUBSET T :
        /\ g[s] = IF s = {} THEN 0 ELSE e[Picked(s)] + g[s \ {Picked(s)}]
        /\ h[s] = IF s = {} THEN 0 ELSE f[Picked(s)] + h[s \ {Picked(s)}]
  <2> SUFFICES ASSUME NEW s \in SUBSET T
               PROVE /\ g[s] = IF s = {} THEN 0 ELSE e[Picked(s)] + g[s \ {Picked(s)}]
                     /\ h[s] = IF s = {} THEN 0 ELSE f[Picked(s)] + h[s \ {Picked(s)}]
    OBVIOUS
  <2>1. s \in SUBSET S
    OBVIOUS
  <2>2. g[s] = IF s = {} THEN 0 ELSE e[Picked(s)] + g[s \ {Picked(s)}]
    BY <2>1, Zenon DEF Sums
  <2>3. h[s] = IF s = {} THEN 0 ELSE f[Picked(s)] + h[s \ {Picked(s)}]
    BY Zenon DEF Sums
  <2> QED
    BY <2>2, <2>3
<1>3. 0 \in Good
  <2> SUFFICES ASSUME NEW s \in SUBSET T, Cardinality(s) =< 0 PROVE g[s] = h[s]
    OBVIOUS
  <2>1. s = {}
    BY <1>1, FS_EmptySet
  <2> QED
    BY <1>2, <2>1
<1>4. ASSUME NEW n \in Good
      PROVE  n + 1 \in Good
  <2> SUFFICES ASSUME NEW s \in SUBSET T, Cardinality(s) =< n + 1, s # {} PROVE g[s] = h[s]
    BY <1>2
  <2>1. Picked(s) \in s /\ IsFiniteSet(s) /\ Cardinality(s) \in Nat
    BY <1>1 DEF Picked
  <2>2. Cardinality(s \ {Picked(s)}) = Cardinality(s) - 1
    BY <2>1, FS_RemoveElement
  <2>3. g[s \ {Picked(s)}] = h[s \ {Picked(s)}]
    <3>1. s \ {Picked(s)} \in SUBSET T /\ Cardinality(s \ {Picked(s)}) =< n
      BY <2>1, <2>2
    <3> QED
      BY <3>1
  <2>4. e[Picked(s)] = f[Picked(s)]
    BY <2>1
  <2> QED
    BY <1>2, <2>3, <2>4
<1>5. Good = Nat
  <2>1. Good \in SUBSET Nat
    OBVIOUS
  <2> HIDE DEF Good
  <2> QED
    BY <1>3, <1>4, <2>1, AllNumbers
<1> SUFFICES ASSUME NEW s \in SUBSET T PROVE g[s] = h[s]
  OBVIOUS
<1>6. Cardinality(s) \in Good /\ Cardinality(s) =< Cardinality(s)
  BY <1>1, <1>5
<1> QED
  BY <1>6

(* The fold of a finite set of numbers: its equation and its type.         *)
LEMMA SumSolved ==
  ASSUME NEW S, IsFiniteSet(S), NEW f, \A x \in S : f[x] \in Int
  PROVE  \E g \in [SUBSET S -> Int] : Sums(f, S, g) /\ SumOn(f, S) = g[S]
<1> DEFINE pick == [s \in SUBSET S |-> Picked(s)]
           step == [p \in (SUBSET S) \X Int |-> f[Picked(p[1])] + p[2]]
<1>1. \A s \in SUBSET S : s # {} => Picked(s) \in s /\ pick[s] = Picked(s)
  BY DEF Picked
<1>2. \A s \in SUBSET S, v \in Int : s # {} => step[<<s, v>>] \in Int /\ step[<<s, v>>] = f[Picked(s)] + v
  <2> SUFFICES ASSUME NEW s \in SUBSET S, NEW v \in Int, s # {}
               PROVE  step[<<s, v>>] \in Int /\ step[<<s, v>>] = f[Picked(s)] + v
    OBVIOUS
  <2>1. f[Picked(s)] \in Int
    BY <1>1
  <2>2. step[<<s, v>>] = f[Picked(s)] + v
    OBVIOUS
  <2> QED
    BY <2>1, <2>2
<1>3. PICK g : IsFold(g, S, Int, 0, pick, step)
  <2> HIDE DEF pick, step
  <2>1. Picks(pick, S) /\ Steps(step, S, Int) /\ 0 \in Int
    BY <1>1, <1>2 DEF Picks, Steps
  <2> QED
    BY <2>1, FoldSolved
<1>g. /\ g \in [SUBSET S -> Int]
      /\ \A s \in SUBSET S : g[s] = IF s = {} THEN 0 ELSE step[<<s, g[s \ {pick[s]}]>>]
  <2> HIDE DEF pick, step
  <2> QED
    BY <1>3 DEF IsFold
<1>4. Sums(f, S, g)
  <2>1. \A s \in SUBSET S : g[s] = IF s = {} THEN 0 ELSE f[Picked(s)] + g[s \ {Picked(s)}]
    <3> SUFFICES ASSUME NEW s \in SUBSET S, s # {} PROVE g[s] = f[Picked(s)] + g[s \ {Picked(s)}]
      BY <1>g
    <3>1. s \ {Picked(s)} \in SUBSET S /\ g[s \ {Picked(s)}] \in Int /\ pick[s] = Picked(s)
      BY <1>1, <1>g
    <3>2. g[s] = step[<<s, g[s \ {pick[s]}]>>]
      BY <1>g
    <3> HIDE DEF pick, step
    <3> QED
      BY <1>2, <3>1, <3>2
  <2>2. g = [s \in SUBSET S |-> g[s]]
    BY <1>g
  <2> QED
    BY <2>1, <2>2 DEF Sums
<1>5. PICK h : h = CHOOSE k : Sums(f, S, k)
  OBVIOUS
<1>6. Sums(f, S, h)
  BY <1>4, <1>5
<1>7. g[S] = h[S]
  <2>1. S \in SUBSET S
    OBVIOUS
  <2> QED
    BY <1>4, <1>6, <2>1, SumsAgree
<1>8. SumOn(f, S) = h[S]
  BY <1>5, SumIsChosen
<1> QED
  BY <1>4, <1>7, <1>8, <1>g

(* Nothing sums to zero; a sum is an integer, and depends on nothing but   *)
(* the elements that are summed.                                           *)
LEMMA SumTypes ==
  ASSUME NEW S, IsFiniteSet(S), NEW f, \A x \in S : f[x] \in Int
  PROVE  /\ SumOn(f, S) \in Int
         /\ S = {} => SumOn(f, S) = 0
         /\ \A e : (\A x \in S : e[x] = f[x]) => SumOn(e, S) = SumOn(f, S)
<1>1. PICK g \in [SUBSET S -> Int] : Sums(f, S, g) /\ SumOn(f, S) = g[S]
  BY SumSolved
<1>2. S \in SUBSET S
  OBVIOUS
<1>3. g[S] \in Int
  BY <1>2
<1>4. S = {} => g[S] = 0
  BY <1>1, <1>2 DEF Sums
<1>5. ASSUME NEW e, \A x \in S : e[x] = f[x]
      PROVE  SumOn(e, S) = g[S]
  <2>1. \A x \in S : e[x] \in Int
    BY <1>5
  <2>2. PICK h \in [SUBSET S -> Int] : Sums(e, S, h) /\ SumOn(e, S) = h[S]
    BY <2>1, SumSolved
  <2>3. h[S] = g[S]
    BY <1>1, <1>2, <1>5, <2>2, SumsAgree
  <2> QED
    BY <2>2, <2>3
<1> QED
  BY <1>1, <1>3, <1>4, <1>5

(* Any element can be taken out of a sum.                                  *)
LEMMA SumWithout ==
  ASSUME NEW S, IsFiniteSet(S), NEW f, \A x \in S : f[x] \in Int, NEW x \in S
  PROVE  SumOn(f, S) = f[x] + SumOn(f, S \ {x})
<1>1. PICK g \in [SUBSET S -> Int] : Sums(f, S, g) /\ SumOn(f, S) = g[S]
  BY SumSolved
<1>2. \A s \in SUBSET S : IsFiniteSet(s) /\ Cardinality(s) \in Nat /\ g[s] \in Int
  BY FS_Subset, FS_CardinalityType
<1>3. ASSUME NEW s \in SUBSET S, s # {}
      PROVE  Picked(s) \in s /\ g[s] = f[Picked(s)] + g[s \ {Picked(s)}]
  <2>1. g[s] = f[Picked(s)] + g[s \ {Picked(s)}]
    BY <1>1, <1>3, Zenon DEF Sums
  <2>2. Picked(s) \in s
    BY <1>3 DEF Picked
  <2> QED
    BY <2>1, <2>2
<1> DEFINE Good == {n \in Nat : \A s \in SUBSET S : \A y \in s :
                      Cardinality(s) =< n => g[s] = f[y] + g[s \ {y}]}
<1>4. 0 \in Good
  <2> SUFFICES ASSUME NEW s \in SUBSET S, NEW y \in s, Cardinality(s) =< 0 PROVE FALSE
    OBVIOUS
  <2> QED
    BY <1>2, FS_EmptySet
<1>5. ASSUME NEW n \in Good
      PROVE  n + 1 \in Good
  <2> SUFFICES ASSUME NEW s \in SUBSET S, NEW y \in s, Cardinality(s) =< n + 1
               PROVE  g[s] = f[y] + g[s \ {y}]
    OBVIOUS
  <2>1. PICK z : z = Picked(s)
    OBVIOUS
  <2>2. z \in s /\ g[s] = f[z] + g[s \ {z}]
    BY <1>3, <2>1
  <2> SUFFICES ASSUME y # z PROVE g[s] = f[y] + g[s \ {y}]
    BY <2>2
  <2>3. IsFiniteSet(s) /\ Cardinality(s) \in Nat
    BY <1>2
  <2>4. Cardinality(s \ {z}) = Cardinality(s) - 1 /\ Cardinality(s \ {y}) = Cardinality(s) - 1
    BY <2>2, <2>3, FS_RemoveElement
  <2>5. \A t \in SUBSET S : \A v \in t : Cardinality(t) =< n => g[t] = f[v] + g[t \ {v}]
    OBVIOUS
  <2>6. g[s \ {z}] = f[y] + g[(s \ {z}) \ {y}]
    <3>1. s \ {z} \in SUBSET S /\ y \in s \ {z} /\ Cardinality(s \ {z}) =< n
      BY <2>3, <2>4
    <3> QED
      BY <2>5, <3>1
  <2>7. g[s \ {y}] = f[z] + g[(s \ {y}) \ {z}]
    <3>1. s \ {y} \in SUBSET S /\ z \in s \ {y} /\ Cardinality(s \ {y}) =< n
      BY <2>2, <2>3, <2>4
    <3> QED
      BY <2>5, <3>1
  <2>8. (s \ {z}) \ {y} = (s \ {y}) \ {z}
    OBVIOUS
  <2>9. PICK a \in Int, b \in Int, c \in Int : a = f[y] /\ b = f[z] /\ c = g[(s \ {y}) \ {z}]
    <3>1. f[y] \in Int /\ f[z] \in Int /\ g[(s \ {y}) \ {z}] \in Int
      BY <1>2, <2>2
    <3> QED
      BY <3>1
  <2>10. g[s] = b + (a + c) /\ g[s \ {y}] = b + c
    BY <2>2, <2>6, <2>7, <2>8, <2>9
  <2>11. b + (a + c) = a + (b + c)
    OBVIOUS
  <2> QED
    BY <2>9, <2>10, <2>11
<1>6. Good = Nat
  <2>1. Good \in SUBSET Nat
    OBVIOUS
  <2> HIDE DEF Good
  <2> QED
    BY <1>4, <1>5, <2>1, AllNumbers
<1>7. g[S] = f[x] + g[S \ {x}]
  <2>1. Cardinality(S) \in Good /\ S \in SUBSET S /\ Cardinality(S) =< Cardinality(S)
    BY <1>2, <1>6
  <2> QED
    BY <2>1
<1>8. SumOn(f, S \ {x}) = g[S \ {x}]
  <2>1. S \ {x} \in SUBSET S /\ S \ {x} \in SUBSET (S \ {x}) /\ IsFiniteSet(S \ {x})
        /\ \A y \in S \ {x} : f[y] \in Int
    BY <1>2
  <2>2. PICK T : T = S \ {x}
    OBVIOUS
  <2>3. PICK h \in [SUBSET T -> Int] : Sums(f, T, h) /\ SumOn(f, T) = h[T]
    BY <2>1, <2>2, SumSolved
  <2>4. g[T] = h[T]
    BY <1>1, <2>1, <2>2, <2>3, SumsAgree
  <2> QED
    BY <2>2, <2>3, <2>4
<1> QED
  BY <1>1, <1>7, <1>8

(* The sum of the first numbers, and one more.                             *)
LEMMA SumOfOneMore ==
  ASSUME NEW n \in Nat, NEW f, \A k \in 1 .. n + 1 : f[k] \in Int
  PROVE  /\ SumOn(f, 1 .. n) \in Int
         /\ SumOn(f, 1 .. n + 1) = SumOn(f, 1 .. n) + f[n + 1]
<1>1. /\ IsFiniteSet(1 .. n + 1) /\ IsFiniteSet(1 .. n)
  BY FS_Interval
<1>2. n + 1 \in 1 .. n + 1 /\ (1 .. n + 1) \ {n + 1} = 1 .. n /\ \A k \in 1 .. n : f[k] \in Int
  OBVIOUS
<1>3. SumOn(f, 1 .. n) \in Int
  BY <1>1, <1>2, SumTypes
<1>4. SumOn(f, 1 .. n + 1) = f[n + 1] + SumOn(f, 1 .. n)
  BY <1>1, <1>2, SumWithout
<1>5. PICK a \in Int, b \in Int : a = f[n + 1] /\ b = SumOn(f, 1 .. n)
  BY <1>2, <1>3
<1>6. a + b = b + a
  OBVIOUS
<1> QED
  BY <1>3, <1>4, <1>5, <1>6

(* One element grows, and the sum grows as much.                           *)
LEMMA SumGrows ==
  ASSUME NEW S, IsFiniteSet(S), NEW f \in [S -> Int], NEW x \in S, NEW q \in Int
  PROVE  SumOn([f EXCEPT ![x] = f[x] + q], S) = SumOn(f, S) + q
<1>1. PICK e : e = [f EXCEPT ![x] = f[x] + q]
  OBVIOUS
<1>2. e \in [S -> Int] /\ e[x] = f[x] + q /\ \A y \in S \ {x} : e[y] = f[y]
  BY <1>1
<1>3. PICK T : T = S \ {x}
  OBVIOUS
<1>4. IsFiniteSet(T)
  BY <1>3, FS_RemoveElement
<1>5. SumOn(e, T) = SumOn(f, T) /\ SumOn(f, T) \in Int
  BY <1>2, <1>3, <1>4, SumTypes
<1>6. SumOn(e, S) = e[x] + SumOn(e, T) /\ SumOn(f, S) = f[x] + SumOn(f, T)
  BY <1>2, <1>3, SumWithout
<1>7. f[x] \in Int
  OBVIOUS
<1> QED
  BY <1>1, <1>2, <1>5, <1>6, <1>7

-----------------------------------------------------------------------------
(* The channel: what was accepted is handed out, or still there.           *)

ChannelInv == TypeOK /\ InOrder /\ NoLostWakeup

(* Handing out the first item moves it from one end of the whole to the    *)
(* other.                                                                  *)
LEMMA HandOut ==
  ASSUME NEW r \in Seq(Items), NEW b \in Seq(Items), b # << >>
  PROVE  /\ Append(r, Head(b)) \in Seq(Items)
         /\ Tail(b) \in Seq(Items)
         /\ Append(r, Head(b)) \o Tail(b) = r \o b
<1>1. Head(b) \in Items /\ Tail(b) \in Seq(Items)
  OBVIOUS
<1>2. Append(r, Head(b)) \in Seq(Items)
  BY <1>1
<1>3. Append(r, Head(b)) \o Tail(b) = r \o b
  BY <1>1
<1> QED
  BY <1>1, <1>2, <1>3

(* Accepting an item puts it at the end of the whole.                      *)
LEMMA Accept ==
  ASSUME NEW r \in Seq(Items), NEW b \in Seq(Items), NEW x \in Items
  PROVE  /\ Append(b, x) \in Seq(Items)
         /\ r \o Append(b, x) = Append(r \o b, x)
  OBVIOUS

(* A new channel satisfies the invariant.                                  *)
LEMMA InitChannel == Init => ChannelInv
<1> SUFFICES ASSUME Init PROVE ChannelInv
  OBVIOUS
<1>1. << >> \in Seq(Items) /\ << >> \o << >> = << >>
  OBVIOUS
<1>2. TypeOK
  BY <1>1 DEF Init, TypeOK
<1>3. InOrder
  BY <1>1 DEF Init, InOrder
<1>4. NoLostWakeup
  BY DEF Init, NoLostWakeup
<1> QED
  BY <1>2, <1>3, <1>4 DEF ChannelInv

(* Every operation keeps it.                                               *)
LEMMA NextChannel == ChannelInv /\ [Next]_vars => ChannelInv'
<1> SUFFICES ASSUME ChannelInv, [Next]_vars PROVE ChannelInv'
  OBVIOUS
<1> USE DEF ChannelInv
<1>1. ASSUME NEW item \in Items, Send(item) PROVE ChannelInv'
  <2>1. TypeOK'
    BY <1>1, Accept DEF Send, WakeReceiver, TypeOK
  <2>2. InOrder'
    <3>1. receiver' # "dropped" => receiver # "dropped"
      BY <1>1 DEF Send, WakeReceiver
    <3>2. received \o Append(buffer, item) = Append(received \o buffer, item)
      BY Accept DEF TypeOK
    <3> QED
      BY <1>1, <3>1, <3>2 DEF Send, InOrder
  <2>3. NoLostWakeup'
    BY <1>1 DEF Send, WakeReceiver, TypeOK, NoLostWakeup
  <2> QED
    BY <2>1, <2>2, <2>3
<1>2. CASE SenderClose
  BY <1>2 DEF SenderClose, WakeReceiver, TypeOK, InOrder, NoLostWakeup
<1>3. CASE CloneSender
  BY <1>3 DEF CloneSender, TypeOK, InOrder, NoLostWakeup
<1>4. CASE DropSender
  <2>1. TypeOK'
    <3>1. senders' \in Nat
      BY <1>4 DEF DropSender, TypeOK
    <3>2. CASE has_receiver /\ senders = 1
      BY <1>4, <3>1, <3>2 DEF DropSender, WakeReceiver, TypeOK
    <3>3. CASE ~(has_receiver /\ senders = 1)
      BY <1>4, <3>1, <3>3 DEF DropSender, TypeOK
    <3> QED
      BY <3>2, <3>3
  <2>2. InOrder'
    <3>1. receiver' # "dropped" => receiver # "dropped"
      BY <1>4 DEF DropSender, WakeReceiver
    <3> QED
      BY <1>4, <3>1 DEF DropSender, InOrder
  <2>3. NoLostWakeup'
    BY <1>4 DEF DropSender, WakeReceiver, TypeOK, NoLostWakeup
  <2> QED
    BY <2>1, <2>2, <2>3
<1>5. CASE Poll
  <2>1. CASE buffer # << >>
    BY <1>5, <2>1, HandOut DEF Poll, TypeOK, InOrder, NoLostWakeup
  <2>2. CASE buffer = << >>
    BY <1>5, <2>2 DEF Poll, TypeOK, InOrder, NoLostWakeup
  <2> QED
    BY <2>1, <2>2
<1>6. CASE OtherWake
  BY <1>6 DEF OtherWake, TypeOK, InOrder, NoLostWakeup
<1>7. CASE TryRecv
  BY <1>7, HandOut DEF TryRecv, TypeOK, InOrder, NoLostWakeup
<1>8. CASE NewSender
  BY <1>8 DEF NewSender, TypeOK, InOrder, NoLostWakeup
<1>9. CASE ReceiverClose
  BY <1>9 DEF ReceiverClose, TypeOK, InOrder, NoLostWakeup
<1>10. CASE DropReceiver
  <2>1. << >> \in Seq(Items)
    OBVIOUS
  <2> QED
    BY <1>10, <2>1 DEF DropReceiver, TypeOK, InOrder, NoLostWakeup
<1>11. CASE UNCHANGED vars
  BY <1>11 DEF vars, TypeOK, InOrder, NoLostWakeup
<1> QED
  BY <1>1, <1>2, <1>3, <1>4, <1>5, <1>6, <1>7, <1>8, <1>9, <1>10, <1>11 DEF Next

LEMMA ChannelInvariant == Spec => []ChannelInv
  BY InitChannel, NextChannel, PTL DEF Spec

(* Every variable keeps its type.                                          *)
THEOREM ChannelTypeCorrect == Spec => []TypeOK
<1>1. ChannelInv => TypeOK
  BY DEF ChannelInv
<1> QED
  BY <1>1, ChannelInvariant, PTL

(* Items are handed out once and in the order they were accepted, and no   *)
(* wakeup is lost, but that of a receiving half closed under its task.     *)
THEOREM ChannelDelivers == Spec => []Delivered
<1>1. ChannelInv => Delivered
  BY DEF ChannelInv, Delivered
<1> QED
  BY <1>1, ChannelInvariant, PTL

-----------------------------------------------------------------------------
(* The account: whoever was counted lately is remembered.                  *)

Remembered ==
  \A x \in A!Ids : now - counted[x] =< Keep =>
    \E n \in DOMAIN orders : orders[n].id = x /\ orders[n].inserted_at = counted[x]

Entries == [id : A!Ids, inserted_at : Nat]

AccountInv == A!TypeOK /\ orders \in Seq(Entries) /\ Remembered

(* The end of a sequence.                                                  *)
LEMMA SuffixOf ==
  ASSUME NEW S, NEW s \in Seq(S), NEW k \in 1 .. Len(s)
  PROVE  /\ SubSeq(s, k, Len(s)) \in Seq(S) /\ DOMAIN SubSeq(s, k, Len(s)) = 1 .. (Len(s) - k + 1)
         /\ \A n \in 1 .. (Len(s) - k + 1) : SubSeq(s, k, Len(s))[n] = s[k + n - 1]
  OBVIOUS

LEMMA Deque ==
  ASSUME AccountInv
  PROVE  /\ A!TypeOK /\ Remembered /\ Len(orders) \in Nat /\ DOMAIN orders = 1 .. Len(orders)
         /\ \A n \in DOMAIN orders : orders[n] \in Entries /\ orders[n].inserted_at \in Nat
<1>1. \A n \in DOMAIN orders : orders[n] \in Entries
  BY DEF AccountInv
<1> QED
  BY <1>1 DEF AccountInv, Entries

(* The orders are of the two markets.                                      *)
LEMMA OrderTypes ==
  ASSUME NEW o \in Orders
  PROVE  o.id \in A!Ids /\ o.market \in A!Markets /\ o.value \in Int
  BY AccountAssumption DEF A!Ids, A!Markets

(* Cleaning leaves the end of the deque, with all that has not expired.    *)
LEMMA CleaningKeepsYoung ==
  ASSUME AccountInv
  PROVE  \E k \in Nat \ {0} :
           /\ k =< Len(orders) + 1
           /\ A!Cleaned \in Seq(Entries)
           /\ DOMAIN A!Cleaned = 1 .. (Len(orders) - k + 1)
           /\ \A n \in 1 .. (Len(orders) - k + 1) : A!Cleaned[n] = orders[k + n - 1]
           /\ \A n \in DOMAIN orders : ~A!Expired(orders[n]) => n >= k
<1> DEFINE young == {n \in DOMAIN orders : ~A!Expired(orders[n])}
<1>0. /\ orders \in Seq(Entries) /\ Len(orders) \in Nat
      /\ DOMAIN orders = 1 .. Len(orders)
  BY DEF AccountInv
<1>1. CASE young = {}
  <2>1. A!Cleaned = << >>
    BY <1>1 DEF A!Cleaned
  <2>2. \A n \in DOMAIN orders : A!Expired(orders[n])
    BY <1>1
  <2>3. PICK k : k = Len(orders) + 1
    OBVIOUS
  <2>4. k \in Nat \ {0} /\ k =< Len(orders) + 1 /\ Len(orders) - k + 1 = 0
    BY <1>0, <2>3
  <2> QED
    BY <2>1, <2>2, <2>4
<1>2. CASE young # {}
  <2>1. PICK k : k = A!Min(young)
    OBVIOUS
  <2>2. k \in young /\ \A n \in young : k =< n
    <3>1. young \in SUBSET Nat
      BY <1>0
    <3> HIDE DEF young
    <3> QED
      BY <1>2, <2>1, <3>1, LeastNumber DEF A!Min
  <2>3. k \in 1 .. Len(orders)
    BY <1>0, <2>2
  <2>4. A!Cleaned = SubSeq(orders, k, Len(orders))
    BY <1>2, <2>1 DEF A!Cleaned
  <2>5. /\ A!Cleaned \in Seq(Entries)
        /\ DOMAIN A!Cleaned = 1 .. (Len(orders) - k + 1)
        /\ \A n \in 1 .. (Len(orders) - k + 1) : A!Cleaned[n] = orders[k + n - 1]
    BY <1>0, <2>3, <2>4, SuffixOf
  <2>6. k \in Nat \ {0} /\ k =< Len(orders) + 1
    BY <1>0, <2>3
  <2> QED
    BY <2>2, <2>5, <2>6
<1> QED
  BY <1>1, <1>2

LEMMA AccountMoves == [PartsNext]_parts => [A!Next]_account
  BY DEF PartsNext, parts, account

LEMMA InitAccount == A!Init => AccountInv
  BY AccountAssumption DEF A!Init, AccountInv, A!TypeOK, Remembered, A!Never

(* A report whose id is remembered only cleans the deque.                  *)
LEMMA CleanedKeeps ==
  ASSUME AccountInv, orders' = A!Cleaned, UNCHANGED <<now, actual_balance, temporary_balance, counted>>
  PROVE  AccountInv'
<1>0. /\ A!TypeOK /\ DOMAIN orders = 1 .. Len(orders) /\ Len(orders) \in Nat /\ Remembered
      /\ \A n \in DOMAIN orders : orders[n].inserted_at \in Nat
  BY Deque
<1>1. PICK k \in Nat \ {0} :
        /\ k =< Len(orders) + 1
        /\ A!Cleaned \in Seq(Entries)
        /\ DOMAIN A!Cleaned = 1 .. (Len(orders) - k + 1)
        /\ \A n \in 1 .. (Len(orders) - k + 1) : A!Cleaned[n] = orders[k + n - 1]
        /\ \A n \in DOMAIN orders : ~A!Expired(orders[n]) => n >= k
  BY CleaningKeepsYoung
<1>2. \A n \in DOMAIN orders' : n \in Nat /\ orders'[n] = orders[k + n - 1] /\ k + n - 1 \in DOMAIN orders
  <2> SUFFICES ASSUME NEW n \in 1 .. (Len(orders) - k + 1)
               PROVE  n \in Nat /\ A!Cleaned[n] = orders[k + n - 1] /\ k + n - 1 \in DOMAIN orders
    BY <1>1
  <2>1. n \in Nat /\ k + n - 1 \in 1 .. Len(orders)
    BY <1>0
  <2> QED
    BY <1>0, <1>1, <2>1
<1>3. A!TypeOK'
  <2>1. \A n1, n2 \in DOMAIN orders' : n1 < n2 => k + n1 - 1 < k + n2 - 1
    BY <1>1, <1>2
  <2>2. \A n1, n2 \in DOMAIN orders' : n1 < n2 => orders'[n1].inserted_at =< orders'[n2].inserted_at
    BY <1>0, <1>2, <2>1 DEF A!TypeOK
  <2>3. \A n \in DOMAIN orders' : orders'[n].id \in A!Ids /\ orders'[n].inserted_at \in 0 .. now
    BY <1>0, <1>2 DEF A!TypeOK
  <2> QED
    BY <1>0, <2>2, <2>3 DEF A!TypeOK
<1>4. Remembered'
  <2> SUFFICES ASSUME NEW x \in A!Ids, now - counted[x] =< Keep
               PROVE  \E n \in DOMAIN orders' : orders'[n].id = x /\ orders'[n].inserted_at = counted[x]
    BY DEF Remembered
  <2>1. PICK n \in DOMAIN orders : orders[n].id = x /\ orders[n].inserted_at = counted[x]
    BY <1>0 DEF Remembered
  <2>2. n >= k
    <3>1. ~A!Expired(orders[n])
      BY <1>0, <2>1, AccountAssumption DEF A!Expired, A!TypeOK
    <3> QED
      BY <1>1, <3>1
  <2>3. n - k + 1 \in DOMAIN orders' /\ k + (n - k + 1) - 1 = n
    BY <1>0, <1>1, <2>2
  <2> QED
    BY <1>2, <2>1, <2>3
<1> QED
  BY <1>1, <1>3, <1>4 DEF AccountInv

(* What is counted is remembered, at the end of the deque.                 *)
LEMMA CountedKeeps ==
  ASSUME AccountInv, NEW o \in Orders,
         orders' = Append(A!Cleaned, [id |-> o.id, inserted_at |-> now]),
         actual_balance' = A!Applied(actual_balance, o), counted' = [counted EXCEPT ![o.id] = now],
         UNCHANGED <<now, temporary_balance>>
  PROVE  AccountInv'
<1>0. /\ A!TypeOK /\ DOMAIN orders = 1 .. Len(orders) /\ Len(orders) \in Nat /\ Remembered
      /\ \A n \in DOMAIN orders : orders[n].inserted_at \in Nat
  BY Deque
<1>1. PICK k \in Nat \ {0} :
        /\ k =< Len(orders) + 1
        /\ A!Cleaned \in Seq(Entries)
        /\ DOMAIN A!Cleaned = 1 .. (Len(orders) - k + 1)
        /\ \A n \in 1 .. (Len(orders) - k + 1) : A!Cleaned[n] = orders[k + n - 1]
        /\ \A n \in DOMAIN orders : ~A!Expired(orders[n]) => n >= k
  BY CleaningKeepsYoung
<1>2. PICK c : c = Len(orders) - k + 1
  OBVIOUS
<1>3. c \in Nat /\ Len(A!Cleaned) = c
  <2>1. c \in Nat
    BY <1>0, <1>1, <1>2
  <2>2. A!Cleaned \in Seq(Entries) /\ DOMAIN A!Cleaned = 1 .. c
    BY <1>1, <1>2
  <2>3. Len(A!Cleaned) \in Nat /\ DOMAIN A!Cleaned = 1 .. Len(A!Cleaned)
    BY <2>2
  <2> QED
    BY <2>1, <2>2, <2>3
<1>4. PICK entry \in Entries : entry = [id |-> o.id, inserted_at |-> now]
  BY <1>0, OrderTypes DEF A!TypeOK, Entries
<1>e. o.id \in A!Ids /\ now \in Nat /\ entry.id = o.id /\ entry.inserted_at = now
  BY <1>0, <1>4, OrderTypes DEF A!TypeOK
<1>5. /\ orders' \in Seq(Entries) /\ DOMAIN orders' = 1 .. (c + 1)
      /\ orders'[c + 1] = entry
      /\ \A n \in 1 .. c : orders'[n] = A!Cleaned[n]
  BY <1>1, <1>3, <1>4
<1>6. \A n \in 1 .. c : orders'[n] = orders[k + n - 1] /\ k + n - 1 \in DOMAIN orders
  BY <1>0, <1>1, <1>2, <1>5
<1>7. A!TypeOK'
  <2>1. actual_balance' \in [A!Markets -> Int] /\ counted' \in [A!Ids -> {A!Never} \cup 0 .. now]
    BY <1>0, <1>e, OrderTypes DEF A!TypeOK, A!Applied, A!Value
  <2>2. \A n \in DOMAIN orders' : orders'[n].id \in A!Ids /\ orders'[n].inserted_at \in 0 .. now
    <3>1. \A n \in DOMAIN orders' : n \in 1 .. c \/ n = c + 1
      BY <1>3, <1>5
    <3>2. \A n \in 1 .. c : orders'[n].id \in A!Ids /\ orders'[n].inserted_at \in 0 .. now
      BY <1>0, <1>6 DEF A!TypeOK
    <3>3. orders'[c + 1].id \in A!Ids /\ orders'[c + 1].inserted_at \in 0 .. now
      <4>1. orders'[c + 1].id = o.id /\ orders'[c + 1].inserted_at = now
        BY <1>e, <1>5
      <4>2. now \in 0 .. now
        BY <1>e
      <4> QED
        BY <1>e, <4>1, <4>2
    <3> QED
      BY <3>1, <3>2, <3>3
  <2>3. \A n1, n2 \in DOMAIN orders' : n1 < n2 => orders'[n1].inserted_at =< orders'[n2].inserted_at
    <3>1. SUFFICES ASSUME NEW n1 \in 1 .. (c + 1), NEW n2 \in 1 .. (c + 1), n1 < n2
                   PROVE  orders'[n1].inserted_at =< orders'[n2].inserted_at
      BY <1>5
    <3>2. n1 \in 1 .. c
      BY <1>3, <3>1
    <3>3. CASE n2 = c + 1
      <4>1. orders'[n2].inserted_at = now /\ orders'[n1].inserted_at \in 0 .. now
        BY <1>e, <1>5, <2>2, <3>1, <3>3
      <4>2. \A t \in 0 .. now : t =< now
        BY <1>e
      <4> QED
        BY <4>1, <4>2
    <3>4. CASE n2 \in 1 .. c
      <4>1. k + n1 - 1 < k + n2 - 1
        BY <1>1, <3>1
      <4> QED
        BY <1>0, <1>6, <3>2, <3>4, <4>1 DEF A!TypeOK
    <3> QED
      BY <1>3, <3>3, <3>4
  <2> QED
    BY <1>0, <2>1, <2>2, <2>3 DEF A!TypeOK
<1>8. Remembered'
  <2> SUFFICES ASSUME NEW x \in A!Ids, now - counted'[x] =< Keep
               PROVE  \E n \in DOMAIN orders' : orders'[n].id = x /\ orders'[n].inserted_at = counted'[x]
    BY DEF Remembered
  <2>1. CASE x = o.id
    <3>1. counted'[x] = now
      BY <1>0, <2>1 DEF A!TypeOK
    <3>2. c + 1 \in DOMAIN orders'
      BY <1>3, <1>5
    <3> QED
      BY <1>e, <1>5, <2>1, <3>1, <3>2
  <2>2. CASE x # o.id
    <3>1. counted'[x] = counted[x]
      BY <1>0, <2>2 DEF A!TypeOK
    <3>2. PICK n \in DOMAIN orders : orders[n].id = x /\ orders[n].inserted_at = counted[x]
      BY <1>0, <3>1 DEF Remembered
    <3>3. n >= k
      <4>1. ~A!Expired(orders[n])
        BY <1>0, <3>1, <3>2, AccountAssumption DEF A!Expired, A!TypeOK
      <4> QED
        BY <1>1, <4>1
    <3>4. n - k + 1 \in 1 .. c /\ k + (n - k + 1) - 1 = n
      <4>1. n \in 1 .. Len(orders) /\ Len(orders) \in Nat /\ k \in Nat \ {0} /\ k =< n
        BY <1>0, <3>3
      <4> QED
        BY <1>2, <4>1
    <3>5. n - k + 1 \in DOMAIN orders'
      BY <1>3, <1>5, <3>4
    <3> QED
      BY <1>6, <3>1, <3>2, <3>4, <3>5
  <2> QED
    BY <2>1, <2>2
<1> QED
  BY <1>5, <1>7, <1>8 DEF AccountInv

LEMMA NextAccount == AccountInv /\ [PartsNext]_parts => AccountInv'
<1> SUFFICES ASSUME AccountInv, [A!Next]_account PROVE AccountInv'
  BY AccountMoves
<1>1. ASSUME NEW o \in Orders, A!InsertOrder(o)
      PROVE  AccountInv'
  BY <1>1, CleanedKeeps, CountedKeeps DEF A!InsertOrder
<1>2. ASSUME NEW o \in Orders, A!SimulateOrder(o)
      PROVE  AccountInv'
  BY <1>2, OrderTypes DEF A!SimulateOrder, A!Applied, A!Value, AccountInv, A!TypeOK, Remembered
<1>3. CASE A!ResetTemporaryBalance
  BY <1>3 DEF A!ResetTemporaryBalance, AccountInv, A!TypeOK, Remembered
<1>4. CASE A!Tick
  <2>0. /\ now \in Nat /\ now' = now + 1 /\ now' \in 0 .. MaxTime
        /\ UNCHANGED <<actual_balance, temporary_balance, orders, counted, moves>>
    BY <1>4, AccountAssumption DEF A!Tick, AccountInv, A!TypeOK
  <2>1. A!TypeOK'
    <3>1. /\ \A n \in DOMAIN orders : orders[n].inserted_at \in 0 .. now'
          /\ {A!Never} \cup 0 .. now \subseteq {A!Never} \cup 0 .. now'
      BY <2>0 DEF AccountInv, A!TypeOK
    <3> QED
      BY <2>0, <3>1 DEF AccountInv, A!TypeOK
  <2>2. Remembered'
    <3>1. \A x \in A!Ids : counted[x] \in Int
      BY <2>0, AccountAssumption DEF AccountInv, A!TypeOK, A!Never
    <3>2. \A x \in A!Ids : now' - counted[x] =< Keep => now - counted[x] =< Keep
      BY <2>0, <3>1, AccountAssumption
    <3> QED
      BY <2>0, <3>2 DEF AccountInv, Remembered
  <2> QED
    BY <2>0, <2>1, <2>2 DEF AccountInv
<1>5. CASE UNCHANGED account
  BY <1>5 DEF account, AccountInv, A!TypeOK, Remembered
<1> QED
  BY <1>1, <1>2, <1>3, <1>4, <1>5 DEF A!Next

LEMMA AccountInvariant == PartsSpec => []AccountInv
<1>1. PartsInit => AccountInv
  BY InitAccount DEF PartsInit
<1> QED
  BY <1>1, NextAccount, PTL DEF PartsSpec

(* A report that is repeated within Keep seconds does not move the balance *)
(* again, however many reports of other orders come in between.            *)
THEOREM RepeatedReportsAreCountedOnce == PartsSpec => CountedOnceInAWhile
<1>1. AccountInv /\ [PartsNext]_parts =>
        [actual_balance' # actual_balance =>
           \E o \in Orders : /\ actual_balance' = A!Applied(actual_balance, o)
                             /\ now - counted[o.id] > Keep
                             /\ counted'[o.id] = now]_(A!vars)
  <2> SUFFICES ASSUME AccountInv, [A!Next]_account, actual_balance' # actual_balance
               PROVE  \E o \in Orders : /\ actual_balance' = A!Applied(actual_balance, o)
                                        /\ now - counted[o.id] > Keep
                                        /\ counted'[o.id] = now
    BY AccountMoves
  <2>1. PICK o \in Orders : A!InsertOrder(o)
    BY DEF A!Next, A!SimulateOrder, A!ResetTemporaryBalance, A!Tick, account
  <2>2. /\ ~\E n \in DOMAIN A!Cleaned : A!Cleaned[n].id = o.id
        /\ actual_balance' = A!Applied(actual_balance, o)
        /\ counted' = [counted EXCEPT ![o.id] = now]
    BY <2>1 DEF A!InsertOrder
  <2>3. o.id \in A!Ids /\ counted'[o.id] = now /\ counted[o.id] \in Int /\ now \in Nat
    BY <2>2, OrderTypes, AccountAssumption DEF AccountInv, A!TypeOK, A!Never
  <2>4. ASSUME now - counted[o.id] =< Keep PROVE FALSE
    <3>0. DOMAIN orders = 1 .. Len(orders) /\ Len(orders) \in Nat
      BY Deque
    <3>1. PICK n \in DOMAIN orders : orders[n].id = o.id /\ orders[n].inserted_at = counted[o.id]
      BY <2>3, <2>4 DEF AccountInv, Remembered
    <3>2. PICK k \in Nat \ {0} :
            /\ k =< Len(orders) + 1
            /\ DOMAIN A!Cleaned = 1 .. (Len(orders) - k + 1)
            /\ \A n1 \in 1 .. (Len(orders) - k + 1) : A!Cleaned[n1] = orders[k + n1 - 1]
            /\ \A n1 \in DOMAIN orders : ~A!Expired(orders[n1]) => n1 >= k
      BY CleaningKeepsYoung
    <3>3. n >= k
      BY <2>3, <2>4, <3>1, <3>2, AccountAssumption DEF A!Expired
    <3>4. n - k + 1 \in 1 .. (Len(orders) - k + 1) /\ k + (n - k + 1) - 1 = n
      BY <3>0, <3>2, <3>3
    <3> QED
      BY <2>2, <3>1, <3>2, <3>4
  <2> QED
    BY <2>2, <2>3, <2>4, AccountAssumption
<1> QED
  BY <1>1, AccountInvariant, PTL DEF PartsSpec, CountedOnceInAWhile, A!CountedOnceInAWhile

-----------------------------------------------------------------------------
(* The monitor: a session that is not there has passed nothing on.         *)

AbsentPassedNothing ==
  \A x \in Sessions : session[x] = "absent" => tasks[x] = << >> /\ out[x] = << >>

MonitorInv == M!TypeOK /\ M!SnapshotIsLastRead /\ M!Uninterrupted /\ AbsentPassedNothing

(* The first of one sequence becomes the last of the one before it, and    *)
(* the whole stays as it is.                                               *)
LEMMA HeadMoves ==
  ASSUME NEW S, NEW r \in Seq(S), NEW s \in Seq(S), s # << >>
  PROVE  /\ Append(r, Head(s)) \in Seq(S) /\ Tail(s) \in Seq(S)
         /\ Append(r, Head(s)) \o Tail(s) = r \o s
<1>1. Head(s) \in S /\ Tail(s) \in Seq(S)
  OBVIOUS
<1>2. Append(r, Head(s)) \in Seq(S)
  BY <1>1
<1>3. Append(r, Head(s)) \o Tail(s) = r \o s
  BY <1>1
<1> QED
  BY <1>1, <1>2, <1>3

(* Appending to the second of two sequences is appending to both.          *)
LEMMA AppendMoves ==
  ASSUME NEW S, NEW r \in Seq(S), NEW s \in Seq(S), NEW e \in S
  PROVE  /\ r \o s \in Seq(S)
         /\ r \o Append(s, e) = Append(r \o s, e)
<1>1. r \o s \in Seq(S) /\ Append(s, e) \in Seq(S)
  OBVIOUS
<1>2. r \o Append(s, e) = Append(r \o s, e)
  OBVIOUS
<1> QED
  BY <1>1, <1>2

(* The messages from the one after a to b.                                 *)
IsRun(r, a, b) == Len(r) = b - a /\ \A n \in DOMAIN r : r[n] = a + n

LEMMA RunGrows ==
  ASSUME NEW S, NEW r \in Seq(S), NEW a \in Nat, NEW b \in Nat, b + 1 \in S, IsRun(r, a, b)
  PROVE  IsRun(Append(r, b + 1), a, b + 1)
<1>1. Len(r) = b - a /\ DOMAIN r = 1 .. Len(r) /\ Len(r) \in Nat /\ \A n \in DOMAIN r : r[n] = a + n
  BY DEF IsRun
<1>2. PICK q : q = Append(r, b + 1)
  OBVIOUS
<1>3. /\ Len(q) = Len(r) + 1 /\ DOMAIN q = 1 .. Len(r) + 1
      /\ q[Len(r) + 1] = b + 1 /\ \A n \in 1 .. Len(r) : q[n] = r[n]
  BY <1>2
<1>4. Len(q) = b + 1 - a
  BY <1>1, <1>3
<1>5. ASSUME NEW n \in DOMAIN q PROVE q[n] = a + n
  <2>1. n \in 1 .. Len(r) \/ n = Len(r) + 1
    BY <1>1, <1>3
  <2>2. CASE n \in 1 .. Len(r)
    BY <1>1, <1>3, <2>2
  <2>3. CASE n = Len(r) + 1
    BY <1>1, <1>3, <2>3
  <2> QED
    BY <2>1, <2>2, <2>3
<1> QED
  BY <1>2, <1>4, <1>5 DEF IsRun

LEMMA RunsOfSessions ==
  M!Uninterrupted <=> \A x \in Sessions : IsRun(out[x] \o tasks[x], joined[x], pos[x])
  BY DEF M!Uninterrupted, IsRun

LEMMA MonitorMoves == [PartsNext]_parts => [M!Next]_monitor
  BY DEF PartsNext, parts, monitor

LEMMA InitMonitor == M!Init => MonitorInv
<1> SUFFICES ASSUME M!Init PROVE MonitorInv
  OBVIOUS
<1>1. M!TypeOK
  BY MonitorAssumption DEF M!Init, M!TypeOK, M!Default, M!Snapshot
<1>2. M!SnapshotIsLastRead
  BY DEF M!Init, M!SnapshotIsLastRead, M!Default, M!Sides
<1>3. M!Uninterrupted
  BY DEF M!Init, M!Uninterrupted
<1> QED
  BY <1>1, <1>2, <1>3 DEF M!Init, MonitorInv, AbsentPassedNothing

(* What was sent and passed on stays what it is when more is sent.         *)
LEMMA MoreSent ==
  ASSUME MonitorInv, sent' \in Nat, sent =< sent', sent' =< MaxNotifications,
         UNCHANGED <<session, joined, pos, tasks, out, closing>>,
         read' \in [M!Sides -> Tops \cup {M!NoTop}],
         snapshot'.spot \in Tops \cup {M!NoTop}, snapshot'.future \in Tops \cup {M!NoTop},
         M!SnapshotIsLastRead', alive' \in BOOLEAN
  PROVE  MonitorInv'
<1>1. sent \in Nat /\ MaxNotifications \in Nat
  BY MonitorAssumption DEF MonitorInv, M!TypeOK
<1>2. tasks' \in [Sessions -> Seq(1 .. sent')] /\ out' \in [Sessions -> Seq(1 .. sent')]
  <2>1. \A s \in Seq(1 .. sent) : s \in Seq(1 .. sent')
    BY <1>1, MoreNumbers
  <2> QED
    BY <2>1 DEF MonitorInv, M!TypeOK
<1>3. joined' \in [Sessions -> 0 .. sent'] /\ pos' \in [Sessions -> 0 .. sent']
  BY <1>1 DEF MonitorInv, M!TypeOK
<1>4. M!TypeOK'
  BY <1>1, <1>2, <1>3 DEF MonitorInv, M!TypeOK
<1> QED
  BY <1>4 DEF MonitorInv, M!Uninterrupted, AbsentPassedNothing

(* A book that was read, or could not be, changes snapshot and read alike. *)
LEMMA BookRead ==
  ASSUME MonitorInv, NEW side \in M!Sides,
         M!WatchFails(side) \/ M!NoPrice(side) \/ \E q \in Tops : M!Detect(side, q)
  PROVE  MonitorInv'
<1>0. sent \in Nat /\ MaxNotifications \in Nat /\ M!TypeOK /\ M!SnapshotIsLastRead
  BY MonitorAssumption DEF MonitorInv, M!TypeOK
<1>1. CASE M!WatchFails(side)
  BY <1>0, <1>1, MoreSent DEF M!WatchFails, M!listeners, M!Default, M!Snapshot, M!SnapshotIsLastRead, M!Sides, M!TypeOK
<1>2. CASE M!NoPrice(side)
  <2>1. /\ UNCHANGED <<snapshot, read, sent, session, joined, pos, tasks, out, closing>>
        /\ alive' = FALSE
    BY <1>2 DEF M!NoPrice, M!listeners
  <2>2. M!SnapshotIsLastRead'
    BY <1>0, <2>1 DEF M!SnapshotIsLastRead
  <2>3. /\ sent =< MaxNotifications /\ read \in [M!Sides -> Tops \cup {M!NoTop}]
        /\ snapshot.spot \in Tops \cup {M!NoTop} /\ snapshot.future \in Tops \cup {M!NoTop}
    BY <1>0 DEF M!TypeOK
  <2>4. sent' \in Nat /\ sent =< sent' /\ sent' =< MaxNotifications
    BY <1>0, <2>1, <2>3
  <2>5. /\ read' \in [M!Sides -> Tops \cup {M!NoTop}]
        /\ snapshot'.spot \in Tops \cup {M!NoTop} /\ snapshot'.future \in Tops \cup {M!NoTop}
        /\ alive' \in BOOLEAN
    BY <2>1, <2>3
  <2> QED
    BY <2>1, <2>2, <2>4, <2>5, MoreSent
<1>3. ASSUME NEW q \in Tops, M!Detect(side, q)
      PROVE  MonitorInv'
  <2>1. sent' \in Nat /\ sent =< sent' /\ sent' =< MaxNotifications
    BY <1>0, <1>3 DEF M!Detect, M!Notify, M!TypeOK
  <2>2. /\ snapshot' = M!Fresh(side, q) /\ read' = [read EXCEPT ![side] = q]
        /\ UNCHANGED <<alive, session, joined, pos, tasks, out, closing>>
    BY <1>3 DEF M!Detect, M!listeners
  <2>3. read' \in [M!Sides -> Tops \cup {M!NoTop}]
    BY <1>0, <2>2 DEF M!TypeOK
  <2>4. M!SnapshotIsLastRead' /\ snapshot'.spot \in Tops \cup {M!NoTop} /\ snapshot'.future \in Tops \cup {M!NoTop}
    <3>1. CASE side = "spot"
      BY <1>0, <2>2, <3>1 DEF M!Fresh, M!Snapshot, M!SnapshotIsLastRead, M!TypeOK, M!Sides
    <3>2. CASE side = "future"
      BY <1>0, <2>2, <3>2 DEF M!Fresh, M!Snapshot, M!SnapshotIsLastRead, M!TypeOK, M!Sides
    <3> QED
      BY <3>1, <3>2 DEF M!Sides
  <2> QED
    BY <1>0, <2>1, <2>2, <2>3, <2>4, MoreSent DEF M!TypeOK
<1> QED
  BY <1>1, <1>2, <1>3

(* Passing on the message after the last one keeps the run unbroken.       *)
LEMMA SessionMoves ==
  ASSUME MonitorInv, NEW x \in Sessions,
         M!Connect(x) \/ M!Recv(x) \/ M!Sent(x) \/ M!Closed(x) \/ M!Close(x)
  PROVE  MonitorInv'
<1> USE DEF MonitorInv
<1>0. /\ sent \in Nat /\ UNCHANGED <<sent, snapshot, read, alive>> /\ M!SnapshotIsLastRead'
      /\ pos[x] \in Nat /\ pos[x] =< sent /\ joined[x] \in Nat
      /\ tasks[x] \in Seq(1 .. sent) /\ out[x] \in Seq(1 .. sent)
  BY MonitorAssumption
  DEF M!TypeOK, M!SnapshotIsLastRead, M!Connect, M!Recv, M!Sent, M!Closed, M!Close
<1>1. CASE M!Connect(x)
  <2>1. M!TypeOK'
    BY <1>0, <1>1 DEF M!TypeOK, M!Connect
  <2>2. M!Uninterrupted' /\ AbsentPassedNothing'
    <3>1. /\ session[x] = "absent" /\ tasks[x] = << >> /\ out[x] = << >>
          /\ joined'[x] = sent /\ pos'[x] = sent
          /\ \A y \in Sessions \ {x} : joined'[y] = joined[y] /\ pos'[y] = pos[y]
          /\ \A y \in Sessions : session'[y] = "absent" => session[y] = "absent"
          /\ UNCHANGED <<tasks, out>>
      BY <1>1 DEF M!TypeOK, M!Connect, AbsentPassedNothing
    <3>2. AbsentPassedNothing'
      BY <3>1 DEF AbsentPassedNothing
    <3>3. Len(<< >> \o << >>) = sent - sent /\ DOMAIN (<< >> \o << >>) = {}
      BY <1>0
    <3>4. M!Uninterrupted'
      BY <3>1, <3>3 DEF M!Uninterrupted
    <3> QED
      BY <3>2, <3>4
  <2> QED
    BY <1>0, <2>1, <2>2
<1>2. CASE M!Recv(x)
  <2>1. CASE M!Lagged(x)
    <3>1. /\ session[x] = "open" /\ session' = [session EXCEPT ![x] = "lagged"]
          /\ UNCHANGED <<pos, tasks, joined, out, closing>>
      BY <1>2, <2>1 DEF M!Recv
    <3>2. M!TypeOK'
      BY <1>0, <3>1 DEF M!TypeOK
    <3>3. M!Uninterrupted' /\ AbsentPassedNothing'
      BY <3>1 DEF M!TypeOK, M!Uninterrupted, AbsentPassedNothing
    <3> QED
      BY <1>0, <3>2, <3>3
  <2>2. CASE ~M!Lagged(x)
    <3>1. /\ session[x] = "open" /\ pos[x] < sent /\ pos[x] + 1 \in 1 .. sent
          /\ pos' = [pos EXCEPT ![x] = pos[x] + 1]
          /\ tasks' = [tasks EXCEPT ![x] = Append(tasks[x], pos[x] + 1)]
          /\ UNCHANGED <<session, joined, out, closing>>
      BY <1>0, <1>2, <2>2 DEF M!Recv, M!Readable
    <3>2. Append(tasks[x], pos[x] + 1) \in Seq(1 .. sent)
      BY <1>0, <3>1
    <3>3. M!TypeOK'
      BY <1>0, <3>1, <3>2 DEF M!TypeOK
    <3>4. /\ out[x] \o Append(tasks[x], pos[x] + 1) = Append(out[x] \o tasks[x], pos[x] + 1)
          /\ out[x] \o tasks[x] \in Seq(1 .. sent)
      <4> HIDE DEF MonitorInv
      <4>1. PICK e \in 1 .. sent : e = pos[x] + 1
        BY <3>1
      <4>2. PICK r \in Seq(1 .. sent), s \in Seq(1 .. sent) : r = out[x] /\ s = tasks[x]
        BY <1>0
      <4>3. r \o Append(s, e) = Append(r \o s, e) /\ r \o s \in Seq(1 .. sent)
        BY AppendMoves
      <4> QED
        BY <4>1, <4>2, <4>3
    <3>5. IsRun(out[x] \o tasks[x], joined[x], pos[x])
      BY RunsOfSessions
    <3>6. IsRun(Append(out[x] \o tasks[x], pos[x] + 1), joined[x], pos[x] + 1)
      BY <1>0, <3>1, <3>4, <3>5, RunGrows
    <3>8. M!Uninterrupted'
      <4>1. ASSUME NEW y \in Sessions \ {x}
            PROVE  UNCHANGED <<out[y], tasks[y], pos[y], joined[y]>>
        BY <1>0, <3>1 DEF M!TypeOK
      <4>2. /\ pos'[x] = pos[x] + 1 /\ joined'[x] = joined[x]
            /\ out'[x] \o tasks'[x] = Append(out[x] \o tasks[x], pos[x] + 1)
        BY <1>0, <3>1, <3>4 DEF M!TypeOK
      <4>3. ASSUME NEW y \in Sessions
            PROVE  IsRun(out'[y] \o tasks'[y], joined'[y], pos'[y])
        <5>1. CASE y = x
          BY <3>6, <4>2, <5>1
        <5>2. CASE y # x
          BY <4>1, <5>2, RunsOfSessions
        <5> QED
          BY <5>1, <5>2
      <4> QED
        BY <4>3 DEF M!Uninterrupted, IsRun
    <3> QED
      BY <1>0, <3>1, <3>3, <3>8 DEF AbsentPassedNothing
  <2> QED
    BY <2>1, <2>2
<1>3. CASE M!Sent(x)
  <2>1. CASE UNCHANGED <<out, tasks>>
    BY <1>0, <1>3, <2>1 DEF M!TypeOK, M!Sent, M!Uninterrupted, AbsentPassedNothing
  <2>2. CASE out' = [out EXCEPT ![x] = Append(@, Head(tasks[x]))] /\ tasks' = [tasks EXCEPT ![x] = Tail(@)] /\ UNCHANGED session
    <3>0. tasks[x] # << >>
      BY <1>3 DEF M!Sent
    <3>1. /\ Append(out[x], Head(tasks[x])) \in Seq(1 .. sent) /\ Tail(tasks[x]) \in Seq(1 .. sent)
          /\ Append(out[x], Head(tasks[x])) \o Tail(tasks[x]) = out[x] \o tasks[x]
      <4> HIDE DEF MonitorInv
      <4>1. PICK S, r, s : S = 1 .. sent /\ r = out[x] /\ s = tasks[x]
        OBVIOUS
      <4>2. r \in Seq(S) /\ s \in Seq(S) /\ s # << >>
        BY <1>0, <3>0, <4>1
      <4>3. /\ Append(r, Head(s)) \in Seq(S) /\ Tail(s) \in Seq(S)
            /\ Append(r, Head(s)) \o Tail(s) = r \o s
        BY <4>2, HeadMoves
      <4> QED
        BY <4>1, <4>3
    <3>2. M!TypeOK'
      BY <1>0, <1>3, <2>2, <3>1 DEF M!TypeOK, M!Sent
    <3>3. \A y \in Sessions : out'[y] \o tasks'[y] = out[y] \o tasks[y]
      BY <1>0, <2>2, <3>1 DEF M!TypeOK
    <3>4. M!Uninterrupted'
      BY <1>3, <3>3 DEF M!Sent, M!Uninterrupted
    <3> QED
      BY <1>0, <1>3, <2>2, <3>2, <3>4 DEF M!Sent, M!TypeOK, AbsentPassedNothing
  <2> QED
    BY <1>3, <2>1, <2>2 DEF M!Sent
<1>4. CASE M!Closed(x) \/ M!Close(x)
  <2>1. /\ session' \in [Sessions -> {"absent", "open", "lagged", "failed", "closed"}]
        /\ closing' \in [Sessions -> BOOLEAN]
        /\ \A y \in Sessions : session'[y] = "absent" => session[y] = "absent"
        /\ UNCHANGED <<pos, tasks, joined, out>>
    BY <1>4 DEF M!TypeOK, M!Closed, M!Close
  <2>2. M!TypeOK'
    BY <1>0, <2>1 DEF M!TypeOK
  <2>3. M!Uninterrupted' /\ AbsentPassedNothing'
    BY <2>1 DEF M!Uninterrupted, AbsentPassedNothing
  <2> QED
    BY <1>0, <2>2, <2>3
<1> QED
  BY <1>1, <1>2, <1>3, <1>4

LEMMA NextMonitor == MonitorInv /\ [PartsNext]_parts => MonitorInv'
<1> SUFFICES ASSUME MonitorInv, [M!Next]_monitor PROVE MonitorInv'
  BY MonitorMoves
<1>1. CASE M!OtherNotifies
  BY <1>1, MoreSent, MonitorAssumption DEF M!OtherNotifies, M!listeners, MonitorInv, M!TypeOK, M!SnapshotIsLastRead
<1>2. CASE UNCHANGED monitor
  BY <1>2 DEF monitor, MonitorInv, M!TypeOK, M!SnapshotIsLastRead, M!Uninterrupted, AbsentPassedNothing
<1> QED
  BY <1>1, <1>2, BookRead, SessionMoves DEF M!Next

LEMMA MonitorInvariant == PartsSpec => []MonitorInv
<1>1. PartsInit => MonitorInv
  BY InitMonitor DEF PartsInit
<1> QED
  BY <1>1, NextMonitor, PTL DEF PartsSpec

(* The snapshot is what the two tasks last read, percentages included.     *)
THEOREM SnapshotsAreLastRead == PartsSpec => []SnapshotIsLastRead
<1>1. MonitorInv => SnapshotIsLastRead
  BY DEF MonitorInv, SnapshotIsLastRead
<1> QED
  BY <1>1, MonitorInvariant, PTL

(* A session passes on every message from the one after it connected, in   *)
(* order, for as long as it lasts, whatever the capacity of the channel.   *)
THEOREM SessionsAreUninterrupted == PartsSpec => []Uninterrupted
<1>1. MonitorInv => Uninterrupted
  BY DEF MonitorInv, Uninterrupted
<1> QED
  BY <1>1, MonitorInvariant, PTL
=============================================================================
