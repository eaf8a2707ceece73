--------------------------- MODULE ArbitragePlan ---------------------------
(***************************************************************************)
(* How much of an arbitrage two books allow (arbitrage/entry.rs, exit.rs   *)
(* and common.rs).  Entering buys spot asks for a budget and sells future  *)
(* bids; leaving sells a quantity to spot bids and buys future asks.  Both *)
(* walk the two sides in step, from the best level on, for as long as the  *)
(* prices differ by a given percentage.                                    *)
(*                                                                         *)
(* Numbers are integers, of a unit as small as one likes: what a budget    *)
(* buys is rounded down to one, where the code keeps 28 digits, and counts *)
(* what is below 10^-12 as nothing.                                        *)
(***************************************************************************)
EXTENDS Integers, FiniteSetsExt, SequencesExt

CONSTANTS
  Requests,  \* records [kind, spot, future, amount, margin, percent, contract_size],
             \* whose spot and future are sequences of <<price, quantity>>
  MaxSteps   \* bound on the rounds of a loop

VARIABLES
  request,
  i, j,         \* the levels reached
  spot, future, \* what is left of each level
  available,    \* budget, or quantity, that is left
  bought,       \* the quantity planned at each spot level,
  sold,         \* and at each future level
  steps,
  result        \* << >>, or what is returned

vars == <<request, i, j, spot, future, available, bought, sold, steps, result>>

Total(taken, levels) ==
  FoldFunctionOnSet(+, 0, [k \in DOMAIN levels |-> taken[k] * levels[k][1]], DOMAIN levels)

Sum(taken) == FoldFunction(+, 0, taken)

Entering == request.kind = "entry"

-----------------------------------------------------------------------------
(* find_max_price                                                          *)

\* dec is percent above inc, or more.
Reaches(inc, dec, percent) == dec * 100 >= inc * (100 + percent)

\* Pair p is closer to the percentage than pair q.
Closer(p, q) == p[2] * q[1] < q[2] * p[1]

\* Mutant: the last pair that reaches the percentage, closest or not.
BetterLast(p, best) == TRUE

Better(p, best) == best = << >> \/ Closer(p, best)

\* Down the decreasing prices, from where the search was, to the lowest one
\* that still reaches the percentage.
Down(decreasing, percent, level, acc) ==
  LET inc  == level[1]
      able == {k \in 1 .. acc.j : Reaches(inc, decreasing[k][1], percent)}
      down == IF able = {} THEN 0 ELSE Max(able) IN
  IF down = 0 THEN [acc EXCEPT !.j = 0]
  ELSE LET pair == <<inc, decreasing[down][1]>> IN
       [j |-> down, best |-> IF Better(pair, acc.best) THEN pair ELSE acc.best]

\* Each increasing price with the lowest decreasing one that reaches the
\* percentage; of these pairs, the closest.
MaxPrice(increasing, decreasing, percent) ==
  FoldLeft(LAMBDA acc, level : Down(decreasing, percent, level, acc),
           [j |-> Len(decreasing), best |-> << >>], increasing).best

-----------------------------------------------------------------------------
(* do_entry_arbitrage and do_exit_arbitrage                                *)

\* What of a level can be traded; a future level counts in contracts.
SpotVolume   == spot[i]
FutureVolume == future[j] * request.contract_size

\* The prices of the levels reached differ enough.  Entering also wants them
\* to differ.
Worthwhile ==
  LET s == request.spot[i][1]
      f == request.future[j][1] IN
  IF Entering THEN f # s /\ Reaches(s, f, request.percent)
              ELSE Reaches(f, s, request.percent)

Quantity ==
  Min({SpotVolume, FutureVolume, IF Entering THEN available \div request.spot[i][1] ELSE available})

\* The loop goes on: with levels and budget left, prices apart and, when
\* entering, something to trade.
Continues ==
  /\ i =< Len(spot) /\ j =< Len(future) /\ available > 0
  /\ Worthwhile
  /\ Entering => Quantity # 0

\* A level that is used up is left.
Advance ==
  /\ i' = IF spot'[i] = 0 THEN i + 1 ELSE i
  /\ j' = IF future'[j] = 0 THEN j + 1 ELSE j

\* The quantity leaves the budget and both levels; from the future level,
\* which counts contracts, it is taken as it is.  Leaving takes nothing from
\* the levels when it is not positive.
Round ==
  /\ result = << >> /\ Continues /\ steps < MaxSteps
  /\ LET q    == Quantity
         used == IF Entering \/ q > 0 THEN q ELSE 0 IN
     /\ available' = available - q * (IF Entering THEN request.spot[i][1] ELSE 1)
     /\ bought' = [bought EXCEPT ![i] = @ + q]
     /\ sold' = [sold EXCEPT ![j] = @ + q]
     /\ spot' = [spot EXCEPT ![i] = @ - used]
     /\ future' = [future EXCEPT ![j] = @ - used]
  /\ Advance
  /\ steps' = steps + 1
  /\ UNCHANGED <<request, result>>

\* target is within percent of base.
Within(base, target, percent) ==
  100 * target >= base * (100 - percent) /\ 100 * target =< base * (100 + percent)

\* Entering is complete when both legs are worth the amount, within a
\* margin, and something was traded; leaving, when nothing is left.
Finish ==
  /\ result = << >> /\ ~Continues
  /\ result' =
       IF Entering
       THEN IF Sum(bought) = 0
            THEN [executed |-> 0, completed |-> FALSE, max_price |-> << >>]
            ELSE [executed |-> Sum(bought),
                  completed |-> /\ Within(request.amount, Total(bought, request.spot), request.margin)
                                /\ Within(request.amount, Total(sold, request.future), request.margin),
                  max_price |-> MaxPrice(request.spot, request.future, request.percent)]
       ELSE [executed |-> request.amount - available,
             completed |-> available = 0,
             max_price |-> MaxPrice(request.future, request.spot, request.percent)]
  /\ UNCHANGED <<request, i, j, spot, future, available, bought, sold, steps>>

-----------------------------------------------------------------------------
Volumes(levels) == [k \in DOMAIN levels |-> levels[k][2]]

Init ==
  /\ request \in Requests
  /\ i = 1 /\ j = 1
  /\ spot = Volumes(request.spot) /\ future = Volumes(request.future)
  /\ available = request.amount
  /\ bought = [k \in DOMAIN request.spot |-> 0]
  /\ sold = [k \in DOMAIN request.future |-> 0]
  /\ steps = 0
  /\ result = << >>

Next == Round \/ Finish

-----------------------------------------------------------------------------
(* Type invariant.                                                         *)
TypeOK ==
  /\ request \in Requests
  /\ i \in 1 .. Len(spot) + 1 /\ j \in 1 .. Len(future) + 1
  /\ available \in Int
  /\ steps \in 0 .. MaxSteps

\* The price of the q-th unit of a side.
PriceAt(levels, q) ==
  LET depth(k) == FoldFunctionOnSet(+, 0, Volumes(levels), 1 .. k) IN
  levels[Min({k \in DOMAIN levels : depth(k) >= q})][1]

Depth(levels) == Sum(Volumes(levels))

\* Quantity q can be traded: there is so much on both sides, its last unit
\* is worth it, and the budget or the quantity to leave with allows it.
Feasible(q) ==
  /\ q =< Depth(request.spot) /\ q =< Depth(request.future)
  /\ LET s == PriceAt(request.spot, q)
         f == PriceAt(request.future, q) IN
     IF Entering THEN f # s /\ Reaches(s, f, request.percent) ELSE Reaches(f, s, request.percent)
  /\ LET cost == FoldFunctionOnSet(+, 0, [u \in 1 .. q |-> PriceAt(request.spot, u)], 1 .. q) IN
     IF Entering THEN cost =< request.amount ELSE q =< request.amount

(* With contracts of one unit, the plan is the largest that is feasible,   *)
(* the same on both legs and within every level, and the pair of prices it *)
(* names is the closest of all that reach the percentage.  With other      *)
(* contracts a level can be left with less than nothing, and the loop can  *)
(* go on for ever; entering at a loss stops where the prices meet.         *)
PlanIsLargest ==
  result # << >> /\ request.contract_size = 1 /\ (Entering => request.percent >= 0) =>
    /\ result.executed = Max({0} \cup {q \in 1 .. Depth(request.spot) : Feasible(q)})
    /\ Sum(bought) = result.executed /\ Sum(sold) = result.executed
    /\ \A k \in DOMAIN bought : bought[k] \in 0 .. request.spot[k][2]
    /\ \A k \in DOMAIN sold : sold[k] \in 0 .. request.future[k][2]
    /\ LET inc  == IF Entering THEN request.spot ELSE request.future
           dec  == IF Entering THEN request.future ELSE request.spot
           able == {p \in {<<x[1], y[1]>> : x \in ToSet(inc), y \in ToSet(dec)} :
                      Reaches(p[1], p[2], request.percent)} IN
       ~Entering \/ result.executed > 0 =>
         IF able = {} THEN result.max_price = << >>
         ELSE result.max_price \in able /\ \A p \in able : ~Closer(p, result.max_price)
=============================================================================
