------------------------------ MODULE Account ------------------------------
(***************************************************************************)
(* The balances of an account (base/exchange/account.rs): the actual ones, *)
(* moved by the orders the exchange reports, and the temporary ones, moved *)
(* by orders that are only simulated.  Every operation holds the mutex.    *)
(*                                                                         *)
(* Only USDT is accounted, per market.  Time is in seconds.                *)
(***************************************************************************)
EXTENDS Integers, FiniteSetsExt, SequencesExt

CONSTANTS
  Orders,   \* the orders: records [id, market, side, value]
  Keep,     \* how long an order's id is remembered: 30
  MaxTime,  \* bound on the clock
  MaxMoves  \* bound on the times a balance moves

Sides   == {"buy", "sell", "other"}
Markets == {"spot", "future"}

VARIABLES
  now,
  actual_balance,
  temporary_balance,
  orders,   \* the ids that are remembered, with the time of each
  counted,  \* when each id last moved the actual balance
  moves     \* how often a balance moved

vars == <<now, actual_balance, temporary_balance, orders, counted, moves>>

Ids   == {o.id : o \in Orders}
Never == -(Keep + 1)

-----------------------------------------------------------------------------
\* What an order does to the balance of its market: selling the future opens
\* a short, and takes from it.  A side of another name does nothing.
Value(o) ==
  CASE o.side = "other" -> 0
    [] o.side = "sell" /\ o.market = "spot" -> o.value
    [] o.side = "buy" /\ o.market = "future" -> o.value
    [] OTHER -> -o.value

\* apply_order
Applied(balance, o) == [balance EXCEPT ![o.market] = @ + Value(o)]

\* Mutant: an order is forgotten with its last second.
ExpiredEarly(entry) == now - entry.inserted_at >= Keep

Expired(entry) == now - entry.inserted_at > Keep

\* The deque without the expired orders at its front.
Cleaned ==
  LET young == {i \in DOMAIN orders : ~Expired(orders[i])} IN
  IF young = {} THEN << >> ELSE SubSeq(orders, Min(young), Len(orders))

\* insert_order: a new id is remembered and counted, one that is still
\* remembered is not.
InsertOrder(o) ==
  /\ moves < MaxMoves
  /\ IF \E i \in DOMAIN Cleaned : Cleaned[i].id = o.id
     THEN /\ orders' = Cleaned
          /\ UNCHANGED <<actual_balance, counted, moves>>
     ELSE /\ orders' = Append(Cleaned, [id |-> o.id, inserted_at |-> now])
          /\ actual_balance' = Applied(actual_balance, o)
          /\ counted' = [counted EXCEPT ![o.id] = now]
          /\ moves' = moves + 1
  /\ UNCHANGED <<now, temporary_balance>>

SimulateOrder(o) ==
  /\ moves < MaxMoves
  /\ temporary_balance' = Applied(temporary_balance, o)
  /\ moves' = moves + 1
  /\ UNCHANGED <<now, actual_balance, orders, counted>>

ResetTemporaryBalance ==
  /\ temporary_balance' = actual_balance
  /\ UNCHANGED <<now, actual_balance, orders, counted, moves>>

Tick ==
  /\ now < MaxTime
  /\ now' = now + 1
  /\ UNCHANGED <<actual_balance, temporary_balance, orders, counted, moves>>

-----------------------------------------------------------------------------
Init ==
  /\ now = 0
  /\ actual_balance = [m \in Markets |-> 0]
  /\ temporary_balance = [m \in Markets |-> 0]
  /\ orders = << >>
  /\ counted = [i \in Ids |-> Never]
  /\ moves = 0

Next ==
  \/ \E o \in Orders : InsertOrder(o) \/ SimulateOrder(o)
  \/ ResetTemporaryBalance
  \/ Tick

-----------------------------------------------------------------------------
(* Type invariant; the deque is in the order of time, which cleaning it    *)
(* from the front relies on.                                               *)
TypeOK ==
  /\ now \in 0 .. MaxTime
  /\ actual_balance \in [Markets -> Int] /\ temporary_balance \in [Markets -> Int]
  /\ \A i \in DOMAIN orders : orders[i].id \in Ids /\ orders[i].inserted_at \in 0 .. now
  /\ \A i, j \in DOMAIN orders : i < j => orders[i].inserted_at =< orders[j].inserted_at
  /\ counted \in [Ids -> {Never} \cup 0 .. now]

(* The actual balance moves only for an order whose id has not moved it    *)
(* for more than Keep seconds: reports that are repeated sooner are not    *)
(* counted twice.  One that is repeated later is.                          *)
CountedOnceInAWhile ==
  [][actual_balance' # actual_balance =>
       \E o \in Orders : /\ actual_balance' = Applied(actual_balance, o)
                         /\ now - counted[o.id] > Keep
                         /\ counted'[o.id] = now]_vars
=============================================================================
