----------------------------- MODULE MC_Parts --------------------------------
(***************************************************************************)
(* The parts that share no state with each other, checked side by side:    *)
(* Binance's book of one symbol; the pool of clients of Gate and Binance,  *)
(* with few tasks and clients that are full with two symbols; MEXC's books *)
(* and private orders; the monitor of one arbitrage and who listens to it; *)
(* the balances of an account; the computation of an arbitrage; and the    *)
(* channel.  A behaviour is one of one of them.                            *)
(***************************************************************************)
EXTENDS Integers, SequencesExt, TLC, Channel

CONSTANTS Prices, MaxQty, FirstId, MaxId, MaxInit, MaxBooks, MaxRetries, BinanceMarkets,
          Tasks, Watched, Limit, MaxClients, MaxWire, MaxOvertaken,
          Symbols, Catches, MexcClients, MaxOrders, MaxSockets, MaxSymbols, MaxUpdates,
          Sessions, Capacity, MaxNotifications,
          Tops, Orders, Keep, MaxTime, MaxMoves, Requests, MaxSteps

VARIABLES
  part,  \* the part that moves
  market, cur, hist, published, current, gen, levels, update_id, torn, missed, phase, want, snap, retries,
  init, reader, handle,
  pool, made, subscribed, link, dialer, wire, streams, overtaken, pc, sym, client,
  ocall, inited, osubscribed, socket, oup, streaming, opending, symbol, queue, filling, log, last,
  waiting, got, owed, arrived, panicked,
  mpool, up, msubscribed, pending, server, emptied, leftover, call,
  snapshot, read, alive, sent, session, joined, pos, tasks, out, closing,
  now, actual_balance, temporary_balance, orders, counted, moves,
  request, i, j, spot, future, available, bought, sold, steps, result

\* The first update is above the two ids that are states of a book.
ASSUME BinanceAssumption ==
  /\ FirstId \in Nat /\ FirstId > 1
  /\ MaxId \in Nat /\ MaxId >= FirstId
  /\ MaxQty \in Nat /\ MaxBooks \in Nat
  /\ MaxRetries \in Nat \ {0}

ASSUME PoolAssumption == MaxClients \in Nat /\ Limit \in Nat

ASSUME AccountAssumption ==
  /\ Keep \in Nat /\ MaxTime \in Nat
  /\ \A o \in Orders : o.market \in {"spot", "future"} /\ o.value \in Int

\* "none" stands for the symbol of a catch that is not made.
ASSUME StreamAssumption ==
  "none" \notin Symbols /\ MaxOrders \in Nat /\ MaxSockets \in Nat

ASSUME MexcAssumption == MaxSymbols \in Nat \ {0} /\ MaxUpdates \in Nat

ASSUME MonitorAssumption ==
  MaxNotifications \in Nat /\ \A p \in Tops : p.ask \in Nat /\ p.bid \in Nat

\* A level of a book has a price and a quantity; the best one comes first.
Side == Seq((Nat \ {0}) \X (Nat \ {0}))
Ascending(l)  == \A k1, k2 \in DOMAIN l : k1 =< k2 => l[k1][1] =< l[k2][1]
Descending(l) == \A k1, k2 \in DOMAIN l : k1 =< k2 => l[k1][1] >= l[k2][1]

ASSUME PlanAssumption ==
  /\ MaxSteps \in Nat
  /\ \A r \in Requests :
       /\ r.spot \in Side /\ r.future \in Side
       /\ r.amount \in Int /\ r.percent \in Int /\ r.contract_size \in Int
       /\ IF r.kind = "entry" THEN Ascending(r.spot) /\ Descending(r.future)
                              ELSE Descending(r.spot) /\ Ascending(r.future)

B == INSTANCE BinanceBook WITH Levels <- Prices, Markets <- BinanceMarkets, sent <- published
G == INSTANCE ClientPool WITH Symbols <- Watched
O == INSTANCE OrderStream WITH call <- ocall, subscribed <- osubscribed, up <- oup, pending <- opending
X == INSTANCE MexcBook WITH Clients <- MexcClients, pool <- mpool, subscribed <- msubscribed
M == INSTANCE Monitor
A == INSTANCE Account
P == INSTANCE ArbitragePlan

binance == <<market, cur, hist, published, current, gen, levels, update_id, torn, missed, phase, want, snap,
             retries, init, reader, handle>>
pools   == <<pool, made, subscribed, link, dialer, wire, streams, overtaken, pc, sym, client>>
stream  == <<ocall, inited, osubscribed, socket, oup, streaming, opending, symbol, queue, filling, log,
             last, waiting, got, owed, arrived, panicked>>
mexc    == <<mpool, up, msubscribed, pending, server, emptied, leftover, call>>
monitor == <<snapshot, read, alive, sent, session, joined, pos, tasks, out, closing>>
account == <<now, actual_balance, temporary_balance, orders, counted, moves>>
plan    == <<request, i, j, spot, future, available, bought, sold, steps, result>>
channel == vars

\* The market, the first book and the request vary only where they matter.
PartsInit ==
  /\ part \in {"binance", "pools", "stream", "mexc", "monitor", "account", "plan", "channel"}
  /\ part # "plan" => request = CHOOSE r \in Requests : TRUE
  /\ B!Init /\ G!Init /\ O!Init /\ X!Init /\ M!Init /\ A!Init /\ P!Init /\ Init
  /\ part # "binance" => market = "Spot" /\ hist[FirstId] = B!Empty

PartsNext ==
  /\ UNCHANGED part
  /\ \/ part = "binance" /\ B!Next /\ UNCHANGED <<pools, stream, mexc, monitor, account, plan, channel>>
     \/ part = "pools" /\ G!Next /\ UNCHANGED <<binance, stream, mexc, monitor, account, plan, channel>>
     \/ part = "stream" /\ O!Next /\ UNCHANGED <<binance, pools, mexc, monitor, account, plan, channel>>
     \/ part = "mexc" /\ X!Next /\ UNCHANGED <<binance, pools, stream, monitor, account, plan, channel>>
     \/ part = "monitor" /\ M!Next /\ UNCHANGED <<binance, pools, stream, mexc, account, plan, channel>>
     \/ part = "account" /\ A!Next /\ UNCHANGED <<binance, pools, stream, mexc, monitor, plan, channel>>
     \/ part = "plan" /\ P!Next /\ UNCHANGED <<binance, pools, stream, mexc, monitor, account, channel>>
     \/ part = "channel" /\ Next /\ UNCHANGED <<binance, pools, stream, mexc, monitor, account, plan>>

parts == <<part, binance, pools, stream, mexc, monitor, account, plan, channel>>

PartsSpec == PartsInit /\ [][PartsNext]_parts

\* Somebody still holds a reference to the book; no action reads or changes
\* one that was dropped.
Held(b) == b = current \/ b > gen \/ phase[b] # "none" \/ b = handle

Shelf == [b \in 1 .. MaxBooks |-> IF Held(b) THEN <<levels[b], update_id[b], b \in torn, b \in missed>> ELSE << >>]

\* Only the count of its commands matters of a client that left the pool and
\* that no task holds.
Seen(c) == IF Contains(pool, c) \/ \E t \in Tasks : pc[t] # "idle" /\ client[t] = c
           THEN <<subscribed[c], link[c], dialer[c], wire[c], streams[c], overtaken[c]>>
           ELSE <<Len(wire[c]), link[c] = "up" /\ wire[c] # << >> >>

\* Who is idle will choose its symbol and client anew.
View == <<part, stream, mexc, monitor, account, plan, channel,
          market, cur, hist, published, current, gen, phase, want, snap, retries, init, reader, handle, Shelf,
          pool, made, [c \in G!Clients |-> Seen(c)], pc,
          [t \in Tasks |-> IF pc[t] = "idle" THEN << >> ELSE <<sym[t], client[t]>>]>>

Symmetric == Permutations(Tasks) \cup Permutations(Watched)

-----------------------------------------------------------------------------
(* What the constants stand for in the run.                                *)

\* An order of each market, and one of an unknown side; each may be reported
\* again.
SomeOrders == {[id |-> "a", market |-> "spot", side |-> "buy", value |-> 3],
               [id |-> "b", market |-> "future", side |-> "sell", value |-> 2],
               [id |-> "c", market |-> "spot", side |-> "other", value |-> 1]}

\* Two tops that differ by less than a notification takes, one that is far
\* enough for one, and one that is too far to be believed.
SomeTops == {[ask |-> 10000, bid |-> 9998], [ask |-> 10004, bid |-> 10002],
             [ask |-> 10090, bid |-> 10080], [ask |-> 20002, bid |-> 20000]}

\* Sides of a book, of two levels at most; quantities and budgets are even
\* and spot prices 1 or 2, so that no division leaves a remainder.
SidesOf(prices) == [1 .. 1 -> prices \X {2, 4}] \cup [1 .. 2 -> prices \X {2, 4}]
Rising(prices) == {l \in SidesOf(prices) : Len(l) = 2 => l[1][1] < l[2][1]}
Falling(prices) == {l \in SidesOf(prices) : Len(l) = 2 => l[1][1] > l[2][1]}

SomeRequests ==
  [kind : {"entry"}, spot : Rising({1, 2}), future : Falling({2, 3, 5}),
   amount : {4, 6}, margin : {50}, percent : {0, 50, 100}, contract_size : {1, 2}]
  \cup
  [kind : {"exit"}, spot : Falling({2, 3, 5}), future : Rising({1, 2}),
   amount : {4, 6}, margin : {50}, percent : {-50, 0, 50, 100}, contract_size : {1, 2}]

-----------------------------------------------------------------------------
\* A part that does not move keeps its initial state, so its invariants are
\* not evaluated again.

(* The type invariants of the parts.                                       *)
PartsTypeOK ==
  CASE part = "binance" -> B!TypeOK
    [] part = "pools"   -> G!TypeOK
    [] part = "stream"  -> O!TypeOK
    [] part = "mexc"    -> X!TypeOK
    [] part = "monitor" -> M!TypeOK
    [] part = "account" -> A!TypeOK
    [] part = "plan"    -> P!TypeOK
    [] part = "channel" -> TypeOK

(* Binance: a book that is being synchronised has somebody who does it.    *)
SynchronisingHasHandler == part = "binance" => B!SynchronisingHasHandler

(* Binance: only a lost event tears a book.                                *)
OnlyLossTears == part = "binance" => B!OnlyLossTears

(* Binance: the book mirrors the exchange's.                               *)
Mirrored == B!Mirrored

(* Pool: a limit is exceeded, or a symbol split between clients, only      *)
(* across a dial.                                                          *)
CrossingNeedsDial == G!CrossingNeedsDial

(* Pool: no socket of the pool is kept open for nothing.                   *)
PooledSocketsAreUsed == part = "pools" => G!PooledSocketsAreUsed

(* Pool: the server streams only what is registered, or was overtaken.     *)
OrphansWereOvertaken == part = "pools" => G!OrphansWereOvertaken

(* Orders: a caller gets what came while it was registered, once.          *)
EveryOrderOnce == part = "stream" => O!EveryOrderOnce

(* MEXC books: a registered symbol is streamed, and its book is whole.     *)
StreamsAreHeld == part = "mexc" => X!StreamsAreHeld

(* Monitor: the snapshot is what the tasks last read.                      *)
SnapshotIsLastRead == part = "monitor" => M!SnapshotIsLastRead

(* Monitor: a session's messages are an unbroken run.                      *)
Uninterrupted == part = "monitor" => M!Uninterrupted

(* Account: a repeated report is counted once.                             *)
CountedOnceInAWhile == A!CountedOnceInAWhile

(* Arbitrage: the plan is the largest that the books allow.                *)
PlanIsLargest == part = "plan" => P!PlanIsLargest
=============================================================================
