----------------------------- MODULE OrderStream -----------------------------
(***************************************************************************)
(* The private orders of a MEXC account (exchange/mexc/private/watch.rs    *)
(* and exchange/catch.rs).                                                 *)
(*                                                                         *)
(* catch_orders() makes sure of a websocket, subscribes to the account's   *)
(* orders once, and gives its caller an OrderCatch: a log that a task of   *)
(* its own fills from a channel, and that the caller reads by next().      *)
(* catch_orders() borrows the exchange mutably, so calls never overlap.    *)
(*                                                                         *)
(* Nothing in the repository calls catch_orders(); a caller is taken to    *)
(* ask next() for what came after its last answer.  What a panic leaves    *)
(* behind is not followed.                                                 *)
(***************************************************************************)
EXTENDS Naturals, FiniteSetsExt, SequencesExt

CONSTANTS
  Symbols,
  Catches,    \* the OrderCatches that are made
  MaxOrders,  \* bound on the orders
  MaxSockets  \* bound on the websockets opened

VARIABLES
  call,        \* the catch, symbol and stage of a call of catch_orders(), or << >>
  inited,      \* inited_private_ws
  subscribed,  \* subscribed_private_orders
  socket,      \* how many sockets were opened
  up,          \* whether the last one is up
  streaming,   \* whether the server was asked for orders on it
  pending,     \* private_pending: the channels of each symbol that has an entry
  symbol,      \* of each catch that was made
  queue,       \* the orders in its channel
  filling,     \* whether its task runs
  log,         \* the orders of its state, whose nonces are their places
  last,        \* the nonce its caller has seen
  waiting,     \* whether the caller is suspended in next()
  got,         \* the orders the caller got
  owed,        \* the orders that came while the catch was registered
  arrived,     \* how many orders came
  panicked

exchange == <<call, inited, subscribed>>
ws       == <<socket, up, streaming>>
catch    == <<symbol, queue, filling, log, last, waiting, got>>
vars     == <<exchange, ws, pending, catch, owed, arrived, panicked>>

NoSymbol == "none"
Made     == {c \in Catches : symbol[c] # NoSymbol}

-----------------------------------------------------------------------------
(* catch_orders()                                                          *)

\* entry(s).or_default()
Entry(s) == IF s \in DOMAIN pending THEN pending[s] ELSE << >>

\* SUBSCRIPTION, sent once in the exchange's life, and a channel for catch c
\* of symbol s with the task that empties it.
Register(c, s) ==
  /\ symbol' = [symbol EXCEPT ![c] = s]
  /\ pending' = [x \in DOMAIN pending \cup {s} |-> IF x = s THEN Append(Entry(s), c) ELSE pending[x]]
  /\ filling' = [filling EXCEPT ![c] = TRUE]
  /\ subscribed' = TRUE
  /\ UNCHANGED <<queue, log, last, waiting, got, owed, arrived, panicked>>

\* With a socket, all is done at once; without one, a listen key is asked for.
Catch(c, s) ==
  /\ call = << >> /\ symbol[c] = NoSymbol
  /\ IF inited
     THEN /\ Register(c, s)
          /\ streaming' = (streaming \/ ~subscribed)
          /\ UNCHANGED <<call, inited, socket, up>>
     ELSE /\ socket < MaxSockets
          /\ call' = <<c, s, "listen_key">>
          /\ UNCHANGED <<inited, subscribed, ws, pending, catch, owed, arrived, panicked>>

ListenKey ==
  /\ call # << >> /\ call[3] = "listen_key"
  /\ call' = [call EXCEPT ![3] = "handshake"]
  /\ UNCHANGED <<inited, subscribed, ws, pending, catch, owed, arrived, panicked>>

Handshake ==
  /\ call # << >> /\ call[3] = "handshake"
  /\ socket' = socket + 1
  /\ up' = TRUE
  /\ inited' = TRUE
  /\ Register(call[1], call[2])
  /\ streaming' = ~subscribed
  /\ call' = << >>

\* Either may fail, and the call with it.
CallFails ==
  /\ call # << >>
  /\ call' = << >>
  /\ UNCHANGED <<inited, subscribed, ws, pending, catch, owed, arrived, panicked>>

-----------------------------------------------------------------------------
(* The websocket's callbacks                                               *)

\* An order of symbol s: it goes into the channel of each of its catches.
\* Without an entry for s, unwrap() panics, and the socket's task is gone
\* without its callbacks.
Order(s) ==
  /\ up /\ streaming /\ ~panicked /\ arrived < MaxOrders
  /\ arrived' = arrived + 1
  /\ IF s \in DOMAIN pending
     THEN /\ queue' = [c \in Catches |-> IF Contains(pending[s], c) THEN Append(queue[c], arrived + 1)
                                                                    ELSE queue[c]]
          /\ owed' = [c \in Catches |-> IF symbol[c] = s /\ filling[c] THEN Append(owed[c], arrived + 1)
                                                                       ELSE owed[c]]
          /\ UNCHANGED <<up, panicked>>
     ELSE /\ panicked' = TRUE /\ up' = FALSE
          /\ UNCHANGED <<queue, owed>>
  /\ UNCHANGED <<exchange, socket, streaming, pending, symbol, filling, log, last, waiting, got>>

\* on_error and on_close: the key is released, and every channel loses its
\* sender.  subscribed_private_orders stays as it is.
Fail ==
  /\ up
  /\ up' = FALSE /\ streaming' = FALSE
  /\ inited' = FALSE
  /\ pending' = << >>
  /\ UNCHANGED <<call, subscribed, socket, catch, owed, arrived, panicked>>

-----------------------------------------------------------------------------
(* The task of a catch, and its caller                                     *)

\* Whether the sender of c's channel still exists.
Connected(c) == symbol[c] \in DOMAIN pending /\ Contains(pending[symbol[c]], c)

\* Mutant: the order is logged, and whoever waits for it sleeps on.
FillQuietly(c) ==
  /\ filling[c] /\ queue[c] # << >>
  /\ log' = [log EXCEPT ![c] = Append(@, Head(queue[c]))]
  /\ queue' = [queue EXCEPT ![c] = Tail(@)]
  /\ UNCHANGED <<exchange, ws, pending, symbol, filling, last, waiting, got, owed, arrived, panicked>>

\* The next order is logged and the wakers are fired: a caller that waited
\* goes on when it is polled, and may find more.
Fill(c) ==
  /\ filling[c] /\ queue[c] # << >>
  /\ log' = [log EXCEPT ![c] = Append(@, Head(queue[c]))]
  /\ queue' = [queue EXCEPT ![c] = Tail(@)]
  /\ waiting' = [waiting EXCEPT ![c] = IF @ = "asleep" THEN "woken" ELSE @]
  /\ UNCHANGED <<exchange, ws, pending, symbol, filling, last, got, owed, arrived, panicked>>

\* The channel is empty and has no sender.
FillEnds(c) ==
  /\ filling[c] /\ queue[c] = << >> /\ ~Connected(c)
  /\ filling' = [filling EXCEPT ![c] = FALSE]
  /\ UNCHANGED <<exchange, ws, pending, symbol, queue, log, last, waiting, got, owed, arrived, panicked>>

\* What next(last) returns.
Answer(c) ==
  /\ got' = [got EXCEPT ![c] = @ \o SubSeq(log[c], last[c] + 1, Len(log[c]))]
  /\ last' = [last EXCEPT ![c] = Len(log[c])]

\* next(): at once if there is something new, else after a wake.
CallNext(c) ==
  /\ c \in Made /\ waiting[c] = "no"
  /\ IF last[c] < Len(log[c])
     THEN Answer(c) /\ UNCHANGED waiting
     ELSE waiting' = [waiting EXCEPT ![c] = "asleep"] /\ UNCHANGED <<got, last>>
  /\ UNCHANGED <<exchange, ws, pending, symbol, queue, filling, log, owed, arrived, panicked>>

Wake(c) ==
  /\ waiting[c] = "woken"
  /\ Answer(c)
  /\ waiting' = [waiting EXCEPT ![c] = "no"]
  /\ UNCHANGED <<exchange, ws, pending, symbol, queue, filling, log, owed, arrived, panicked>>

\* The caller drops its catch, and the call of next() it may be in: the
\* channel leaves the map, whose entry is unwrapped; after a failure there is
\* none.
Drop(c) ==
  /\ c \in Made
  /\ symbol' = [symbol EXCEPT ![c] = NoSymbol]
  /\ IF symbol[c] \in DOMAIN pending
     THEN pending' = [pending EXCEPT ![symbol[c]] = RemoveFirst(@, c)] /\ UNCHANGED panicked
     ELSE panicked' = TRUE /\ UNCHANGED pending
  /\ queue' = [queue EXCEPT ![c] = << >>]
  /\ filling' = [filling EXCEPT ![c] = FALSE]
  /\ log' = [log EXCEPT ![c] = << >>]
  /\ last' = [last EXCEPT ![c] = 0]
  /\ got' = [got EXCEPT ![c] = << >>]
  /\ owed' = [owed EXCEPT ![c] = << >>]
  /\ waiting' = [waiting EXCEPT ![c] = "no"]
  /\ UNCHANGED <<exchange, ws, arrived>>

-----------------------------------------------------------------------------
Init ==
  /\ call = << >>
  /\ inited = FALSE /\ subscribed = FALSE
  /\ socket = 0 /\ up = FALSE /\ streaming = FALSE
  /\ pending = << >>
  /\ symbol = [c \in Catches |-> NoSymbol]
  /\ queue = [c \in Catches |-> << >>]
  /\ filling = [c \in Catches |-> FALSE]
  /\ log = [c \in Catches |-> << >>]
  /\ last = [c \in Catches |-> 0]
  /\ waiting = [c \in Catches |-> "no"]
  /\ got = [c \in Catches |-> << >>]
  /\ owed = [c \in Catches |-> << >>]
  /\ arrived = 0
  /\ panicked = FALSE

Next ==
  /\ ~panicked
  /\ \/ ListenKey \/ Handshake \/ CallFails \/ Fail
     \/ \E s \in Symbols : Order(s) \/ \E c \in Catches : Catch(c, s)
     \/ \E c \in Catches : Fill(c) \/ FillEnds(c) \/ CallNext(c) \/ Wake(c) \/ Drop(c)

-----------------------------------------------------------------------------
(* Type invariant; orders come only while the first socket is up, since    *)
(* nobody subscribes on another.                                           *)
TypeOK ==
  /\ inited \in BOOLEAN /\ subscribed \in BOOLEAN /\ up \in BOOLEAN /\ panicked \in BOOLEAN
  /\ socket \in 0 .. MaxSockets
  /\ DOMAIN pending \subseteq Symbols
  /\ \A s \in DOMAIN pending : pending[s] \in Seq(Made) /\ IsInjective(pending[s])
  /\ symbol \in [Catches -> Symbols \cup {NoSymbol}]
  /\ filling \in [Catches -> BOOLEAN]
  /\ waiting \in [Catches -> {"no", "asleep", "woken"}]
  /\ last \in [Catches -> 0 .. MaxOrders]
  /\ streaming => socket = 1

(* The caller gets every order that came while its catch was registered,   *)
(* once and in order, through channel, log and next(); and it never sleeps *)
(* on an order that was logged.                                            *)
EveryOrderOnce ==
  \A c \in Made :
    /\ got[c] = SubSeq(log[c], 1, last[c])
    /\ log[c] \o queue[c] = owed[c]
    /\ waiting[c] = "asleep" => last[c] = Len(log[c])
=============================================================================
