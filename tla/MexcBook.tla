------------------------------ MODULE MexcBook ------------------------------
(***************************************************************************)
(* The public order books of MEXC (exchange/mexc/public/watch.rs and       *)
(* sub_client.rs): a pool of clients of one websocket each, and the books  *)
(* that the increments on them add up to.                                  *)
(*                                                                         *)
(* Calls borrow the exchange mutably, so there is one at a time; the       *)
(* websockets' tasks run between its steps.  A client connects once, when  *)
(* it is made: a socket that failed stays down.                            *)
(*                                                                         *)
(* A book is the number of updates it was made from, which are what        *)
(* update_id counts.  Frames take effect on the server in the order they   *)
(* are sent: these sockets have no rate limiter.                           *)
(***************************************************************************)
EXTENDS Naturals, FiniteSetsExt, SequencesExt

CONSTANTS
  Symbols, Clients,
  MaxSymbols,  \* a client with so many symbols takes no more: 35
  MaxUpdates   \* bound on the updates of a symbol in one subscription

VARIABLES
  pool,        \* public.sub_clients
  up,          \* whether a client's websocket task runs
  subscribed,  \* of each client: the book of each symbol it has
  pending,     \* and the symbols whose waiters it lists
  server,      \* how many updates the server sent, for each symbol it streams
  emptied,     \* the symbols whose book was taken and not put back
  leftover,    \* the symbols that were registered though SUBSCRIPTION failed
  call         \* the call of watch_orderbook() under way, or << >>

client == <<up, subscribed, pending, server, emptied, leftover>>
vars   == <<pool, client, call>>

-----------------------------------------------------------------------------
Has(c, s) == s \in DOMAIN subscribed[c]
Count(c)  == Cardinality(DOMAIN subscribed[c])

\* The first client of the pool that satisfies Test, if there is one.
FirstOf(Test(_)) ==
  LET able == {k \in DOMAIN pool : Test(pool[k])} IN
  IF able = {} THEN {} ELSE {pool[Min(able)]}

Holder(s) == FirstOf(LAMBDA c : Has(c, s))

\* Mutant: a client is taken that has as many symbols as it may.
RoomyInclusive == FirstOf(LAMBDA c : Count(c) =< MaxSymbols)

Roomy == FirstOf(LAMBDA c : Count(c) < MaxSymbols)

Waiting(c, s) == call # << >> /\ call.client = c /\ call.symbol = s /\ call.stage = "waiting"

\* insert(s, a book of no updates)
Entered(books, s) == [x \in DOMAIN books \cup {s} |-> IF x = s THEN 0 ELSE books[x]]

\* A subscription that fails is not taken back.
Register(c, s, live) ==
  /\ subscribed' = [subscribed EXCEPT ![c] = Entered(@, s)]
  /\ pending' = [pending EXCEPT ![c] = @ \cup {s}]
  /\ server' = [server EXCEPT ![c] = IF live THEN Entered(@, s) ELSE @]
  /\ leftover' = [leftover EXCEPT ![c] = IF live THEN @ ELSE @ \cup {s}]
  /\ UNCHANGED emptied

-----------------------------------------------------------------------------
(* watch_orderbook(s)                                                      *)

\* A client has the symbol: its next book is waited for.
WatchAgain(s) ==
  /\ call = << >>
  /\ \E c \in Holder(s) : call' = [symbol |-> s, client |-> c, stage |-> "waiting"]
  /\ UNCHANGED <<pool, client>>

\* A client has room: the symbol is registered and subscribed to, and the
\* call ends with an error when the socket is down.
WatchThere(s) ==
  /\ call = << >> /\ Holder(s) = {}
  /\ \E c \in Roomy :
       /\ Register(c, s, up[c])
       /\ call' = IF up[c] THEN [symbol |-> s, client |-> c, stage |-> "waiting"] ELSE << >>
  /\ UNCHANGED <<pool, up>>

\* No client has room: one is made, and added to the pool by the first book.
WatchAnew(s) ==
  /\ call = << >> /\ Holder(s) = {} /\ Roomy = {}
  /\ \E c \in Clients \ ToSet(pool) :
       call' = [symbol |-> s, client |-> c, stage |-> "connecting"]
  /\ UNCHANGED <<pool, client>>

Connected ==
  /\ call # << >> /\ call.stage = "connecting"
  /\ up' = [up EXCEPT ![call.client] = TRUE]
  /\ Register(call.client, call.symbol, TRUE)
  /\ call' = [call EXCEPT !.stage = "waiting"]
  /\ UNCHANGED pool

ConnectFails ==
  /\ call # << >> /\ call.stage = "connecting"
  /\ call' = << >>
  /\ UNCHANGED <<pool, client>>

\* Client c is dropped, and its websocket with it.
Forget(c) ==
  /\ up' = [up EXCEPT ![c] = FALSE]
  /\ subscribed' = [subscribed EXCEPT ![c] = << >>]
  /\ pending' = [pending EXCEPT ![c] = {}]
  /\ server' = [server EXCEPT ![c] = << >>]
  /\ emptied' = [emptied EXCEPT ![c] = {}]
  /\ leftover' = [leftover EXCEPT ![c] = {}]

\* The caller's task runs after its channel was sent to or dropped; the
\* socket may have gone down in between.
Return ==
  /\ call # << >> /\ call.stage \in {"answered", "failed"}
  /\ call' = << >>
  /\ IF call.client \in ToSet(pool) THEN UNCHANGED <<pool, client>>
     ELSE IF call.stage = "answered" THEN pool' = Append(pool, call.client) /\ UNCHANGED client
     ELSE Forget(call.client) /\ UNCHANGED pool

-----------------------------------------------------------------------------
(* unwatch_orderbook(s)                                                    *)

Leave(c, s) ==
  /\ subscribed' = [subscribed EXCEPT ![c] = Restrict(@, DOMAIN @ \ {s})]
  /\ pending' = [pending EXCEPT ![c] = @ \ {s}]
  /\ server' = [server EXCEPT ![c] = Restrict(@, DOMAIN @ \ {s})]
  /\ emptied' = [emptied EXCEPT ![c] = @ \ {s}]
  /\ leftover' = [leftover EXCEPT ![c] = @ \ {s}]
  /\ UNCHANGED up

\* A client that is left without symbols leaves the pool, unless its socket
\* is down: then sending fails before it is looked at.
Unwatch(s) ==
  /\ call = << >>
  /\ \E c \in Holder(s) :
       IF up[c] /\ Count(c) = 1
       THEN pool' = RemoveFirst(pool, c) /\ Forget(c)
       ELSE Leave(c, s) /\ UNCHANGED pool
  /\ UNCHANGED call

-----------------------------------------------------------------------------
(* The websocket's callbacks                                               *)

\* handle_binary of a batch with n updates: a book that moved is handed to
\* its waiter.
Update(c, s, n) ==
  /\ up[c] /\ s \in DOMAIN server[c]
  /\ server[c][s] + n =< MaxUpdates
  /\ server' = [server EXCEPT ![c][s] = @ + n]
  /\ subscribed' = [subscribed EXCEPT ![c][s] = @ + n]
  /\ call' = IF Waiting(c, s) /\ n > 0 THEN [call EXCEPT !.stage = "answered"] ELSE call
  /\ UNCHANGED <<pool, up, pending, emptied, leftover>>

\* A message of the channel without a body: the book was taken out before,
\* and an empty one stays.
Bodyless(c, s) ==
  /\ up[c] /\ s \in DOMAIN server[c]
  /\ subscribed' = [subscribed EXCEPT ![c][s] = 0]
  /\ emptied' = [emptied EXCEPT ![c] = @ \cup {s}]
  /\ UNCHANGED <<pool, up, pending, server, leftover, call>>

\* Mutant: symbols stay registered when the socket goes down.
FailKeeping(c) ==
  /\ up[c]
  /\ up' = [up EXCEPT ![c] = FALSE]
  /\ server' = [server EXCEPT ![c] = << >>]
  /\ call' = IF call # << >> /\ call.client = c /\ call.stage = "waiting"
             THEN [call EXCEPT !.stage = "failed"] ELSE call
  /\ UNCHANGED <<pool, subscribed, pending, emptied, leftover>>

\* on_error and on_close, which clear both maps.
Fail(c) ==
  /\ up[c]
  /\ up' = [up EXCEPT ![c] = FALSE]
  /\ server' = [server EXCEPT ![c] = << >>]
  /\ subscribed' = [subscribed EXCEPT ![c] = << >>]
  /\ pending' = [pending EXCEPT ![c] = {}]
  /\ emptied' = [emptied EXCEPT ![c] = {}]
  /\ call' = IF call # << >> /\ call.client = c /\ call.stage = "waiting"
             THEN [call EXCEPT !.stage = "failed"] ELSE call
  /\ UNCHANGED <<pool, leftover>>

-----------------------------------------------------------------------------
Init ==
  /\ pool = << >>
  /\ up = [c \in Clients |-> FALSE]
  /\ subscribed = [c \in Clients |-> << >>]
  /\ pending = [c \in Clients |-> {}]
  /\ server = [c \in Clients |-> << >>]
  /\ emptied = [c \in Clients |-> {}]
  /\ leftover = [c \in Clients |-> {}]
  /\ call = << >>

Next ==
  \/ \E s \in Symbols : WatchAgain(s) \/ WatchThere(s) \/ WatchAnew(s) \/ Unwatch(s)
  \/ Connected \/ ConnectFails \/ Return
  \/ \E c \in Clients :
       \/ Fail(c)
       \/ \E s \in Symbols : Bodyless(c, s) \/ \E n \in 0 .. 2 : Update(c, s, n)

-----------------------------------------------------------------------------
(* Type invariant; no client of the pool has more symbols than it may, and *)
(* every symbol that is registered has its entry among the waiters, which  *)
(* watch() unwraps.                                                        *)
TypeOK ==
  /\ pool \in Seq(Clients) /\ IsInjective(pool)
  /\ up \in [Clients -> BOOLEAN]
  /\ \A c \in Clients :
       /\ pending[c] = DOMAIN subscribed[c] /\ pending[c] \subseteq Symbols
       /\ Count(c) =< MaxSymbols
       /\ \A s \in DOMAIN subscribed[c] : subscribed[c][s] \in 0 .. MaxUpdates
  /\ call = << >> \/ call \in [symbol : Symbols, client : Clients,
                               stage : {"connecting", "waiting", "answered", "failed"}]

(* A symbol is with one client, which streams it as long as its socket is  *)
(* up, and whose book then lacks no update of the stream unless a message  *)
(* without a body emptied it.  A socket that is down has no symbols but    *)
(* those of calls that failed on it; so a call waits in vain only for one  *)
(* of these.                                                               *)
StreamsAreHeld ==
  /\ \A c, d \in ToSet(pool) : c # d => DOMAIN subscribed[c] \cap DOMAIN subscribed[d] = {}
  /\ \A c \in Clients :
       /\ up[c] => DOMAIN server[c] = DOMAIN subscribed[c] \ leftover[c] /\ leftover[c] = {}
       /\ ~up[c] => DOMAIN subscribed[c] = leftover[c]
       /\ \A s \in DOMAIN server[c] \ emptied[c] : subscribed[c][s] = server[c][s]
  /\ call # << >> /\ call.stage = "waiting" =>
       \/ up[call.client] /\ call.symbol \in DOMAIN server[call.client]
       \/ call.symbol \in leftover[call.client]
=============================================================================
