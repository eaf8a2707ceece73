----------------------------- MODULE ClientPool -----------------------------
(***************************************************************************)
(* The pool of websocket clients one exchange keeps for one market         *)
(* (exchange/gate/public/watch.rs and exchange/binance/public/watch.rs,    *)
(* which differ in names only), and the way a subscription takes from the  *)
(* client that was chosen to the server (the send path of                  *)
(* base/ws/client.rs).                                                     *)
(*                                                                         *)
(* A client is what SubClient shows of itself: watch() registers at once   *)
(* on a live connection and after the dial otherwise.  Whether a task that *)
(* a dial woke finds its connection gone registers or dials again depends  *)
(* on connecting_id, the subject of SubClient; here it may do either.  An  *)
(* action is what a task does between two suspension points: the awaits in *)
(* unwatch() never suspend.                                                *)
(***************************************************************************)
EXTENDS Naturals, FiniteSetsExt, SequencesExt

CONSTANTS
  Tasks,       \* the tasks that watch order books of the market
  Symbols,     \* the symbols of the market
  Limit,       \* subscriptions after which a client takes no new symbol: 35
  MaxClients,  \* bound on the clients created
  MaxWire,     \* bound on the commands waiting in all clients
  MaxOvertaken \* bound on the symbols overtaken at a time

VARIABLES
  pool,        \* the Vec of clients, numbered by creation
  made,        \* how many clients were created
  subscribed,  \* the keys of subscribed, of each client
  link,        \* its connection: down, dialing or up
  dialer,      \* the task that dials for it
  wire,        \* its commands on their way to the server, oldest first
  streams,     \* the symbols the server streams to it
  overtaken,   \* symbols with a command that left before an older one
  pc,          \* where each task is suspended
  sym,         \* the symbol it watches
  client       \* the client it does so on

clients == <<subscribed, link, dialer, wire, streams, overtaken>>
vars    == <<pool, made, subscribed, link, dialer, wire, streams, overtaken, pc, sym, client>>

Clients  == 1 .. MaxClients
Commands == [op : {"SUBSCRIBE", "UNSUBSCRIBE"}, of : Symbols]

\* connect: dials, or waits for the task that does.  woken: its dialer has
\* succeeded.  idle: not in watch_orderbook(), or waiting for the book, which
\* changes nothing here.
PCs == {"idle", "connect", "woken"}

Command(op, s) == [op |-> op, of |-> s]

\* How many commands wait to be sent.
Waits == MapThenSumSet(LAMBDA c : Len(wire[c]), Clients)

\* The tasks in W go to label.
Move(pcs, W, label) == [t \in Tasks |-> IF t \in W THEN label ELSE pcs[t]]

Waiting(c) == {t \in Tasks : pc[t] = "connect" /\ client[t] = c}

-----------------------------------------------------------------------------
(* Which client                                                            *)

\* The places in the pool of clients that have the symbol.
Having(s) == {i \in DOMAIN pool : s \in subscribed[pool[i]]}

\* Mutant: one subscription more.
RoomyInclusive == {i \in DOMAIN pool : Cardinality(subscribed[pool[i]]) =< Limit}

\* The places in the pool of clients with room for a symbol.
Roomy == {i \in DOMAIN pool : Cardinality(subscribed[pool[i]]) < Limit}

\* A client that has the symbol, else one with room.
Candidates(s) == IF Having(s) # {} THEN Having(s) ELSE Roomy

-----------------------------------------------------------------------------
(* SubClient::watch, seen from outside                                     *)

\* The task registers: a first watcher's SUBSCRIBE goes to the socket task
\* if there is one, and fails otherwise, with the registration in place.
\* Then it waits for the book.
Register(t, c, s, pcs) ==
  LET first == s \notin subscribed[c]
      sends == first /\ link'[c] = "up" IN
  /\ sends => Waits < MaxWire
  /\ subscribed' = [subscribed EXCEPT ![c] = @ \cup {s}]
  /\ wire' = [wire EXCEPT ![c] = IF sends THEN Append(@, Command("SUBSCRIBE", s)) ELSE @]
  /\ pc' = [pcs EXCEPT ![t] = "idle"]

\* watch() on client c: registers, dials, or waits for the dialer.
Join(t, c, s) ==
  \/ /\ link[c] = "up"
     /\ UNCHANGED <<link, dialer>>
     /\ Register(t, c, s, pc)
  \/ /\ link[c] = "down"
     /\ link' = [link EXCEPT ![c] = "dialing"]
     /\ dialer' = [dialer EXCEPT ![c] = {t}]
     /\ pc' = [pc EXCEPT ![t] = "connect"]
     /\ UNCHANGED <<subscribed, wire>>
  \/ /\ link[c] = "dialing"
     /\ pc' = [pc EXCEPT ![t] = "connect"]
     /\ UNCHANGED <<link, dialer, subscribed, wire>>

-----------------------------------------------------------------------------
(* watch_orderbook()                                                       *)

\* An existing client, or a new one that is pushed before it connects.
Choose(t, s, c) ==
  \/ /\ Candidates(s) # {} /\ c = pool[Min(Candidates(s))]
     /\ UNCHANGED <<pool, made>>
  \/ /\ Candidates(s) = {} /\ made < MaxClients
     /\ c = made + 1
     /\ made' = made + 1
     /\ pool' = Append(pool, made + 1)

Watch(t, s) ==
  /\ pc[t] = "idle"
  /\ \E c \in Clients : /\ Choose(t, s, c)
                        /\ client' = [client EXCEPT ![t] = c]
                        /\ Join(t, c, s)
  /\ sym' = [sym EXCEPT ![t] = s]
  /\ UNCHANGED <<streams, overtaken>>

\* The handshake ends: the dialer registers, whatever came of it; the others
\* are woken, or refused.
DialOk(c) ==
  /\ link[c] = "dialing"
  /\ link' = [link EXCEPT ![c] = "up"]
  /\ dialer' = [dialer EXCEPT ![c] = {}]
  /\ \E t \in dialer[c] : Register(t, c, sym[t], Move(pc, Waiting(c), "woken"))
  /\ UNCHANGED <<pool, made, streams, overtaken, sym, client>>

DialFail(c) ==
  /\ link[c] = "dialing"
  /\ link' = [link EXCEPT ![c] = "down"]
  /\ dialer' = [dialer EXCEPT ![c] = {}]
  /\ \E t \in dialer[c] : Register(t, c, sym[t], Move(pc, Waiting(c), "idle"))
  /\ UNCHANGED <<pool, made, streams, overtaken, sym, client>>

Resume(t) ==
  /\ pc[t] = "woken"
  /\ \/ Join(t, client[t], sym[t])
     \/ /\ link[client[t]] = "down"
        /\ UNCHANGED <<link, dialer>>
        /\ Register(t, client[t], sym[t], pc)
  /\ UNCHANGED <<pool, made, streams, overtaken, sym, client>>

-----------------------------------------------------------------------------
(* unwatch_orderbook()                                                     *)

\* Mutant: the registration goes, but no UNSUBSCRIBE is sent.
UnwatchSilently(s) ==
  /\ Having(s) # {}
  /\ LET i == Min(Having(s))
         c == pool[i] IN
     /\ subscribed' = [subscribed EXCEPT ![c] = @ \ {s}]
     /\ pool' = IF link[c] = "up" /\ subscribed[c] = {s} THEN RemoveAt(pool, i) ELSE pool
  /\ UNCHANGED <<made, link, dialer, wire, streams, overtaken, pc, sym, client>>

\* Mutant: an emptied client stays in the pool.
UnwatchKeepingClient(s) ==
  /\ Having(s) # {}
  /\ LET i == Min(Having(s))
         c == pool[i] IN
     /\ subscribed' = [subscribed EXCEPT ![c] = @ \ {s}]
     /\ IF link[c] = "up"
        THEN /\ Waits < MaxWire
             /\ wire' = [wire EXCEPT ![c] = Append(@, Command("UNSUBSCRIBE", s))]
        ELSE UNCHANGED wire
  /\ UNCHANGED <<pool, made, link, dialer, streams, overtaken, pc, sym, client>>

\* The first client that has the symbol forgets it.  When UNSUBSCRIBE could
\* be sent, a client left without symbols leaves the pool; when it could
\* not, the error returns before that.
Unwatch(s) ==
  /\ Having(s) # {}
  /\ LET i == Min(Having(s))
         c == pool[i] IN
     /\ subscribed' = [subscribed EXCEPT ![c] = @ \ {s}]
     /\ IF link[c] = "up"
        THEN /\ Waits < MaxWire
             /\ wire' = [wire EXCEPT ![c] = Append(@, Command("UNSUBSCRIBE", s))]
             /\ pool' = IF subscribed[c] = {s} THEN RemoveAt(pool, i) ELSE pool
        ELSE UNCHANGED <<wire, pool>>
  /\ UNCHANGED <<made, link, dialer, streams, overtaken, pc, sym, client>>

-----------------------------------------------------------------------------
(* The socket task                                                         *)

Overtakes(c, i) == \E j \in 1 .. (i - 1) : wire[c][j].of = wire[c][i].of

Overtakings == MapThenSumSet(LAMBDA c : Cardinality(overtaken[c]), Clients)

\* Each command is a future of its own that asks the shared limiter, sleeps
\* when refused and asks again: any of them may be granted the next token.
Transmit(c, i) ==
  LET cmd == wire[c][i] IN
  /\ link[c] = "up"
  /\ Overtakes(c, i) => Overtakings < MaxOvertaken
  /\ wire' = [wire EXCEPT ![c] = RemoveAt(@, i)]
  /\ streams' = [streams EXCEPT ![c] = IF cmd.op = "SUBSCRIBE" THEN @ \cup {cmd.of}
                                       ELSE @ \ {cmd.of}]
  /\ overtaken' = [overtaken EXCEPT ![c] =
                     IF Overtakes(c, i) THEN @ \cup {cmd.of} ELSE @]
  /\ UNCHANGED <<pool, made, subscribed, link, dialer, pc, sym, client>>

\* The socket closes, or its client was dropped with the last reference to
\* it and the command channel closes.  on_fail clears the registry; commands
\* in flight are gone with the task.
Fail(c) ==
  /\ link[c] = "up"
  /\ link' = [link EXCEPT ![c] = "down"]
  /\ subscribed' = [subscribed EXCEPT ![c] = {}]
  /\ wire' = [wire EXCEPT ![c] = << >>]
  /\ streams' = [streams EXCEPT ![c] = {}]
  /\ overtaken' = [overtaken EXCEPT ![c] = {}]
  /\ UNCHANGED <<pool, made, dialer, pc, sym, client>>

-----------------------------------------------------------------------------
Init ==
  /\ pool = << >>
  /\ made = 0
  /\ subscribed = [c \in Clients |-> {}]
  /\ link = [c \in Clients |-> "down"]
  /\ dialer = [c \in Clients |-> {}]
  /\ wire = [c \in Clients |-> << >>]
  /\ streams = [c \in Clients |-> {}]
  /\ overtaken = [c \in Clients |-> {}]
  /\ pc = [t \in Tasks |-> "idle"]
  /\ sym \in [Tasks -> Symbols]
  /\ client = [t \in Tasks |-> 0]

Next ==
  \/ \E t \in Tasks : Resume(t) \/ \E s \in Symbols : Watch(t, s)
  \/ \E s \in Symbols : Unwatch(s)
  \/ \E c \in Clients : DialOk(c) \/ DialFail(c) \/ Fail(c)
  \/ \E c \in Clients : \E i \in DOMAIN wire[c] : Transmit(c, i)

Spec == Init /\ [][Next]_vars

-----------------------------------------------------------------------------
(* Type invariant; the pool lists a client once.                           *)
TypeOK ==
  /\ made \in 0 .. MaxClients
  /\ pool \in Seq(1 .. made) /\ IsInjective(pool)
  /\ subscribed \in [Clients -> SUBSET Symbols]
  /\ link \in [Clients -> {"down", "dialing", "up"}]
  /\ dialer \in [Clients -> SUBSET Tasks]
  /\ wire \in [Clients -> Seq(Commands)]
  /\ streams \in [Clients -> SUBSET Symbols]
  /\ overtaken \in [Clients -> SUBSET Symbols]
  /\ pc \in [Tasks -> PCs]
  /\ sym \in [Tasks -> Symbols]
  /\ client \in [Tasks -> 0 .. MaxClients]

\* The task that registers symbol s at client c in this step had been
\* suspended by the dial of c since it chose the client.
ChosenBeforeDial(c, s) ==
  \E t \in Tasks : pc[t] \in {"connect", "woken"} /\ client[t] = c /\ sym[t] = s

(* A client takes a symbol beyond its limit, and a symbol comes to be with *)
(* two clients of the pool, only for a task that chose the client before   *)
(* the dial: while connections are up, however many tasks watch at once,   *)
(* the limit is kept, and no update is read, and counted against the       *)
(* limits, twice.                                                          *)
CrossingNeedsDial ==
  [][\A c \in Clients, s \in Symbols :
       /\ s \in subscribed'[c] \ subscribed[c]
       /\ \/ Cardinality(subscribed'[c]) > Limit
          \/ \E d \in Clients \ {c} : s \in subscribed[d] /\ Contains(pool, d)
       => ChosenBeforeDial(c, s)]_vars

(* No socket of the pool is kept open for nothing.                         *)
PooledSocketsAreUsed ==
  \A c \in Clients : Contains(pool, c) /\ link[c] = "up" => subscribed[c] # {}

(* Once its commands have left, the server streams nothing the client has  *)
(* forgotten, unless one of a symbol's commands overtook an older one: the *)
(* registry speaks for the server only as far as the sends stay in order.  *)
OrphansWereOvertaken ==
  \A c \in ToSet(pool) :
    {s \in streams[c] : ~\E i \in DOMAIN wire[c] : wire[c][i].of = s}
      \subseteq subscribed[c] \cup overtaken[c]
=============================================================================
