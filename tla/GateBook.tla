------------------------------ MODULE GateBook ------------------------------
(***************************************************************************)
(* How GateSubClient keeps the local order book of one symbol in step with *)
(* the exchange (exchange/gate/public/sub_client.rs: handle_message,       *)
(* process_gate_depth, on_fail; base/exchange/order.rs: apply_update), and *)
(* how a monitor task reads it.  Everything runs on one single-threaded    *)
(* executor: an action is what a task does between two suspension points.  *)
(*                                                                         *)
(* The exchange is external.  Its book after update i is hist[i]; an event *)
(* carries, for every level touched by updates first..last, the quantity   *)
(* after last (all levels when it is full).  Events may be lost, and up to *)
(* Overlap ids back repeated, overlapping or out of order.  A book has at  *)
(* most the 100 levels per side the REST snapshot returns.                 *)
(*                                                                         *)
(* Left out: backup and BREAKPOINT, which only feed a debugging dump.      *)
(***************************************************************************)
EXTENDS Integers, Sequences

CONSTANTS
  BidLevels,    \* bid prices
  AskLevels,    \* ask prices
  MaxQty,       \* largest quantity at a level; 0 is no level
  FirstId,      \* the exchange's first update id
  MaxId,        \* bound on the exchange's update ids
  Overlap,      \* how far back an event may start before the newest one
  MaxInit,      \* bound on the events buffered while synchronising
  MaxBooks,     \* bound on the OrderBook objects that watch() creates
  MaxRetries,   \* scans for an event that extends the snapshot: 5
  AllowUnwatch  \* whether somebody calls unwatch()

ASSUME BookAssumption ==
  /\ BidLevels \cap AskLevels = {}
  /\ MaxQty \in Nat \ {0}
  /\ FirstId \in Nat /\ FirstId > 1     \* 0 and 1 are states of update_id
  /\ MaxId \in Nat /\ MaxId >= FirstId
  /\ Overlap \in Nat
  /\ MaxInit \in Nat
  /\ MaxBooks \in Nat
  /\ MaxRetries \in Nat \ {0}
  /\ AllowUnwatch \in BOOLEAN

VARIABLES
  cur,        \* the exchange's newest update id
  hist,       \* its book after each update
  sent,       \* the last update id published on the socket
  current,    \* the book in subscribed, 0 when there is none
  gen,        \* how many books were created so far
  levels,     \* bids and asks of each book
  update_id,  \* 0: not synchronised, 1: synchronising, else the last update
  phase,      \* the handler that synchronises the book: none, fetch or scan
  want,       \* fetch: the snapshot must be at least this recent
  snap,       \* scan: the id of the snapshot it holds
  retries,    \* scan: how often it slept
  init,       \* events buffered while synchronising, shared by all books
  history,    \* history_bids, shared by all books
  todo,       \* buffered events the running handler has still to replay
  replaying,  \* the book they are for
  reader,     \* the monitor task: idle, await or handed
  handle,     \* the book it was handed
  aborted     \* no, or the panic that aborted the process: bid, price

exchange == <<cur, hist>>
handlers == <<phase, want, snap, retries>>
monitor  == <<reader, handle>>
vars     == <<cur, hist, sent, current, gen, levels, update_id, phase, want, snap, retries,
              init, history, todo, replaying, reader, handle, aborted>>

Books  == 1 .. MaxBooks
Ids    == FirstId .. MaxId
Levels == BidLevels \cup AskLevels
Qty    == 0 .. MaxQty
Empty  == [l \in Levels |-> 0]

Bids(book) == {l \in BidLevels : book[l] > 0}
Asks(book) == {l \in AskLevels : book[l] > 0}

\* The exchange always quotes both sides.
Quotes == {book \in [Levels -> Qty] : Bids(book) # {} /\ Asks(book) # {}}

Events == [first : Ids, last : Ids, full : BOOLEAN]

\* The process has not aborted and no task is in the middle of its replay.
Running == aborted = "no" /\ todo = << >>

-----------------------------------------------------------------------------
(* The exchange                                                            *)

\* The levels whose quantity changed during the updates of the event.
Touched(m) ==
  {l \in Levels : \E i, j \in (m.first - 1) .. m.last : hist[i][l] # hist[j][l]}

Change ==
  /\ Running
  /\ cur < MaxId
  /\ \E book \in Quotes : /\ book # hist[cur]
                          /\ hist' = [i \in FirstId .. (cur + 1) |->
                                        IF i =< cur THEN hist[i] ELSE book]
  /\ cur' = cur + 1
  /\ UNCHANGED <<sent, current, gen, levels, update_id, handlers, init, history, todo,
                 replaying, monitor, aborted>>

Publishable ==
  {m \in Events : /\ m.first > FirstId
                  /\ m.first > sent - Overlap
                  /\ m.first =< m.last
                  /\ m.last =< cur}

-----------------------------------------------------------------------------
(* OrderBook::apply_update and the history of bid prices                   *)

Apply(book, m) ==
  [l \in Levels |-> IF m.full \/ l \in Touched(m) THEN hist[m.last][l] ELSE book[l]]

\* An event lists the touched levels, a full one every level there is.
Listed(m) == IF m.full THEN Bids(hist[m.last]) ELSE Touched(m) \cap BidLevels

\* Mutant: a removed price stays removed when it is quoted again.
RecordRemovalsOnly(prices, m) == prices \ (Listed(m) \ Bids(hist[m.last]))

Record(prices, m) == (prices \ Listed(m)) \cup (Listed(m) \cap Bids(hist[m.last]))

\* Mutant: only events that start too late count as a gap.
ExtendsForward(m, id) == m.first =< id + 1

\* Mutant: only events that end too early count as a gap.
ExtendsAcross(m, id) == m.last >= id + 1

\* The event continues a book at update id.
Extends(m, id) == m.first =< id + 1 /\ m.last >= id + 1

\* broadcast_update: apply, record, check every bid against the history, and
\* hand the book to the pending watcher.
Broadcast(b, m) ==
  /\ levels' = [levels EXCEPT ![b] = Apply(levels[b], m)]
  /\ update_id' = [update_id EXCEPT ![b] = m.last]
  /\ history' = Record(history, m)
  /\ IF Bids(levels'[b]) \subseteq history'
     THEN /\ aborted' = aborted
          /\ reader' = IF reader = "await" THEN "handed" ELSE reader
          /\ handle' = IF reader = "await" THEN b ELSE handle
     ELSE /\ aborted' = "bid"
          /\ UNCHANGED monitor
  /\ UNCHANGED <<handlers, init>>

-----------------------------------------------------------------------------
(* handle_message, by the state of the current book                        *)

\* Mutant: the book is not marked as synchronising.
StartSyncUnmarked(b, m) ==
  /\ update_id[b] = 0 /\ ~m.full
  /\ phase' = [phase EXCEPT ![b] = "fetch"]
  /\ want' = [want EXCEPT ![b] = m.first]
  /\ UNCHANGED <<levels, update_id, snap, retries, init, history, monitor, aborted>>

\* The first event starts the synchronisation, and is itself not kept.
StartSync(b, m) ==
  /\ update_id[b] = 0 /\ ~m.full
  /\ update_id' = [update_id EXCEPT ![b] = 1]
  /\ phase' = [phase EXCEPT ![b] = "fetch"]
  /\ want' = [want EXCEPT ![b] = m.first]
  /\ UNCHANGED <<levels, snap, retries, init, history, monitor, aborted>>

Buffer(b, m) ==
  /\ update_id[b] = 1
  /\ Len(init) < MaxInit
  /\ init' = Append(init, m)
  /\ UNCHANGED <<levels, update_id, handlers, history, monitor, aborted>>

\* A full event on a book that is not synchronised, or the next event.
Live(b, m) ==
  /\ \/ update_id[b] = 0 /\ m.full
     \/ update_id[b] > 1 /\ Extends(m, update_id[b])
  /\ Broadcast(b, m)

\* A gap: the book is cleared and synchronised again by the next event.
Gap(b, m) ==
  /\ update_id[b] > 1 /\ ~Extends(m, update_id[b])
  /\ levels' = [levels EXCEPT ![b] = Empty]
  /\ update_id' = [update_id EXCEPT ![b] = 0]
  /\ UNCHANGED <<handlers, init, history, monitor, aborted>>

Receive(m) ==
  /\ Running
  /\ m \in Publishable
  /\ current # 0
  /\ sent' = IF m.last > sent THEN m.last ELSE sent
  /\ \/ StartSync(current, m)
     \/ Buffer(current, m)
     \/ Live(current, m)
     \/ Gap(current, m)
  /\ UNCHANGED <<exchange, current, gen, todo, replaying>>

-----------------------------------------------------------------------------
(* The rest of the handler that synchronises book b                        *)

\* The buffered events that contain the first update after snapshot n.
Matching(n) == {i \in DOMAIN init : init[i].first =< n + 1 /\ init[i].last > n}

\* One round of the loop over init, which takes all of it.  A match drops
\* what precedes it, installs the snapshot and leaves the rest to be replayed
\* before anything else happens; without one the handler sleeps.
ScanFor(b, n, tries) ==
  /\ init' = << >>
  /\ IF Matching(n) # {}
     THEN /\ \E i \in Matching(n) : /\ \A j \in Matching(n) : i =< j
                                   /\ todo' = SubSeq(init, i, Len(init))
          /\ replaying' = b
          /\ levels' = [levels EXCEPT ![b] = hist[n]]
          /\ update_id' = [update_id EXCEPT ![b] = n]
          /\ history' = history \cup Bids(hist[n])
          /\ phase' = [phase EXCEPT ![b] = "none"]
          /\ snap' = [snap EXCEPT ![b] = 0]
          /\ retries' = [retries EXCEPT ![b] = 0]
     ELSE /\ phase' = [phase EXCEPT ![b] = "scan"]
          /\ snap' = [snap EXCEPT ![b] = n]
          /\ retries' = [retries EXCEPT ![b] = tries]
          /\ UNCHANGED <<todo, replaying, levels, update_id, history>>

\* process_gate_depth returns a snapshot recent enough, of any age beyond that.
SnapshotOk(b) ==
  /\ Running
  /\ phase[b] = "fetch"
  /\ \E n \in want[b] .. cur : ScanFor(b, n, 1)
  /\ want' = [want EXCEPT ![b] = 0]
  /\ UNCHANGED <<exchange, sent, current, gen, monitor, aborted>>

\* The request failed, or five snapshots in a row were too old.
SnapshotErr(b) ==
  /\ Running
  /\ phase[b] = "fetch"
  /\ update_id' = [update_id EXCEPT ![b] = 0]
  /\ phase' = [phase EXCEPT ![b] = "none"]
  /\ want' = [want EXCEPT ![b] = 0]
  /\ UNCHANGED <<exchange, sent, current, gen, levels, snap, retries, init, history, todo,
                 replaying, monitor, aborted>>

\* Mutant: the scans are not counted.
RescanForEver(b) ==
  /\ Running
  /\ phase[b] = "scan"
  /\ ScanFor(b, snap[b], retries[b])
  /\ UNCHANGED <<exchange, sent, current, gen, want, monitor, aborted>>

\* The handler wakes from its 100 ms sleep.
Rescan(b) ==
  /\ Running
  /\ phase[b] = "scan" /\ retries[b] < MaxRetries
  /\ ScanFor(b, snap[b], retries[b] + 1)
  /\ UNCHANGED <<exchange, sent, current, gen, want, monitor, aborted>>

GiveUp(b) ==
  /\ Running
  /\ phase[b] = "scan" /\ retries[b] >= MaxRetries
  /\ update_id' = [update_id EXCEPT ![b] = 0]
  /\ phase' = [phase EXCEPT ![b] = "none"]
  /\ snap' = [snap EXCEPT ![b] = 0]
  /\ retries' = [retries EXCEPT ![b] = 0]
  /\ UNCHANGED <<exchange, sent, current, gen, levels, want, init, history, todo, replaying,
                 monitor, aborted>>

\* Mutant: buffered events are replayed whether or not they are contiguous.
ReplayUnchecked ==
  LET m == Head(todo) IN
  /\ aborted = "no" /\ todo # << >>
  /\ levels' = [levels EXCEPT ![replaying] = Apply(levels[replaying], m)]
  /\ update_id' = [update_id EXCEPT ![replaying] = m.last]
  /\ history' = Record(history, m)
  /\ todo' = Tail(todo)
  /\ UNCHANGED <<exchange, sent, current, gen, handlers, init, replaying, monitor, aborted>>

\* One event of the replay loop.  The loop does not suspend: no other action
\* is enabled until todo is empty.  A gap abandons the book as it is, and no
\* watcher is told.
Replay ==
  LET m == Head(todo) IN
  /\ aborted = "no" /\ todo # << >>
  /\ IF Extends(m, update_id[replaying])
     THEN /\ levels' = [levels EXCEPT ![replaying] = Apply(levels[replaying], m)]
          /\ update_id' = [update_id EXCEPT ![replaying] = m.last]
          /\ history' = Record(history, m)
          /\ todo' = Tail(todo)
     ELSE /\ update_id' = [update_id EXCEPT ![replaying] = 0]
          /\ todo' = << >>
          /\ UNCHANGED <<levels, history>>
  /\ UNCHANGED <<exchange, sent, current, gen, handlers, init, replaying, monitor, aborted>>

-----------------------------------------------------------------------------
(* The connection and the monitor                                          *)

\* watch(): the first one creates the book.
Watch ==
  /\ Running
  /\ reader = "idle"
  /\ reader' = "await"
  /\ \/ /\ current = 0 /\ gen < MaxBooks
        /\ gen' = gen + 1
        /\ current' = gen + 1
     \/ /\ current # 0
        /\ UNCHANGED <<gen, current>>
  /\ UNCHANGED <<exchange, sent, levels, update_id, handlers, init, history, todo, replaying,
                 handle, aborted>>

\* get_price on both sides of the book; its expect aborts on an empty side.
Read ==
  /\ Running
  /\ reader = "handed"
  /\ reader' = "idle"
  /\ handle' = 0
  /\ aborted' = IF Bids(levels[handle]) = {} \/ Asks(levels[handle]) = {}
                THEN "price" ELSE aborted
  /\ UNCHANGED <<exchange, sent, current, gen, levels, update_id, handlers, init, history,
                 todo, replaying>>

\* Mutant: the handlers in flight survive the connection.
FailKeepingHandlers ==
  /\ Running
  /\ current' = 0
  /\ init' = << >>
  /\ reader' = IF reader = "await" THEN "idle" ELSE reader
  /\ UNCHANGED <<exchange, sent, gen, levels, update_id, handlers, history, todo, replaying,
                 handle, aborted>>

\* The socket task ends: its handlers die with it, on_fail clears the
\* registry and init, and the pending watcher gets an error.
Fail ==
  /\ Running
  /\ current' = 0
  /\ init' = << >>
  /\ phase' = [b \in Books |-> "none"]
  /\ want' = [b \in Books |-> 0]
  /\ snap' = [b \in Books |-> 0]
  /\ retries' = [b \in Books |-> 0]
  /\ reader' = IF reader = "await" THEN "idle" ELSE reader
  /\ UNCHANGED <<exchange, sent, gen, levels, update_id, history, todo, replaying, handle,
                 aborted>>

\* unwatch() drops the book from subscribed, and nothing else.
Unwatch ==
  /\ Running
  /\ AllowUnwatch
  /\ current # 0
  /\ current' = 0
  /\ reader' = IF reader = "await" THEN "idle" ELSE reader
  /\ UNCHANGED <<exchange, sent, gen, levels, update_id, handlers, init, history, todo,
                 replaying, handle, aborted>>

-----------------------------------------------------------------------------
Init ==
  /\ cur = FirstId
  /\ hist \in [{FirstId} -> Quotes]
  /\ sent = FirstId
  /\ current = 0
  /\ gen = 0
  /\ levels = [b \in Books |-> Empty]
  /\ update_id = [b \in Books |-> 0]
  /\ phase = [b \in Books |-> "none"]
  /\ want = [b \in Books |-> 0]
  /\ snap = [b \in Books |-> 0]
  /\ retries = [b \in Books |-> 0]
  /\ init = << >>
  /\ history = {}
  /\ todo = << >>
  /\ replaying = 0
  /\ reader = "idle"
  /\ handle = 0
  /\ aborted = "no"

Handler(b) == SnapshotOk(b) \/ SnapshotErr(b) \/ Rescan(b) \/ GiveUp(b)

Next ==
  \/ Change
  \/ \E m \in Events : Receive(m)
  \/ \E b \in Books : Handler(b)
  \/ Replay
  \/ Watch \/ Read \/ Fail \/ Unwatch

Spec == Init /\ [][Next]_vars

\* HTTP requests end, timers fire, and the executor resumes the handler.
\* A handler is a future of the socket's task, in a branch of its select!, so
\* this assumes that frames do not keep the branches before it ready for ever.
Fairness == WF_vars(Replay) /\ \A b \in Books : WF_vars(Handler(b))

FairSpec == Spec /\ Fairness

-----------------------------------------------------------------------------
(* Type invariant.                                                         *)
TypeOK ==
  /\ cur \in Ids /\ sent \in Ids
  /\ hist \in [FirstId .. cur -> Quotes]
  /\ current \in 0 .. MaxBooks /\ gen \in 0 .. MaxBooks
  /\ levels \in [Books -> [Levels -> Qty]]
  /\ update_id \in [Books -> {0, 1} \cup Ids]
  /\ phase \in [Books -> {"none", "fetch", "scan"}]
  /\ want \in [Books -> {0} \cup Ids]
  /\ snap \in [Books -> {0} \cup Ids]
  /\ retries \in [Books -> Nat]
  /\ init \in Seq(Events) /\ todo \in Seq(Events)
  /\ history \subseteq BidLevels
  /\ replaying \in 0 .. MaxBooks
  /\ reader \in {"idle", "await", "handed"} /\ handle \in 0 .. MaxBooks
  /\ aborted \in {"no", "bid", "price"}

(* The core of the synchronisation: whenever a book claims to be at update *)
(* k, it holds exactly the exchange's book after update k - whatever was   *)
(* lost or repeated, through snapshots, replays, full events, failures and *)
(* unwatch.                                                                *)
LiveBookMatchesExchange ==
  \A b \in Books : update_id[b] > 1 => /\ update_id[b] =< cur
                                       /\ levels[b] = hist[update_id[b]]

(* A book is synchronised by at most one handler, the one that set its     *)
(* update_id to 1, and a registered book at 1 has one that will move it    *)
(* on: otherwise it would buffer events for ever.                          *)
OneHandlerPerBook ==
  \A b \in Books : /\ phase[b] # "none" => update_id[b] = 1
                   /\ b = current /\ update_id[b] = 1 => phase[b] # "none"

(* Handlers run only on a live connection or, after unwatch, on the book   *)
(* they were started for: after a failure none is left to touch the books  *)
(* of the next connection.                                                 *)
NoHandlerOutlivesConnection ==
  ~AllowUnwatch => \A b \in Books : phase[b] # "none" => b = current

(* What the rest of the program relies on, and Binance promises as well:   *)
(* the registered book is either not synchronised or a book the exchange   *)
(* had, and while it stays synchronised it never goes back - though events *)
(* repeat, overlap and arrive out of order.                                *)
LiveAt == IF current # 0 /\ update_id[current] > 1 THEN update_id[current] ELSE 0

Mirror == INSTANCE BookMirror WITH
  Nothing <- Empty,
  at      <- LiveAt,
  book    <- IF LiveAt = 0 THEN Empty ELSE levels[current]

Mirrored == Mirror!Spec

(* The panic in broadcast_update asserts that every bid of the book was    *)
(* recorded in history_bids.                                               *)
NoBidPanic == aborted # "bid"

(* get_price expects a price on each side of a book that was handed to the *)
(* monitor.                                                                *)
NoPricePanic == aborted # "price"

(* Every synchronisation ends, with a live book or with one that can start *)
(* again.                                                                  *)
SyncEnds == \A b \in Books : phase[b] # "none" ~> (phase[b] = "none" \/ aborted # "no")
=============================================================================
