----------------------------- MODULE BinanceBook ----------------------------
(***************************************************************************)
(* How BinanceSubClient keeps the local order book of one symbol in step   *)
(* with the exchange (exchange/binance/public/sub_client.rs), on the       *)
(* registry of SubClient.  Everything runs on one single-threaded          *)
(* executor: an action is what a task does between two suspension points.  *)
(*                                                                         *)
(* The exchange is external.  Its book after update i is hist[i].  Depth   *)
(* event m = [pu, first, last] carries, for every level touched by updates *)
(* first..last, the quantity after last; pu is where the event before it   *)
(* ended.  A spot event starts at pu + 1; on the futures market update ids *)
(* are shared by all symbols, so it may start later if nothing changed in  *)
(* between.  Events arrive in order and may be lost.                       *)
(***************************************************************************)
EXTENDS Integers, Sequences, FiniteSetsExt

CONSTANTS
  Levels,      \* prices, of either side
  MaxQty,      \* largest quantity at a level; 0 is no level
  FirstId,     \* the exchange's first update id, above 1: 0 and 1 are states of a book
  MaxId,       \* bound on the exchange's update ids
  MaxInit,     \* bound on the events buffered while synchronising
  MaxBooks,    \* bound on the OrderBook objects that watch() creates
  MaxRetries,  \* scans for an event that extends the snapshot: 5
  Markets      \* the markets the client may be for: Spot, Future

VARIABLES
  market,     \* the market of the client
  cur,        \* the exchange's newest update id
  hist,       \* its book after each update
  sent,       \* where the last event that arrived ended
  current,    \* the book in subscribed, 0 when there is none
  gen,        \* how many books were created so far
  levels,     \* asks and bids of each book
  update_id,  \* 0: not synchronised, 1: synchronising, else the last update
  torn,       \* the books that jumped over a lost event while replaying
  missed,     \* the books for which one was lost since their synchronisation began
  phase,      \* the handler that synchronises the book: none, fetch or scan
  want,       \* fetch: the snapshot must be at least this recent
  snap,       \* scan: the id of the snapshot it holds
  retries,    \* scan: how often it slept
  init,       \* init[symbol], shared by all books of the symbol
  reader,     \* the monitor task: idle, await or handed
  handle      \* the book it was handed

exchange == <<cur, hist>>
handlers == <<phase, want, snap, retries>>
monitor  == <<reader, handle>>
books    == <<levels, update_id, torn, missed>>
registry == <<current, gen>>
vars     == <<market, cur, hist, sent, current, gen, levels, update_id, torn, missed, phase, want,
              snap, retries, init, reader, handle>>

Books  == 1 .. MaxBooks
Ids    == FirstId .. MaxId
Quotes == [Levels -> 0 .. MaxQty]
Empty  == [l \in Levels |-> 0]

Events == [pu : Ids, first : Ids, last : Ids]

-----------------------------------------------------------------------------
(* The exchange                                                            *)

Change ==
  /\ cur < MaxId
  /\ \E q \in Quotes : hist' = [i \in FirstId .. (cur + 1) |-> IF i =< cur THEN hist[i] ELSE q]
  /\ cur' = cur + 1
  /\ UNCHANGED <<market, sent, registry, books, handlers, init, monitor>>

\* The next event, or a later one when those before it are lost.
Publishable ==
  LET ids == sent .. cur IN
  {m \in [pu : ids, first : ids, last : ids] :
     /\ m.pu < m.first /\ m.first =< m.last
     /\ IF market = "Spot" THEN m.first = m.pu + 1
        ELSE \A i \in m.pu .. (m.first - 1) : hist[i] = hist[m.pu]}

-----------------------------------------------------------------------------
(* OrderBook::apply_update                                                 *)

\* The levels whose quantity changed during the updates of the event.
Touched(m) == {l \in Levels : \E i, j \in m.pu .. m.last : hist[i][l] # hist[j][l]}

\* The events of s, applied one after the other.
Apply(book, s) ==
  [l \in Levels |->
    LET hits == {i \in DOMAIN s : l \in Touched(s[i])} IN
    IF hits = {} THEN book[l] ELSE hist[s[Max(hits)].last][l]]

\* A live event continues the book: by its range on spot, by pu on futures.
Extends(m, id) ==
  IF market = "Spot" THEN m.first =< id + 1 /\ m.last >= id + 1 ELSE m.pu = id

-----------------------------------------------------------------------------
(* handle_message, by the state of the current book                        *)

\* The first event starts the synchronisation, and is itself not kept.  What
\* an earlier attempt left in init stays there.
StartSync(b, m) ==
  /\ update_id[b] = 0
  /\ update_id' = [update_id EXCEPT ![b] = 1]
  /\ phase' = [phase EXCEPT ![b] = "fetch"]
  /\ want' = [want EXCEPT ![b] = m.first]
  /\ missed' = missed \ {b}
  /\ UNCHANGED <<levels, torn, snap, retries, init, monitor>>

Buffer(b, m) ==
  /\ update_id[b] = 1
  /\ Len(init) < MaxInit
  /\ init' = Append(init, m)
  /\ missed' = IF m.pu = sent THEN missed ELSE missed \cup {b}
  /\ UNCHANGED <<levels, update_id, torn, handlers, monitor>>

\* broadcast_update: apply, and hand the book to the pending watcher.
Live(b, m) ==
  /\ update_id[b] > 1 /\ Extends(m, update_id[b])
  /\ levels' = [levels EXCEPT ![b] = Apply(levels[b], <<m>>)]
  /\ update_id' = [update_id EXCEPT ![b] = m.last]
  /\ reader' = IF reader = "await" THEN "handed" ELSE reader
  /\ handle' = IF reader = "await" THEN b ELSE handle
  /\ UNCHANGED <<torn, missed, handlers, init>>

\* A gap: the book is cleared and synchronised again by the next event.
Gap(b, m) ==
  /\ update_id[b] > 1 /\ ~Extends(m, update_id[b])
  /\ levels' = [levels EXCEPT ![b] = Empty]
  /\ update_id' = [update_id EXCEPT ![b] = 0]
  /\ torn' = torn \ {b}
  /\ UNCHANGED <<missed, handlers, init, monitor>>

Receive(m) ==
  /\ current # 0
  /\ sent' = m.last
  /\ \/ StartSync(current, m)
     \/ Buffer(current, m)
     \/ Live(current, m)
     \/ Gap(current, m)
  /\ UNCHANGED <<market, exchange, registry>>

-----------------------------------------------------------------------------
(* The rest of the handler that synchronises book b                        *)

\* Mutant: the event may also start right after the update that follows n.
MatchingOneLate(n) == {i \in DOMAIN init : init[i].first =< n + 2 /\ init[i].last > n}

\* The buffered events that contain the first update after snapshot n.
Matching(n) == {i \in DOMAIN init : init[i].first =< n + 1 /\ init[i].last > n}

\* What is applied to snapshot n: the first match and all events after it.
Suffix(n) == SubSeq(init, Min(Matching(n)), Len(init))

\* An event of s does not continue the one before it: something was lost.
Broken(s) == \E i \in 2 .. Len(s) : s[i].pu # s[i - 1].last

\* One round of the loop over init, which takes all of it.  After a match the
\* snapshot and the events go into the book, without a check that they
\* follow each other and without telling the watchers; without one the
\* handler sleeps.
ScanFor(b, n, tries) ==
  /\ init' = << >>
  /\ IF Matching(n) # {}
     THEN /\ levels' = [levels EXCEPT ![b] = Apply(hist[n], Suffix(n))]
          /\ update_id' = [update_id EXCEPT ![b] = init[Len(init)].last]
          /\ torn' = IF Broken(Suffix(n)) THEN torn \cup {b} ELSE torn
          /\ phase' = [phase EXCEPT ![b] = "none"]
          /\ snap' = [snap EXCEPT ![b] = 0]
          /\ retries' = [retries EXCEPT ![b] = 0]
          /\ UNCHANGED missed
     ELSE /\ phase' = [phase EXCEPT ![b] = "scan"]
          /\ snap' = [snap EXCEPT ![b] = n]
          /\ retries' = [retries EXCEPT ![b] = tries]
          /\ UNCHANGED books

\* Mutant: a snapshot of any age will do.
SnapshotOkAnyAge(b) ==
  /\ phase[b] = "fetch"
  /\ \E n \in FirstId .. cur : ScanFor(b, n, 1)
  /\ want' = [want EXCEPT ![b] = 0]
  /\ UNCHANGED <<market, exchange, sent, registry, monitor>>

\* process_binance_depth asks, as the HTTP limiter permits, until a snapshot
\* is recent enough; it may be of any age beyond that.
SnapshotOk(b) ==
  /\ phase[b] = "fetch"
  /\ \E n \in want[b] .. cur : ScanFor(b, n, 1)
  /\ want' = [want EXCEPT ![b] = 0]
  /\ UNCHANGED <<market, exchange, sent, registry, monitor>>

\* A request failed.
SnapshotErr(b) ==
  /\ phase[b] = "fetch"
  /\ update_id' = [update_id EXCEPT ![b] = 0]
  /\ phase' = [phase EXCEPT ![b] = "none"]
  /\ want' = [want EXCEPT ![b] = 0]
  /\ UNCHANGED <<market, exchange, sent, registry, levels, torn, missed, snap, retries, init, monitor>>

\* The handler wakes from its 100 ms sleep.
Rescan(b) ==
  /\ phase[b] = "scan" /\ retries[b] < MaxRetries
  /\ ScanFor(b, snap[b], retries[b] + 1)
  /\ UNCHANGED <<market, exchange, sent, registry, want, monitor>>

\* Mutant: the handler leaves the book marked as synchronising.
GiveUpMarked(b) ==
  /\ phase[b] = "scan" /\ retries[b] >= MaxRetries
  /\ phase' = [phase EXCEPT ![b] = "none"]
  /\ snap' = [snap EXCEPT ![b] = 0]
  /\ retries' = [retries EXCEPT ![b] = 0]
  /\ UNCHANGED <<market, exchange, sent, registry, books, want, init, monitor>>

GiveUp(b) ==
  /\ phase[b] = "scan" /\ retries[b] >= MaxRetries
  /\ update_id' = [update_id EXCEPT ![b] = 0]
  /\ phase' = [phase EXCEPT ![b] = "none"]
  /\ snap' = [snap EXCEPT ![b] = 0]
  /\ retries' = [retries EXCEPT ![b] = 0]
  /\ UNCHANGED <<market, exchange, sent, registry, levels, torn, missed, want, init, monitor>>

-----------------------------------------------------------------------------
(* The connection and the monitor                                          *)

\* watch(): the first one creates the book.
Watch ==
  /\ reader = "idle"
  /\ reader' = "await"
  /\ \/ /\ current = 0 /\ gen < MaxBooks
        /\ gen' = gen + 1
        /\ current' = gen + 1
     \/ /\ current # 0
        /\ UNCHANGED registry
  /\ UNCHANGED <<market, exchange, sent, books, handlers, init, handle>>

\* The task reads the book it was handed, and drops it.
Read ==
  /\ reader = "handed"
  /\ reader' = "idle"
  /\ handle' = 0
  /\ UNCHANGED <<market, exchange, sent, registry, books, handlers, init>>

\* The socket task ends: its handlers die with it, on_fail clears the
\* registry and init, and the pending watcher gets an error.
Fail ==
  /\ current' = 0
  /\ init' = << >>
  /\ phase' = [b \in Books |-> "none"]
  /\ want' = [b \in Books |-> 0]
  /\ snap' = [b \in Books |-> 0]
  /\ retries' = [b \in Books |-> 0]
  /\ reader' = IF reader = "await" THEN "idle" ELSE reader
  /\ UNCHANGED <<market, exchange, sent, gen, books, handle>>

\* unwatch() drops the book from subscribed, and nothing else: the handler
\* that synchronises it goes on, and takes what the next book buffers.
Unwatch ==
  /\ current # 0
  /\ current' = 0
  /\ reader' = IF reader = "await" THEN "idle" ELSE reader
  /\ UNCHANGED <<market, exchange, sent, gen, books, handlers, init, handle>>

-----------------------------------------------------------------------------
Init ==
  /\ market \in Markets
  /\ cur = FirstId
  /\ hist \in [{FirstId} -> Quotes]
  /\ sent = FirstId
  /\ current = 0
  /\ gen = 0
  /\ levels = [b \in Books |-> Empty]
  /\ update_id = [b \in Books |-> 0]
  /\ torn = {}
  /\ missed = {}
  /\ phase = [b \in Books |-> "none"]
  /\ want = [b \in Books |-> 0]
  /\ snap = [b \in Books |-> 0]
  /\ retries = [b \in Books |-> 0]
  /\ init = << >>
  /\ reader = "idle"
  /\ handle = 0

Handler(b) == SnapshotOk(b) \/ SnapshotErr(b) \/ Rescan(b) \/ GiveUp(b)

Next ==
  \/ Change
  \/ \E m \in Publishable : Receive(m)
  \/ \E b \in Books : Handler(b)
  \/ Watch \/ Read \/ Fail \/ Unwatch

Spec == Init /\ [][Next]_vars

-----------------------------------------------------------------------------
(* Type invariant.                                                         *)
TypeOK ==
  /\ market \in Markets
  /\ cur \in Ids /\ sent \in Ids
  /\ hist \in [FirstId .. cur -> Quotes]
  /\ current \in 0 .. MaxBooks /\ gen \in 0 .. MaxBooks
  /\ levels \in [Books -> Quotes]
  /\ update_id \in [Books -> {0, 1} \cup Ids]
  /\ torn \subseteq Books /\ missed \subseteq Books
  /\ phase \in [Books -> {"none", "fetch", "scan"}]
  /\ want \in [Books -> {0} \cup Ids]
  /\ snap \in [Books -> {0} \cup Ids]
  /\ retries \in [Books -> 0 .. MaxRetries]
  /\ init \in Seq(Events)
  /\ reader \in {"idle", "await", "handed"} /\ handle \in 0 .. MaxBooks

(* A registered book that is being synchronised has a handler that will    *)
(* move it on: otherwise it would buffer events for ever, and its watchers *)
(* would wait for ever.                                                    *)
SynchronisingHasHandler ==
  current # 0 => (update_id[current] = 1 <=> phase[current] # "none")

(* A replay tears the registered book only when an event was lost among    *)
(* those buffered for it.  What earlier attempts and the handlers of other *)
(* books left in init, which does not connect to what follows it, is never *)
(* replayed, because the snapshot is newer.                                *)
OnlyLossTears == current # 0 /\ current \in torn => current \in missed

(* The registered book shows the exchange's book and never goes back,      *)
(* unless an event was lost between two that were buffered: then the       *)
(* replay does not notice, and neither does anything after it.             *)
LiveAt ==
  IF current # 0 /\ update_id[current] > 1 /\ current \notin torn THEN update_id[current] ELSE 0

Mirror == INSTANCE BookMirror WITH
  Nothing <- Empty,
  at      <- LiveAt,
  book    <- IF LiveAt = 0 THEN Empty ELSE levels[current]

Mirrored == Mirror!Spec
=============================================================================
